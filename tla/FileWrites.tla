----------------------------- MODULE FileWrites -----------------------------
(***************************************************************************)
(* The three ways nt-cli writes a file, on a file system that loses power: *)
(*   - write_atomic (atomic_write.rs), for state.json and the session: a   *)
(*     temporary file, written, synced and renamed;                        *)
(*   - write_secret_atomic (config.rs, init.rs), for the push tokens and   *)
(*     the credentials: the same without the sync;                         *)
(*   - the machine salt (source_detect.rs): truncated and written in place *)
(*     by every run that finds no salt.                                    *)
(***************************************************************************)
EXTENDS Naturals, FiniteSets

CONSTANTS
  Synced,      \* processes that call write_atomic
  Secret,      \* others, that call write_secret_atomic
  Salters,     \* publishes with NO_TICKETS_INCLUDE_MACHINE=1
  MaxStarted,  \* bound: how many of them begin
  MaxOutages   \* bound: how often the power fails

Writers == Synced \cup Secret

Files == {"state", "config"}

FileOf(w) == IF w \in Synced THEN "state" ELSE "config"

(* What a file holds: the work of a writer, and whether it is all there.   *)
Content == [by : Writers \cup {"nobody"}, whole : BOOLEAN]

Old == [by |-> "nobody", whole |-> TRUE]

Torn == [by |-> "nobody", whole |-> FALSE]

Salts == [by : Salters \cup {"nobody"}, text : {"none", "part", "whole"}]

NoSalt == [by |-> "nobody", text |-> "none"]

VARIABLES
  pc,        \* of a writer: idle, created, written, synced, scrub; done, failed, killed
  tmp,       \* its temporary file: none, part or whole
  safe,      \* the writers whose data the disk holds
  disk,      \* what a reader of each file sees
  durable,   \* what the disk holds of each file
  pending,   \* the writers renamed into each file since
  step,      \* of a salter: idle, fresh, opened, written, salted; tagged, untagged, killed
  used,      \* the salt it hashes with
  salt,      \* what a reader of .machine-salt sees
  saltKept,  \* what the disk holds of it
  outages,   \* how often the power has failed
  faults,    \* history: the failing calls each writer met
  raced,     \* history: the salters that generated a salt while another did
  disturbed  \* history: a salt was unreadable, or was lost with the power

fileVars == <<pc, tmp, safe, disk, durable, pending, faults>>
saltVars == <<step, used, salt, saltKept, raced, disturbed>>
vars == <<fileVars, saltVars, outages>>

Init ==
  /\ pc = [w \in Writers |-> "idle"]
  /\ tmp = [w \in Writers |-> "none"]
  /\ safe = {}
  /\ disk = [f \in Files |-> Old]
  /\ durable = [f \in Files |-> Old]
  /\ pending = [f \in Files |-> {}]
  /\ step = [p \in Salters |-> "idle"]
  /\ used = [p \in Salters |-> NoSalt]
  /\ salt = NoSalt
  /\ saltKept = NoSalt
  /\ outages = 0
  /\ faults = [w \in Writers |-> 0]
  /\ raced = {}
  /\ disturbed = FALSE

MayStart ==
  Cardinality({w \in Writers : pc[w] # "idle"})
    + Cardinality({p \in Salters : step[p] # "idle"}) < MaxStarted

-----------------------------------------------------------------------------
(* A temporary file beside the file, renamed over it                       *)

Goes(w, from, to) == pc[w] = from /\ pc' = [pc EXCEPT ![w] = to]

Becomes(w, t) == tmp' = [tmp EXCEPT ![w] = t]

Fault(w) == faults' = [faults EXCEPT ![w] = @ + 1]

(* The parent directory and a temporary file of a name of its own: it      *)
(* holds the process id and the time.                                      *)
Create(w) ==
  /\ MayStart
  /\ Goes(w, "idle", "created")
  /\ Becomes(w, "part")
  /\ UNCHANGED <<safe, disk, durable, pending, faults, saltVars, outages>>

CreateFails(w) ==
  /\ MayStart
  /\ Goes(w, "idle", "failed")
  /\ Fault(w)
  /\ UNCHANGED <<tmp, safe, disk, durable, pending, saltVars, outages>>

Write(w) ==
  /\ Goes(w, "created", "written")
  /\ Becomes(w, "whole")
  /\ UNCHANGED <<safe, disk, durable, pending, faults, saltVars, outages>>

WriteFails(w) ==
  /\ Goes(w, "created", "scrub")
  /\ Fault(w)
  /\ UNCHANGED <<tmp, safe, disk, durable, pending, saltVars, outages>>

(* Slip: the body is flushed to the kernel, but not synced.                *)
Sync_FlushOnly(w) ==
  /\ w \in Synced
  /\ Goes(w, "written", "synced")
  /\ UNCHANGED <<tmp, safe, disk, durable, pending, faults, saltVars, outages>>

(* sync_all of write_atomic.                                               *)
Sync(w) ==
  /\ w \in Synced
  /\ Goes(w, "written", "synced")
  /\ safe' = safe \cup {w}
  /\ UNCHANGED <<tmp, disk, durable, pending, faults, saltVars, outages>>

SyncFails(w) ==
  /\ w \in Synced
  /\ Goes(w, "written", "scrub")
  /\ Fault(w)
  /\ UNCHANGED <<tmp, safe, disk, durable, pending, saltVars, outages>>

(* What is renamed: write_atomic's file once synced, the other once        *)
(* written.                                                                *)
Ready(w) == IF w \in Synced THEN "synced" ELSE "written"

Rename(w) ==
  /\ Goes(w, Ready(w), "done")
  /\ Becomes(w, "none")
  /\ disk' = [disk EXCEPT ![FileOf(w)] = [by |-> w, whole |-> tmp[w] = "whole"]]
  /\ pending' = [pending EXCEPT ![FileOf(w)] = @ \cup {w}]
  /\ UNCHANGED <<safe, durable, faults, saltVars, outages>>

(* Slip: the error is returned before the temporary file is removed.       *)
RenameFails_NoScrub(w) ==
  /\ Goes(w, Ready(w), "failed")
  /\ Fault(w)
  /\ UNCHANGED <<tmp, safe, disk, durable, pending, saltVars, outages>>

RenameFails(w) ==
  /\ Goes(w, Ready(w), "scrub")
  /\ Fault(w)
  /\ UNCHANGED <<tmp, safe, disk, durable, pending, saltVars, outages>>

Scrub(w) ==
  /\ Goes(w, "scrub", "failed")
  /\ Becomes(w, "none")
  /\ UNCHANGED <<safe, disk, durable, pending, faults, saltVars, outages>>

(* Slip: the removal is tried again and again.                             *)
ScrubFails_Retries(w) ==
  /\ pc[w] = "scrub"
  /\ Fault(w)
  /\ UNCHANGED <<pc, tmp, safe, disk, durable, pending, saltVars, outages>>

(* `let _ = fs::remove_file(&tmp)`: its error is nobody's.                 *)
ScrubFails(w) ==
  /\ Goes(w, "scrub", "failed")
  /\ Fault(w)
  /\ UNCHANGED <<tmp, safe, disk, durable, pending, saltVars, outages>>

-----------------------------------------------------------------------------
(* The machine salt                                                        *)

(* The runs that found no salt and are making one.                         *)
Generating == {p \in Salters : step[p] \in {"fresh", "opened", "written"}}

Moves(p, from, to) == step[p] = from /\ step' = [step EXCEPT ![p] = to]

Generates(p) ==
  /\ MayStart
  /\ Moves(p, "idle", "fresh")
  /\ raced' = IF Generating = {} THEN raced ELSE raced \cup Generating \cup {p}
  /\ UNCHANGED <<used, salt, saltKept, fileVars, outages>>

(* Slip: every run makes a salt of its own, whatever the file holds.       *)
ReadSalt_Always(p) ==
  /\ Generates(p)
  /\ UNCHANGED disturbed

(* read_or_create_salt takes any text for the salt, also a part of one.    *)
ReadSalt(p) ==
  IF salt.text = "none" THEN Generates(p) /\ UNCHANGED disturbed
  ELSE /\ MayStart
       /\ Moves(p, "idle", "salted")
       /\ used' = [used EXCEPT ![p] = salt]
       /\ UNCHANGED <<salt, saltKept, raced, disturbed, fileVars, outages>>

(* A salt that cannot be read is taken for none.                           *)
MisreadSalt(p) ==
  /\ salt.text # "none"
  /\ Generates(p)
  /\ disturbed' = TRUE

(* create_dir_all, then open with truncate(true).                          *)
OpenSalt(p) ==
  /\ Moves(p, "fresh", "opened")
  /\ salt' = NoSalt
  /\ UNCHANGED <<used, saltKept, raced, disturbed, fileVars, outages>>

OpenSaltFails(p) ==
  /\ Moves(p, "fresh", "untagged")
  /\ UNCHANGED <<used, salt, saltKept, raced, disturbed, fileVars, outages>>

WriteSalt(p) ==
  /\ Moves(p, "opened", "written")
  /\ salt' = [by |-> p, text |-> "whole"]
  /\ UNCHANGED <<used, saltKept, raced, disturbed, fileVars, outages>>

(* write_all fails, with nothing or a part of the salt in the file.        *)
WriteSaltFails(p) ==
  /\ Moves(p, "opened", "untagged")
  /\ salt' \in {salt, [by |-> p, text |-> "part"]}
  /\ UNCHANGED <<used, saltKept, raced, disturbed, fileVars, outages>>

(* set_permissions, the last call of read_or_create_salt that can fail.    *)
Restrict(p) ==
  /\ Moves(p, "written", "salted")
  /\ used' = [used EXCEPT ![p] = [by |-> p, text |-> "whole"]]
  /\ UNCHANGED <<salt, saltKept, raced, disturbed, fileVars, outages>>

RestrictFails(p) ==
  /\ Moves(p, "written", "untagged")
  /\ UNCHANGED <<used, salt, saltKept, raced, disturbed, fileVars, outages>>

(* compute_hash, unless the host has no name: the publish goes on.         *)
Hash(p) ==
  /\ Moves(p, "salted", "tagged")
  /\ UNCHANGED <<used, salt, saltKept, raced, disturbed, fileVars, outages>>

HostnameFails(p) ==
  /\ Moves(p, "salted", "untagged")
  /\ UNCHANGED <<used, salt, saltKept, raced, disturbed, fileVars, outages>>

KillSalter(p) ==
  /\ step[p] \in {"fresh", "opened", "written", "salted"}
  /\ step' = [step EXCEPT ![p] = "killed"]
  /\ UNCHANGED <<used, salt, saltKept, raced, disturbed, fileVars, outages>>

-----------------------------------------------------------------------------
(* The machine (external)                                                  *)

Running == {w \in Writers : pc[w] \in {"created", "written", "synced", "scrub"}}

KillWriter(w) ==
  /\ w \in Running
  /\ pc' = [pc EXCEPT ![w] = "killed"]
  /\ UNCHANGED <<tmp, safe, disk, durable, pending, faults, saltVars, outages>>

(* The kernel writes a file back.                                          *)
Flush(f) ==
  /\ durable' = [durable EXCEPT ![f] = disk[f]]
  /\ pending' = [pending EXCEPT ![f] = {}]
  /\ safe' = safe \cup pending[f]
  /\ UNCHANGED <<pc, tmp, disk, faults, saltVars, outages>>

FlushSalt ==
  /\ saltKept' = salt
  /\ UNCHANGED <<step, used, salt, raced, disturbed, fileVars, outages>>

(* What a file may hold after an outage: a rename survives or not, data    *)
(* that was not synced may be gone although its rename survives.           *)
Survives(f) ==
  {durable[f]} \cup {[by |-> w, whole |-> TRUE] : w \in pending[f]}
    \cup (IF pending[f] \subseteq safe THEN {} ELSE {Torn})

PowerFails ==
  /\ outages < MaxOutages
  /\ outages' = outages + 1
  /\ pc' = [w \in Writers |-> IF w \in Running THEN "killed" ELSE pc[w]]
  /\ \E s \in Survives("state"), c \in Survives("config") :
       disk' = [disk EXCEPT !["state"] = s, !["config"] = c]
  /\ durable' = disk'
  /\ pending' = [f \in Files |-> {}]
  /\ step' = [p \in Salters |-> IF step[p] \in {"fresh", "opened", "written", "salted"}
                                THEN "killed" ELSE step[p]]
  /\ salt' \in {salt, saltKept} \cup (IF salt = saltKept THEN {} ELSE {NoSalt})
  /\ saltKept' = salt'
  /\ disturbed' = (disturbed \/ salt' # salt)
  /\ UNCHANGED <<tmp, safe, faults, used, raced>>

WriterStep(w) ==
  \/ Create(w) \/ CreateFails(w) \/ Write(w) \/ WriteFails(w) \/ Sync(w) \/ SyncFails(w)
  \/ Rename(w) \/ RenameFails(w) \/ Scrub(w) \/ ScrubFails(w) \/ KillWriter(w)

SalterStep(p) ==
  \/ ReadSalt(p) \/ MisreadSalt(p) \/ OpenSalt(p) \/ OpenSaltFails(p) \/ WriteSalt(p)
  \/ WriteSaltFails(p) \/ Restrict(p) \/ RestrictFails(p) \/ Hash(p) \/ HostnameFails(p)
  \/ KillSalter(p)

Next ==
  \/ \E w \in Writers : WriterStep(w)
  \/ \E p \in Salters : SalterStep(p)
  \/ \E f \in Files : Flush(f)
  \/ FlushSalt
  \/ PowerFails

Spec == Init /\ [][Next]_vars

-----------------------------------------------------------------------------
FileTypes ==
  /\ pc \in [Writers -> {"idle", "created", "written", "synced", "scrub", "done", "failed",
                          "killed"}]
  /\ tmp \in [Writers -> {"none", "part", "whole"}]
  /\ safe \subseteq Writers
  /\ disk \in [Files -> Content] /\ durable \in [Files -> Content]
  /\ pending \in [Files -> SUBSET Writers]
  /\ faults \in [Writers -> 0..2]

SaltTypes ==
  /\ step \in [Salters -> {"idle", "fresh", "opened", "written", "salted", "tagged",
                            "untagged", "killed"}]
  /\ used \in [Salters -> Salts]
  /\ salt \in Salts /\ saltKept \in Salts
  /\ raced \subseteq Salters
  /\ disturbed \in BOOLEAN

TypeOK == FileTypes /\ SaltTypes /\ outages \in 0..MaxOutages

(* A reader never sees a part of state.json or of the session, even after  *)
(* a loss of power; the files written without a sync are torn by nothing   *)
(* less than that.                                                         *)
TornNeedsOutage ==
  \A f \in Files : ~disk[f].whole => f = "config" /\ outages > 0

(* A temporary file, which may hold a token, stays behind only if its      *)
(* writer was killed, or two of its calls failed.                          *)
LeftoversAreExcused ==
  \A w \in Writers :
    tmp[w] # "none" => w \in Running \/ pc[w] = "killed" \/ faults[w] = 2

(* Two publishes of one machine carry different hashes only if one of the  *)
(* salts was made while another run made one, or a salt could not be read  *)
(* or was lost with the power.                                             *)
SaltsAgree ==
  disturbed \/ \A p, q \in Salters :
    step[p] = "tagged" /\ step[q] = "tagged" =>
      used[p] = used[q] \/ {used[p].by, used[q].by} \cap raced # {}

-----------------------------------------------------------------------------
(* The inductive invariant behind the safety properties                    *)

(* What a step of a writer says of its temporary file, its faults and its  *)
(* data.                                                                   *)
TmpInv ==
  \A w \in Writers :
    /\ pc[w] \in {"idle", "done"} => tmp[w] = "none"
    /\ pc[w] \in {"idle", "created", "written", "synced"} => faults[w] = 0
    /\ pc[w] \in {"written", "synced"} => tmp[w] = "whole"
    /\ pc[w] = "scrub" => faults[w] = 1
    /\ pc[w] = "failed" => tmp[w] = "none" \/ faults[w] = 2
    /\ pc[w] = "synced" => w \in safe /\ w \in Synced

(* Only a file of write_secret_atomic can be torn, and only by an outage;  *)
(* what was renamed to the other is safe.                                  *)
DiskInv ==
  /\ TornNeedsOutage
  /\ \A f \in Files : ~durable[f].whole => f = "config" /\ outages > 0
  /\ pending["state"] \subseteq safe

(* A salt that somebody could use, and that was made by one run alone.     *)
Settled(s) == s.text # "none" /\ s.by \notin raced

(* Who makes a salt while nobody else does is alone with it until the salt *)
(* is there; then it stays.                                                *)
SaltInv ==
  /\ \A p \in Generating : p \notin raced => Generating = {p}
  /\ \A p \in Salters : step[p] \in {"salted", "tagged"} => used[p].text # "none"
  /\ ~disturbed =>
       /\ \A p \in Salters : Settled(used[p]) => salt = used[p]
       /\ Settled(salt) => \A p \in Generating : p = salt.by /\ step[p] = "written"
       /\ \A p \in Salters :
            step[p] = "written" /\ p \notin raced => salt = [by |-> p, text |-> "whole"]

FileInv == FileTypes /\ TmpInv /\ DiskInv

IInv == FileInv /\ SaltTypes /\ SaltInv /\ outages \in 0..MaxOutages

-----------------------------------------------------------------------------
(* Statements of the repository the code does not live up to               *)

(* read_or_create_salt, of two first runs at once: "the loser's salt was   *)
(* never observed", so that the hashes still agree.                        *)
LoserIsUnobserved ==
  disturbed \/ \A p, q \in Salters :
    step[p] = "tagged" /\ step[q] = "tagged" => used[p] = used[q]
=============================================================================
