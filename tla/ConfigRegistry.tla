-------------------------- MODULE ConfigRegistry --------------------------
(***************************************************************************)
(* The push-token registry config.json, shared without a lock by every     *)
(* `no-tickets` process of a user: `token add`, `token remove`, and the    *)
(* readers `token list`, `status` and `publish`.  A writer reads the whole *)
(* file, edits its copy and renames a temporary file of its own over it    *)
(* (config.rs); the file system may refuse any step and the user may kill  *)
(* the process at any of them.                                             *)
(***************************************************************************)
EXTENDS Naturals

CONSTANTS
  Adders,      \* processes running `token add`
  Forced,      \* those of them given --force
  Removers,    \* processes running `token remove`
  Readers,     \* processes that read the registry once
  Reads,       \* Reads[r]: "publish", "list" or "status"
  Tools,       \* adjacent tools that keep a top-level key of their own
  Projects,
  Target,      \* Target[p]: the project named on p's command line
  Registered,  \* the projects that are registered to begin with
  Old,         \* the token they are registered with
  None,        \* no entry
  NoFile       \* no temporary file

Writers == Adders \cup Removers

ASSUME ProcessesAssumption ==
  /\ Forced \subseteq Adders
  /\ Adders \cap Removers = {} /\ Readers \cap Writers = {}
  /\ \A p \in Writers \cup Readers : Target[p] \in Projects
  /\ \A r \in Readers : Reads[r] \in {"publish", "list", "status"}
  /\ Registered \subseteq Projects
ASSUME TokensAssumption == Old # None /\ Old \notin Adders /\ None \notin Adders

VARIABLES
  pc,       \* where each process is
  snap,     \* the Config each writer has read
  file,     \* config.json
  tmp,      \* tmp[p]: the temporary file of writer p
  exit,     \* exit codes, and what the readers were told
  faults,   \* file-system calls of p that failed after it created its tmp
  version,  \* history: how often config.json was replaced
  readAt,   \* history: the version p read
  wroteAt,  \* history: the version p's write became; 0 before
  saved     \* history: saved[t]: the version tool t's key arrived with; 0 before

vars == <<pc, snap, file, tmp, exit, faults, version, readAt, wroteAt, saved>>
history == <<version, readAt, wroteAt, saved>>

(* A token stands for the `token add` that brought it.  A file that is not *)
(* whole does not parse: an empty or half-written one, or a bad hand edit. *)
Tokens == Adders \cup {Old, None}
Content == [whole : BOOLEAN, projects : [Projects -> Tokens], extras : SUBSET Tools]

ASSUME NoFileAssumption == NoFile \notin Content

Registry(whole, projects, extras) ==
  [whole |-> whole, projects |-> projects, extras |-> extras]

Initially ==
  Registry(TRUE, [j \in Projects |-> IF j \in Registered THEN Old ELSE None], {})
Partial == Registry(FALSE, [j \in Projects |-> None], {})

-----------------------------------------------------------------------------
(* Slip: the struct has no flattened extras.                               *)
Edited_DropsExtras(p, cfg) ==
  Registry(cfg.whole,
           [cfg.projects EXCEPT ![Target[p]] = IF p \in Adders THEN p ELSE None], {})

(* projects.insert / projects.remove on the copy.                          *)
Edited(p, cfg) ==
  Registry(cfg.whole,
           [cfg.projects EXCEPT ![Target[p]] = IF p \in Adders THEN p ELSE None],
           cfg.extras)

(* Slip: --force is not asked for.                                         *)
Refused_AlwaysForced(p, cfg) == p \in Removers /\ cfg.projects[Target[p]] = None

(* An add of a project that has a token, without --force; a remove of a    *)
(* project that has none.                                                  *)
Refused(p, cfg) ==
  \/ p \in Adders \ Forced /\ cfg.projects[Target[p]] # None
  \/ p \in Removers /\ cfg.projects[Target[p]] = None

-----------------------------------------------------------------------------
Init ==
  /\ pc = [p \in Writers \cup Readers |-> "start"]
  /\ snap = [p \in Writers |-> Initially]
  /\ \E whole \in BOOLEAN : file = Registry(whole, Initially.projects, {})
  /\ tmp = [p \in Writers |-> NoFile]
  /\ exit = [p \in Writers \cup Readers |-> "running"]
  /\ faults = [p \in Writers |-> 0]
  /\ version = 1
  /\ readAt = [p \in Writers |-> 0]
  /\ wroteAt = [p \in Writers |-> 0]
  /\ saved = [t \in Tools |-> 0]

End(p, result) ==
  /\ pc' = [pc EXCEPT ![p] = "ended"]
  /\ exit' = [exit EXCEPT ![p] = result]

(* A bad token prefix, an empty project name, or a file that cannot be     *)
(* read at all.                                                            *)
FailsEarly(p) ==
  /\ pc[p] = "start"
  /\ End(p, "1")
  /\ UNCHANGED <<snap, file, tmp, faults, history>>

(* Slip: a file that does not parse is taken for an empty one.             *)
Read_DefaultOnError(p) ==
  LET cfg == IF file.whole THEN file ELSE Registry(TRUE, Partial.projects, {})
  IN /\ pc[p] = "start"
     /\ ~Refused(p, cfg)
     /\ pc' = [pc EXCEPT ![p] = "create"]
     /\ snap' = [snap EXCEPT ![p] = cfg]
     /\ readAt' = [readAt EXCEPT ![p] = version]
     /\ UNCHANGED <<file, tmp, exit, faults, version, wroteAt, saved>>

(* config::read, and the decision made on it.                              *)
Read(p) ==
  /\ pc[p] = "start"
  /\ file.whole /\ ~Refused(p, file)
  /\ pc' = [pc EXCEPT ![p] = "create"]
  /\ snap' = [snap EXCEPT ![p] = file]
  /\ readAt' = [readAt EXCEPT ![p] = version]
  /\ UNCHANGED <<file, tmp, exit, faults, version, wroteAt, saved>>

ReadRefuses(p) ==
  /\ pc[p] = "start"
  /\ ~file.whole \/ Refused(p, file)
  /\ End(p, "1")
  /\ UNCHANGED <<snap, file, tmp, faults, history>>

(* create_dir_all, and the tmp of its own opened with create_new.          *)
Create(p) ==
  /\ pc[p] = "create"
  /\ tmp' = [tmp EXCEPT ![p] = Partial]
  /\ pc' = [pc EXCEPT ![p] = "write"]
  /\ UNCHANGED <<snap, file, exit, faults, history>>

CreateFails(p) ==
  /\ pc[p] = "create"
  /\ End(p, "1")
  /\ UNCHANGED <<snap, file, tmp, faults, history>>

Write(p) ==
  /\ pc[p] = "write"
  /\ tmp' = [tmp EXCEPT ![p] = Edited(p, snap[p])]
  /\ pc' = [pc EXCEPT ![p] = "rename"]
  /\ UNCHANGED <<snap, file, exit, faults, history>>

(* Slip: the error of write_all is dropped, the rename goes ahead.         *)
WriteFails_Ignored(p) ==
  /\ pc[p] = "write"
  /\ pc' = [pc EXCEPT ![p] = "rename"]
  /\ faults' = [faults EXCEPT ![p] = @ + 1]
  /\ UNCHANGED <<snap, file, tmp, exit, history>>

WriteFails(p) ==
  /\ pc[p] = "write"
  /\ pc' = [pc EXCEPT ![p] = "scrub"]
  /\ faults' = [faults EXCEPT ![p] = @ + 1]
  /\ UNCHANGED <<snap, file, tmp, exit, history>>

Rename(p) ==
  /\ pc[p] = "rename"
  /\ file' = tmp[p]
  /\ tmp' = [tmp EXCEPT ![p] = NoFile]
  /\ End(p, "0")
  /\ version' = version + 1
  /\ wroteAt' = [wroteAt EXCEPT ![p] = version + 1]
  /\ UNCHANGED <<snap, faults, readAt, saved>>

(* Slip: only the error of the write cleans up after itself.               *)
RenameFails_NoScrub(p) ==
  /\ pc[p] = "rename"
  /\ End(p, "1")
  /\ faults' = [faults EXCEPT ![p] = @ + 1]
  /\ UNCHANGED <<snap, file, tmp, history>>

RenameFails(p) ==
  /\ pc[p] = "rename"
  /\ pc' = [pc EXCEPT ![p] = "scrub"]
  /\ faults' = [faults EXCEPT ![p] = @ + 1]
  /\ UNCHANGED <<snap, file, tmp, exit, history>>

(* remove_file(&tmp), whose own error is ignored.                          *)
Scrub(p) ==
  /\ pc[p] = "scrub"
  /\ End(p, "1")
  /\ \/ tmp' = [tmp EXCEPT ![p] = NoFile] /\ UNCHANGED faults
     \/ faults' = [faults EXCEPT ![p] = @ + 1] /\ UNCHANGED tmp
  /\ UNCHANGED <<snap, file, history>>

(* Ctrl-C: nothing is cleaned up.                                          *)
Kill(p) ==
  /\ pc[p] \in {"start", "create", "write", "rename", "scrub"}
  /\ pc' = [pc EXCEPT ![p] = "killed"]
  /\ UNCHANGED <<snap, file, tmp, exit, faults, history>>

-----------------------------------------------------------------------------
(* What a reader is told: publish looks one project up                     *)
(* (resolve_publish_token), list prints the registry, and status prints    *)
(* what it can.                                                            *)
Answer(r) ==
  CASE Reads[r] = "status"                     -> "listed"
    [] Reads[r] = "list" /\ file.whole         -> "listed"
    [] Reads[r] = "list" /\ ~file.whole        -> "error"
    [] Reads[r] = "publish" /\ ~file.whole     -> "usage"
    [] Reads[r] = "publish" /\ file.whole ->
         IF file.projects[Target[r]] = None THEN "project_not_registered" ELSE "token"

Consult(r) ==
  /\ pc[r] = "start"
  /\ End(r, Answer(r))
  /\ UNCHANGED <<snap, file, tmp, faults, history>>

(* An adjacent tool adds its top-level key, in one step: external.         *)
ToolSaves(t) ==
  /\ saved[t] = 0
  /\ file.whole
  /\ file' = Registry(TRUE, file.projects, file.extras \cup {t})
  /\ version' = version + 1
  /\ saved' = [saved EXCEPT ![t] = version + 1]
  /\ UNCHANGED <<pc, snap, tmp, exit, faults, readAt, wroteAt>>

WriterStep(p) ==
  \/ FailsEarly(p) \/ Read(p) \/ ReadRefuses(p)
  \/ Create(p) \/ CreateFails(p) \/ Write(p) \/ WriteFails(p)
  \/ Rename(p) \/ RenameFails(p) \/ Scrub(p) \/ Kill(p)

Next ==
  \/ \E p \in Writers : WriterStep(p)
  \/ \E r \in Readers : Consult(r)
  \/ \E t \in Tools : ToolSaves(t)

Spec == Init /\ [][Next]_vars

-----------------------------------------------------------------------------
TypeOK ==
  /\ pc \in [Writers \cup Readers ->
               {"start", "create", "write", "rename", "scrub", "ended", "killed"}]
  /\ snap \in [Writers -> Content]
  /\ file \in Content
  /\ tmp \in [Writers -> Content \cup {NoFile}]
  /\ exit \in [Writers \cup Readers ->
                 {"running", "0", "1", "listed", "error", "usage", "token",
                  "project_not_registered"}]
  /\ faults \in [Writers -> 0..2]
  /\ version \in Nat
  /\ readAt \in [Writers -> Nat]
  /\ wroteAt \in [Writers -> Nat]
  /\ saved \in [Tools -> Nat]

(* q's write came after version v and may undo what v had for project j:   *)
(* q was told to replace the entry, or it had read the file before v.      *)
Overrides(q, v, j, entry) ==
  /\ wroteAt[q] > v
  /\ \/ readAt[q] < v
     \/ Target[q] = j /\ (q \in Adders \ Forced => entry = None)

(* What a writer that exited 0 has put into the registry.                  *)
Entry(p) == IF p \in Adders THEN p ELSE None

(* An add or a remove that reported success is undone only by a command    *)
(* told to replace its entry or by one it overlapped with: commands that   *)
(* do not overlap never lose each other's work.                            *)
LossNeedsOverlap ==
  \A p \in Writers : wroteAt[p] > 0 =>
    \/ file.projects[Target[p]] = Entry(p)
    \/ \E q \in Writers : Overrides(q, wroteAt[p], Target[p], Entry(p))

(* A key of another tool goes missing only through a command that overlaps *)
(* with the tool's own write.                                              *)
ExtrasNeedOverlap ==
  \A t \in Tools : saved[t] > 0 =>
    \/ t \in file.extras
    \/ \E q \in Writers : wroteAt[q] > saved[t] /\ readAt[q] < saved[t]

(* While tokens are added, rotated and removed, with writes failing and    *)
(* processes dying, `publish` finds a registered project that nobody       *)
(* removes: it is never told the project is not registered.                *)
SteadyProjects ==
  \A r \in Readers :
     Target[r] \in Registered /\ (\A q \in Removers : Target[q] # Target[r])
       => exit[r] # "project_not_registered"

(* One failing file-system call never leaves a plaintext token behind in a *)
(* temporary file: it takes the failure of the clean-up as well.           *)
OneFaultLeavesNothing ==
  \A p \in Writers : pc[p] = "ended" /\ tmp[p] # NoFile => faults[p] = 2

(* A registry that does not parse is never replaced, and one that does is  *)
(* never replaced by one that does not.                                    *)
NeverHalfWritten == [][file'.whole = file.whole /\ (file.whole \/ file' = file)]_vars

-----------------------------------------------------------------------------
(* The inductive invariant behind the safety properties                    *)

Working == {"create", "write", "rename", "scrub"}

Undone(p) == \E q \in Writers : Overrides(q, wroteAt[p], Target[p], Entry(p))
Overlapped(t) == \E q \in Writers : wroteAt[q] > saved[t] /\ readAt[q] < saved[t]
Steady(j) == j \in Registered /\ \A q \in Removers : Target[q] # j

TimeInv ==
  /\ version > 0
  /\ \A p \in Writers : /\ readAt[p] <= version /\ wroteAt[p] <= version
                        /\ wroteAt[p] > 0 => pc[p] = "ended"
  /\ \A t \in Tools : saved[t] <= version

(* What a writer at work holds: a whole registry it may edit, as it was    *)
(* when p's write, or t's, had already been made and was not undone.       *)
SnapInv ==
  \A q \in Writers : pc[q] \in Working =>
    /\ snap[q].whole /\ ~Refused(q, snap[q])
    /\ \A p \in Writers : wroteAt[p] > 0 /\ wroteAt[p] <= readAt[q]
         => snap[q].projects[Target[p]] = Entry(p) \/ Undone(p)
    /\ \A t \in Tools : saved[t] > 0 /\ saved[t] <= readAt[q]
         => t \in snap[q].extras \/ Overlapped(t)

TmpInv ==
  \A q \in Writers :
    /\ pc[q] \in {"start", "create"} => tmp[q] = NoFile
    /\ pc[q] = "rename" => tmp[q] = Edited(q, snap[q])
    /\ pc[q] \in Working => file.whole
    /\ pc[q] \in {"start", "create", "write", "rename"} => faults[q] = 0
    /\ pc[q] = "scrub" => faults[q] = 1

SteadyInv ==
  \A j \in Projects : Steady(j) =>
    file.projects[j] # None /\ \A q \in Writers : snap[q].projects[j] # None

IInv == /\ TypeOK /\ TimeInv /\ SnapInv /\ TmpInv /\ SteadyInv
        /\ LossNeedsOverlap /\ ExtrasNeedOverlap /\ SteadyProjects /\ OneFaultLeavesNothing

-----------------------------------------------------------------------------
(* Statements of the repository the code does not live up to               *)

(* token_add.rs:4: "refuses to overwrite an existing entry unless --force  *)
(* is set": two adds of one project without --force, with no remove of it  *)
(* around, would never both report success.                                *)
OverwritesOnlyWithForce ==
  \A p, q \in Adders \ Forced :
     /\ p # q /\ Target[p] = Target[q]
     /\ \A r \in Removers : Target[r] # Target[p]
     => ~(exit[p] = "0" /\ exit[q] = "0")
===========================================================================
