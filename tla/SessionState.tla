---------------------------- MODULE SessionState ----------------------------
(***************************************************************************)
(* Who a publish is attributed to, and whether the user is told that it is *)
(* to nobody.  `session start` and `session end` keep                      *)
(* active-session.json; a publish resolves its actor from it before its    *)
(* POST, and after the POST an unattributed one sets the hint marker in    *)
(* state.json, which `session end` clears.  Both files are shared by all   *)
(* processes of a user, without a lock.  A file is replaced as a whole by  *)
(* write_atomic; ConfigRegistry models what such a replacement consists of. *)
(***************************************************************************)
EXTENDS Naturals

CONSTANTS
  Starters,    \* processes running `session start`
  Enders,      \* `session end`
  Publishers,  \* `publish`
  ActorType,   \* ActorType[p]: --actor-type "agent" or "human", or "any"
  Flagged,     \* publishers given --agent-id
  Alt,         \* Alt[p]: p's alternate session file: "none", "fresh", "stale"
  Human,       \* publishers with valid credentials for their host
  MaxAge,      \* --max-age-hours
  MaxTime,     \* bound: the clock runs from 1 to MaxTime
  None,        \* no active-session.json
  Corrupt      \* one that does not parse

Procs == Starters \cup Enders \cup Publishers

ASSUME ProcessesAssumption ==
  /\ Starters \cap Enders = {} /\ Starters \cap Publishers = {} /\ Enders \cap Publishers = {}
  /\ Flagged \subseteq Publishers /\ Human \subseteq Publishers
  /\ ActorType \in [Publishers -> {"any", "agent", "human"}]
  /\ Alt \in [Publishers -> {"none", "fresh", "stale"}]
ASSUME FilesAssumption == None # Corrupt /\ {None, Corrupt} \cap Procs = {}
ASSUME TimeAssumption == MaxAge \in Nat /\ MaxTime \in Nat \ {0}

VARIABLES
  pc,          \* where each process is
  exit,        \* "ok" for exit code 0, "failed" for another
  session,     \* active-session.json: whose start wrote it
  startedAt,   \* startedAt[s]: the time starter s has put into the file
  state,       \* state.json: missing, broken, unmarked or marked
  source,      \* source[p]: the ResolutionSource of publisher p
  by,          \* by[p]: the starter of the session p is attributed to
  fired,       \* publishers whose hint fired
  now,         \* clock.now()
  resolvedAt,  \* history: when p resolved its actor
  marked,      \* history: publishers that have written the marker
  faulted,     \* history: processes an I/O error or a broken file was met by
  before       \* history: before[x]: the processes over when x began

vars == <<pc, exit, session, startedAt, state, source, by, fired, now, resolvedAt,
          marked, faulted, before>>
sessionVars == <<session, startedAt>>
publishVars == <<source, by, resolvedAt>>
hintVars == <<state, fired, marked>>

(* What active-session.json can hold: the AgentActor of a start; nothing,  *)
(* or what SessionError::Json is for.                                      *)
SessionFiles == Starters \cup {None, Corrupt}

Sources == {"none", "flags", "alt", "session", "credentials", "unattributed"}
Over == {"done", "killed"}

-----------------------------------------------------------------------------
Init ==
  /\ pc = [x \in Procs |-> "start"]
  /\ exit = [x \in Procs |-> "running"]
  /\ session \in {None, Corrupt}
  /\ startedAt = [s \in Starters |-> 0]
  /\ state \in {"missing", "broken", "unmarked", "marked"}
  /\ source = [p \in Publishers |-> "none"]
  /\ by = [p \in Publishers |-> None]
  /\ fired = {}
  /\ now = 1
  /\ resolvedAt = [p \in Publishers |-> 0]
  /\ marked = {}
  /\ faulted = {}
  /\ before = [x \in Procs |-> {}]

Begin(x, next) ==
  /\ pc[x] = "start"
  /\ pc' = [pc EXCEPT ![x] = next]
  /\ before' = [before EXCEPT ![x] = {y \in Procs : pc[y] \in Over}]

Step(x, from, to) ==
  /\ pc[x] = from
  /\ pc' = [pc EXCEPT ![x] = to]
  /\ UNCHANGED before

End(x, from, result) ==
  /\ Step(x, from, "done")
  /\ exit' = [exit EXCEPT ![x] = result]

-----------------------------------------------------------------------------
(* session start                                                           *)

StartStamps(s) ==
  /\ Begin(s, "write")
  /\ startedAt' = [startedAt EXCEPT ![s] = now]
  /\ UNCHANGED <<exit, session, publishVars, hintVars, now, faulted>>

StartWrites(s) ==
  /\ End(s, "write", "ok")
  /\ session' = s
  /\ UNCHANGED <<startedAt, publishVars, hintVars, now, faulted>>

StartFails(s) ==
  /\ End(s, "write", "failed")
  /\ faulted' = faulted \cup {s}
  /\ UNCHANGED <<sessionVars, publishVars, hintVars, now>>

-----------------------------------------------------------------------------
(* session end: delete, then clear_hint_marker                             *)

(* Slip: without a session there is nothing to end.                        *)
EndChecks_EarlyReturn(e) ==
  /\ Begin(e, IF session = None THEN "done" ELSE "remove")
  /\ exit' = IF session = None THEN [exit EXCEPT ![e] = "ok"] ELSE exit
  /\ UNCHANGED <<sessionVars, publishVars, hintVars, now, faulted>>

(* path.exists()                                                           *)
EndChecks(e) ==
  /\ Begin(e, IF session = None THEN "clear" ELSE "remove")
  /\ UNCHANGED <<exit, sessionVars, publishVars, hintVars, now, faulted>>

EndRemoves(e) ==
  /\ session # None
  /\ Step(e, "remove", "clear")
  /\ session' = None
  /\ UNCHANGED <<exit, startedAt, publishVars, hintVars, now, faulted>>

(* The file has gone since it was seen: remove_file reports NotFound.      *)
EndFindsNothing(e) ==
  /\ session = None
  /\ End(e, "remove", "failed")
  /\ UNCHANGED <<sessionVars, publishVars, hintVars, now, faulted>>

(* Slip: the error of the removal is dropped, as that of a tmp's is.       *)
EndRemoveFails_Ignored(e) ==
  /\ Step(e, "remove", "clear")
  /\ faulted' = faulted \cup {e}
  /\ UNCHANGED <<exit, sessionVars, publishVars, hintVars, now>>

EndRemoveFails(e) ==
  /\ End(e, "remove", "failed")
  /\ faulted' = faulted \cup {e}
  /\ UNCHANGED <<sessionVars, publishVars, hintVars, now>>

(* clear_hint_marker reads state.json; a missing one is left missing.      *)
ClearReads(e) ==
  /\ \/ state = "missing" /\ End(e, "clear", "ok") /\ UNCHANGED faulted
     \/ state = "broken" /\ End(e, "clear", "failed") /\ faulted' = faulted \cup {e}
     \/ /\ state \in {"unmarked", "marked"}
        /\ Step(e, "clear", "unmark")
        /\ UNCHANGED <<exit, faulted>>
  /\ UNCHANGED <<sessionVars, publishVars, hintVars, now>>

ClearWrites(e) ==
  /\ End(e, "unmark", "ok")
  /\ state' = "unmarked"
  /\ UNCHANGED <<sessionVars, publishVars, fired, marked, now, faulted>>

ClearWriteFails(e) ==
  /\ End(e, "unmark", "failed")
  /\ faulted' = faulted \cup {e}
  /\ UNCHANGED <<sessionVars, publishVars, hintVars, now>>

-----------------------------------------------------------------------------
(* publish: actor::resolve, the POST, fire_hint_if_needed                  *)

(* Slip: a session expires with its last hour, not after it.               *)
IsExpired_Inclusive(s) == now >= startedAt[s] + MaxAge

IsExpired(s) == now > startedAt[s] + MaxAge

AgentOk(p) == ActorType[p] # "human"
HumanOk(p) == ActorType[p] # "agent"

ByFlags(p) == AgentOk(p) /\ p \in Flagged
ByAlt(p) == AgentOk(p) /\ Alt[p] = "fresh"
BySession(p) == AgentOk(p) /\ session \in Starters /\ ~IsExpired(session)
ByHuman(p) == HumanOk(p) /\ p \in Human

(* The precedence chain.                                                   *)
Resolved(p) ==
  IF ByFlags(p) THEN "flags"
  ELSE IF ByAlt(p) THEN "alt"
  ELSE IF BySession(p) THEN "session"
  ELSE IF ByHuman(p) THEN "credentials"
  ELSE "unattributed"

Resolve(p) ==
  /\ Begin(p, "post")
  /\ source' = [source EXCEPT ![p] = Resolved(p)]
  /\ by' = [by EXCEPT ![p] = IF Resolved(p) = "session" THEN session ELSE None]
  /\ resolvedAt' = [resolvedAt EXCEPT ![p] = now]
  /\ UNCHANGED <<exit, sessionVars, hintVars, now, faulted>>

(* publish_event, which PublishDelivery models, succeeds or fails.         *)
PublishFails(p) ==
  /\ End(p, "post", "failed")
  /\ UNCHANGED <<sessionVars, publishVars, hintVars, now, faulted>>

PublishSucceeds(p) ==
  /\ IF source[p] = "unattributed"
       THEN Step(p, "post", "hint") /\ UNCHANGED exit
       ELSE End(p, "post", "ok")
  /\ UNCHANGED <<sessionVars, publishVars, hintVars, now, faulted>>

(* A state.json that cannot be read counts as one without the marker.  The *)
(* hint is printed here, unless --quiet.                                   *)
HintReads(p) ==
  /\ IF state = "marked"
       THEN End(p, "hint", "ok") /\ UNCHANGED fired
       ELSE /\ Step(p, "hint", "mark")
            /\ fired' = fired \cup {p}
            /\ UNCHANGED exit
  /\ UNCHANGED <<sessionVars, publishVars, state, marked, now, faulted>>

(* Slip: what was read is written back as it was.                          *)
HintMarks_AsRead(p) ==
  /\ End(p, "mark", "ok")
  /\ state' = "unmarked"
  /\ marked' = marked \cup {p}
  /\ UNCHANGED <<sessionVars, publishVars, fired, now, faulted>>

HintMarks(p) ==
  /\ End(p, "mark", "ok")
  /\ state' = "marked"
  /\ marked' = marked \cup {p}
  /\ UNCHANGED <<sessionVars, publishVars, fired, now, faulted>>

(* `let _ = state::write`: the publish has succeeded all the same.         *)
HintMarkFails(p) ==
  /\ End(p, "mark", "ok")
  /\ faulted' = faulted \cup {p}
  /\ UNCHANGED <<sessionVars, publishVars, hintVars, now>>

-----------------------------------------------------------------------------
Kill(x) ==
  /\ pc[x] \notin Over \cup {"start"}
  /\ pc' = [pc EXCEPT ![x] = "killed"]
  /\ UNCHANGED <<exit, sessionVars, publishVars, hintVars, now, faulted, before>>

Tick ==
  /\ now < MaxTime
  /\ now' = now + 1
  /\ UNCHANGED <<pc, exit, sessionVars, publishVars, hintVars, faulted, before>>

StarterStep(s) == StartStamps(s) \/ StartWrites(s) \/ StartFails(s)

EnderStep(e) ==
  \/ EndChecks(e) \/ EndRemoves(e) \/ EndFindsNothing(e) \/ EndRemoveFails(e)
  \/ ClearReads(e) \/ ClearWrites(e) \/ ClearWriteFails(e)

PublisherStep(p) ==
  \/ Resolve(p) \/ PublishFails(p) \/ PublishSucceeds(p)
  \/ HintReads(p) \/ HintMarks(p) \/ HintMarkFails(p)

Next ==
  \/ \E s \in Starters : StarterStep(s)
  \/ \E e \in Enders : EnderStep(e)
  \/ \E p \in Publishers : PublisherStep(p)
  \/ \E x \in Procs : Kill(x)
  \/ Tick

Spec == Init /\ [][Next]_vars

-----------------------------------------------------------------------------
TypeOK ==
  /\ pc \in [Procs -> {"start", "write", "remove", "clear", "unmark", "post", "hint",
                       "mark"} \cup Over]
  /\ exit \in [Procs -> {"running", "ok", "failed"}]
  /\ session \in SessionFiles
  /\ startedAt \in [Starters -> 0..MaxTime]
  /\ state \in {"missing", "broken", "unmarked", "marked"}
  /\ source \in [Publishers -> Sources]
  /\ by \in [Publishers -> Starters \cup {None}]
  /\ fired \subseteq Publishers
  /\ now \in 1..MaxTime
  /\ resolvedAt \in [Publishers -> 0..MaxTime]
  /\ marked \subseteq Publishers
  /\ faulted \subseteq Procs
  /\ before \in [Procs -> SUBSET Procs]

(* An event is never attributed to a session that was over, or replaced by *)
(* another, before the publish began: no command that succeeded after the  *)
(* session's start and before the publish is overlooked.                   *)
NoStaleSession ==
  \A p \in Publishers : \A x \in Starters \cup Enders :
     x \in before[p] /\ exit[x] = "ok" => by[p] \notin before[x]

(* An end that has run past its removal, and was not over when s began.    *)
EndedSince(s) == \E e \in Enders : e \notin before[s] /\ pc[e] \notin {"start", "remove"}

(* Nor is a session overlooked: a publish that began after a start had     *)
(* succeeded takes another or no actor only when told to, when a session   *)
(* end has run since the start began, or when a session is past its age.   *)
SessionSticks ==
  \A p \in Publishers, s \in Starters :
     /\ AgentOk(p) /\ source[p] \in {"credentials", "unattributed"}
     /\ s \in before[p] /\ exit[s] = "ok"
     => \/ EndedSince(s)
        \/ \E x \in Starters : exit[x] = "ok" /\ resolvedAt[p] > startedAt[x] + MaxAge

(* Once a publish has set the marker, the hint fires for a later publish   *)
(* only after a session end has cleared it again.                          *)
RepeatNeedsEnd ==
  \A p, q \in fired : p \in before[q] /\ p \in marked =>
    \E e \in Enders : exit[e] = "ok" /\ e \notin before[p]

(* A session end that succeeded brings the hint back: the next             *)
(* unattributed publish stays silent only when another one set the marker  *)
(* since.                                                                  *)
HintComesBack ==
  \A q \in Publishers \ fired, e \in Enders :
     /\ source[q] = "unattributed" /\ exit[q] = "ok"
     /\ e \in before[q] /\ exit[e] = "ok"
     => \E r \in marked : r \notin before[e]

-----------------------------------------------------------------------------
(* The inductive invariant behind the safety properties                    *)

(* before is the real-time order of the commands.                          *)
OrderInv ==
  \A x \in Procs : /\ \A y \in before[x] : pc[y] \in Over
                   /\ pc[x] = "start" => before[x] = {}
                   /\ exit[x] # "running" => pc[x] = "done"

(* The file holds a start that nobody who has succeeded came after.        *)
FileInv ==
  /\ session \in Starters =>
       /\ exit[session] = "ok"
       /\ \A s \in Starters : exit[s] = "ok" => session \notin before[s]
       /\ \A e \in Enders : pc[e] \in {"clear", "unmark"} \/ exit[e] = "ok"
            => session \notin before[e]
  /\ \A s \in Starters : exit[s] = "ok" =>
       session \in Starters \/ EndedSince(s)

MarkerInv ==
  /\ \A p \in marked : state = "marked" \/ \E e \in Enders : exit[e] = "ok" /\ e \notin before[p]
  /\ \A e \in Enders : exit[e] = "ok" => state # "marked" \/ \E r \in marked : r \notin before[e]

PublishInv ==
  \A p \in Publishers : /\ pc[p] = "start" => source[p] = "none" /\ by[p] = None
                        /\ pc[p] \in {"start", "post", "hint"} => p \notin fired
                        /\ pc[p] = "mark" => p \in fired
                        /\ p \in marked => pc[p] = "done"

IInv == /\ TypeOK /\ OrderInv /\ FileInv /\ MarkerInv /\ PublishInv
        /\ NoStaleSession /\ SessionSticks /\ RepeatNeedsEnd /\ HintComesBack

-----------------------------------------------------------------------------
(* Statements of the repository the code does not live up to               *)

(* commands/session.rs:12-14: session end is "idempotent - both operations *)
(* succeed when the target is already absent": it would fail only for an   *)
(* I/O error or a broken state.json.                                       *)
EndIsIdempotent == \A e \in Enders : exit[e] = "failed" => e \in faulted
=============================================================================
