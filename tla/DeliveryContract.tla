------------------------- MODULE DeliveryContract -------------------------
(***************************************************************************)
(* What `no-tickets publish` promises its caller about the events it was   *)
(* asked to publish, with no retry loop, no network and no server in       *)
(* sight.  A caller invokes a publisher; copies of its events may be       *)
(* stored at any moment from then on, even after the verdict, because a    *)
(* request can outlive the process that sent it; and a verdict is given    *)
(* at most once per invocation.                                            *)
(***************************************************************************)

CONSTANTS
  Publishers,   \* the invoking callers
  Events,       \* the events they carry
  Carries,      \* Carries[p]: the events of publisher p's request body
  Keys,         \* the dedupe keys
  NoKey,        \* "this event has no dedupe key"
  KeyOf,        \* KeyOf[e]: the dedupe key of event e, or NoKey
  Tags          \* identities that tell apart the copies of one event

VARIABLES
  stored,       \* the copies the server holds: [from, event, key, tag]
  sent,         \* the publishers that have tried to send a request
  verdict       \* verdict[p]: what the caller has been told

vars == <<stored, sent, verdict>>

Verdicts == {"pending", "delivered", "failed", "unsent"}

Copy == [from : Publishers, event : Events, key : Keys \cup {NoKey}, tag : Tags]

(* An event is in the store as itself, on behalf of p, or through an       *)
(* earlier event that had its dedupe key.                                  *)
Represented(p, e) ==
  \E c \in stored : \/ c.from = p /\ c.event = e
                    \/ KeyOf[e] # NoKey /\ c.key = KeyOf[e]

Init ==
  /\ stored = {}
  /\ sent = {}
  /\ verdict = [p \in Publishers |-> "pending"]

Send(p) ==
  /\ verdict[p] = "pending"
  /\ sent' = sent \cup {p}
  /\ UNCHANGED <<stored, verdict>>

(* The server keeps some of p's events; a key is only ever kept once.      *)
Store(p, es, t) ==
  /\ p \in sent
  /\ es \subseteq Carries[p]
  /\ \A e \in es : KeyOf[e] # NoKey =>
       /\ \A c \in stored : c.key # KeyOf[e]
       /\ \A f \in es : KeyOf[f] = KeyOf[e] => f = e
  /\ stored' = stored \cup
       {[from |-> p, event |-> e, key |-> KeyOf[e], tag |-> t] : e \in es}
  /\ UNCHANGED <<sent, verdict>>

(* "delivered" is only ever said of events that are in the store, and      *)
(* "unsent" only when nothing has left the process.                        *)
Tell(p, v) ==
  /\ verdict[p] = "pending"
  /\ v = "delivered" => \A e \in Carries[p] : Represented(p, e)
  /\ v = "unsent" => p \notin sent
  /\ verdict' = [verdict EXCEPT ![p] = v]
  /\ UNCHANGED <<stored, sent>>

(* The last attempt may be made and fail in one step: a refused connection. *)
SendAndFail(p) ==
  /\ verdict[p] = "pending"
  /\ sent' = sent \cup {p}
  /\ verdict' = [verdict EXCEPT ![p] = "failed"]
  /\ UNCHANGED stored

(* A caller that was not told "delivered" may ask again.                   *)
AskAgain(p) ==
  /\ verdict[p] = "failed"
  /\ verdict' = [verdict EXCEPT ![p] = "pending"]
  /\ UNCHANGED <<stored, sent>>

Next ==
  \E p \in Publishers :
    \/ Send(p)
    \/ \E es \in SUBSET Carries[p], t \in Tags : Store(p, es, t)
    \/ \E v \in Verdicts \ {"pending"} : Tell(p, v)
    \/ SendAndFail(p)
    \/ AskAgain(p)

Spec == Init /\ [][Next]_vars
============================================================================
