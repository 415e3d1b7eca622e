------------------------- MODULE PublishDelivery -------------------------
(***************************************************************************)
(* Delivery of events by `no-tickets publish` (single event and --file):   *)
(* the bounded retry loop of transport.rs and the error mapping of         *)
(* publish/post.rs, against a network that loses and delays and a server   *)
(* that deduplicates by key.  Every publisher is a process of its own; a   *)
(* caller may kill it, and may run it again when told to or when killed.   *)
(*                                                                         *)
(* The server is external: it is modelled from what the client relies on,  *)
(* "server-side idempotency" by dedupe key (transport.rs:18-21) and the    *)
(* status classes the client tells apart.                                  *)
(***************************************************************************)
EXTENDS Naturals, Sequences

CONSTANTS
  Publishers,    \* processes running `publish`
  Batches,       \* those of them running with --file
  Events,        \* the events to publish
  Carries,       \* Carries[p]: the events in p's request body
  Keys,          \* the dedupe keys
  NoKey,         \* an event without a dedupe key
  KeyOf,         \* KeyOf[e]: the event's dedupe key, or NoKey
  Statuses,      \* the HTTP statuses the server may answer with
  MaxAttempts,   \* RetryPolicy::max_attempts
  BaseDelay,     \* RetryPolicy::base_delay
  MaxDelay,      \* RetryPolicy::max_delay
  MultiplierCap, \* u32::MAX, where checked_pow saturates
  MaxRuns        \* bound: how often a caller invokes one publisher

ASSUME PublishersAssumption ==
  /\ Batches \subseteq Publishers
  /\ Carries \in [Publishers -> SUBSET Events]
  /\ KeyOf \in [Events -> Keys \cup {NoKey}]
  /\ NoKey \notin Keys
  /\ \A p \in Publishers : Carries[p] # {}
ASSUME PolicyAssumption ==
  /\ MaxAttempts \in Nat \ {0}
  /\ MaxRuns \in Nat \ {0}
  /\ BaseDelay \in Nat /\ MaxDelay \in Nat /\ MultiplierCap \in Nat \ {0}
ASSUME PowersAssumption ==
  \A n \in 0..MaxAttempts : 2^n \in Nat \ {0} /\ 2^(n + 1) = 2 * 2^n
ASSUME StatusAssumption == Statuses \subseteq 200..599

VARIABLES
  pc,       \* where each publisher is
  run,      \* which invocation it is in
  attempt,  \* `attempt` of the retry loop; 0 before the first
  slept,    \* the delays handed to the Sleeper, in order
  last,     \* the result of the latest post_json (last_transient, or final)
  exit,     \* the NtError the process ended with, or success
  wire,     \* requests the server may still act on
  reply,    \* reply[p]: the response on p's open connection
  stored,   \* copies the server holds
  posted    \* history: publishers that have called post_json

vars == <<pc, run, attempt, slept, last, exit, wire, reply, stored, posted>>
client == <<pc, run, attempt, slept, last, exit, posted>>

Bodies == {"json", "empty", "malformed", "cut"}
NoReply == [status |-> 0, body |-> "none"]
Replies == [status : Statuses, body : Bodies]

Attempts == [run : 1..MaxRuns, attempt : 1..MaxAttempts]
Requests == [from : Publishers, tag : Attempts]
Copies == [from : Publishers, event : Events, key : Keys \cup {NoKey}, tag : Attempts]

Tag(p, n) == [run |-> run[p], attempt |-> n]
Request(p, n) == [from |-> p, tag |-> Tag(p, n)]

-----------------------------------------------------------------------------
(* transport.rs: one attempt, its classification, the backoff              *)

(* Result<Value, TransportError>; a status matters to HttpStatus only.     *)
Result(kind, status) == [kind |-> kind, status |-> status]
NoResult == Result("none", 0)
Results == {NoResult, Result("Ok", 0), Result("Network", 0), Result("Config", 0)}
             \cup {Result("HttpStatus", s) : s \in Statuses}

IsSuccess(s) == s \in 200..299

(* Slip: a readable body is taken for success whatever the status.         *)
Interpret_AnyStatus(r) == IF r.body = "cut" THEN Result("Network", 0) ELSE Result("Ok", 0)

(* post_json: a body that cannot be read to its end is a Network error     *)
(* whatever the status said; an empty 2xx body is Value::Null.             *)
Interpret(r) ==
  CASE r.body = "cut"                                  -> Result("Network", 0)
    [] r.body # "cut" /\ ~IsSuccess(r.status)          -> Result("HttpStatus", r.status)
    [] r.body = "malformed" /\ IsSuccess(r.status)     -> Result("Config", 0)
    [] r.body \in {"json", "empty"} /\ IsSuccess(r.status) -> Result("Ok", 0)

(* Slip: rate limiting, and with it every 4xx, counted as transient.       *)
IsTransient_From400(res) == res.kind = "Network" \/ res.status >= 400

IsTransient(res) ==
  \/ res.kind = "Network"
  \/ res.kind = "HttpStatus" /\ res.status >= 500

(* Slip: the power wraps around instead of saturating.                     *)
Delay_Wrapping(m) ==
  LET delay == BaseDelay * (2^(m - 2) % (MultiplierCap + 1))
  IN IF delay > MaxDelay THEN MaxDelay ELSE delay

(* The sleep before attempt m >= 2: base * 2^(m-2), the power saturating   *)
(* at u32::MAX and the product capped.                                     *)
Delay(m) ==
  LET multiplier == IF 2^(m - 2) > MultiplierCap THEN MultiplierCap ELSE 2^(m - 2)
      delay      == BaseDelay * multiplier
  IN IF delay > MaxDelay THEN MaxDelay ELSE delay

-----------------------------------------------------------------------------
(* publish/post.rs and error.rs: what the caller is told                   *)

Exit(class, retriable) == [class |-> class, retriable |-> retriable]
Running == Exit("none", FALSE)
Success == Exit("ok", FALSE)

(* Slip: a lost connection reported like a refusal.                        *)
MapTransportError_NetworkFinal(res) ==
  CASE res.kind = "Config"     -> Exit("usage", FALSE)
    [] res.kind = "Network"    -> Exit("transport_error", FALSE)
    [] res.kind = "HttpStatus" -> Exit("transport_error", res.status >= 500 \/ res.status = 429)

MapTransportError(res) ==
  CASE res.kind = "Config"  -> Exit("usage", FALSE)
    [] res.kind = "Network" -> Exit("transport_error", TRUE)
    [] res.kind = "HttpStatus" ->
         CASE res.status = 401 -> Exit("token_rejected", FALSE)
           [] res.status = 429 -> Exit("transport_error", TRUE)
           [] res.status = 403 -> Exit("permission_denied", FALSE)
           [] OTHER            -> Exit("transport_error", res.status >= 500)

(* Slip: a publish whose connection broke is reported as done.             *)
Outcome_BestEffort(res) ==
  IF res.kind \in {"Ok", "Network"} THEN Success ELSE MapTransportError(res)

Outcome(res) == IF res.kind = "Ok" THEN Success ELSE MapTransportError(res)

(* Failures met before anything is sent.  Batch mode reports all but the   *)
(* token lookup as plain text with exit code 1.                            *)
PreflightClasses(p) ==
  {"usage", "project_not_registered"}
    \cup (IF p \in Batches THEN {"plain_text"} ELSE {})

Classes == {"none", "ok", "usage", "project_not_registered", "plain_text",
            "transport_error", "token_rejected", "permission_denied"}

(* NtError::exit_code, with success and the plain-text failures of batch.  *)
ExitCode(class) ==
  CASE class = "ok"                     -> 0
    [] class = "plain_text"             -> 1
    [] class = "permission_denied"      -> 3
    [] class = "transport_error"        -> 4
    [] class = "project_not_registered" -> 6
    [] class = "usage"                  -> 7
    [] class = "token_rejected"         -> 8

-----------------------------------------------------------------------------
Init ==
  /\ pc = [p \in Publishers |-> "idle"]
  /\ run = [p \in Publishers |-> 1]
  /\ attempt = [p \in Publishers |-> 0]
  /\ slept = [p \in Publishers |-> <<>>]
  /\ last = [p \in Publishers |-> NoResult]
  /\ exit = [p \in Publishers |-> Running]
  /\ wire = {}
  /\ reply = [p \in Publishers |-> NoReply]
  /\ stored = {}
  /\ posted = {}

(* Flags, URLs, token, --data or the batch's lines are refused: return     *)
(* before the HTTP client exists.                                          *)
PreflightFails(p) ==
  /\ pc[p] = "idle"
  /\ \E class \in PreflightClasses(p) :
       exit' = [exit EXCEPT ![p] = Exit(class, FALSE)]
  /\ pc' = [pc EXCEPT ![p] = "exited"]
  /\ UNCHANGED <<run, attempt, slept, last, wire, reply, stored, posted>>

PreflightPasses(p) ==
  /\ pc[p] = "idle"
  /\ pc' = [pc EXCEPT ![p] = "ready"]
  /\ UNCHANGED <<run, attempt, slept, last, exit, wire, reply, stored, posted>>

(* The body of the retry loop after post_json has returned res for         *)
(* attempt n: return, give up, or go round again.                          *)
Settle(p, n, res) ==
  /\ last' = [last EXCEPT ![p] = res]
  /\ IF IsTransient(res) /\ n < MaxAttempts
       THEN /\ pc' = [pc EXCEPT ![p] = "backoff"]
            /\ UNCHANGED exit
       ELSE /\ pc' = [pc EXCEPT ![p] = "exited"]
            /\ exit' = [exit EXCEPT ![p] = Outcome(res)]

Backoff(p) ==
  /\ pc[p] = "backoff"
  /\ slept' = [slept EXCEPT ![p] = Append(@, Delay(attempt[p] + 1))]
  /\ pc' = [pc EXCEPT ![p] = "ready"]
  /\ UNCHANGED <<run, attempt, last, exit, wire, reply, stored, posted>>

(* client.post_json(path, body.to_vec()): the request leaves the process.  *)
Post(p) ==
  /\ pc[p] = "ready"
  /\ attempt' = [attempt EXCEPT ![p] = @ + 1]
  /\ wire' = wire \cup {Request(p, attempt[p] + 1)}
  /\ pc' = [pc EXCEPT ![p] = "waiting"]
  /\ posted' = posted \cup {p}
  /\ UNCHANGED <<run, slept, last, exit, reply, stored>>

(* DNS, TCP or TLS fails: no request ever reaches the server.              *)
ConnectFails(p) ==
  /\ pc[p] = "ready"
  /\ attempt' = [attempt EXCEPT ![p] = @ + 1]
  /\ Settle(p, attempt[p] + 1, Result("Network", 0))
  /\ posted' = posted \cup {p}
  /\ UNCHANGED <<run, slept, wire, reply, stored>>

Receive(p) ==
  /\ pc[p] = "waiting"
  /\ reply[p] # NoReply
  /\ Settle(p, attempt[p], Interpret(reply[p]))
  /\ reply' = [reply EXCEPT ![p] = NoReply]
  /\ UNCHANGED <<run, attempt, slept, wire, stored, posted>>

(* Slip: a client built without a timeout.                                 *)
TimeOut_Missing(p) == FALSE /\ pc[p] = "waiting" /\ UNCHANGED vars

(* DEFAULT_TIMEOUT or a broken connection; the request itself may still be *)
(* on its way, and an answer that arrives later finds no reader.           *)
TimeOut(p) ==
  /\ pc[p] = "waiting"
  /\ Settle(p, attempt[p], Result("Network", 0))
  /\ reply' = [reply EXCEPT ![p] = NoReply]
  /\ UNCHANGED <<run, attempt, slept, wire, stored, posted>>

-----------------------------------------------------------------------------
(* The caller: Ctrl-C, and running the command again                       *)

Kill(p) ==
  /\ pc[p] \in {"idle", "ready", "waiting", "backoff"}
  /\ pc' = [pc EXCEPT ![p] = "killed"]
  /\ reply' = [reply EXCEPT ![p] = NoReply]
  /\ UNCHANGED <<run, attempt, slept, last, exit, wire, stored, posted>>

(* The error as it is written to stderr, as JSON or in words: of all the   *)
(* classes only a transport error says whether it may pass.                *)
SaysRetriable(e) == e.class = "transport_error" /\ e.retriable

(* A wrapper reads `retriable` off that line; batch mode writes plain text *)
(* instead, which leaves it the exit code, and 4 is any transport error.   *)
MayRetry(p) ==
  IF p \in Batches THEN ExitCode(exit[p].class) = 4 ELSE SaysRetriable(exit[p])

Rerun(p) ==
  /\ pc[p] = "killed" \/ (pc[p] = "exited" /\ MayRetry(p))
  /\ run[p] < MaxRuns
  /\ run' = [run EXCEPT ![p] = @ + 1]
  /\ pc' = [pc EXCEPT ![p] = "idle"]
  /\ attempt' = [attempt EXCEPT ![p] = 0]
  /\ slept' = [slept EXCEPT ![p] = <<>>]
  /\ last' = [last EXCEPT ![p] = NoResult]
  /\ exit' = [exit EXCEPT ![p] = Running]
  /\ UNCHANGED <<wire, reply, stored, posted>>

-----------------------------------------------------------------------------
(* The server and the network                                              *)

(* Slip: the key is consumed by the first attempt's body.                  *)
KeyOnWire_FirstOnly(q, e) == IF q.tag.attempt = 1 THEN KeyOf[e] ELSE NoKey

(* The dedupeKey a request carries for e: the body is serialised once per  *)
(* invocation and every attempt sends those bytes.                         *)
KeyOnWire(q, e) == KeyOf[e]

Duplicate(q, e) ==
  /\ KeyOnWire(q, e) # NoKey
  /\ \E c \in stored : c.key = KeyOnWire(q, e)

(* The sets of events of q the server may keep: no key twice.              *)
Keepable(q) ==
  {es \in SUBSET Carries[q.from] :
     \A e \in es : /\ ~Duplicate(q, e)
                   /\ \A f \in es : e # f => \/ KeyOnWire(q, e) = NoKey
                                             \/ KeyOnWire(q, e) # KeyOnWire(q, f)}

(* Every event of q is kept or already there under its key.                *)
Complete(q, es) ==
  \A e \in Carries[q.from] :
     \/ e \in es
     \/ Duplicate(q, e)
     \/ \E f \in es : KeyOnWire(q, e) # NoKey /\ KeyOnWire(q, f) = KeyOnWire(q, e)

(* A 2xx promises the whole body; a 5xx may come before, amid or after the *)
(* work; anything else means the request was turned away.                  *)
Effects(q, s) ==
  CASE IsSuccess(s)               -> {es \in Keepable(q) : Complete(q, es)}
    [] ~IsSuccess(s) /\ s >= 500  -> Keepable(q)
    [] ~IsSuccess(s) /\ s < 500   -> {{}}

CopiesOf(q, es) ==
  {[from |-> q.from, event |-> e, key |-> KeyOnWire(q, e), tag |-> q.tag] : e \in es}

Serve(q) ==
  /\ q \in wire
  /\ wire' = wire \ {q}
  /\ \E s \in Statuses, b \in Bodies :
       /\ \E es \in Effects(q, s) : stored' = stored \cup CopiesOf(q, es)
       /\ reply' = IF pc[q.from] = "waiting" /\ q = Request(q.from, attempt[q.from])
                     THEN [reply EXCEPT ![q.from] = [status |-> s, body |-> b]]
                     ELSE reply
  /\ UNCHANGED client

LoseRequest(q) ==
  /\ q \in wire
  /\ wire' = wire \ {q}
  /\ UNCHANGED <<pc, run, attempt, slept, last, exit, reply, stored, posted>>

-----------------------------------------------------------------------------
ClientStep(p) ==
  \/ PreflightFails(p) \/ PreflightPasses(p)
  \/ Backoff(p) \/ Post(p) \/ ConnectFails(p) \/ Receive(p) \/ TimeOut(p)

Next ==
  \/ \E p \in Publishers : ClientStep(p) \/ Kill(p) \/ Rerun(p)
  \/ \E q \in wire : Serve(q) \/ LoseRequest(q)

(* A process that has not been killed keeps running: its timer fires, its  *)
(* sleeps end.  Nothing is assumed of the server, the network, the caller. *)
Fairness == \A p \in Publishers : WF_vars(ClientStep(p))

Spec == Init /\ [][Next]_vars
FairSpec == Spec /\ Fairness

-----------------------------------------------------------------------------
TypeOK ==
  /\ pc \in [Publishers -> {"idle", "ready", "waiting", "backoff", "exited", "killed"}]
  /\ run \in [Publishers -> 1..MaxRuns]
  /\ attempt \in [Publishers -> 0..MaxAttempts]
  /\ slept \in [Publishers -> Seq(Nat)]
  /\ last \in [Publishers -> Results]
  /\ exit \in [Publishers -> [class : Classes, retriable : BOOLEAN]]
  /\ wire \subseteq Requests
  /\ reply \in [Publishers -> Replies \cup {NoReply}]
  /\ stored \subseteq Copies
  /\ posted \subseteq Publishers

(* e is in the store through this invocation of p, or through an event     *)
(* with its key.                                                           *)
Represented(p, e) ==
  \E c \in stored : \/ c.from = p /\ c.event = e /\ c.tag.run = run[p]
                    \/ KeyOf[e] # NoKey /\ c.key = KeyOf[e]

Delivered(p) == \A e \in Carries[p] : Represented(p, e)

(* p's latest attempt is off the wire and has left no copy.                *)
Spent(p) ==
  /\ Request(p, attempt[p]) \notin wire
  /\ \A c \in stored : ~(c.from = p /\ c.tag = Tag(p, attempt[p]))

(* Exit code 0 means every event of the request is in the store, whatever  *)
(* was lost, repeated or answered late on the way there.                   *)
SuccessMeansStored ==
  \A p \in Publishers : exit[p] = Success => Delivered(p)

(* The retry loop, late requests, kills and reruns together never make the *)
(* server keep two copies of events with one dedupe key.                   *)
KeyedAtMostOnce ==
  \A c, d \in stored :
     KeyOf[c.event] # NoKey /\ KeyOf[c.event] = KeyOf[d.event] => c = d

(* "Do not retry" (a failure that is not retriable, other than the client's *)
(* own Config error) is only said when the last attempt stored nothing and *)
(* cannot store anything later.                                            *)
RefusalLeavesNothing ==
  \A p \in Publishers :
     pc[p] = "exited" /\ exit[p].class \notin {"ok", "usage"} /\ ~exit[p].retriable
       => Spent(p)

(* One sleep between two attempts, none before the first or after the last; *)
(* the delays never shrink and never exceed the cap.                       *)
SleepsOnlyBetweenAttempts ==
  \A p \in Publishers :
     /\ pc[p] \in {"waiting", "exited"} /\ attempt[p] > 0 => Len(slept[p]) = attempt[p] - 1
     /\ \A i \in DOMAIN slept[p] :
          /\ slept[p][i] <= MaxDelay
          /\ i > 1 => slept[p][i - 1] <= slept[p][i]

(* Another request leaves a process only when the one before it failed in  *)
(* a way that may pass: a broken connection or a 5xx.                      *)
PostsOnlyAfterTransient ==
  [][\A p \in Publishers :
       attempt'[p] > 1 /\ attempt'[p] # attempt[p]
         => last[p].kind = "Network" \/ last[p].status \in 500..599]_vars

(* Every invocation that is not killed ends, though the server may never   *)
(* answer.                                                                 *)
EveryInvocationEnds ==
  \A p \in Publishers : pc[p] = "idle" ~> pc[p] \in {"exited", "killed"}

-----------------------------------------------------------------------------
(* The inductive invariant behind the safety properties                    *)

(* A tag on the wire or in the store was given out by its publisher.       *)
Issued(from, tag) ==
  /\ from \in posted
  /\ tag.run <= run[from]
  /\ tag.run = run[from] => tag.attempt <= attempt[from]

(* Nothing is both still on its way and already in the store.              *)
TrafficInv ==
  /\ \A q \in wire : /\ Issued(q.from, q.tag)
                     /\ \A c \in stored : c.from = q.from => c.tag # q.tag
  /\ \A c \in stored : /\ Issued(c.from, c.tag)
                       /\ c.event \in Carries[c.from]
                       /\ c.key = KeyOf[c.event]

(* What the answer on p's connection says about the store.                 *)
ReplyInv ==
  \A p \in Publishers : reply[p] # NoReply =>
    /\ pc[p] = "waiting"
    /\ Request(p, attempt[p]) \notin wire
    /\ IsSuccess(reply[p].status) => Delivered(p)
    /\ ~IsSuccess(reply[p].status) /\ reply[p].status < 500 => Spent(p)

(* Where the retry loop stands.                                            *)
BoundInv ==
  \A p \in Publishers :
    /\ pc[p] = "idle" => attempt[p] = 0
    /\ pc[p] \in {"waiting", "backoff"} => attempt[p] > 0
    /\ pc[p] \in {"ready", "backoff"} => attempt[p] < MaxAttempts

ProgressInv ==
  \A p \in Publishers :
    /\ pc[p] # "exited" => exit[p] = Running
    /\ pc[p] \in {"ready", "backoff"} /\ attempt[p] > 0 => IsTransient(last[p])
    /\ attempt[p] > 0 => p \in posted

(* The delays slept are those of attempts 2, 3, ... of this invocation.    *)
SleepInv ==
  \A p \in Publishers :
    /\ Len(slept[p]) < MaxAttempts
    /\ pc[p] \in {"idle", "ready"} => Len(slept[p]) = attempt[p]
    /\ pc[p] \in {"waiting", "backoff", "exited"} /\ attempt[p] > 0
         => Len(slept[p]) = attempt[p] - 1
    /\ \A i \in 1..Len(slept[p]) : slept[p][i] = Delay(i + 1)

IInv == /\ TypeOK /\ BoundInv /\ TrafficInv /\ KeyedAtMostOnce /\ ReplyInv /\ ProgressInv
        /\ SuccessMeansStored /\ RefusalLeavesNothing

-----------------------------------------------------------------------------
(* The contract this implements                                            *)

Verdict(p) ==
  CASE pc[p] \in {"idle", "ready", "waiting", "backoff"} -> "pending"
    [] pc[p] = "exited" /\ exit[p] = Success -> "delivered"
    [] pc[p] = "exited" /\ exit[p] # Success /\ p \notin posted -> "unsent"
    [] OTHER -> "failed"

Contract == INSTANCE DeliveryContract WITH
  Tags <- Attempts, sent <- posted, verdict <- [p \in Publishers |-> Verdict(p)]

(* The retry loop, the network and the server together keep the promises   *)
(* of DeliveryContract.                                                    *)
KeepsContract == Contract!Spec

-----------------------------------------------------------------------------
(* Statements of the repository the code does not live up to               *)

(* error.rs:76-78: Usage "covers everything that's the *caller's* fault    *)
(* rather than the server's or the schema's"; so it would never follow an  *)
(* answer the server gave.                                                 *)
UsageIsTheCallersFault ==
  \A p \in Publishers : exit[p].class = "usage" => last[p] = NoResult
=============================================================================
