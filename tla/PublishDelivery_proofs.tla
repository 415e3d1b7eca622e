---------------------- MODULE PublishDelivery_proofs ----------------------
(***************************************************************************)
(* Proofs about PublishDelivery, for any number of publishers, events,     *)
(* keys, attempts and reruns.                                              *)
(***************************************************************************)
EXTENDS PublishDelivery, TLAPS

USE DEF Exit, Result

-----------------------------------------------------------------------------
(* The operators the actions are built from                                *)

(* post_json yields one of the TransportError shapes, or Ok.               *)
LEMMA InterpretType ==
  ASSUME NEW r \in Replies
  PROVE  /\ Interpret(r) \in Results
         /\ Interpret(r) # NoResult
BY DEF Interpret, Results, Replies, Bodies, NoResult, IsSuccess

(* Every failure maps to an NtError class of the contract.                 *)
LEMMA OutcomeType ==
  ASSUME NEW res \in Results, res # NoResult
  PROVE  /\ Outcome(res) \in [class : Classes, retriable : BOOLEAN]
         /\ Outcome(res) # Running
BY StatusAssumption DEF Outcome, MapTransportError, Results, NoResult, Classes, Success, Running

(* No sleep exceeds the cap.                                               *)
LEMMA DelayBounded ==
  ASSUME NEW m \in 2..(MaxAttempts + 1)
  PROVE  Delay(m) \in Nat /\ Delay(m) <= MaxDelay
<1> DEFINE pow == 2^(m - 2)
<1>1. m - 2 \in 0..MaxAttempts
  BY PolicyAssumption
<1>2. pow \in Nat
  BY <1>1, PowersAssumption
<1> HIDE DEF pow
<1>3. (IF pow > MultiplierCap THEN MultiplierCap ELSE pow) \in Nat
  BY <1>2, PolicyAssumption
<1> DEFINE mult == IF pow > MultiplierCap THEN MultiplierCap ELSE pow
<1>4. mult \in Nat
  BY <1>3
<1> HIDE DEF mult
<1>5. BaseDelay * mult \in Nat
  BY <1>4, PolicyAssumption
<1>6. Delay(m) = IF BaseDelay * mult > MaxDelay THEN MaxDelay ELSE BaseDelay * mult
  BY DEF Delay, mult, pow
<1> DEFINE d == BaseDelay * mult
<1>7. d \in Nat
  BY <1>5
<1> HIDE DEF d
<1>8. Delay(m) = IF d > MaxDelay THEN MaxDelay ELSE d
  BY <1>6 DEF d
<1>9. QED
  BY <1>7, <1>8, PolicyAssumption

(* Whatever the server answers, what it keeps respects the keys.           *)
LEMMA EffectsKeepable ==
  ASSUME NEW q \in Requests, NEW s \in Statuses, NEW es \in Effects(q, s)
  PROVE  /\ es \in Keepable(q)
         /\ IsSuccess(s) => Complete(q, es)
         /\ ~IsSuccess(s) /\ s < 500 => es = {}
<1>1. CASE IsSuccess(s)
  <2>1. Effects(q, s) = {x \in Keepable(q) : Complete(q, x)}
    BY <1>1, Zenon DEF Effects
  <2> QED
    BY <1>1, <2>1
<1>2. CASE ~IsSuccess(s) /\ s >= 500
  <2>1. Effects(q, s) = Keepable(q)
    BY <1>2, StatusAssumption DEF Effects
  <2> QED
    BY <1>2, <2>1, StatusAssumption
<1>3. CASE ~IsSuccess(s) /\ s < 500
  <2>1. Effects(q, s) = {{}}
    BY <1>3, StatusAssumption DEF Effects
  <2> QED
    BY <1>3, <2>1 DEF Keepable
<1> QED
  BY <1>1, <1>2, <1>3, StatusAssumption

(* The tail of the retry loop keeps the types, whatever it is told.        *)
LEMMA SettleType ==
  ASSUME TypeOK, NEW p \in Publishers, NEW n \in 1..MaxAttempts,
         NEW res \in Results, res # NoResult, Settle(p, n, res)
  PROVE  /\ pc' \in [Publishers -> {"idle", "ready", "waiting", "backoff", "exited", "killed"}]
         /\ last' \in [Publishers -> Results]
         /\ exit' \in [Publishers -> [class : Classes, retriable : BOOLEAN]]
<1>1. Outcome(res) \in [class : Classes, retriable : BOOLEAN]
  BY OutcomeType
<1> QED
  BY <1>1, ZenonT(40) DEF TypeOK, Settle

-----------------------------------------------------------------------------
(* Every reachable state has the types of TypeOK; in particular no request *)
(* ever carries an attempt beyond max_attempts, because the retry loop is  *)
(* only ready or backing off below it.                                     *)

LEMMA TypeInit == Init => TypeOK /\ BoundInv
BY PolicyAssumption, PublishersAssumption
   DEF Init, TypeOK, BoundInv, Results, NoResult, Running, Classes, Replies

(* No step leaves the types, or carries an attempt past max_attempts. *)
LEMMA TypeNext == TypeOK /\ BoundInv /\ [Next]_vars => TypeOK' /\ BoundInv'
<1> SUFFICES ASSUME TypeOK, BoundInv, [Next]_vars
             PROVE  TypeOK' /\ BoundInv'
  OBVIOUS
<1> USE PolicyAssumption
<1>1. ASSUME NEW p \in Publishers, PreflightFails(p)
      PROVE  TypeOK' /\ BoundInv'
  BY <1>1 DEF PreflightFails, PreflightClasses, Classes, TypeOK, BoundInv
<1>2. ASSUME NEW p \in Publishers, PreflightPasses(p)
      PROVE  TypeOK' /\ BoundInv'
  BY <1>2 DEF PreflightPasses, TypeOK, BoundInv
<1>3. ASSUME NEW p \in Publishers, Backoff(p)
      PROVE  TypeOK' /\ BoundInv'
  <2>1. attempt[p] + 1 \in 2..(MaxAttempts + 1)
    BY <1>3 DEF Backoff, TypeOK, BoundInv
  <2>2. Delay(attempt[p] + 1) \in Nat
    BY <2>1, DelayBounded
  <2> QED
    BY <1>3, <2>2 DEF Backoff, TypeOK, BoundInv
<1>4. ASSUME NEW p \in Publishers, Post(p)
      PROVE  TypeOK' /\ BoundInv'
  <2>1. Request(p, attempt[p] + 1) \in Requests
    BY <1>4 DEF Post, Request, Tag, Requests, Attempts, TypeOK, BoundInv
  <2> QED
    BY <1>4, <2>1 DEF Post, TypeOK, BoundInv
<1>5. ASSUME NEW p \in Publishers, ConnectFails(p)
      PROVE  TypeOK' /\ BoundInv'
  <2>1. attempt[p] + 1 \in 1..MaxAttempts
    BY <1>5 DEF ConnectFails, TypeOK, BoundInv
  <2>2. Settle(p, attempt[p] + 1, Result("Network", 0))
    BY <1>5 DEF ConnectFails
  <2>3. Result("Network", 0) \in Results /\ Result("Network", 0) # NoResult
    BY DEF Results, NoResult
  <2>4. TypeOK'
    BY <1>5, <2>1, <2>2, <2>3, SettleType DEF ConnectFails, TypeOK
  <2>5. BoundInv'
    BY <1>5, <2>1, <2>2 DEF ConnectFails, Settle, TypeOK, BoundInv
  <2> QED
    BY <2>4, <2>5
<1>6. ASSUME NEW p \in Publishers, Receive(p)
      PROVE  TypeOK' /\ BoundInv'
  <2>1. attempt[p] \in 1..MaxAttempts
    BY <1>6 DEF Receive, TypeOK, BoundInv
  <2>2. Interpret(reply[p]) \in Results /\ Interpret(reply[p]) # NoResult
    BY <1>6, InterpretType DEF Receive, TypeOK
  <2>3. Settle(p, attempt[p], Interpret(reply[p]))
    BY <1>6 DEF Receive
  <2>4. TypeOK'
    BY <1>6, <2>1, <2>2, <2>3, SettleType DEF Receive, TypeOK
  <2>5. BoundInv'
    BY <1>6, <2>1, <2>3 DEF Receive, Settle, TypeOK, BoundInv
  <2> QED
    BY <2>4, <2>5
<1>7. ASSUME NEW p \in Publishers, TimeOut(p)
      PROVE  TypeOK' /\ BoundInv'
  <2>1. attempt[p] \in 1..MaxAttempts
    BY <1>7 DEF TimeOut, TypeOK, BoundInv
  <2>2. Result("Network", 0) \in Results /\ Result("Network", 0) # NoResult
    BY DEF Results, NoResult
  <2>3. Settle(p, attempt[p], Result("Network", 0))
    BY <1>7 DEF TimeOut
  <2>4. TypeOK'
    BY <1>7, <2>1, <2>2, <2>3, SettleType DEF TimeOut, TypeOK
  <2>5. BoundInv'
    BY <1>7, <2>1, <2>3 DEF TimeOut, Settle, TypeOK, BoundInv
  <2> QED
    BY <2>4, <2>5
<1>8. ASSUME NEW p \in Publishers, Kill(p)
      PROVE  TypeOK' /\ BoundInv'
  BY <1>8 DEF Kill, TypeOK, BoundInv
<1>9. ASSUME NEW p \in Publishers, Rerun(p)
      PROVE  TypeOK' /\ BoundInv'
  BY <1>9 DEF Rerun, TypeOK, BoundInv, Results, NoResult, Running, Classes
<1>10. ASSUME NEW q \in wire, Serve(q)
       PROVE  TypeOK' /\ BoundInv'
  <2>1. q \in Requests
    BY DEF TypeOK
  <2>2. PICK s \in Statuses, b \in Bodies :
          /\ \E es \in Effects(q, s) : stored' = stored \cup CopiesOf(q, es)
          /\ reply' = IF pc[q.from] = "waiting" /\ q = Request(q.from, attempt[q.from])
                        THEN [reply EXCEPT ![q.from] = [status |-> s, body |-> b]]
                        ELSE reply
    BY <1>10 DEF Serve
  <2>3. PICK es \in Effects(q, s) : stored' = stored \cup CopiesOf(q, es)
    BY <2>2
  <2>4. es \subseteq Events
    BY <2>1, EffectsKeepable, PublishersAssumption DEF Keepable, Requests
  <2>5. stored' \subseteq Copies
    BY <2>1, <2>3, <2>4, PublishersAssumption DEF TypeOK, Copies, CopiesOf, Requests, KeyOnWire
  <2>6. reply' \in [Publishers -> Replies \cup {NoReply}]
    BY <2>1, <2>2 DEF TypeOK, Replies, Requests
  <2> QED
    BY <1>10, <2>5, <2>6 DEF Serve, client, TypeOK, BoundInv
<1>11. ASSUME NEW q \in wire, LoseRequest(q)
       PROVE  TypeOK' /\ BoundInv'
  BY <1>11 DEF LoseRequest, TypeOK, BoundInv
<1>12. CASE UNCHANGED vars
  BY <1>12 DEF vars, TypeOK, BoundInv
<1> QED
  BY <1>1, <1>2, <1>3, <1>4, <1>5, <1>6, <1>7, <1>8, <1>9, <1>10, <1>11, <1>12
     DEF Next, ClientStep

(* The loop of post_json_with_retry, the wire and the store keep their
   types, for any number of publishers, keys and attempts. *)
THEOREM TypeCorrect == Spec => []TypeOK
<1>1. Init => TypeOK /\ BoundInv
  BY TypeInit
<1>2. TypeOK /\ BoundInv /\ [Next]_vars => (TypeOK /\ BoundInv)'
  BY TypeNext
<1> QED
  BY <1>1, <1>2, PTL DEF Spec

-----------------------------------------------------------------------------
(* The inductive invariant                                                 *)

(* The parts of IInv beside the types.                                     *)
Rest == /\ TrafficInv /\ KeyedAtMostOnce /\ ReplyInv /\ ProgressInv
        /\ SuccessMeansStored /\ RefusalLeavesNothing

(* What was delivered stays delivered while p's invocation lasts.          *)
LEMMA DeliveredStays ==
  ASSUME NEW p \in Publishers, stored \subseteq stored', run'[p] = run[p], Delivered(p)
  PROVE  Delivered(p)'
BY DEF Delivered, Represented

(* What is spent stays spent as long as p does not move and no copy with   *)
(* its tag is added.                                                       *)
LEMMA SpentStays ==
  ASSUME NEW p \in Publishers, Spent(p), run'[p] = run[p], attempt'[p] = attempt[p],
         Request(p, attempt[p]) \notin wire',
         \A c \in stored' \ stored : ~(c.from = p /\ c.tag = Tag(p, attempt[p]))
  PROVE  Spent(p)'
BY DEF Spent, Request, Tag

(* Nothing is on the wire and nothing is stored to begin with. *)
LEMMA RestInit == Init => Rest
BY PolicyAssumption
   DEF Init, Rest, TrafficInv, KeyedAtMostOnce, ReplyInv, ProgressInv, SuccessMeansStored,
       RefusalLeavesNothing, Success, Running

(* A step of publisher p that leaves wire and store alone, and has p end   *)
(* up with no reply pending, only has to answer for p itself.              *)
OnlyProcess(p) ==
  /\ UNCHANGED <<run, wire, stored>>
  /\ posted \subseteq posted'
  /\ \A r \in Publishers : attempt[r] <= attempt'[r]
  /\ \A r \in Publishers \ {p} :
       /\ pc'[r] = pc[r] /\ attempt'[r] = attempt[r] /\ exit'[r] = exit[r]
       /\ reply'[r] = reply[r] /\ last'[r] = last[r]
  /\ reply'[p] = NoReply

(* A step of one process that leaves the wire and the store alone preserves
   the invariant, given what it says of that process afterwards. *)
LEMMA OnlyProcessStep ==
  ASSUME IInv, TypeOK', NEW p \in Publishers, OnlyProcess(p),
         pc'[p] # "exited" => exit'[p] = Running,
         pc'[p] \in {"ready", "backoff"} /\ attempt'[p] > 0 => IsTransient(last'[p]),
         attempt'[p] > 0 => p \in posted',
         exit'[p] = Success => Delivered(p),
         pc'[p] = "exited" /\ exit'[p].class \notin {"ok", "usage"} /\ ~exit'[p].retriable
           => Spent(p)'
  PROVE  Rest'
<1> USE DEF IInv, TypeOK, OnlyProcess
<1>1. TrafficInv'
  <2>1. ASSUME NEW f \in Publishers, NEW t \in Attempts, Issued(f, t)
        PROVE  Issued(f, t)'
    BY <2>1 DEF Issued, Attempts
  <2> QED
    BY <2>1 DEF TrafficInv, Requests, Copies
<1>2. KeyedAtMostOnce'
  BY DEF KeyedAtMostOnce
<1>3. \A r \in Publishers : Delivered(r) => Delivered(r)'
  BY DeliveredStays
<1>4. \A r \in Publishers \ {p} : Spent(r) => Spent(r)'
  BY DEF Spent, Request, Tag
<1>5. ReplyInv'
  BY <1>3, <1>4 DEF ReplyInv, Request, Tag
<1>6. ProgressInv'
  BY DEF ProgressInv
<1>7. SuccessMeansStored'
  BY <1>3 DEF SuccessMeansStored
<1>8. RefusalLeavesNothing'
  BY <1>4 DEF RefusalLeavesNothing
<1> QED
  BY <1>1, <1>2, <1>5, <1>6, <1>7, <1>8 DEF Rest

(* A preflight, refused or passed, preserves the invariant. *)
LEMMA PreflightStep ==
  ASSUME IInv, TypeOK', NEW p \in Publishers, PreflightFails(p) \/ PreflightPasses(p)
  PROVE  Rest'
<1> USE DEF IInv, TypeOK, PreflightFails, PreflightPasses
<1>1. OnlyProcess(p)
  BY DEF OnlyProcess, ReplyInv
<1>2. attempt[p] = 0
  BY DEF BoundInv
<1>3. Spent(p)'
  <2>1. UNCHANGED <<attempt, run, wire, stored>>
    OBVIOUS
  <2>2. (\A q \in wire : q.tag.attempt > 0) /\ (\A c \in stored : c.tag.attempt > 0)
    BY DEF Requests, Copies, Attempts
  <2> QED
    BY <1>2, <2>1, <2>2 DEF Spent, Request, Tag
<1>4. exit'[p] # Success
  <2>1. CASE PreflightFails(p)
    <3>1. PICK class \in PreflightClasses(p) : exit' = [exit EXCEPT ![p] = Exit(class, FALSE)]
      BY <2>1
    <3>2. class # "ok"
      BY DEF PreflightClasses
    <3> QED
      BY <3>1, <3>2 DEF Success
  <2>2. CASE PreflightPasses(p)
    <3>1. exit'[p] = Running
      BY <2>2 DEF ProgressInv
    <3> QED
      BY <3>1 DEF Success, Running
  <2> QED
    BY <2>1, <2>2
<1>5. pc'[p] # "exited" => exit'[p] = Running
  <2>1. CASE PreflightFails(p)
    BY <2>1
  <2>2. CASE PreflightPasses(p)
    BY <2>2 DEF ProgressInv
  <2> QED
    BY <2>1, <2>2
<1>6. ~(attempt'[p] > 0)
  BY <1>2
<1> HIDE DEF PreflightFails, PreflightPasses, IInv, TypeOK
<1> QED
  BY <1>1, <1>3, <1>4, <1>5, <1>6, OnlyProcessStep

(* The sleep between two attempts preserves the invariant. *)
LEMMA BackoffStep ==
  ASSUME IInv, TypeOK', NEW p \in Publishers, Backoff(p)
  PROVE  Rest'
<1> USE DEF IInv, TypeOK, Backoff
<1>1. OnlyProcess(p)
  BY DEF OnlyProcess, ReplyInv
<1>2. exit'[p] = Running /\ Running # Success
  BY DEF ProgressInv, Running, Success
<1>3. pc'[p] = "ready" /\ IsTransient(last'[p]) /\ p \in posted
  BY DEF ProgressInv, BoundInv
<1> QED
  BY <1>1, <1>2, <1>3, OnlyProcessStep

(* A killed process leaves its requests on the wire, and preserves the
   invariant. *)
LEMMA KillStep ==
  ASSUME IInv, TypeOK', NEW p \in Publishers, Kill(p)
  PROVE  Rest'
<1> USE DEF IInv, TypeOK, Kill
<1>1. OnlyProcess(p)
  BY DEF OnlyProcess
<1>2. exit'[p] = Running /\ Running # Success
  BY DEF ProgressInv, Running, Success
<1>3. pc'[p] = "killed" /\ (attempt'[p] > 0 => p \in posted)
  BY DEF ProgressInv
<1> QED
  BY <1>1, <1>2, <1>3, OnlyProcessStep

(* Success is said of Ok alone; a transient failure is told to the caller  *)
(* as retriable; and only a 4xx as something not to be tried again.        *)
LEMMA FinalOutcome ==
  ASSUME NEW res \in Results, res # NoResult
  PROVE  /\ Outcome(res) = Success => res.kind = "Ok"
         /\ IsTransient(res) => Outcome(res).retriable = TRUE /\ Outcome(res) # Success
         /\ Outcome(res).class \notin {"ok", "usage"} /\ ~Outcome(res).retriable
              => res.kind = "HttpStatus" /\ res.status < 500
<1> USE DEF Success, NoResult, Outcome, IsTransient
<1>1. CASE res.kind = "Ok"
  BY <1>1
<1>2. CASE res.kind = "Network"
  <2>1. Outcome(res) = Exit("transport_error", TRUE)
    BY <1>2 DEF MapTransportError
  <2> QED
    BY <1>2, <2>1
<1>3. CASE res.kind = "Config"
  <2>1. Outcome(res) = Exit("usage", FALSE)
    BY <1>3 DEF MapTransportError
  <2> QED
    BY <1>3, <2>1
<1>4. CASE res.kind = "HttpStatus" /\ res.status < 500
  <2>1. Outcome(res).class # "ok"
    BY <1>4, StatusAssumption DEF MapTransportError, Results
  <2>2. ~(res.status >= 500)
    BY <1>4, StatusAssumption DEF Results
  <2> QED
    BY <1>4, <2>1, <2>2
<1>5. CASE res.kind = "HttpStatus" /\ res.status >= 500
  <2>1. Outcome(res) = Exit("transport_error", res.status >= 500)
    BY <1>5, StatusAssumption DEF MapTransportError, Results
  <2>2. Outcome(res) = Exit("transport_error", TRUE)
    BY <1>5, <2>1
  <2> QED
    BY <1>5, <2>2
<1>6. \/ res.kind \in {"Ok", "Network", "Config"}
      \/ res.kind = "HttpStatus" /\ res.status \in 200..599
  BY StatusAssumption DEF Results
<1>7. res.kind = "HttpStatus" => res.status < 500 \/ res.status >= 500
  BY <1>6
<1> QED
  BY <1>1, <1>2, <1>3, <1>4, <1>5, <1>6, <1>7

(* A connection that fails and an attempt that times out preserve the
   invariant. *)
LEMMA NetworkStep ==
  ASSUME IInv, TypeOK', NEW p \in Publishers, ConnectFails(p) \/ TimeOut(p)
  PROVE  Rest'
<1> USE DEF IInv, TypeOK
<1> DEFINE net == Result("Network", 0)
<1>1. PICK n \in Nat : Settle(p, n, net)
  BY DEF ConnectFails, TimeOut
<1>2. net \in Results /\ net # NoResult /\ IsTransient(net)
  BY DEF Results, IsTransient, NoResult
<1>3. Outcome(net).retriable = TRUE /\ Outcome(net) # Success
  BY <1>2, FinalOutcome
<1>4. OnlyProcess(p)
  <2>1. CASE ConnectFails(p)
    <3>1. reply[p] = NoReply
      BY <2>1 DEF ConnectFails, ReplyInv
    <3>2. \A r \in Publishers : attempt[r] <= attempt'[r]
      BY <2>1 DEF ConnectFails
    <3> QED
      BY <2>1, <3>1, <3>2 DEF OnlyProcess, ConnectFails, Settle
  <2>2. CASE TimeOut(p)
    BY <2>2 DEF OnlyProcess, TimeOut, Settle
  <2> QED
    BY <2>1, <2>2
<1>5. exit[p] = Running /\ Running # Success
  BY DEF ProgressInv, Running, Success, ConnectFails, TimeOut
<1>6. p \in posted'
  BY DEF ProgressInv, BoundInv, ConnectFails, TimeOut
<1>7. last'[p] = net
  BY <1>1 DEF Settle
<1>8. /\ pc'[p] # "exited" => exit'[p] = Running
      /\ pc'[p] = "exited" => exit'[p] = Outcome(net)
  BY <1>1, <1>5 DEF Settle
<1> HIDE DEF net
<1> QED
  BY <1>2, <1>3, <1>4, <1>5, <1>6, <1>7, <1>8, OnlyProcessStep

(* An answer that ends an attempt preserves the invariant. *)
LEMMA ReceiveStep ==
  ASSUME IInv, TypeOK', NEW p \in Publishers, Receive(p)
  PROVE  Rest'
<1> USE DEF IInv, TypeOK, Receive
<1> DEFINE res == Interpret(reply[p])
<1>1. reply[p] \in Replies
  OBVIOUS
<1>2. res \in Results /\ res # NoResult
  BY <1>1, InterpretType
<1>3. /\ res.kind = "Ok" => IsSuccess(reply[p].status)
      /\ res.kind = "HttpStatus" => res.status = reply[p].status /\ ~IsSuccess(reply[p].status)
  BY <1>1 DEF Interpret, Replies, Bodies
<1>4. Settle(p, attempt[p], res)
  OBVIOUS
<1> HIDE DEF res
<1>5. OnlyProcess(p)
  BY <1>4 DEF OnlyProcess, Settle
<1>6. exit[p] = Running /\ Running # Success
  BY DEF ProgressInv, Running, Success
<1>7. /\ pc'[p] # "exited" => exit'[p] = Running /\ IsTransient(res)
      /\ pc'[p] = "exited" => exit'[p] = Outcome(res)
      /\ last'[p] = res
  BY <1>4, <1>6 DEF Settle
<1>8. attempt'[p] > 0 => p \in posted'
  BY DEF ProgressInv
<1>9. exit'[p] = Success => Delivered(p)
  BY <1>2, <1>3, <1>6, <1>7, FinalOutcome DEF ReplyInv
<1>10. ASSUME pc'[p] = "exited", exit'[p].class \notin {"ok", "usage"}, ~exit'[p].retriable
       PROVE  Spent(p)'
  <2>1. res.kind = "HttpStatus" /\ res.status < 500
    BY <1>2, <1>7, <1>10, FinalOutcome
  <2>2. Spent(p)
    BY <1>3, <2>1 DEF ReplyInv
  <2> QED
    BY <2>2 DEF Spent, Request, Tag
<1> QED
  BY <1>5, <1>6, <1>7, <1>8, <1>9, <1>10, OnlyProcessStep

(* A request leaves under a tag nobody has seen.                           *)
LEMMA PostStep ==
  ASSUME IInv, TypeOK', NEW p \in Publishers, Post(p)
  PROVE  Rest'
<1> USE DEF IInv, TypeOK, Post
<1>0. PICK new :
      /\ new.from = p /\ new.tag.run = run[p] /\ new.tag.attempt = attempt[p] + 1
      /\ wire' = wire \cup {new} /\ attempt' = [attempt EXCEPT ![p] = attempt[p] + 1]
  <2> DEFINE x == Request(p, attempt[p] + 1)
  <2> WITNESS x
  <2> QED
    BY DEF Request, Tag
<1>a. attempt[p] \in Nat /\ run[p] \in Nat
  BY PolicyAssumption
<1>1. TrafficInv'
  <2>1. ASSUME NEW c \in stored, c.from = p
        PROVE  c.tag # new.tag
    <3>1. c.tag.run = run[p] => c.tag.attempt <= attempt[p]
      BY <2>1 DEF TrafficInv, Issued
    <3>2. ~(attempt[p] + 1 <= attempt[p])
      BY <1>a
    <3> QED
      BY <1>0, <3>1, <3>2
  <2>2. ASSUME NEW f \in Publishers, NEW t \in Attempts, Issued(f, t)
        PROVE  Issued(f, t)'
    BY <2>2 DEF Issued, Attempts
  <2>3. Issued(p, new.tag)'
    <3>1. p \in posted' /\ run'[p] = run[p] /\ attempt'[p] = attempt[p] + 1
      BY <1>0
    <3> QED
      BY <1>0, <1>a, <3>1 DEF Issued
  <2>4. \A q \in wire' : q \in wire \/ q = new
    BY <1>0
  <2>5. \A q \in wire' : /\ Issued(q.from, q.tag)'
                        /\ \A c \in stored : c.from = q.from => c.tag # q.tag
    BY <1>0, <2>1, <2>2, <2>3, <2>4 DEF TrafficInv, Requests
  <2>6. \A c \in stored : Issued(c.from, c.tag)'
    BY <2>2 DEF TrafficInv, Copies
  <2> QED
    BY <2>5, <2>6 DEF TrafficInv
<1>2. KeyedAtMostOnce'
  BY DEF KeyedAtMostOnce
<1>3. \A r \in Publishers : Delivered(r) => Delivered(r)'
  BY DeliveredStays
<1>4. \A r \in Publishers \ {p} : Spent(r) => Spent(r)'
  BY <1>0 DEF Spent, Request, Tag
<1>5. \A r \in Publishers \ {p} :
        Request(r, attempt[r]) \notin wire => Request(r, attempt[r]) \notin wire'
  BY <1>0 DEF Request
<1>6. reply'[p] = NoReply
  BY DEF ReplyInv
<1>7. ReplyInv'
  BY <1>3, <1>4, <1>5, <1>6 DEF ReplyInv, Request, Tag
<1>8. ProgressInv'
  BY DEF ProgressInv
<1>9. SuccessMeansStored'
  BY <1>3 DEF SuccessMeansStored
<1>10. RefusalLeavesNothing'
  BY <1>4 DEF RefusalLeavesNothing
<1> QED
  BY <1>1, <1>2, <1>7, <1>8, <1>9, <1>10 DEF Rest

(* A new invocation starts with tags of its own.                           *)
LEMMA RerunStep ==
  ASSUME IInv, TypeOK', NEW p \in Publishers, Rerun(p)
  PROVE  Rest'
<1> USE DEF IInv, TypeOK, Rerun
<1>1. TrafficInv'
  <2>1. ASSUME NEW f \in Publishers, NEW t \in Attempts, Issued(f, t)
        PROVE  Issued(f, t)'
    BY <2>1 DEF Issued, Attempts
  <2> QED
    BY <2>1 DEF TrafficInv, Requests, Copies
<1>2. KeyedAtMostOnce'
  BY DEF KeyedAtMostOnce
<1>3. \A r \in Publishers \ {p} : Delivered(r) => Delivered(r)'
  BY DeliveredStays
<1>4. \A r \in Publishers \ {p} : Spent(r) => Spent(r)'
  BY DEF Spent, Request, Tag
<1>5. reply'[p] = NoReply
  BY DEF ReplyInv
<1>6. exit'[p] = Running /\ Running # Success /\ pc'[p] = "idle" /\ ~(attempt'[p] > 0)
  BY DEF Running, Success
<1>7. \A r \in Publishers \ {p} : /\ pc'[r] = pc[r] /\ exit'[r] = exit[r]
                                  /\ attempt'[r] = attempt[r] /\ run'[r] = run[r]
                                  /\ last'[r] = last[r]
  OBVIOUS
<1>8. ReplyInv'
  BY <1>3, <1>4, <1>5, <1>7 DEF ReplyInv, Request, Tag
<1>9. ProgressInv'
  BY <1>6, <1>7 DEF ProgressInv
<1>10. SuccessMeansStored'
  BY <1>3, <1>6, <1>7 DEF SuccessMeansStored
<1>11. RefusalLeavesNothing'
  BY <1>4, <1>6, <1>7 DEF RefusalLeavesNothing
<1> QED
  BY <1>1, <1>2, <1>8, <1>9, <1>10, <1>11 DEF Rest

(* A request dropped on its way preserves the invariant. *)
LEMMA LoseRequestStep ==
  ASSUME IInv, TypeOK', NEW q \in wire, LoseRequest(q)
  PROVE  Rest'
<1> USE DEF IInv, TypeOK, LoseRequest
<1>1. TrafficInv'
  BY DEF TrafficInv, Issued
<1>2. KeyedAtMostOnce'
  BY DEF KeyedAtMostOnce
<1>3. \A r \in Publishers : Delivered(r) => Delivered(r)'
  BY DeliveredStays
<1>4. \A r \in Publishers : Spent(r) => Spent(r)'
  BY DEF Spent, Request, Tag
<1>5. ReplyInv'
  BY <1>3, <1>4 DEF ReplyInv, Request, Tag
<1>6. ProgressInv'
  BY DEF ProgressInv
<1>7. SuccessMeansStored'
  BY <1>3 DEF SuccessMeansStored
<1>8. RefusalLeavesNothing'
  BY <1>4 DEF RefusalLeavesNothing
<1> QED
  BY <1>1, <1>2, <1>5, <1>6, <1>7, <1>8 DEF Rest

(* The server keeps no key twice, and a 2xx leaves every event represented. *)
LEMMA ServeStep ==
  ASSUME IInv, TypeOK', NEW q \in wire, Serve(q)
  PROVE  Rest'
<1> USE DEF IInv, TypeOK
<1>1. PICK s \in Statuses, b \in Bodies :
        /\ \E es \in Effects(q, s) : stored' = stored \cup CopiesOf(q, es)
        /\ reply' = IF pc[q.from] = "waiting" /\ q = Request(q.from, attempt[q.from])
                      THEN [reply EXCEPT ![q.from] = [status |-> s, body |-> b]]
                      ELSE reply
  BY DEF Serve
<1>2. PICK es \in Effects(q, s) : stored' = stored \cup CopiesOf(q, es)
  BY <1>1
<1>3. /\ wire' = wire \ {q} /\ q \in Requests
      /\ UNCHANGED <<pc, run, attempt, last, exit, posted>>
  BY DEF Serve, client
<1>4. /\ es \in Keepable(q) /\ es \subseteq Carries[q.from] /\ es \subseteq Events
      /\ IsSuccess(s) => Complete(q, es)
      /\ ~IsSuccess(s) /\ s < 500 => es = {}
  BY <1>3, EffectsKeepable, PublishersAssumption DEF Keepable, Requests
<1>5. \A c \in stored' \ stored : /\ c.from = q.from /\ c.tag = q.tag
                                 /\ c.event \in es /\ c.key = KeyOf[c.event]
  BY <1>2 DEF CopiesOf, KeyOnWire
<1>6. TrafficInv'
  <2>1. \A c \in stored' : Issued(c.from, c.tag)'
    BY <1>3, <1>5 DEF TrafficInv, Issued
  <2>2. \A c \in stored' : c.event \in Carries[c.from] /\ c.key = KeyOf[c.event]
    BY <1>4, <1>5 DEF TrafficInv
  <2>3. \A w \in wire' : Issued(w.from, w.tag)'
    BY <1>3 DEF TrafficInv, Issued
  <2>4. ASSUME NEW w \in wire', NEW c \in stored', c.from = w.from
        PROVE  c.tag # w.tag
    <3>1. w \in wire /\ w # q /\ w \in Requests
      BY <1>3
    <3>2. w.from = q.from => w.tag # q.tag
      <4>1. \A x \in Requests : x = [from |-> x.from, tag |-> x.tag]
        BY DEF Requests
      <4>2. w = [from |-> w.from, tag |-> w.tag] /\ q = [from |-> q.from, tag |-> q.tag]
        BY <1>3, <3>1, <4>1
      <4> QED
        BY <3>1, <4>2
    <3> QED
      BY <1>5, <2>4, <3>1, <3>2 DEF TrafficInv
  <2> QED
    BY <2>1, <2>2, <2>3, <2>4 DEF TrafficInv
<1>7. KeyedAtMostOnce'
  <2> SUFFICES ASSUME NEW c \in stored', NEW d \in stored',
                      KeyOf[c.event] # NoKey, KeyOf[c.event] = KeyOf[d.event]
               PROVE  c = d
    BY DEF KeyedAtMostOnce
  <2>1. CASE c \in stored /\ d \in stored
    BY <2>1 DEF KeyedAtMostOnce
  <2>2. \A x \in stored' \ stored, y \in stored :
          KeyOf[x.event] # NoKey => KeyOf[x.event] # KeyOf[y.event]
    BY <1>4, <1>5 DEF Keepable, Duplicate, KeyOnWire, TrafficInv
  <2>3. CASE c \notin stored /\ d \notin stored
    <3>1. c.event = d.event
      BY <1>4, <1>5, <2>3 DEF Keepable, KeyOnWire
    <3>2. c \in CopiesOf(q, es) /\ d \in CopiesOf(q, es)
      BY <1>2, <2>3
    <3> QED
      BY <3>1, <3>2 DEF CopiesOf
  <2> QED
    BY <2>1, <2>2, <2>3
<1>8. \A r \in Publishers : Delivered(r) => Delivered(r)'
  BY <1>2, <1>3, DeliveredStays
<1>9. \A r \in Publishers : Spent(r) => Spent(r)'
  <2> SUFFICES ASSUME NEW r \in Publishers, Spent(r)
               PROVE  Spent(r)'
    OBVIOUS
  <2>1. ASSUME NEW c \in stored' \ stored, c.from = r, c.tag = Tag(r, attempt[r])
        PROVE  FALSE
    <3>1. q = Request(r, attempt[r])
      BY <1>3, <1>5, <2>1 DEF Request, Requests
    <3> QED
      BY <3>1 DEF Spent
  <2>2. Request(r, attempt[r]) \notin wire'
    BY <1>3 DEF Spent
  <2> QED
    BY <1>3, <2>1, <2>2, SpentStays
<1>10. ReplyInv'
  <2> SUFFICES ASSUME NEW r \in Publishers, reply'[r] # NoReply
               PROVE  /\ pc'[r] = "waiting"
                      /\ Request(r, attempt[r])' \notin wire'
                      /\ IsSuccess(reply'[r].status) => Delivered(r)'
                      /\ ~IsSuccess(reply'[r].status) /\ reply'[r].status < 500 => Spent(r)'
    BY DEF ReplyInv
  <2>1. CASE reply'[r] = reply[r]
    BY <1>3, <1>8, <1>9, <2>1 DEF ReplyInv, Request, Tag
  <2>2. CASE reply'[r] # reply[r]
    <3>1. /\ pc[r] = "waiting" /\ r = q.from /\ q = Request(r, attempt[r])
          /\ reply'[r].status = s
      BY <1>1, <1>3, <2>2 DEF Requests
    <3>2. Request(r, attempt[r])' = q /\ q \notin wire'
      BY <1>3, <3>1 DEF Request, Tag
    <3>3. ASSUME IsSuccess(s)
          PROVE  Delivered(r)'
      <4> SUFFICES ASSUME NEW e \in Carries[r]
                   PROVE  Represented(r, e)'
        BY DEF Delivered
      <4>1. Complete(q, es)
        BY <1>4, <3>3
      <4>2. \A f \in es : \E c \in stored' : /\ c.from = r /\ c.event = f /\ c.tag = q.tag
                                            /\ c.key = KeyOf[f]
        <5> SUFFICES ASSUME NEW f \in es
                     PROVE  \E c \in stored' : /\ c.from = r /\ c.event = f /\ c.tag = q.tag
                                              /\ c.key = KeyOf[f]
          OBVIOUS
        <5>1. [from |-> q.from, event |-> f, key |-> KeyOf[f], tag |-> q.tag] \in stored'
          BY <1>2 DEF CopiesOf, KeyOnWire
        <5> QED
          BY <3>1, <5>1
      <4>3. q.tag.run = run'[r]
        BY <1>3, <3>1 DEF Request, Tag
      <4>4. CASE e \in es
        <5>1. PICK c \in stored' : c.from = r /\ c.event = e /\ c.tag = q.tag
          BY <4>2, <4>4
        <5> QED
          BY <4>3, <5>1 DEF Represented
      <4>5. CASE Duplicate(q, e)
        BY <1>2, <4>5 DEF Duplicate, KeyOnWire, Represented
      <4>6. CASE \E f \in es : KeyOnWire(q, e) # NoKey /\ KeyOnWire(q, f) = KeyOnWire(q, e)
        BY <4>2, <4>6 DEF KeyOnWire, Represented
      <4> QED
        BY <3>1, <4>1, <4>4, <4>5, <4>6 DEF Complete
    <3>4. ASSUME ~IsSuccess(s), s < 500
          PROVE  Spent(r)'
      <4>1. stored' = stored
        BY <1>2, <1>4, <3>4 DEF CopiesOf
      <4>2. Tag(r, attempt[r])' = q.tag
        BY <1>3, <3>1 DEF Request, Tag
      <4>3. \A c \in stored : c.from = r => c.tag # q.tag
        BY <3>1 DEF TrafficInv
      <4> QED
        BY <3>2, <4>1, <4>2, <4>3 DEF Spent
    <3> QED
      BY <1>3, <3>1, <3>2, <3>3, <3>4
  <2> QED
    BY <2>1, <2>2
<1>11. ProgressInv'
  BY <1>3 DEF ProgressInv
<1>12. SuccessMeansStored'
  BY <1>3, <1>8 DEF SuccessMeansStored
<1>13. RefusalLeavesNothing'
  BY <1>3, <1>9 DEF RefusalLeavesNothing
<1> QED
  BY <1>6, <1>7, <1>10, <1>11, <1>12, <1>13 DEF Rest

-----------------------------------------------------------------------------
(* A step that changes no variable preserves the invariant. *)
LEMMA StutterStep ==
  ASSUME IInv, UNCHANGED vars
  PROVE  Rest'
<1> USE DEF IInv, vars
<1>1. TrafficInv'
  BY DEF TrafficInv, Issued
<1>2. KeyedAtMostOnce'
  BY DEF KeyedAtMostOnce
<1>3. \A r \in Publishers : Delivered(r) => Delivered(r)'
  BY DeliveredStays
<1>4. \A r \in Publishers : Spent(r) => Spent(r)'
  BY DEF Spent, Request, Tag
<1>5. ReplyInv' /\ ProgressInv'
  BY <1>3, <1>4 DEF ReplyInv, ProgressInv, Request, Tag
<1>6. SuccessMeansStored' /\ RefusalLeavesNothing'
  BY <1>3, <1>4 DEF SuccessMeansStored, RefusalLeavesNothing
<1> QED
  BY <1>1, <1>2, <1>5, <1>6 DEF Rest

(* Every step preserves the invariant: one lemma per action. *)
LEMMA InvariantNext == IInv /\ [Next]_vars => IInv'
<1> SUFFICES ASSUME IInv, [Next]_vars
             PROVE  IInv'
  OBVIOUS
<1>1. TypeOK' /\ BoundInv'
  BY TypeNext DEF IInv
<1>2. Rest'
  <2>1. ASSUME NEW p \in Publishers, ClientStep(p) \/ Kill(p) \/ Rerun(p)
        PROVE  Rest'
    BY <1>1, <2>1, PreflightStep, BackoffStep, PostStep, NetworkStep, ReceiveStep, KillStep,
       RerunStep DEF ClientStep
  <2>2. ASSUME NEW q \in wire, Serve(q) \/ LoseRequest(q)
        PROVE  Rest'
    BY <1>1, <2>2, ServeStep, LoseRequestStep
  <2> QED
    BY <2>1, <2>2, StutterStep DEF Next
<1> QED
  BY <1>1, <1>2 DEF IInv, Rest

(* IInv holds in every reachable state.                                    *)
THEOREM Invariance == Spec => []IInv
<1>1. Init => IInv
  BY TypeInit, RestInit DEF IInv, Rest
<1> QED
  BY <1>1, InvariantNext, PTL DEF Spec

(* No dedupe key is ever stored twice: the retries of transport.rs, late   *)
(* requests, kills and reruns are safe for keyed events.                   *)
THEOREM KeyedRetriesAreSafe == Spec => []KeyedAtMostOnce
BY Invariance, PTL DEF IInv

(* Exit 0 is never said of an event the server does not hold.              *)
THEOREM SuccessIsHonest == Spec => []SuccessMeansStored
BY Invariance, PTL DEF IInv

(* A refusal not worth retrying left nothing of the last attempt behind.   *)
THEOREM RefusalIsHonest == Spec => []RefusalLeavesNothing
BY Invariance, PTL DEF IInv

-----------------------------------------------------------------------------
(* A step that posts again does so after a transient failure. *)
LEMMA PostsNext == IInv /\ [Next]_vars =>
  \/ UNCHANGED vars
  \/ \A p \in Publishers :
       attempt'[p] > 1 /\ attempt'[p] # attempt[p]
         => last[p].kind = "Network" \/ last[p].status \in 500..599
<1> SUFFICES ASSUME IInv, Next, NEW p \in Publishers,
                    attempt'[p] > 1, attempt'[p] # attempt[p]
             PROVE  last[p].kind = "Network" \/ last[p].status \in 500..599
  BY DEF vars
<1>1. attempt \in [Publishers -> 0..MaxAttempts] /\ last[p] \in Results
  BY DEF IInv, TypeOK
<1>2. pc[p] = "ready" /\ attempt'[p] = attempt[p] + 1
  <2>1. PICK r \in Publishers : Post(r) \/ ConnectFails(r) \/ Rerun(r)
    BY <1>1 DEF Next, ClientStep, PreflightFails, PreflightPasses, Backoff, Receive, TimeOut,
       Kill, Serve, LoseRequest, client
  <2>2. CASE Post(r)
    BY <1>1, <2>2 DEF Post
  <2>3. CASE ConnectFails(r)
    BY <1>1, <2>3 DEF ConnectFails
  <2>4. CASE Rerun(r)
    BY <1>1, <2>4 DEF Rerun
  <2> QED
    BY <2>1, <2>2, <2>3, <2>4
<1>3. IsTransient(last[p])
  BY <1>1, <1>2 DEF IInv, ProgressInv
<1> QED
  BY <1>1, <1>3, StatusAssumption DEF IsTransient, Results, Result, NoResult

(* The retry loop sends again only after a broken connection or a 5xx.     *)
THEOREM RetriesOnlyTransient == Spec => PostsOnlyAfterTransient
<1>1. IInv /\ [Next]_vars =>
        [\A p \in Publishers :
           attempt'[p] > 1 /\ attempt'[p] # attempt[p]
             => last[p].kind = "Network" \/ last[p].status \in 500..599]_vars
  BY PostsNext
<1> QED
  BY <1>1, Invariance, PTL DEF Spec, PostsOnlyAfterTransient

-----------------------------------------------------------------------------
(* The backoff of the retry loop                                           *)

(* Each delay is at least as long as the one before: the power doubles, and
   neither saturating at the multiplier's cap nor at the delay's undoes it. *)
LEMMA DelayGrows ==
  ASSUME NEW m \in 2..MaxAttempts
  PROVE  Delay(m) <= Delay(m + 1)
<1> USE PolicyAssumption
<1> DEFINE a == 2^(m - 2)
           b == 2^(m - 1)
           low == IF a > MultiplierCap THEN MultiplierCap ELSE a
           high == IF b > MultiplierCap THEN MultiplierCap ELSE b
<1>1. a \in Nat \ {0} /\ b = 2 * a
  <2>1. m - 2 \in 0..MaxAttempts /\ (m - 2) + 1 = m - 1
    OBVIOUS
  <2> QED
    BY <2>1, PowersAssumption
<1>2. Delay(m) = (IF BaseDelay * low > MaxDelay THEN MaxDelay ELSE BaseDelay * low)
  BY DEF Delay
<1>3. Delay(m + 1) = (IF BaseDelay * high > MaxDelay THEN MaxDelay ELSE BaseDelay * high)
  <2>1. (m + 1) - 2 = m - 1
    OBVIOUS
  <2> QED
    BY <2>1 DEF Delay
<1> HIDE DEF a, b
<1>4. low \in Nat /\ high \in Nat /\ low <= high
  BY <1>1
<1> HIDE DEF low, high
<1>5. PICK more \in Nat : high = low + more
  <2>1. high - low \in Nat /\ high = low + (high - low)
    BY <1>4
  <2> QED
    BY <2>1
<1>6. BaseDelay * high = BaseDelay * low + BaseDelay * more
  BY <1>4, <1>5
<1>7. BaseDelay * low \in Nat /\ BaseDelay * more \in Nat
  BY <1>4, <1>5
<1> QED
  BY <1>2, <1>3, <1>6, <1>7

(* Every step keeps the count of the sleeps and their lengths. *)
LEMMA SleepNext == TypeOK /\ BoundInv /\ SleepInv /\ [Next]_vars => SleepInv'
<1> SUFFICES ASSUME TypeOK, BoundInv, SleepInv, [Next]_vars
             PROVE  SleepInv'
  OBVIOUS
<1> USE PolicyAssumption
<1>1. ASSUME NEW p \in Publishers, Backoff(p)
      PROVE  SleepInv'
  <2>1. /\ attempt[p] \in 1..(MaxAttempts - 1) /\ Len(slept[p]) = attempt[p] - 1
        /\ slept[p] \in Seq(Nat) /\ Delay(attempt[p] + 1) \in Nat
    BY <1>1, DelayBounded DEF Backoff, TypeOK, BoundInv, SleepInv
  <2>2. slept'[p] = Append(slept[p], Delay(attempt[p] + 1))
    BY <1>1 DEF Backoff, TypeOK
  <2>3. /\ Len(slept'[p]) = attempt[p]
        /\ \A i \in 1..Len(slept'[p]) : slept'[p][i] = Delay(i + 1)
    <3> DEFINE s == slept[p]
               t == slept'[p]
               d == Delay(attempt[p] + 1)
    <3>1. s \in Seq(Nat) /\ Len(s) = attempt[p] - 1 /\ attempt[p] \in Nat /\ t = Append(s, d)
      BY <2>1, <2>2
    <3>2. \A i \in 1..Len(s) : s[i] = Delay(i + 1)
      BY DEF SleepInv
    <3> HIDE DEF s, t, d
    <3>3. /\ Len(t) = attempt[p] /\ t[attempt[p]] = d
          /\ \A i \in 1..Len(s) : t[i] = s[i]
      BY <3>1
    <3>4. \A i \in 1..Len(t) : i = attempt[p] \/ i \in 1..Len(s)
      BY <3>1, <3>3
    <3>5. ASSUME NEW i \in 1..Len(t)
          PROVE  t[i] = Delay(i + 1)
      <4>1. CASE i = attempt[p]
        BY <4>1, <3>3 DEF d
      <4>2. CASE i \in 1..Len(s)
        BY <4>2, <3>2, <3>3
      <4> QED
        BY <4>1, <4>2, <3>4
    <3> QED
      BY <3>3, <3>5 DEF t
  <2>4. /\ pc'[p] = "ready" /\ attempt' = attempt
        /\ \A r \in Publishers \ {p} : pc'[r] = pc[r] /\ slept'[r] = slept[r]
    BY <1>1 DEF Backoff, TypeOK
  <2> QED
    BY <2>1, <2>3, <2>4, SMTT(30) DEF SleepInv
<1>2. ASSUME NEW p \in Publishers,
             PreflightFails(p) \/ PreflightPasses(p) \/ Post(p) \/ Kill(p)
      PROVE  SleepInv'
  BY <1>2, SMTT(30) DEF PreflightFails, PreflightPasses, Post, Kill, TypeOK, BoundInv, SleepInv
<1>3. ASSUME NEW p \in Publishers, ConnectFails(p) \/ Receive(p) \/ TimeOut(p)
      PROVE  SleepInv'
  BY <1>3, SMTT(30) DEF ConnectFails, Receive, TimeOut, Settle, TypeOK, BoundInv, SleepInv
<1>4. ASSUME NEW p \in Publishers, Rerun(p)
      PROVE  SleepInv'
  BY <1>4 DEF Rerun, TypeOK, SleepInv
<1>5. ASSUME NEW q \in wire, Serve(q) \/ LoseRequest(q)
      PROVE  SleepInv'
  BY <1>5 DEF Serve, LoseRequest, client, SleepInv
<1>6. CASE UNCHANGED vars
  BY <1>6 DEF vars, SleepInv
<1> QED
  BY <1>1, <1>2, <1>3, <1>4, <1>5, <1>6 DEF Next, ClientStep

(* transport.rs sleeps once between two attempts, never before the first or
   after the last, each time at least as long as before and never beyond
   max_delay, whatever the policy's numbers are. *)
THEOREM BackoffIsOrderly == Spec => []SleepsOnlyBetweenAttempts
<1>1. Init => TypeOK /\ BoundInv /\ SleepInv
  <2>1. ASSUME Init
        PROVE  SleepInv
    <3>1. \A p \in Publishers : slept[p] = <<>> /\ attempt[p] = 0 /\ pc[p] = "idle"
      BY <2>1 DEF Init
    <3> SUFFICES ASSUME NEW p \in Publishers
                 PROVE  /\ Len(slept[p]) = 0 /\ 0 < MaxAttempts
                        /\ \A i \in 1..Len(slept[p]) : slept[p][i] = Delay(i + 1)
      BY <3>1 DEF SleepInv
    <3>2. slept[p] = <<>> /\ 0 < MaxAttempts
      BY <3>1, PolicyAssumption
    <3>3. Len(slept[p]) = 0
      BY <3>2
    <3> QED
      BY <3>2, <3>3
  <2> QED
    BY <2>1, TypeInit
<1>2. TypeOK /\ BoundInv /\ SleepInv /\ [Next]_vars => (TypeOK /\ BoundInv /\ SleepInv)'
  BY TypeNext, SleepNext
<1>3. TypeOK /\ SleepInv => SleepsOnlyBetweenAttempts
  <2> SUFFICES ASSUME TypeOK, SleepInv, NEW p \in Publishers
               PROVE  /\ pc[p] \in {"waiting", "exited"} /\ attempt[p] > 0
                           => Len(slept[p]) = attempt[p] - 1
                      /\ \A i \in DOMAIN slept[p] :
                           /\ slept[p][i] <= MaxDelay
                           /\ i > 1 => slept[p][i - 1] <= slept[p][i]
    BY DEF SleepsOnlyBetweenAttempts
  <2>1. slept[p] \in Seq(Nat) /\ Len(slept[p]) \in Nat /\ Len(slept[p]) < MaxAttempts
    BY DEF TypeOK, SleepInv
  <2>2. ASSUME NEW i \in 1..Len(slept[p])
        PROVE  slept[p][i] <= MaxDelay /\ (i > 1 => slept[p][i - 1] <= slept[p][i])
    <3>1. i + 1 \in 2..MaxAttempts /\ slept[p][i] = Delay(i + 1)
      BY <2>1, PolicyAssumption DEF SleepInv
    <3>2. Delay(i + 1) <= MaxDelay
      BY <3>1, DelayBounded, PolicyAssumption
    <3>3. i > 1 => slept[p][i - 1] = Delay(i) /\ i \in 2..MaxAttempts
      BY <2>1, <3>1, PolicyAssumption, SMTT(30) DEF SleepInv
    <3> QED
      BY <3>1, <3>2, <3>3, DelayGrows
  <2>3. DOMAIN slept[p] = 1..Len(slept[p])
    BY <2>1
  <2> QED
    BY <2>2, <2>3 DEF SleepInv
<1> QED
  BY <1>1, <1>2, <1>3, PTL DEF Spec

-----------------------------------------------------------------------------
(* The refinement of DeliveryContract                                      *)

(* A process that ends before it has ever sent says so, and never invites  *)
(* a rerun.                                                                *)
UnsentInv ==
  \A p \in Publishers : pc[p] = "exited" /\ p \notin posted =>
    /\ exit[p].class \in {"usage", "project_not_registered", "plain_text"}
    /\ ~exit[p].retriable

(* What has never been sent is neither on the wire nor stored. *)
LEMMA UnsentNext == IInv /\ UnsentInv /\ [Next]_vars => UnsentInv'
<1> SUFFICES ASSUME IInv, UnsentInv, [Next]_vars
             PROVE  UnsentInv'
  OBVIOUS
<1>1. TypeOK /\ ProgressInv /\ BoundInv
  BY DEF IInv
<1>2. CASE UNCHANGED vars
  BY <1>2 DEF vars, UnsentInv
<1>3. ASSUME NEW p \in Publishers, PreflightFails(p)
      PROVE  UnsentInv'
  BY <1>1, <1>3 DEF PreflightFails, PreflightClasses, Exit, UnsentInv, TypeOK
<1>4. ASSUME NEW p \in Publishers, PreflightPasses(p) \/ Backoff(p) \/ Kill(p) \/ Rerun(p)
      PROVE  UnsentInv'
  BY <1>1, <1>4 DEF PreflightPasses, Backoff, Kill, Rerun, UnsentInv, TypeOK
<1>5. ASSUME NEW p \in Publishers, Post(p)
      PROVE  UnsentInv'
  BY <1>1, <1>5 DEF Post, UnsentInv, TypeOK
<1>6. ASSUME NEW p \in Publishers, ConnectFails(p)
      PROVE  UnsentInv'
  BY <1>1, <1>6 DEF ConnectFails, Settle, UnsentInv, TypeOK
<1>7. ASSUME NEW p \in Publishers, Receive(p) \/ TimeOut(p)
      PROVE  UnsentInv'
  <2>1. p \in posted /\ posted' = posted
    BY <1>1, <1>7 DEF Receive, TimeOut, ProgressInv, BoundInv
  <2> QED
    BY <1>1, <1>7, <2>1 DEF Receive, TimeOut, Settle, UnsentInv, TypeOK
<1>8. ASSUME NEW q \in wire, Serve(q) \/ LoseRequest(q)
      PROVE  UnsentInv'
  BY <1>8 DEF Serve, LoseRequest, client, UnsentInv
<1> QED
  BY <1>2, <1>3, <1>4, <1>5, <1>6, <1>7, <1>8 DEF Next, ClientStep

(* A step that changes nothing but p's verdict, as the contract sees it.   *)
LEMMA VerdictOf ==
  ASSUME NEW p \in Publishers,
         \A r \in Publishers : r # p => Verdict(r)' = Verdict(r)
  PROVE  [r \in Publishers |-> Verdict(r)]'
           = [[r \in Publishers |-> Verdict(r)] EXCEPT ![p] = Verdict(p)']
OBVIOUS

(* A step that changes neither store nor verdicts is a stutter of the
   contract. *)
LEMMA SameVerdicts ==
  ASSUME UNCHANGED <<pc, exit, posted>>
  PROVE  [r \in Publishers |-> Verdict(r)]' = [r \in Publishers |-> Verdict(r)]
BY DEF Verdict

(* A preflight or a backoff maps to a step or a stutter of the contract. *)
LEMMA PreflightKeeps ==
  ASSUME IInv, NEW p \in Publishers, PreflightFails(p) \/ PreflightPasses(p) \/ Backoff(p)
  PROVE  [Contract!Next]_Contract!vars
<1> DEFINE V == [r \in Publishers |-> Verdict(r)]
<1>1. TypeOK
  BY DEF IInv
<1>2. CASE PreflightFails(p)
  <2>1. /\ stored' = stored /\ posted' = posted
        /\ V[p] = "pending"
        /\ Verdict(p)' = IF p \in posted THEN "failed" ELSE "unsent"
        /\ \A r \in Publishers : r # p => Verdict(r)' = Verdict(r)
    BY <1>1, <1>2 DEF PreflightFails, PreflightClasses, Exit, Success, Verdict, TypeOK
  <2>2. V' = [V EXCEPT ![p] = IF p \in posted THEN "failed" ELSE "unsent"]
    BY <2>1, VerdictOf
  <2>3. Contract!Tell(p, IF p \in posted THEN "failed" ELSE "unsent")
    BY <2>1, <2>2 DEF Contract!Tell
  <2> QED
    BY <2>3 DEF Contract!Next, Contract!Verdicts
<1>3. CASE PreflightPasses(p) \/ Backoff(p)
  <2>1. /\ stored' = stored /\ posted' = posted
        /\ \A r \in Publishers : Verdict(r)' = Verdict(r)
    BY <1>1, <1>3 DEF PreflightPasses, Backoff, Verdict, TypeOK
  <2>2. V' = V
    BY <2>1
  <2> QED
    BY <2>1, <2>2 DEF Contract!vars
<1> QED
  BY <1>2, <1>3

(* Sending an attempt maps to a step or a stutter of the contract. *)
LEMMA SendKeeps ==
  ASSUME IInv, IInv', NEW p \in Publishers, Post(p) \/ ConnectFails(p)
  PROVE  [Contract!Next]_Contract!vars
<1> DEFINE V == [r \in Publishers |-> Verdict(r)]
<1>1. TypeOK
  BY DEF IInv
<1>2. /\ stored' = stored /\ posted' = posted \cup {p} /\ V[p] = "pending"
      /\ \A r \in Publishers : r # p => Verdict(r)' = Verdict(r)
  <2>1. CASE Post(p)
    BY <1>1, <2>1 DEF Post, Verdict, TypeOK
  <2>2. CASE ConnectFails(p)
    BY <1>1, <2>2 DEF ConnectFails, Settle, Verdict, TypeOK
  <2> QED
    BY <2>1, <2>2
<1>3. Verdict(p)' \in {"pending", "failed"}
  <2>1. CASE Post(p)
    BY <1>1, <2>1 DEF Post, Verdict, TypeOK
  <2>2. CASE ConnectFails(p)
    BY <1>1, <2>2 DEF ConnectFails, Settle, Outcome, MapTransportError, Result, Exit, Success,
       Verdict, TypeOK
  <2> QED
    BY <2>1, <2>2
<1>4. V' = [V EXCEPT ![p] = Verdict(p)']
  BY <1>2, VerdictOf
<1>5. CASE Verdict(p)' = "pending"
  <2>1. V' = V
    BY <1>2, <1>4, <1>5
  <2> QED
    BY <1>2, <2>1 DEF Contract!Next, Contract!Send
<1>6. CASE Verdict(p)' = "failed"
  <2>1. Contract!SendAndFail(p)
    BY <1>2, <1>4, <1>6 DEF Contract!SendAndFail
  <2> QED
    BY <2>1 DEF Contract!Next
<1> QED
  BY <1>3, <1>5, <1>6

(* The end of an attempt, or of the process, maps to a step or a stutter of
   the contract. *)
LEMMA TellKeeps ==
  ASSUME IInv, IInv', NEW p \in Publishers, Receive(p) \/ TimeOut(p) \/ Kill(p)
  PROVE  [Contract!Next]_Contract!vars
<1> DEFINE V == [r \in Publishers |-> Verdict(r)]
<1>1. TypeOK /\ BoundInv /\ ProgressInv
  BY DEF IInv
<1>2. /\ stored' = stored /\ posted' = posted /\ V[p] = "pending"
      /\ \A r \in Publishers : r # p => Verdict(r)' = Verdict(r)
  <2>1. CASE Receive(p) \/ TimeOut(p)
    BY <1>1, <2>1 DEF Receive, TimeOut, Settle, Verdict, TypeOK
  <2>2. CASE Kill(p)
    BY <1>1, <2>2 DEF Kill, Verdict, TypeOK
  <2> QED
    BY <2>1, <2>2
<1>3. Verdict(p)' \in {"pending", "failed", "delivered"}
  <2>1. CASE Receive(p) \/ TimeOut(p)
    <3>1. p \in posted'
      BY <1>1, <1>2, <2>1 DEF Receive, TimeOut, ProgressInv, BoundInv
    <3> QED
      BY <3>1 DEF Verdict
  <2>2. CASE Kill(p)
    BY <1>1, <2>2 DEF Kill, Verdict, TypeOK
  <2> QED
    BY <2>1, <2>2
<1>4. V' = [V EXCEPT ![p] = Verdict(p)']
  BY <1>2, VerdictOf
<1>5. CASE Verdict(p)' = "pending"
  <2>1. V' = V
    BY <1>2, <1>4, <1>5
  <2> QED
    BY <1>2, <2>1 DEF Contract!vars
<1>6. CASE Verdict(p)' = "failed"
  <2>1. Contract!Tell(p, "failed")
    BY <1>2, <1>4, <1>6 DEF Contract!Tell
  <2> QED
    BY <2>1 DEF Contract!Next, Contract!Verdicts
<1>7. CASE Verdict(p)' = "delivered"
  <2>1. exit'[p] = Success
    BY <1>7 DEF Verdict
  <2>2. Delivered(p)'
    BY <2>1 DEF IInv, SuccessMeansStored
  <2>3. \A e \in Carries[p] : Contract!Represented(p, e)
    BY <1>2, <2>2 DEF Delivered, Represented, Contract!Represented
  <2>4. Contract!Tell(p, "delivered")
    BY <1>2, <1>4, <1>7, <2>3 DEF Contract!Tell
  <2> QED
    BY <2>4 DEF Contract!Next, Contract!Verdicts
<1> QED
  BY <1>3, <1>5, <1>6, <1>7

(* Running a command again maps to a step or a stutter of the contract. *)
LEMMA RerunKeeps ==
  ASSUME IInv, UnsentInv, NEW p \in Publishers, Rerun(p)
  PROVE  [Contract!Next]_Contract!vars
<1> DEFINE V == [r \in Publishers |-> Verdict(r)]
<1>1. TypeOK
  BY DEF IInv
<1>2. /\ stored' = stored /\ posted' = posted /\ Verdict(p)' = "pending"
      /\ \A r \in Publishers : r # p => Verdict(r)' = Verdict(r)
  BY <1>1 DEF Rerun, Verdict, TypeOK
<1>3. V[p] = "failed"
  <2>1. CASE pc[p] = "killed"
    BY <2>1 DEF Verdict
  <2>2. CASE pc[p] = "exited" /\ MayRetry(p)
    <3>1. exit[p] # Success
      BY <2>2 DEF MayRetry, SaysRetriable, ExitCode, Success, Exit
    <3>2. p \in posted
      BY <2>2 DEF UnsentInv, MayRetry, SaysRetriable, ExitCode
    <3> QED
      BY <2>2, <3>1, <3>2 DEF Verdict
  <2> QED
    BY <2>1, <2>2 DEF Rerun
<1>4. V' = [V EXCEPT ![p] = "pending"]
  BY <1>2, VerdictOf
<1>5. Contract!AskAgain(p)
  BY <1>2, <1>3, <1>4 DEF Contract!AskAgain
<1> QED
  BY <1>5 DEF Contract!Next

(* The server and the network map to steps or stutters of the contract. *)
LEMMA ServerKeeps ==
  ASSUME IInv, NEW q \in wire, Serve(q) \/ LoseRequest(q)
  PROVE  [Contract!Next]_Contract!vars
<1> DEFINE V == [r \in Publishers |-> Verdict(r)]
<1>1. TypeOK /\ TrafficInv
  BY DEF IInv
<1>2. V' = V /\ posted' = posted
  BY SameVerdicts DEF Serve, LoseRequest, client
<1>3. CASE Serve(q)
  <2>1. q \in Requests /\ q.from \in Publishers /\ q.tag \in Attempts /\ q.from \in posted
    BY <1>1 DEF TypeOK, Requests, TrafficInv, Issued
  <2>2. PICK s \in Statuses : \E es \in Effects(q, s) : stored' = stored \cup CopiesOf(q, es)
    BY <1>3 DEF Serve
  <2>3. PICK es \in Keepable(q) : stored' = stored \cup CopiesOf(q, es)
    BY <2>1, <2>2, EffectsKeepable
  <2>4. es \subseteq Carries[q.from]
    BY DEF Keepable
  <2>5. \A e \in es : KeyOf[e] # NoKey =>
          /\ \A c \in stored : c.key # KeyOf[e]
          /\ \A f \in es : KeyOf[f] = KeyOf[e] => f = e
    BY DEF Keepable, Duplicate, KeyOnWire
  <2>6. stored' = stored \cup
          {[from |-> q.from, event |-> e, key |-> KeyOf[e], tag |-> q.tag] : e \in es}
    BY <2>3 DEF CopiesOf, KeyOnWire
  <2>7. Contract!Store(q.from, es, q.tag)
    BY <1>2, <2>1, <2>4, <2>5, <2>6 DEF Contract!Store
  <2> QED
    BY <2>1, <2>4, <2>7 DEF Contract!Next
<1>4. CASE LoseRequest(q)
  BY <1>2, <1>4 DEF LoseRequest, Contract!vars
<1> QED
  BY <1>3, <1>4

(* Every step of the code maps to a step or a stutter of the contract. *)
LEMMA ContractStep ==
  IInv /\ IInv' /\ UnsentInv /\ [Next]_vars => [Contract!Next]_Contract!vars
<1> SUFFICES ASSUME IInv, IInv', UnsentInv, [Next]_vars
             PROVE  [Contract!Next]_Contract!vars
  OBVIOUS
<1>1. CASE UNCHANGED vars
  <2>1. [r \in Publishers |-> Verdict(r)]' = [r \in Publishers |-> Verdict(r)]
    BY <1>1, SameVerdicts DEF vars
  <2> QED
    BY <1>1, <2>1 DEF vars, Contract!vars
<1>2. ASSUME NEW p \in Publishers, ClientStep(p) \/ Kill(p) \/ Rerun(p)
      PROVE  [Contract!Next]_Contract!vars
  BY <1>2, PreflightKeeps, SendKeeps, TellKeeps, RerunKeeps DEF ClientStep
<1>3. ASSUME NEW q \in wire, Serve(q) \/ LoseRequest(q)
      PROVE  [Contract!Next]_Contract!vars
  BY <1>3, ServerKeeps
<1> QED
  BY <1>1, <1>2, <1>3 DEF Next

(* The retry loop, the network and the server together implement           *)
(* DeliveryContract: "delivered" is said of stored events only, "unsent"   *)
(* when nothing has left, one verdict per invocation, no key kept twice.   *)
THEOREM ImplementsContract == Spec => KeepsContract
<1>1. Init => IInv /\ UnsentInv
  BY TypeInit, RestInit DEF IInv, Rest, UnsentInv, Init
<1>2. Init => Contract!Init
  BY DEF Init, Contract!Init, Verdict
<1>3. Spec => [](IInv /\ UnsentInv)
  BY <1>1, InvariantNext, UnsentNext, PTL DEF Spec
<1> QED
  BY <1>2, <1>3, ContractStep, PTL DEF Spec, KeepsContract, Contract!Spec

=============================================================================
