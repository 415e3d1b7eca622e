----------------------- MODULE RegistryCache_proofs -----------------------
(***************************************************************************)
(* The promises of the registry cache, for any number of calls, any        *)
(* interval and any timeout.                                               *)
(***************************************************************************)
EXTENDS RegistryCache, TLAPS

(* The empty cache satisfies the invariant. *)
LEMMA InitInv == Init => IInv
BY BoundsAssumption DEF Init, IInv, TypeOK, Versions, WarmInv, FetchInv, Open, ThrottleInv,
   OnceAnsweredAlwaysAnswered, RefreshesSpaced

(* list on a warm cache, with or without a refresh, preserves the invariant. *)
LEMMA ListWarmStep ==
  ASSUME IInv, NEW c \in Calls, ListWarm(c)
  PROVE  IInv'
<1>1. /\ pc[c] = "idle" /\ fetch[c] = "none" /\ spawnedAt[c] = 0 /\ cache \in 1..server
      /\ pc' = [pc EXCEPT ![c] = "ok"]
      /\ rows' = [rows EXCEPT ![c] = cache]
      /\ held' = [held EXCEPT ![c] = cache]
      /\ earlier' = [earlier EXCEPT ![c] = {d \in Calls : pc[d] = "ok"}]
      /\ UNCHANGED <<resp, sentAt, cache, now, server, since>>
  <2>1. pc[c] = "idle"
    BY DEF ListWarm, ComesIn
  <2>2. cache \in 0..MaxVersion /\ cache # 0 /\ spawnedAt[c] \in 0..MaxTime /\ server \in Nat
        /\ last \in Nat
    BY BoundsAssumption DEF IInv, TypeOK, Versions, ListWarm
  <2> QED
    BY <2>1, <2>2, BoundsAssumption DEF ListWarm, ComesIn, IInv, WarmInv, ThrottleInv
<1>2. \/ /\ PastThrottleWindow
         /\ last' = now
         /\ fetch' = [fetch EXCEPT ![c] = "queued"]
         /\ spawnedAt' = [spawnedAt EXCEPT ![c] = now]
      \/ UNCHANGED <<last, fetch, spawnedAt>>
  BY DEF ListWarm, MaybeSpawnRefresh
<1> USE BoundsAssumption, <1>1 DEF IInv, TypeOK, Versions
<1>3. TypeOK'
  <2>1. /\ last' \in 0..MaxTime
        /\ fetch' \in [Calls -> {"none", "queued", "sent", "answered", "done"}]
        /\ spawnedAt' \in [Calls -> 0..MaxTime]
    <3>1. CASE UNCHANGED <<last, fetch, spawnedAt>>
      BY <3>1
    <3>2. CASE /\ last' = now
               /\ fetch' = [fetch EXCEPT ![c] = "queued"]
               /\ spawnedAt' = [spawnedAt EXCEPT ![c] = now]
      BY <3>2
    <3> QED
      BY <1>2, <3>1, <3>2
  <2> QED
    BY <2>1
<1>4. WarmInv'
  BY <1>2 DEF WarmInv
<1>5. FetchInv'
  BY <1>2 DEF FetchInv, Open
<1>6. OnceAnsweredAlwaysAnswered'
  BY DEF OnceAnsweredAlwaysAnswered, WarmInv
<1>7. ThrottleInv' /\ RefreshesSpaced'
  <2>1. CASE UNCHANGED <<last, fetch, spawnedAt>>
    BY <2>1 DEF ThrottleInv, RefreshesSpaced
  <2>2. CASE /\ PastThrottleWindow /\ last' = now
             /\ spawnedAt' = [spawnedAt EXCEPT ![c] = now]
    <3>1. /\ \A d \in Calls : d # c => spawnedAt'[d] = spawnedAt[d] /\ pc'[d] = pc[d]
          /\ spawnedAt'[c] = now /\ pc'[c] = "ok"
      BY <2>2
    <3>2. \A d \in Calls : /\ spawnedAt[d] \in Nat /\ spawnedAt[d] <= last /\ last <= now
                           /\ pc[d] = "idle" => spawnedAt[d] = 0
      BY DEF ThrottleInv
    <3>3. ThrottleInv'
      BY <2>2, <3>1, <3>2 DEF ThrottleInv
    <3>4. \A d \in Calls : spawnedAt[d] # 0 => now >= spawnedAt[d] + Interval
      BY <2>2, <3>2, SMTT(30) DEF PastThrottleWindow
    <3> QED
      BY <3>1, <3>3, <3>4 DEF RefreshesSpaced
  <2> QED
    BY <1>2, <2>1, <2>2
<1> QED
  BY <1>3, <1>4, <1>5, <1>6, <1>7

(* list on a cold cache, which fetches itself, preserves the invariant. *)
LEMMA ListColdStep ==
  ASSUME IInv, NEW c \in Calls, ListCold(c)
  PROVE  IInv'
<1> USE BoundsAssumption DEF IInv, TypeOK, Versions, ListCold, ComesIn
<1>1. TypeOK'
  OBVIOUS
<1>2. WarmInv'
  BY DEF WarmInv
<1>3. FetchInv'
  BY DEF FetchInv, Open
<1>4. ThrottleInv' /\ RefreshesSpaced'
  BY DEF ThrottleInv, RefreshesSpaced
<1>5. OnceAnsweredAlwaysAnswered'
  BY DEF OnceAnsweredAlwaysAnswered
<1> QED
  BY <1>1, <1>2, <1>3, <1>4, <1>5

(* A spawned refresh that is polled for the first time preserves the
   invariant. *)
LEMMA PollRefreshStep ==
  ASSUME IInv, NEW c \in Calls, PollRefresh(c)
  PROVE  IInv'
<1> USE BoundsAssumption DEF IInv, TypeOK, Versions, PollRefresh
<1>1. TypeOK'
  OBVIOUS
<1>2. WarmInv'
  BY DEF WarmInv
<1>3. FetchInv'
  BY DEF FetchInv, Open
<1>4. ThrottleInv' /\ RefreshesSpaced'
  BY DEF ThrottleInv, RefreshesSpaced
<1>5. OnceAnsweredAlwaysAnswered'
  BY DEF OnceAnsweredAlwaysAnswered
<1> QED
  BY <1>1, <1>2, <1>3, <1>4, <1>5

(* A fetch that returns, and commits in whatever order, preserves the
   invariant. *)
LEMMA FetchReturnsStep ==
  ASSUME IInv, NEW c \in Calls, FetchReturns(c)
  PROVE  IInv'
<1> USE BoundsAssumption DEF IInv
<1>1. TypeOK /\ resp[c] \in 1..server /\ server \in Versions
  BY DEF FetchReturns, FetchInv, TypeOK
<1>2. /\ cache' = resp[c]
      /\ UNCHANGED <<resp, sentAt, last, now, server, since, spawnedAt, earlier>>
      /\ fetch[c] = "answered" /\ fetch' = [fetch EXCEPT ![c] = "done"]
      /\ \/ /\ pc[c] = "waiting" /\ pc' = [pc EXCEPT ![c] = "ok"]
            /\ rows' = [rows EXCEPT ![c] = resp[c]] /\ held' = [held EXCEPT ![c] = resp[c]]
         \/ pc[c] # "waiting" /\ UNCHANGED <<pc, rows, held>>
  BY DEF FetchReturns, Commit
<1>3. TypeOK'
  <2>1. CASE UNCHANGED <<pc, rows, held>>
    BY <1>1, <1>2, <2>1 DEF TypeOK, Versions
  <2>2. CASE /\ pc' = [pc EXCEPT ![c] = "ok"]
             /\ rows' = [rows EXCEPT ![c] = resp[c]] /\ held' = [held EXCEPT ![c] = resp[c]]
    BY <1>1, <1>2, <2>2 DEF TypeOK, Versions
  <2> QED
    BY <1>2, <2>1, <2>2
<1>4. /\ fetch'[c] = "done"
      /\ \/ pc'[c] = "ok" /\ rows'[c] = resp[c]
         \/ pc[c] # "waiting" /\ pc'[c] = pc[c] /\ rows'[c] = rows[c]
      /\ \A d \in Calls \ {c} : fetch'[d] = fetch[d] /\ pc'[d] = pc[d] /\ rows'[d] = rows[d]
  <2>1. /\ fetch'[c] = "done"
        /\ \A d \in Calls \ {c} : fetch'[d] = fetch[d]
    BY <1>1, <1>2 DEF TypeOK
  <2>2. CASE UNCHANGED <<pc, rows, held>> /\ pc[c] # "waiting"
    BY <2>1, <2>2
  <2>3. CASE pc' = [pc EXCEPT ![c] = "ok"] /\ rows' = [rows EXCEPT ![c] = resp[c]]
    BY <1>1, <2>1, <2>3 DEF TypeOK
  <2> QED
    BY <1>2, <2>2, <2>3
<1>5. WarmInv'
  <2>1. cache' <= server' /\ cache' # 0
    BY <1>1, <1>2
  <2>2. pc[c] # "idle" /\ pc'[c] \notin {"idle", "waiting"}
    <3>1. pc[c] # "idle"
      BY <1>2 DEF WarmInv
    <3> QED
      BY <1>4, <3>1
  <2> QED
    BY <1>2, <1>4, <2>1, <2>2 DEF WarmInv
<1>6. FetchInv'
  BY <1>1, <1>2, <1>4 DEF FetchInv, Open
<1>7. ThrottleInv' /\ RefreshesSpaced'
  BY <1>1, <1>2, <1>4 DEF ThrottleInv, RefreshesSpaced, WarmInv
<1>8. OnceAnsweredAlwaysAnswered'
  BY <1>1, <1>2, <1>4 DEF OnceAnsweredAlwaysAnswered
<1> QED
  BY <1>3, <1>5, <1>6, <1>7, <1>8

(* A call that fails came in before any had been answered.                 *)
LEMMA FetchFailsStep ==
  ASSUME IInv, NEW c \in Calls, FetchFails(c)
  PROVE  IInv'
<1> USE BoundsAssumption DEF IInv
<1>1. TypeOK
  OBVIOUS
<1>2. /\ UNCHANGED <<rows, resp, sentAt, cache, last, now, server, since, spawnedAt, earlier>>
      /\ Open(c) /\ fetch' = [fetch EXCEPT ![c] = "done"]
      /\ \/ /\ pc[c] = "waiting" /\ pc' = [pc EXCEPT ![c] = "error"]
            /\ held' = [held EXCEPT ![c] = cache]
         \/ pc[c] # "waiting" /\ UNCHANGED <<pc, held>>
  BY DEF FetchFails, Open
<1>3. TypeOK'
  <2>1. CASE UNCHANGED <<pc, held>>
    BY <1>1, <1>2, <2>1 DEF TypeOK, Versions
  <2>2. CASE /\ pc' = [pc EXCEPT ![c] = "error"]
             /\ held' = [held EXCEPT ![c] = cache]
    BY <1>1, <1>2, <2>2 DEF TypeOK, Versions
  <2> QED
    BY <1>2, <2>1, <2>2
<1>4. /\ fetch'[c] = "done" /\ pc'[c] # "waiting"
      /\ pc'[c] = pc[c] \/ (pc[c] = "waiting" /\ pc'[c] = "error")
      /\ \A d \in Calls \ {c} : fetch'[d] = fetch[d] /\ pc'[d] = pc[d]
  <2>1. /\ fetch'[c] = "done"
        /\ \A d \in Calls \ {c} : fetch'[d] = fetch[d]
    BY <1>1, <1>2 DEF TypeOK
  <2>2. CASE UNCHANGED <<pc, held>> /\ pc[c] # "waiting"
    BY <2>1, <2>2
  <2>3. CASE pc[c] = "waiting" /\ pc' = [pc EXCEPT ![c] = "error"]
    BY <1>1, <2>1, <2>3 DEF TypeOK
  <2> QED
    BY <1>2, <2>2, <2>3
<1>5. WarmInv'
  BY <1>1, <1>2, <1>4 DEF WarmInv, Open
<1>6. FetchInv'
  BY <1>1, <1>2, <1>4 DEF FetchInv, Open
<1>7. ThrottleInv' /\ RefreshesSpaced'
  BY <1>1, <1>2, <1>4 DEF ThrottleInv, RefreshesSpaced, WarmInv, Open
<1>8. OnceAnsweredAlwaysAnswered'
  BY <1>1, <1>2, <1>4 DEF OnceAnsweredAlwaysAnswered, WarmInv
<1> QED
  BY <1>3, <1>5, <1>6, <1>7, <1>8

(* The registry that answers a request preserves the invariant. *)
LEMMA RespondStep ==
  ASSUME IInv, NEW c \in Calls, Respond(c)
  PROVE  IInv'
<1> USE BoundsAssumption DEF IInv, TypeOK, Versions, Respond
<1>1. TypeOK'
  OBVIOUS
<1>2. WarmInv'
  BY DEF WarmInv
<1>3. FetchInv'
  BY SMTT(30) DEF FetchInv, Open
<1>4. ThrottleInv' /\ RefreshesSpaced'
  BY DEF ThrottleInv, RefreshesSpaced
<1>5. OnceAnsweredAlwaysAnswered'
  BY DEF OnceAnsweredAlwaysAnswered
<1> QED
  BY <1>1, <1>2, <1>3, <1>4, <1>5

(* A registry that changes under its readers preserves the invariant. *)
LEMMA RegistryChangesStep ==
  ASSUME IInv, RegistryChanges
  PROVE  IInv'
<1> USE BoundsAssumption DEF IInv, TypeOK, Versions, RegistryChanges
<1>1. TypeOK'
  OBVIOUS
<1>2. WarmInv'
  BY DEF WarmInv
<1>3. FetchInv'
  <2>1. \A v \in Versions : since'[v] = IF v = server + 1 THEN now ELSE since[v]
    OBVIOUS
  <2>2. \A v \in Versions : since'[v] <= now'
    BY <2>1 DEF FetchInv
  <2>3. \A v, w \in Versions : v <= w /\ w <= server' => since'[v] <= since'[w]
    BY <2>1 DEF FetchInv
  <2>4. \A c \in Calls : Open(c)' => sentAt'[c] <= now' /\ now' <= sentAt'[c] + Timeout
    BY DEF FetchInv, Open
  <2>5. ASSUME NEW c \in Calls, fetch'[c] = "answered"
        PROVE  /\ resp'[c] \in 1..server'
               /\ \A v \in Versions : resp'[c] < v /\ v <= server' => sentAt'[c] <= since'[v]
    BY <2>1, <2>5 DEF FetchInv, Open
  <2> QED
    BY <2>2, <2>3, <2>4, <2>5 DEF FetchInv
<1>4. ThrottleInv' /\ RefreshesSpaced'
  BY DEF ThrottleInv, RefreshesSpaced
<1>5. OnceAnsweredAlwaysAnswered'
  BY DEF OnceAnsweredAlwaysAnswered
<1> QED
  BY <1>1, <1>2, <1>3, <1>4, <1>5

(* The passing of time preserves the invariant. *)
LEMMA TickStep ==
  ASSUME IInv, Tick
  PROVE  IInv'
<1> USE BoundsAssumption DEF IInv, TypeOK, Versions, Tick
<1>1. TypeOK'
  OBVIOUS
<1>2. WarmInv'
  BY DEF WarmInv
<1>3. FetchInv'
  BY DEF FetchInv, Open
<1>4. ThrottleInv' /\ RefreshesSpaced'
  BY DEF ThrottleInv, RefreshesSpaced
<1>5. OnceAnsweredAlwaysAnswered'
  BY DEF OnceAnsweredAlwaysAnswered
<1> QED
  BY <1>1, <1>2, <1>3, <1>4, <1>5

(* A step that changes no variable preserves the invariant. *)
LEMMA StutterStep ==
  ASSUME IInv, UNCHANGED vars
  PROVE  IInv'
BY DEF vars, IInv, TypeOK, WarmInv, FetchInv, Open, ThrottleInv, OnceAnsweredAlwaysAnswered,
   RefreshesSpaced

(* Every step preserves the invariant: one lemma per action. *)
LEMMA InvariantNext == IInv /\ [Next]_vars => IInv'
BY ListWarmStep, ListColdStep, PollRefreshStep, FetchReturnsStep, FetchFailsStep, RespondStep,
   RegistryChangesStep, TickStep, StutterStep DEF Next, CallStep

(* The inductive invariant holds in every reachable state; the properties
   of the cache below follow from it. *)
THEOREM Invariance == Spec => []IInv
BY InitInv, InvariantNext, PTL DEF Spec

(* The cache's variables keep their types.                                 *)
THEOREM TypeCorrect == Spec => []TypeOK
BY Invariance, PTL DEF IInv

(* After the first answer no later call fails, whatever fetches fail.      *)
THEOREM AnswersKeepComing == Spec => []OnceAnsweredAlwaysAnswered
BY Invariance, PTL DEF IInv

(* The throttle holds between any two refreshes, overlapping or failed.    *)
THEOREM ThrottleHolds == Spec => []RefreshesSpaced
BY Invariance, PTL DEF IInv

(* Older rows replace newer ones only within the client's timeout.         *)
THEOREM RegressionsAreShort == Spec => RegressionIsBounded
<1>1. IInv /\ [Next]_vars => [cache' < cache => now <= since[cache] + Timeout]_vars
  <2> SUFFICES ASSUME IInv, Next, cache' < cache
               PROVE  now <= since[cache] + Timeout
    OBVIOUS
  <2> USE BoundsAssumption DEF IInv, TypeOK, Versions
  <2>1. PICK c \in Calls : FetchReturns(c)
    BY DEF Next, CallStep, ListWarm, ListCold, PollRefresh, FetchFails, Respond,
       RegistryChanges, Tick
  <2>2. /\ fetch[c] = "answered" /\ resp[c] < cache
        /\ cache \in Versions /\ cache <= server
    BY <2>1 DEF FetchReturns, Commit, WarmInv, FetchInv
  <2>3. sentAt[c] <= since[cache] /\ now <= sentAt[c] + Timeout
    BY <2>2 DEF FetchInv, Open
  <2> QED
    BY <2>2, <2>3
<1> QED
  BY <1>1, Invariance, PTL DEF Spec, RegressionIsBounded
============================================================================
