----------------------- MODULE Authentication_proofs -----------------------
(***************************************************************************)
(* Proofs of the safety properties of Authentication, for any number of    *)
(* logins, logouts and readers, and any deadlines.                         *)
(***************************************************************************)
EXTENDS Authentication, TLAPS

(* Nobody has begun: nothing is waited for, shown or saved.                *)
LEMMA InitInv == Init => IInv
<1> SUFFICES ASSUME Init PROVE IInv
  OBVIOUS
<1> USE TimesAssumption, NamesAssumption DEF Init
<1>1. TypeOK
  BY DEF TypeOK
<1>2. LoginInv /\ WaitInv
  BY DEF LoginInv, WaitInv
<1>3. SessionIsOwn /\ FirstCallbackWins
  BY DEF SessionIsOwn, FirstCallbackWins, NoAnswer
<1> QED BY <1>1, <1>2, <1>3 DEF IInv

-----------------------------------------------------------------------------
(* One lemma for each action                                               *)

(* A login that finds a valid session stops, any other begins to wait now. *)
LEMMA BeginInv ==
  ASSUME IInv, NEW l \in Logins, NEW h \in Hosts, Begin(l, h)
  PROVE  IInv'
<1> USE TimesAssumption, NamesAssumption DEF IInv, TypeOK, Begin, Becomes
<1>1. TypeOK'
  BY DEF Sessions
<1>2. LoginInv'
  BY DEF LoginInv, OwnCallback, Waiting, Nobody, Requests, Nonces
<1>3. WaitInv'
  BY DEF WaitInv
<1>4. SessionIsOwn'
  BY DEF SessionIsOwn, LoginInv, OwnCallback
<1>5. FirstCallbackWins'
  BY DEF FirstCallbackWins, LoginInv
<1> QED BY <1>1, <1>2, <1>3, <1>4, <1>5 DEF IInv

(* A login that cannot listen has met a fault.                             *)
LEMMA SetupFailsInv ==
  ASSUME IInv, NEW l \in Logins, SetupFails(l)
  PROVE  IInv'
<1> USE TimesAssumption, NamesAssumption DEF IInv, TypeOK, SetupFails, Becomes
<1>1. TypeOK'
  BY DEF Sessions
<1>2. LoginInv'
  BY DEF LoginInv, OwnCallback, Waiting, Nobody, Requests, Nonces
<1>3. WaitInv'
  BY DEF WaitInv
<1>4. SessionIsOwn'
  BY DEF SessionIsOwn, LoginInv, OwnCallback
<1>5. FirstCallbackWins'
  BY DEF FirstCallbackWins, LoginInv
<1> QED BY <1>1, <1>2, <1>3, <1>4, <1>5 DEF IInv

(* A connection reaches only a login that has shown no page yet.           *)
LEMMA ConnectInv ==
  ASSUME IInv, NEW l \in Logins, NEW q \in Requests, Connect(l, q)
  PROVE  IInv'
<1> USE TimesAssumption, NamesAssumption DEF IInv, TypeOK, Connect
<1>1. TypeOK'
  BY DEF Sessions
<1>2. LoginInv'
  BY DEF LoginInv, OwnCallback, Waiting, Nobody, Requests, Nonces
<1>3. WaitInv'
  BY DEF WaitInv
<1>4. SessionIsOwn'
  BY DEF SessionIsOwn, LoginInv, OwnCallback
<1>5. FirstCallbackWins'
  BY DEF FirstCallbackWins, LoginInv
<1> QED BY <1>1, <1>2, <1>3, <1>4, <1>5 DEF IInv

(* The connection is taken before the deadline is over.                    *)
LEMMA AcceptInv ==
  ASSUME IInv, NEW l \in Logins, Accept(l)
  PROVE  IInv'
<1> USE TimesAssumption, NamesAssumption DEF IInv, TypeOK, Accept, Becomes
<1>1. TypeOK'
  BY DEF Sessions
<1>2. LoginInv'
  BY DEF LoginInv, OwnCallback, Waiting, Nobody, Requests, Nonces
<1>3. WaitInv'
  BY DEF WaitInv
<1>4. SessionIsOwn'
  BY DEF SessionIsOwn, LoginInv, OwnCallback
<1>5. FirstCallbackWins'
  BY DEF FirstCallbackWins, LoginInv
<1> QED BY <1>1, <1>2, <1>3, <1>4, <1>5 DEF IInv

(* A login gives up only with the deadline reached.                        *)
LEMMA GiveUpInv ==
  ASSUME IInv, NEW l \in Logins, GiveUp(l)
  PROVE  IInv'
<1> USE TimesAssumption, NamesAssumption DEF IInv, TypeOK, GiveUp, Becomes
<1>1. TypeOK'
  BY DEF Sessions
<1>2. LoginInv'
  BY DEF LoginInv, OwnCallback, Waiting, Nobody, Requests, Nonces
<1>3. WaitInv'
  BY DEF WaitInv
<1>4. SessionIsOwn'
  BY DEF SessionIsOwn, LoginInv, OwnCallback
<1>5. FirstCallbackWins'
  BY DEF FirstCallbackWins, LoginInv
<1> QED BY <1>1, <1>2, <1>3, <1>4, <1>5 DEF IInv

(* Success is shown for the login's own callback only.                     *)
LEMMA ReplyInv ==
  ASSUME IInv, NEW l \in Logins, Reply(l)
  PROVE  IInv'
<1> USE TimesAssumption, NamesAssumption DEF IInv, TypeOK, Reply, Becomes
<1>1. TypeOK'
  BY DEF Sessions
<1>2. LoginInv'
  BY DEF LoginInv, OwnCallback, Matches, Requests, Nonces, Nobody
<1>3. WaitInv'
  BY DEF WaitInv
<1>4. SessionIsOwn'
  BY DEF SessionIsOwn, LoginInv, OwnCallback
<1>5. FirstCallbackWins'
  BY DEF FirstCallbackWins, LoginInv
<1> QED BY <1>1, <1>2, <1>3, <1>4, <1>5 DEF IInv

(* What is refused is not the login's own callback.                        *)
LEMMA RefuseInv ==
  ASSUME IInv, NEW l \in Logins, Refuse(l)
  PROVE  IInv'
<1> USE TimesAssumption, NamesAssumption DEF IInv, TypeOK, Refuse, Becomes
<1>1. TypeOK'
  BY DEF Sessions
<1>2. LoginInv'
  BY DEF LoginInv, OwnCallback, Waiting, Nobody, Requests, Nonces
<1>3. WaitInv'
  BY DEF WaitInv
<1>4. SessionIsOwn'
  BY DEF SessionIsOwn, LoginInv, OwnCallback
<1>5. FirstCallbackWins'
  BY DEF FirstCallbackWins, LoginInv, Matches
<1> QED BY <1>1, <1>2, <1>3, <1>4, <1>5 DEF IInv

(* A silent client is not the login's own callback.                        *)
LEMMA ReadTimesOutInv ==
  ASSUME IInv, NEW l \in Logins, ReadTimesOut(l)
  PROVE  IInv'
<1> USE TimesAssumption, NamesAssumption DEF IInv, TypeOK, ReadTimesOut, Becomes
<1>1. TypeOK'
  BY DEF Sessions
<1>2. LoginInv'
  BY DEF LoginInv, OwnCallback, Waiting, Nobody, Requests, Nonces
<1>3. WaitInv'
  BY DEF WaitInv
<1>4. SessionIsOwn'
  BY DEF SessionIsOwn, LoginInv, OwnCallback
<1>5. FirstCallbackWins'
  BY DEF FirstCallbackWins, LoginInv
<1> QED BY <1>1, <1>2, <1>3, <1>4, <1>5 DEF IInv

(* A connection that breaks is a fault.                                    *)
LEMMA BreaksOffInv ==
  ASSUME IInv, NEW l \in Logins, BreaksOff(l)
  PROVE  IInv'
<1> USE TimesAssumption, NamesAssumption DEF IInv, TypeOK, BreaksOff, Becomes
<1>1. TypeOK'
  BY DEF Sessions
<1>2. LoginInv'
  BY DEF LoginInv, OwnCallback, Waiting, Nobody, Requests, Nonces
<1>3. WaitInv'
  BY DEF WaitInv
<1>4. SessionIsOwn'
  BY DEF SessionIsOwn, LoginInv, OwnCallback
<1>5. FirstCallbackWins'
  BY DEF FirstCallbackWins, LoginInv
<1> QED BY <1>1, <1>2, <1>3, <1>4, <1>5 DEF IInv

(* What is saved is what was replied to.                                   *)
LEMMA SaveInv ==
  ASSUME IInv, NEW l \in Logins, Save(l)
  PROVE  IInv'
<1> USE TimesAssumption, NamesAssumption DEF IInv, TypeOK, Save, Becomes
<1>1. TypeOK'
  BY DEF Sessions
<1>2. LoginInv'
  BY DEF LoginInv, OwnCallback, Waiting, Nobody, Requests, Nonces
<1>3. WaitInv'
  BY DEF WaitInv
<1>4. SessionIsOwn'
  BY DEF SessionIsOwn, LoginInv, OwnCallback
<1>5. FirstCallbackWins'
  BY DEF FirstCallbackWins, LoginInv
<1> QED BY <1>1, <1>2, <1>3, <1>4, <1>5 DEF IInv

(* A save that fails is a fault, and leaves the file alone.                *)
LEMMA SaveFailsInv ==
  ASSUME IInv, NEW l \in Logins, SaveFails(l)
  PROVE  IInv'
<1> USE TimesAssumption, NamesAssumption DEF IInv, TypeOK, SaveFails, Becomes
<1>1. TypeOK'
  BY DEF Sessions
<1>2. LoginInv'
  BY DEF LoginInv, OwnCallback, Waiting, Nobody, Requests, Nonces
<1>3. WaitInv'
  BY DEF WaitInv
<1>4. SessionIsOwn'
  BY DEF SessionIsOwn, LoginInv, OwnCallback
<1>5. FirstCallbackWins'
  BY DEF FirstCallbackWins, LoginInv
<1> QED BY <1>1, <1>2, <1>3, <1>4, <1>5 DEF IInv

(* A login that is killed leaves everything else alone.                    *)
LEMMA KillInv ==
  ASSUME IInv, NEW l \in Logins, Kill(l)
  PROVE  IInv'
<1> USE TimesAssumption, NamesAssumption DEF IInv, TypeOK, Kill, Becomes
<1>1. TypeOK'
  BY DEF Sessions
<1>2. LoginInv'
  BY DEF LoginInv, OwnCallback, Waiting, Nobody, Requests, Nonces
<1>3. WaitInv'
  BY DEF WaitInv
<1>4. SessionIsOwn'
  BY DEF SessionIsOwn, LoginInv, OwnCallback
<1>5. FirstCallbackWins'
  BY DEF FirstCallbackWins, LoginInv
<1> QED BY <1>1, <1>2, <1>3, <1>4, <1>5 DEF IInv

(* A logout leaves no session.                                             *)
LEMMA LogoutInv ==
  ASSUME IInv, NEW o \in Logouts, Logout(o)
  PROVE  IInv'
<1> USE TimesAssumption, NamesAssumption DEF IInv, TypeOK, Logout, loginVars, clocks
<1>1. TypeOK'
  BY DEF Sessions
<1>2. LoginInv'
  BY DEF LoginInv, OwnCallback, Waiting, Nobody, Requests, Nonces
<1>3. WaitInv'
  BY DEF WaitInv
<1>4. SessionIsOwn'
  BY DEF SessionIsOwn, OwnCallback
<1>5. FirstCallbackWins'
  BY DEF FirstCallbackWins, LoginInv
<1> QED BY <1>1, <1>2, <1>3, <1>4, <1>5 DEF IInv

(* A logout that fails leaves the session.                                 *)
LEMMA LogoutFailsInv ==
  ASSUME IInv, NEW o \in Logouts, LogoutFails(o)
  PROVE  IInv'
<1> USE TimesAssumption, NamesAssumption DEF IInv, TypeOK, LogoutFails, loginVars, clocks
<1>1. TypeOK'
  BY DEF Sessions
<1>2. LoginInv'
  BY DEF LoginInv, OwnCallback, Waiting, Nobody, Requests, Nonces
<1>3. WaitInv'
  BY DEF WaitInv
<1>4. SessionIsOwn'
  BY DEF SessionIsOwn, LoginInv, OwnCallback
<1>5. FirstCallbackWins'
  BY DEF FirstCallbackWins, LoginInv
<1> QED BY <1>1, <1>2, <1>3, <1>4, <1>5 DEF IInv

(* A reader takes for valid only the session of its own environment.       *)
LEMMA AskInv ==
  ASSUME IInv, NEW r \in Readers, NEW h \in Hosts, NEW token \in BOOLEAN, Ask(r, h, token)
  PROVE  IInv'
<1> USE TimesAssumption, NamesAssumption DEF IInv, TypeOK, Ask, loginVars, clocks
<1>1. TypeOK'
  BY DEF Answers, ResolveAuth, Load, Sessions
<1>2. LoginInv'
  BY DEF LoginInv, OwnCallback, Waiting, Nobody, Requests, Nonces
<1>3. WaitInv'
  BY DEF WaitInv
<1>4. SessionIsOwn'
  BY DEF SessionIsOwn, OwnCallback, ResolveAuth, Load
<1>5. FirstCallbackWins'
  BY DEF FirstCallbackWins, LoginInv
<1> QED BY <1>1, <1>2, <1>3, <1>4, <1>5 DEF IInv

(* No deadline of a waiting login is passed over.                          *)
LEMMA TickInv ==
  ASSUME IInv, Tick
  PROVE  IInv'
<1> USE TimesAssumption, NamesAssumption DEF IInv, TypeOK, Tick, loginVars
<1>1. TypeOK'
  BY DEF Sessions
<1>2. LoginInv'
  BY DEF LoginInv, OwnCallback, Waiting, Nobody, Requests, Nonces
<1>3. WaitInv'
  BY DEF WaitInv
<1>4. SessionIsOwn'
  BY DEF SessionIsOwn, LoginInv, OwnCallback
<1>5. FirstCallbackWins'
  BY DEF FirstCallbackWins, LoginInv
<1> QED BY <1>1, <1>2, <1>3, <1>4, <1>5 DEF IInv

(* The deadlines do not depend on the wall clock.                          *)
LEMMA SetClockInv ==
  ASSUME IInv, SetClock
  PROVE  IInv'
<1> USE TimesAssumption, NamesAssumption DEF IInv, TypeOK, SetClock, loginVars
<1>1. TypeOK'
  BY DEF Sessions
<1>2. LoginInv'
  BY DEF LoginInv, OwnCallback, Waiting, Nobody, Requests, Nonces
<1>3. WaitInv'
  BY DEF WaitInv
<1>4. SessionIsOwn'
  BY DEF SessionIsOwn, LoginInv, OwnCallback
<1>5. FirstCallbackWins'
  BY DEF FirstCallbackWins, LoginInv
<1> QED BY <1>1, <1>2, <1>3, <1>4, <1>5 DEF IInv

(* A step that changes no variable keeps the invariant.                    *)
LEMMA StutterStep == IInv /\ UNCHANGED vars => IInv'
BY DEF vars, IInv, TypeOK, LoginInv, WaitInv, SessionIsOwn, FirstCallbackWins, OwnCallback

(* Every step keeps the invariant.                                         *)
LEMMA InvariantNext == IInv /\ [Next]_vars => IInv'
<1> SUFFICES ASSUME IInv, [Next]_vars PROVE IInv'
  OBVIOUS
<1>1. CASE \E l \in Logins : LoginStep(l)
  BY <1>1, BeginInv, SetupFailsInv, AcceptInv, GiveUpInv, ReplyInv, RefuseInv, ReadTimesOutInv,
     BreaksOffInv, SaveInv, SaveFailsInv DEF LoginStep
<1>2. CASE \E l \in Logins : Kill(l)
  BY <1>2, KillInv
<1>3. CASE \E l \in Logins, q \in Requests : Connect(l, q)
  BY <1>3, ConnectInv
<1>4. CASE \E o \in Logouts : Logout(o) \/ LogoutFails(o)
  BY <1>4, LogoutInv, LogoutFailsInv
<1>5. CASE \E r \in Readers, h \in Hosts, token \in BOOLEAN : Ask(r, h, token)
  BY <1>5, AskInv
<1>6. CASE Tick \/ SetClock
  BY <1>6, TickInv, SetClockInv
<1>7. CASE UNCHANGED vars
  BY <1>7, StutterStep
<1> QED BY <1>1, <1>2, <1>3, <1>4, <1>5, <1>6, <1>7 DEF Next

-----------------------------------------------------------------------------
(* The inductive invariant holds throughout.                               *)
THEOREM Invariance == Spec => []IInv
BY InitInv, InvariantNext, PTL DEF Spec

(* Logins, credentials, answers and clocks keep their types: an expiry     *)
(* saved by save_credentials lies one lifetime after its time of issue.    *)
THEOREM TypeCorrect == Spec => []TypeOK
<1>1. IInv => TypeOK
  BY DEF IInv
<1> QED BY Invariance, <1>1, PTL

(* What init saves, and what a later command takes for an identity, comes  *)
(* from the browser tab that very init opened, for the same API URL.       *)
THEOREM SessionsAreOwn == Spec => []SessionIsOwn
<1>1. IInv => SessionIsOwn
  BY DEF IInv
<1> QED BY Invariance, <1>1, PTL

(* A login whose own tab comes back first fails only for a fault.          *)
THEOREM FirstCallbackIsTaken == Spec => []FirstCallbackWins
<1>1. IInv => FirstCallbackWins
  BY DEF IInv
<1> QED BY Invariance, <1>1, PTL

(* accept_callback and handle_one together never wait past the deadline    *)
(* and one read timeout.                                                   *)
THEOREM LoginsEndInTime == Spec => []EndsInTime
<1>1. IInv => EndsInTime
  BY TimesAssumption DEF IInv, TypeOK, WaitInv, EndsInTime, Waiting
<1> QED BY Invariance, <1>1, PTL
============================================================================
