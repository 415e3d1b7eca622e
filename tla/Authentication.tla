--------------------------- MODULE Authentication ---------------------------
(***************************************************************************)
(* `no-tickets init` (commands/init.rs, auth_server.rs): a browser is sent *)
(* to sign in and comes back to a local listener that takes one connection; *)
(* what the callback carries is saved as the session credentials.  Beside  *)
(* it `logout`, which deletes them, and `status` and `publish`, which read *)
(* them (credentials.rs, auth.rs).  The deadlines are measured by a clock  *)
(* that only goes forward, the expiry by one that can be set.              *)
(***************************************************************************)
EXTENDS Naturals

CONSTANTS
  Logins,        \* runs of `init`
  Logouts,       \* runs of `logout`
  Readers,       \* runs of `status`, or of `publish` up to its actor
  Hosts,         \* the API URLs the environment can resolve to
  Timeout,       \* DEFAULT_TIMEOUT: how long init waits for the browser
  ReadTimeout,   \* of an accepted connection
  Lifetime,      \* SESSION_DURATION_DAYS
  MaxTime,       \* bound: the monotonic clock stays within 0..MaxTime
  MaxWall        \* bound: the wall clock stays within 0..MaxWall

ASSUME TimesAssumption ==
  /\ Timeout \in Nat /\ ReadTimeout \in Nat /\ Lifetime \in Nat
  /\ MaxTime \in Nat /\ MaxWall \in Nat

NoSession == [by |-> "nobody"]

ASSUME NamesAssumption == "nobody" \notin Logins /\ Hosts # {}

VARIABLES
  pc,       \* idle, listening, reading, replied; saved, reused, failed, killed
  host,     \* the API URL a login resolved
  began,    \* when it began to wait
  first,    \* the first connection made to its listener
  readAt,   \* when it was accepted
  page,     \* what the browser was shown: nothing, an error or the success page
  file,     \* the credentials file
  done,     \* the runs of logout that are over
  answer,   \* what a reader was told
  now,      \* Instant::now()
  wall,     \* OffsetDateTime::now_utc()
  fault     \* history: the logins that met a failing call or a browser that left

vars == <<pc, host, began, first, readAt, page, file, done, answer, now, wall, fault>>

loginVars == <<pc, host, began, first, readAt, page, fault>>
clocks == <<now, wall>>

Waiting == {"listening", "reading"}

Sessions == [by : Logins, host : Hosts, expires : Lifetime..(MaxWall + Lifetime)]

(* generate_nonce: 16 random bytes, so that no two logins share a nonce;   *)
(* the nonce of a login goes by its name.                                  *)
Nonces == Logins

(* A tab's callback carries the nonce of the login that opened it.  Other  *)
(* requests are for another path or method, lack a parameter or cannot be  *)
(* read; a silent client connects and sends nothing.                       *)
Requests ==
  [kind : {"callback"}, nonce : Nonces] \cup [kind : {"other", "silent"}, nonce : {"nobody"}]

Answers == [result : {"none", "valid", "mismatch", "env"}, host : Hosts, by : Logins \cup {"nobody"}]

Nobody == [kind |-> "nobody", nonce |-> "nobody"]

NoAnswer == [result |-> "unasked"]

-----------------------------------------------------------------------------
(* Slip: a session is taken whatever environment it was issued for.        *)
Load_AnyHost(h) ==
  IF file = NoSession \/ file.expires <= wall THEN "none" ELSE "valid"

(* credentials::load: a session counts while it has not expired and was    *)
(* issued for the current API URL.                                         *)
Load(h) ==
  IF file = NoSession \/ file.expires <= wall THEN "none"
  ELSE IF file.host # h THEN "mismatch" ELSE "valid"

(* resolve_auth: NO_TICKETS_TOKEN comes first and is no identity.          *)
ResolveAuth(h, token) ==
  LET result == IF token THEN "env" ELSE Load(h)
  IN  [result |-> result, host |-> h, by |-> IF result = "valid" THEN file.by ELSE "nobody"]

Init ==
  /\ pc = [l \in Logins |-> "idle"]
  /\ host = [l \in Logins |-> CHOOSE h \in Hosts : TRUE]
  /\ began = [l \in Logins |-> 0]
  /\ first = [l \in Logins |-> Nobody]
  /\ readAt = [l \in Logins |-> 0]
  /\ page = [l \in Logins |-> "nothing"]
  /\ file = NoSession
  /\ done = {}
  /\ answer = [r \in Readers |-> NoAnswer]
  /\ now = 0
  /\ wall = 0
  /\ fault = {}

Becomes(l, state) == pc' = [pc EXCEPT ![l] = state]

(* init::run up to the wait: a valid session makes an end of it, else a    *)
(* listener is bound and the browser opened.                               *)
Begin(l, h) ==
  /\ pc[l] = "idle"
  /\ now + Timeout + ReadTimeout <= MaxTime
  /\ host' = [host EXCEPT ![l] = h]
  /\ began' = [began EXCEPT ![l] = now]
  /\ Becomes(l, IF Load(h) = "valid" THEN "reused" ELSE "listening")
  /\ UNCHANGED <<first, readAt, page, file, done, answer, now, wall, fault>>

(* URLs that do not resolve, or no port to bind.                           *)
SetupFails(l) ==
  /\ pc[l] = "idle"
  /\ Becomes(l, "failed")
  /\ fault' = fault \cup {l}
  /\ UNCHANGED <<host, began, first, readAt, page, file, done, answer, now, wall>>

(* The first connection to the listener (external).  Later ones stay in    *)
(* the kernel's queue, of which accept_callback takes no other.            *)
Connect(l, q) ==
  /\ pc[l] = "listening"
  /\ first[l] = Nobody
  /\ first' = [first EXCEPT ![l] = q]
  /\ UNCHANGED <<pc, host, began, readAt, page, file, done, answer, now, wall, fault>>

(* accept_callback takes the first connection, and no other.               *)
Accept(l) ==
  /\ pc[l] = "listening"
  /\ first[l] # Nobody
  /\ Becomes(l, "reading")
  /\ readAt' = [readAt EXCEPT ![l] = now]
  /\ UNCHANGED <<host, began, first, page, file, done, answer, now, wall, fault>>

(* accept_callback polls: the deadline is looked at when nobody is there.  *)
GiveUp(l) ==
  /\ pc[l] = "listening"
  /\ first[l] = Nobody
  /\ now >= began[l] + Timeout
  /\ Becomes(l, "failed")
  /\ UNCHANGED <<host, began, first, readAt, page, file, done, answer, now, wall, fault>>

(* Slip: the comparison of the state is inverted.                          *)
Matches_Inverted(l, q) == q.kind = "callback" /\ q.nonce # l

(* handle_one: GET /callback with token, email and this run's nonce.       *)
Matches(l, q) == q.kind = "callback" /\ q.nonce = l

(* handle_one writes the success page and hands over token and email.      *)
Reply(l) ==
  /\ pc[l] = "reading"
  /\ Matches(l, first[l])
  /\ Becomes(l, "replied")
  /\ page' = [page EXCEPT ![l] = "success"]
  /\ UNCHANGED <<host, began, first, readAt, file, done, answer, now, wall, fault>>

(* handle_one refuses what is no callback of this run: 404, 405, 400, or   *)
(* not even that.  The listener is gone, and with it the login.            *)
Refuse(l) ==
  /\ pc[l] = "reading"
  /\ ~Matches(l, first[l]) /\ first[l].kind # "silent"
  /\ Becomes(l, "failed")
  /\ page' = [page EXCEPT ![l] = "error"]
  /\ UNCHANGED <<host, began, first, readAt, file, done, answer, now, wall, fault>>

(* A client that connects and says nothing: the read times out.            *)
ReadTimesOut(l) ==
  /\ pc[l] = "reading"
  /\ first[l].kind = "silent"
  /\ now >= readAt[l] + ReadTimeout
  /\ Becomes(l, "failed")
  /\ UNCHANGED <<host, began, first, readAt, page, file, done, answer, now, wall, fault>>

(* The browser breaks the connection off, or is too slow: a read or write  *)
(* of handle_one fails.                                                    *)
BreaksOff(l) ==
  /\ pc[l] = "reading"
  /\ first[l].kind # "silent"
  /\ Becomes(l, "failed")
  /\ fault' = fault \cup {l}
  /\ UNCHANGED <<host, began, first, readAt, page, file, done, answer, now, wall>>

(* save_credentials: a temporary file renamed over the credentials.        *)
Save(l) ==
  /\ pc[l] = "replied"
  /\ file' = [by |-> l, host |-> host[l], expires |-> wall + Lifetime]
  /\ Becomes(l, "saved")
  /\ UNCHANGED <<host, began, first, readAt, page, done, answer, now, wall, fault>>

(* Any call of save_credentials fails; the temporary file is removed.      *)
SaveFails(l) ==
  /\ pc[l] = "replied"
  /\ Becomes(l, "failed")
  /\ fault' = fault \cup {l}
  /\ UNCHANGED <<host, began, first, readAt, page, file, done, answer, now, wall>>

Kill(l) ==
  /\ pc[l] \in Waiting \cup {"replied"}
  /\ Becomes(l, "killed")
  /\ UNCHANGED <<host, began, first, readAt, page, file, done, answer, now, wall, fault>>

(* logout::run: the file is deleted, if there is one.                      *)
Logout(o) ==
  /\ o \notin done
  /\ done' = done \cup {o}
  /\ file' = NoSession
  /\ UNCHANGED <<loginVars, answer, clocks>>

(* The file cannot be deleted: exit code 1.                                *)
LogoutFails(o) ==
  /\ o \notin done
  /\ file # NoSession
  /\ done' = done \cup {o}
  /\ UNCHANGED <<loginVars, file, answer, clocks>>

(* status, or the fourth branch of actor::resolve.                         *)
Ask(r, h, token) ==
  /\ answer[r] = NoAnswer
  /\ answer' = [answer EXCEPT ![r] = ResolveAuth(h, token)]
  /\ UNCHANGED <<loginVars, file, done, clocks>>

(* Slip: the accepted stream is left without a read timeout.               *)
Tick_NoReadTimeout ==
  /\ now < MaxTime
  /\ \A l \in Logins : pc[l] = "listening" => first[l] = Nobody /\ now < began[l] + Timeout
  /\ now' = now + 1
  /\ wall' = IF wall < MaxWall THEN wall + 1 ELSE wall
  /\ UNCHANGED <<loginVars, file, done, answer>>

(* Time passes.  Polls are far closer together than one unit of time, so a *)
(* pending connection is accepted, and a deadline met, before the next.    *)
Tick ==
  /\ now < MaxTime
  /\ \A l \in Logins :
       /\ pc[l] = "listening" => first[l] = Nobody /\ now < began[l] + Timeout
       /\ pc[l] = "reading" => now < readAt[l] + ReadTimeout
  /\ now' = now + 1
  /\ wall' = IF wall < MaxWall THEN wall + 1 ELSE wall
  /\ UNCHANGED <<loginVars, file, done, answer>>

(* The user or NTP sets the clock.                                         *)
SetClock ==
  /\ wall' \in 0..MaxWall
  /\ wall' # wall
  /\ UNCHANGED <<loginVars, file, done, answer, now>>

LoginStep(l) ==
  \/ \E h \in Hosts : Begin(l, h)
  \/ SetupFails(l) \/ Accept(l) \/ GiveUp(l) \/ Reply(l) \/ Refuse(l) \/ ReadTimesOut(l)
  \/ BreaksOff(l) \/ Save(l) \/ SaveFails(l)

Next ==
  \/ \E l \in Logins : LoginStep(l) \/ Kill(l)
  \/ \E l \in Logins, q \in Requests : Connect(l, q)
  \/ \E o \in Logouts : Logout(o) \/ LogoutFails(o)
  \/ \E r \in Readers, h \in Hosts, token \in BOOLEAN : Ask(r, h, token)
  \/ Tick
  \/ SetClock

Spec == Init /\ [][Next]_vars

-----------------------------------------------------------------------------
TypeOK ==
  /\ pc \in [Logins -> {"idle", "listening", "reading", "replied", "saved", "reused",
                         "failed", "killed"}]
  /\ host \in [Logins -> Hosts]
  /\ began \in [Logins -> 0..MaxTime]
  /\ first \in [Logins -> Requests \cup {Nobody}]
  /\ readAt \in [Logins -> 0..MaxTime]
  /\ page \in [Logins -> {"nothing", "error", "success"}]
  /\ file \in Sessions \cup {NoSession}
  /\ done \subseteq Logouts
  /\ answer \in [Readers -> Answers \cup {NoAnswer}]
  /\ now \in 0..MaxTime
  /\ wall \in 0..MaxWall
  /\ fault \subseteq Logins

(* What is saved, and what a later command takes for an identity, comes    *)
(* from the tab this very login opened, is used only in the environment it *)
(* was issued for, and the browser was told.                               *)
OwnCallback(l, h) ==
  /\ first[l] = [kind |-> "callback", nonce |-> l]
  /\ page[l] = "success"
  /\ host[l] = h

SessionIsOwn ==
  /\ file # NoSession => OwnCallback(file.by, file.host)
  /\ \A r \in Readers : answer[r].result = "valid" => OwnCallback(answer[r].by, answer[r].host)

(* A login whose tab comes back first, and in time, fails only for a fault *)
(* of a call or a browser that left; and only then, or killed, does a      *)
(* browser show success for a login that saved nothing.                    *)
FirstCallbackWins ==
  \A l \in Logins :
    pc[l] = "failed" /\ l \notin fault =>
      /\ page[l] # "success"
      /\ IF first[l] = Nobody THEN now >= began[l] + Timeout
         ELSE first[l] # [kind |-> "callback", nonce |-> l]

(* init never waits longer than the deadline and one read timeout, however *)
(* the wall clock is set and whoever connects.                             *)
EndsInTime ==
  \A l \in Logins : pc[l] \in Waiting => now <= began[l] + Timeout + ReadTimeout

-----------------------------------------------------------------------------
(* The inductive invariant behind the safety properties                    *)

LoginInv ==
  \A l \in Logins :
    /\ pc[l] = "idle" => first[l] = Nobody /\ l \notin fault
    /\ pc[l] = "reading" => first[l] # Nobody
    /\ page[l] = "success" =>
         /\ pc[l] \in {"replied", "saved", "failed", "killed"}
         /\ OwnCallback(l, host[l])
         /\ pc[l] = "failed" => l \in fault
    /\ pc[l] = "replied" => page[l] = "success"

WaitInv ==
  \A l \in Logins :
    /\ pc[l] = "listening" => began[l] <= now /\ now <= began[l] + Timeout
    /\ pc[l] = "reading" => /\ readAt[l] <= began[l] + Timeout
                            /\ now <= readAt[l] + ReadTimeout

IInv == /\ TypeOK /\ LoginInv /\ WaitInv /\ SessionIsOwn /\ FirstCallbackWins
============================================================================
