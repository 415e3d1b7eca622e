------------------------ MODULE SessionState_proofs ------------------------
(***************************************************************************)
(* Proofs of the safety properties of SessionState, for any number of      *)
(* starts, ends and publishes of one user.                                 *)
(***************************************************************************)
EXTENDS SessionState, TLAPS

(* Whatever its flags, a publisher has exactly one source, and is by a     *)
(* session only when the file holds one that has not expired.              *)
LEMMA ResolvedType ==
  ASSUME NEW p \in Publishers
  PROVE  /\ Resolved(p) \in Sources \ {"none"}
         /\ Resolved(p) = "session" => session \in Starters
         /\ Resolved(p) \in {"credentials", "unattributed"} /\ AgentOk(p) /\ session \in Starters
              => IsExpired(session)
<1>1. BySession(p) => session \in Starters
  BY DEF BySession
<1>2. ~BySession(p) /\ AgentOk(p) /\ session \in Starters => IsExpired(session)
  BY DEF BySession
<1> QED BY <1>1, <1>2 DEF Resolved, Sources

(* No process has begun: nothing has been done and nothing overlooked.     *)
LEMMA InitInv == Init => IInv
<1> SUFFICES ASSUME Init PROVE IInv
  OBVIOUS
<1> USE FilesAssumption, TimeAssumption, ProcessesAssumption DEF Init, Procs
<1>1. TypeOK
  BY DEF TypeOK, SessionFiles, Sources, Over
<1>2. OrderInv /\ FileInv /\ MarkerInv /\ PublishInv
  BY DEF OrderInv, FileInv, MarkerInv, PublishInv
<1>3. NoStaleSession /\ SessionSticks /\ RepeatNeedsEnd /\ HintComesBack
  BY DEF NoStaleSession, SessionSticks, RepeatNeedsEnd, HintComesBack
<1> QED BY <1>1, <1>2, <1>3 DEF IInv

-----------------------------------------------------------------------------
(* Types                                                                   *)

(* Every action keeps the types.                                           *)
LEMMA TypeNext == TypeOK /\ [Next]_vars => TypeOK'
<1> SUFFICES ASSUME TypeOK, [Next]_vars PROVE TypeOK'
  OBVIOUS
<1> USE FilesAssumption, TimeAssumption DEF TypeOK, SessionFiles, Procs, Over, publishVars, sessionVars, hintVars
<1>1. CASE \E s \in Starters : StarterStep(s)
  BY <1>1 DEF StarterStep, StartStamps, StartWrites, StartFails, Begin, Step, End
<1>2. CASE \E e \in Enders : EnderStep(e)
  <2> PICK e \in Enders : EnderStep(e)
    BY <1>2
  <2>1. CASE EndChecks(e)
    BY <2>1 DEF EndChecks, Begin
  <2>2. CASE EndRemoves(e) \/ EndFindsNothing(e) \/ EndRemoveFails(e)
    BY <2>2 DEF EndRemoves, EndFindsNothing, EndRemoveFails, Step, End
  <2>3. CASE ClearReads(e)
    BY <2>3 DEF ClearReads, Step, End
  <2>4. CASE ClearWrites(e) \/ ClearWriteFails(e)
    BY <2>4 DEF ClearWrites, ClearWriteFails, Step, End
  <2> QED BY <2>1, <2>2, <2>3, <2>4 DEF EnderStep
<1>3. CASE \E p \in Publishers : PublisherStep(p)
  <2> PICK p \in Publishers : PublisherStep(p)
    BY <1>3
  <2>1. CASE Resolve(p)
    BY <2>1, ResolvedType DEF Resolve, Begin, Sources
  <2>2. CASE PublishFails(p) \/ PublishSucceeds(p)
    BY <2>2 DEF PublishFails, PublishSucceeds, Step, End
  <2>3. CASE HintReads(p) \/ HintMarks(p) \/ HintMarkFails(p)
    BY <2>3 DEF HintReads, HintMarks, HintMarkFails, Step, End
  <2> QED BY <2>1, <2>2, <2>3 DEF PublisherStep
<1>4. CASE \E x \in Procs : Kill(x)
  BY <1>4 DEF Kill
<1>5. CASE Tick
  BY <1>5 DEF Tick
<1>6. CASE UNCHANGED vars
  BY <1>6 DEF vars
<1> QED BY <1>1, <1>2, <1>3, <1>4, <1>5, <1>6 DEF Next

-----------------------------------------------------------------------------
(* The other conjuncts, action by action                                   *)

Rest == /\ OrderInv /\ FileInv /\ MarkerInv /\ PublishInv
        /\ NoStaleSession /\ SessionSticks /\ RepeatNeedsEnd /\ HintComesBack

(* A start that begins has put nothing into the file yet.                  *)
LEMMA StartStampsInv ==
  ASSUME TypeOK, TypeOK', Rest, NEW s \in Starters, StartStamps(s)
  PROVE  Rest'
<1> USE ProcessesAssumption DEF Procs, Over, TypeOK, SessionFiles, Rest, OrderInv, StartStamps,
        Begin, publishVars, hintVars
<1>1. OrderInv'
  OBVIOUS
<1>2. FileInv'
  BY DEF FileInv, EndedSince
<1>3. MarkerInv'
  BY DEF MarkerInv
<1>4. PublishInv'
  BY DEF PublishInv
<1>5. NoStaleSession'
  BY DEF NoStaleSession, FileInv
<1>6. SessionSticks'
  BY DEF SessionSticks, FileInv, EndedSince
<1>7. RepeatNeedsEnd'
  BY DEF RepeatNeedsEnd, MarkerInv
<1>8. HintComesBack'
  BY DEF HintComesBack, MarkerInv
<1> QED BY <1>1, <1>2, <1>3, <1>4, <1>5, <1>6, <1>7, <1>8 DEF Rest

(* The file now holds s, which was running when the others began.          *)
LEMMA StartWritesInv ==
  ASSUME TypeOK, TypeOK', Rest, NEW s \in Starters, StartWrites(s)
  PROVE  Rest'
<1> USE ProcessesAssumption DEF Procs, Over, TypeOK, SessionFiles, Rest, OrderInv, StartWrites,
        Step, End, publishVars, hintVars
<1>1. OrderInv'
  OBVIOUS
<1>2. FileInv'
  BY DEF FileInv, EndedSince
<1>3. MarkerInv'
  BY DEF MarkerInv
<1>4. PublishInv'
  BY DEF PublishInv
<1>5. NoStaleSession'
  BY DEF NoStaleSession, FileInv
<1>6. SessionSticks'
  BY DEF SessionSticks, FileInv, EndedSince
<1>7. RepeatNeedsEnd'
  BY DEF RepeatNeedsEnd, MarkerInv
<1>8. HintComesBack'
  BY DEF HintComesBack, MarkerInv
<1> QED BY <1>1, <1>2, <1>3, <1>4, <1>5, <1>6, <1>7, <1>8 DEF Rest

(* A start that fails leaves the file to whoever has it.                   *)
LEMMA StartFailsInv ==
  ASSUME TypeOK, TypeOK', Rest, NEW s \in Starters, StartFails(s)
  PROVE  Rest'
<1> USE ProcessesAssumption DEF Procs, Over, TypeOK, SessionFiles, Rest, OrderInv, StartFails,
        Step, End, sessionVars, publishVars, hintVars
<1>1. OrderInv'
  OBVIOUS
<1>2. FileInv'
  BY DEF FileInv, EndedSince
<1>3. MarkerInv'
  BY DEF MarkerInv
<1>4. PublishInv'
  BY DEF PublishInv
<1>5. NoStaleSession'
  BY DEF NoStaleSession, FileInv
<1>6. SessionSticks'
  BY DEF SessionSticks, FileInv, EndedSince
<1>7. RepeatNeedsEnd'
  BY DEF RepeatNeedsEnd, MarkerInv
<1>8. HintComesBack'
  BY DEF HintComesBack, MarkerInv
<1> QED BY <1>1, <1>2, <1>3, <1>4, <1>5, <1>6, <1>7, <1>8 DEF Rest

(* An end that finds no file overlooks no session.                         *)
LEMMA EndChecksInv ==
  ASSUME TypeOK, TypeOK', Rest, NEW e \in Enders, EndChecks(e)
  PROVE  Rest'
<1> USE ProcessesAssumption, FilesAssumption DEF Procs, Over, TypeOK, SessionFiles, Rest,
        OrderInv, EndChecks, Begin, sessionVars, publishVars, hintVars
<1>1. OrderInv'
  OBVIOUS
<1>2. FileInv'
  BY DEF FileInv, EndedSince
<1>3. MarkerInv'
  BY DEF MarkerInv
<1>4. PublishInv'
  BY DEF PublishInv
<1>5. NoStaleSession'
  BY DEF NoStaleSession, FileInv
<1>6. SessionSticks'
  BY DEF SessionSticks, FileInv, EndedSince
<1>7. RepeatNeedsEnd'
  BY DEF RepeatNeedsEnd, MarkerInv
<1>8. HintComesBack'
  BY DEF HintComesBack, MarkerInv
<1> QED BY <1>1, <1>2, <1>3, <1>4, <1>5, <1>6, <1>7, <1>8 DEF Rest

(* An end that removes the file was running when its start succeeded.      *)
LEMMA EndRemovesInv ==
  ASSUME TypeOK, TypeOK', Rest, NEW e \in Enders, EndRemoves(e)
  PROVE  Rest'
<1> USE ProcessesAssumption, FilesAssumption DEF Procs, Over, TypeOK, SessionFiles, Rest,
        OrderInv, EndRemoves, Step, publishVars, hintVars
<1>1. OrderInv'
  OBVIOUS
<1>2. FileInv'
  BY DEF FileInv, EndedSince
<1>3. MarkerInv'
  BY DEF MarkerInv
<1>4. PublishInv'
  BY DEF PublishInv
<1>5. NoStaleSession'
  BY DEF NoStaleSession, FileInv
<1>6. SessionSticks'
  BY DEF SessionSticks, FileInv, EndedSince
<1>7. RepeatNeedsEnd'
  BY DEF RepeatNeedsEnd, MarkerInv
<1>8. HintComesBack'
  BY DEF HintComesBack, MarkerInv
<1> QED BY <1>1, <1>2, <1>3, <1>4, <1>5, <1>6, <1>7, <1>8 DEF Rest

(* An end that loses the race claims nothing.                              *)
LEMMA EndFindsNothingInv ==
  ASSUME TypeOK, TypeOK', Rest, NEW e \in Enders, EndFindsNothing(e)
  PROVE  Rest'
<1> USE ProcessesAssumption DEF Procs, Over, TypeOK, SessionFiles, Rest, OrderInv,
        EndFindsNothing, Step, End, sessionVars, publishVars, hintVars
<1>1. OrderInv'
  OBVIOUS
<1>2. FileInv'
  BY DEF FileInv, EndedSince
<1>3. MarkerInv'
  BY DEF MarkerInv
<1>4. PublishInv'
  BY DEF PublishInv
<1>5. NoStaleSession'
  BY DEF NoStaleSession, FileInv
<1>6. SessionSticks'
  BY DEF SessionSticks, FileInv, EndedSince
<1>7. RepeatNeedsEnd'
  BY DEF RepeatNeedsEnd, MarkerInv
<1>8. HintComesBack'
  BY DEF HintComesBack, MarkerInv
<1> QED BY <1>1, <1>2, <1>3, <1>4, <1>5, <1>6, <1>7, <1>8 DEF Rest

(* Nor does one whose removal fails.                                       *)
LEMMA EndRemoveFailsInv ==
  ASSUME TypeOK, TypeOK', Rest, NEW e \in Enders, EndRemoveFails(e)
  PROVE  Rest'
<1> USE ProcessesAssumption DEF Procs, Over, TypeOK, SessionFiles, Rest, OrderInv, EndRemoveFails,
        Step, End, sessionVars, publishVars, hintVars
<1>1. OrderInv'
  OBVIOUS
<1>2. FileInv'
  BY DEF FileInv, EndedSince
<1>3. MarkerInv'
  BY DEF MarkerInv
<1>4. PublishInv'
  BY DEF PublishInv
<1>5. NoStaleSession'
  BY DEF NoStaleSession, FileInv
<1>6. SessionSticks'
  BY DEF SessionSticks, FileInv, EndedSince
<1>7. RepeatNeedsEnd'
  BY DEF RepeatNeedsEnd, MarkerInv
<1>8. HintComesBack'
  BY DEF HintComesBack, MarkerInv
<1> QED BY <1>1, <1>2, <1>3, <1>4, <1>5, <1>6, <1>7, <1>8 DEF Rest

(* A missing state.json has no marker to clear.                            *)
LEMMA ClearReadsInv ==
  ASSUME TypeOK, TypeOK', Rest, NEW e \in Enders, ClearReads(e)
  PROVE  Rest'
<1> USE ProcessesAssumption DEF Procs, Over, TypeOK, SessionFiles, Rest, OrderInv, ClearReads,
        Step, End, sessionVars, publishVars, hintVars
<1>1. OrderInv'
  OBVIOUS
<1>2. FileInv'
  BY DEF FileInv, EndedSince
<1>3. MarkerInv'
  BY DEF MarkerInv
<1>4. PublishInv'
  BY DEF PublishInv
<1>5. NoStaleSession'
  BY DEF NoStaleSession, FileInv
<1>6. SessionSticks'
  BY DEF SessionSticks, FileInv, EndedSince
<1>7. RepeatNeedsEnd'
  BY DEF RepeatNeedsEnd, MarkerInv
<1>8. HintComesBack'
  BY DEF HintComesBack, MarkerInv
<1> QED BY <1>1, <1>2, <1>3, <1>4, <1>5, <1>6, <1>7, <1>8 DEF Rest

(* The end that clears the marker was running when it was set.             *)
LEMMA ClearWritesInv ==
  ASSUME TypeOK, TypeOK', Rest, NEW e \in Enders, ClearWrites(e)
  PROVE  Rest'
<1> USE ProcessesAssumption DEF Procs, Over, TypeOK, SessionFiles, Rest, OrderInv, ClearWrites,
        Step, End, sessionVars, publishVars
<1>1. OrderInv'
  OBVIOUS
<1>2. FileInv'
  BY DEF FileInv, EndedSince
<1>3. MarkerInv'
  BY DEF MarkerInv
<1>4. PublishInv'
  BY DEF PublishInv
<1>5. NoStaleSession'
  BY DEF NoStaleSession, FileInv
<1>6. SessionSticks'
  BY DEF SessionSticks, FileInv, EndedSince
<1>7. RepeatNeedsEnd'
  BY DEF RepeatNeedsEnd, MarkerInv
<1>8. HintComesBack'
  BY DEF HintComesBack, MarkerInv
<1> QED BY <1>1, <1>2, <1>3, <1>4, <1>5, <1>6, <1>7, <1>8 DEF Rest

(* A marker that is not cleared stays.                                     *)
LEMMA ClearWriteFailsInv ==
  ASSUME TypeOK, TypeOK', Rest, NEW e \in Enders, ClearWriteFails(e)
  PROVE  Rest'
<1> USE ProcessesAssumption DEF Procs, Over, TypeOK, SessionFiles, Rest, OrderInv,
        ClearWriteFails, Step, End, sessionVars, publishVars, hintVars
<1>1. OrderInv'
  OBVIOUS
<1>2. FileInv'
  BY DEF FileInv, EndedSince
<1>3. MarkerInv'
  BY DEF MarkerInv
<1>4. PublishInv'
  BY DEF PublishInv
<1>5. NoStaleSession'
  BY DEF NoStaleSession, FileInv
<1>6. SessionSticks'
  BY DEF SessionSticks, FileInv, EndedSince
<1>7. RepeatNeedsEnd'
  BY DEF RepeatNeedsEnd, MarkerInv
<1>8. HintComesBack'
  BY DEF HintComesBack, MarkerInv
<1> QED BY <1>1, <1>2, <1>3, <1>4, <1>5, <1>6, <1>7, <1>8 DEF Rest

(* What a publish reads was put there by what came before it.              *)
LEMMA ResolveInv ==
  ASSUME TypeOK, TypeOK', Rest, NEW p \in Publishers, Resolve(p)
  PROVE  Rest'
<1> USE ProcessesAssumption, FilesAssumption DEF Procs, Over, TypeOK, SessionFiles, Rest,
        OrderInv, Resolve, Begin, sessionVars, hintVars
<1>1. OrderInv'
  OBVIOUS
<1>2. FileInv'
  BY DEF FileInv, PublishInv, EndedSince
<1>3. MarkerInv'
  BY DEF MarkerInv, PublishInv
<1>4. PublishInv'
  BY ResolvedType DEF PublishInv
<1>5. NoStaleSession'
  BY ResolvedType DEF NoStaleSession, FileInv, PublishInv
<1>6. SessionSticks'
  BY ResolvedType, TimeAssumption
  DEF SessionSticks, FileInv, PublishInv, EndedSince, IsExpired, AgentOk
<1>7. RepeatNeedsEnd'
  BY DEF RepeatNeedsEnd, MarkerInv, PublishInv
<1>8. HintComesBack'
  BY DEF HintComesBack, MarkerInv, PublishInv
<1> QED BY <1>1, <1>2, <1>3, <1>4, <1>5, <1>6, <1>7, <1>8 DEF Rest

(* A failed publish attributes nothing and fires nothing.                  *)
LEMMA PublishFailsInv ==
  ASSUME TypeOK, TypeOK', Rest, NEW p \in Publishers, PublishFails(p)
  PROVE  Rest'
<1> USE ProcessesAssumption DEF Procs, Over, TypeOK, SessionFiles, Rest, OrderInv, PublishFails,
        Step, End, sessionVars, publishVars, hintVars
<1>1. OrderInv'
  OBVIOUS
<1>2. FileInv'
  BY DEF FileInv, PublishInv, EndedSince
<1>3. MarkerInv'
  BY DEF MarkerInv, PublishInv
<1>4. PublishInv'
  BY DEF PublishInv
<1>5. NoStaleSession'
  BY DEF NoStaleSession, FileInv, PublishInv
<1>6. SessionSticks'
  BY SMTT(30) DEF SessionSticks, FileInv, PublishInv, EndedSince
<1>7. RepeatNeedsEnd'
  BY DEF RepeatNeedsEnd, MarkerInv, PublishInv
<1>8. HintComesBack'
  BY DEF HintComesBack, MarkerInv, PublishInv
<1> QED BY <1>1, <1>2, <1>3, <1>4, <1>5, <1>6, <1>7, <1>8 DEF Rest

(* An attributed publish ends without a look at state.json.                *)
LEMMA PublishSucceedsInv ==
  ASSUME TypeOK, TypeOK', Rest, NEW p \in Publishers, PublishSucceeds(p)
  PROVE  Rest'
<1> USE ProcessesAssumption DEF Procs, Over, TypeOK, SessionFiles, Rest, OrderInv,
        PublishSucceeds, Step, End, sessionVars, publishVars, hintVars
<1>1. OrderInv'
  <2>1. CASE source[p] = "unattributed"
    BY <2>1
  <2>2. CASE source[p] # "unattributed"
    <3>1. /\ before' = before /\ pc[p] = "post" /\ exit[p] = "running"
          /\ pc'[p] = "done" /\ \A x \in Procs \ {p} : pc'[x] = pc[x] /\ exit'[x] = exit[x]
      BY <2>2
    <3> HIDE DEF PublishSucceeds
    <3> QED
      BY <3>1, ZenonT(40)
  <2> QED
    BY <2>1, <2>2
<1>2. FileInv'
  BY SMTT(30) DEF FileInv, PublishInv, EndedSince
<1>3. MarkerInv'
  BY DEF MarkerInv, PublishInv
<1>4. PublishInv'
  BY DEF PublishInv
<1>5. NoStaleSession'
  BY DEF NoStaleSession, FileInv, PublishInv
<1>6. SessionSticks'
  BY SMTT(30) DEF SessionSticks, FileInv, PublishInv, EndedSince
<1>7. RepeatNeedsEnd'
  BY DEF RepeatNeedsEnd, MarkerInv, PublishInv
<1>8. HintComesBack'
  BY DEF HintComesBack, MarkerInv, PublishInv
<1> QED BY <1>1, <1>2, <1>3, <1>4, <1>5, <1>6, <1>7, <1>8 DEF Rest

(* A publish that stays silent has seen the marker of another.             *)
LEMMA HintReadsInv ==
  ASSUME TypeOK, TypeOK', Rest, NEW p \in Publishers, HintReads(p)
  PROVE  Rest'
<1> USE ProcessesAssumption DEF Procs, Over, TypeOK, SessionFiles, Rest, OrderInv, HintReads,
        Step, End, sessionVars, publishVars
<1>1. OrderInv'
  OBVIOUS
<1>2. FileInv'
  BY DEF FileInv, PublishInv, EndedSince
<1>3. MarkerInv'
  BY DEF MarkerInv, PublishInv
<1>4. PublishInv'
  BY DEF PublishInv
<1>5. NoStaleSession'
  BY DEF NoStaleSession, FileInv, PublishInv
<1>6. SessionSticks'
  BY SMTT(30) DEF SessionSticks, FileInv, PublishInv, EndedSince
<1>7. RepeatNeedsEnd'
  BY DEF RepeatNeedsEnd, MarkerInv, PublishInv
<1>8. HintComesBack'
  BY DEF HintComesBack, MarkerInv, PublishInv
<1> QED BY <1>1, <1>2, <1>3, <1>4, <1>5, <1>6, <1>7, <1>8 DEF Rest

(* The marker is set by a publish no earlier end could have seen.          *)
LEMMA HintMarksInv ==
  ASSUME TypeOK, TypeOK', Rest, NEW p \in Publishers, HintMarks(p)
  PROVE  Rest'
<1> USE ProcessesAssumption DEF Procs, Over, TypeOK, SessionFiles, Rest, OrderInv, HintMarks,
        Step, End, sessionVars, publishVars
<1>1. OrderInv'
  OBVIOUS
<1>2. FileInv'
  BY DEF FileInv, PublishInv, EndedSince
<1>3. MarkerInv'
  BY DEF MarkerInv, PublishInv
<1>4. PublishInv'
  BY DEF PublishInv
<1>5. NoStaleSession'
  BY DEF NoStaleSession, FileInv, PublishInv
<1>6. SessionSticks'
  BY SMTT(30) DEF SessionSticks, FileInv, PublishInv, EndedSince
<1>7. RepeatNeedsEnd'
  BY DEF RepeatNeedsEnd, MarkerInv, PublishInv
<1>8. HintComesBack'
  BY DEF HintComesBack, MarkerInv, PublishInv
<1> QED BY <1>1, <1>2, <1>3, <1>4, <1>5, <1>6, <1>7, <1>8 DEF Rest

(* A marker that could not be written leaves things as they were.          *)
LEMMA HintMarkFailsInv ==
  ASSUME TypeOK, TypeOK', Rest, NEW p \in Publishers, HintMarkFails(p)
  PROVE  Rest'
<1> USE ProcessesAssumption DEF Procs, Over, TypeOK, SessionFiles, Rest, OrderInv, HintMarkFails,
        Step, End, sessionVars, publishVars, hintVars
<1>1. OrderInv'
  OBVIOUS
<1>2. FileInv'
  BY DEF FileInv, PublishInv, EndedSince
<1>3. MarkerInv'
  BY DEF MarkerInv, PublishInv
<1>4. PublishInv'
  BY DEF PublishInv
<1>5. NoStaleSession'
  BY DEF NoStaleSession, FileInv, PublishInv
<1>6. SessionSticks'
  BY SMTT(30) DEF SessionSticks, FileInv, PublishInv, EndedSince
<1>7. RepeatNeedsEnd'
  BY DEF RepeatNeedsEnd, MarkerInv, PublishInv
<1>8. HintComesBack'
  BY DEF HintComesBack, MarkerInv, PublishInv
<1> QED BY <1>1, <1>2, <1>3, <1>4, <1>5, <1>6, <1>7, <1>8 DEF Rest

(* A kill ends a process without another trace.                            *)
LEMMA KillInv ==
  ASSUME TypeOK, TypeOK', Rest, NEW x \in Procs, Kill(x)
  PROVE  Rest'
<1> USE ProcessesAssumption DEF Procs, Over, TypeOK, SessionFiles, Rest, OrderInv, Kill, sessionVars,
        publishVars, hintVars
<1>1. OrderInv'
  OBVIOUS
<1>2. FileInv'
  BY DEF FileInv, EndedSince
<1>3. MarkerInv'
  BY DEF MarkerInv
<1>4. PublishInv'
  BY DEF PublishInv
<1>5. NoStaleSession' /\ SessionSticks'
  BY DEF NoStaleSession, SessionSticks, AgentOk, EndedSince
<1>6. RepeatNeedsEnd' /\ HintComesBack'
  BY DEF RepeatNeedsEnd, HintComesBack
<1> QED BY <1>1, <1>2, <1>3, <1>4, <1>5, <1>6 DEF Rest

(* Time passes, or nothing does: only an expiry takes notice.              *)
LEMMA IdleInv ==
  ASSUME TypeOK, TypeOK', Rest, Tick \/ UNCHANGED vars
  PROVE  Rest'
<1>1. UNCHANGED <<pc, exit, session, startedAt, state, source, by, fired, resolvedAt, marked,
                  before>>
  BY DEF Tick, vars, sessionVars, publishVars, hintVars
<1>2. (OrderInv /\ FileInv)' /\ (MarkerInv /\ PublishInv)'
  BY <1>1 DEF Rest, OrderInv, FileInv, MarkerInv, PublishInv, EndedSince
<1>3. (NoStaleSession /\ SessionSticks)' /\ (RepeatNeedsEnd /\ HintComesBack)'
  BY <1>1 DEF Rest, NoStaleSession, SessionSticks, RepeatNeedsEnd, HintComesBack, AgentOk,
              EndedSince
<1> QED BY <1>2, <1>3 DEF Rest

-----------------------------------------------------------------------------
(* IInv is kept by every step.                                             *)
LEMMA InvariantNext == IInv /\ [Next]_vars => IInv'
<1> SUFFICES ASSUME IInv, [Next]_vars PROVE IInv'
  OBVIOUS
<1>1. TypeOK /\ Rest
  BY DEF IInv, Rest
<1>2. TypeOK'
  BY <1>1, TypeNext
<1>3. ASSUME NEW s \in Starters, StarterStep(s) PROVE Rest'
  BY <1>1, <1>2, <1>3, StartStampsInv, StartWritesInv, StartFailsInv DEF StarterStep
<1>4. ASSUME NEW e \in Enders, EnderStep(e) PROVE Rest'
  BY <1>1, <1>2, <1>4, EndChecksInv, EndRemovesInv, EndFindsNothingInv, EndRemoveFailsInv,
     ClearReadsInv, ClearWritesInv, ClearWriteFailsInv DEF EnderStep
<1>5. ASSUME NEW p \in Publishers, PublisherStep(p) PROVE Rest'
  BY <1>1, <1>2, <1>5, ResolveInv, PublishFailsInv, PublishSucceedsInv, HintReadsInv,
     HintMarksInv, HintMarkFailsInv DEF PublisherStep
<1>6. ASSUME NEW x \in Procs, Kill(x) PROVE Rest'
  BY <1>1, <1>2, <1>6, KillInv
<1>7. Rest'
  BY <1>1, <1>2, <1>3, <1>4, <1>5, <1>6, IdleInv DEF Next
<1> QED BY <1>2, <1>7 DEF IInv, Rest

(* IInv holds in every reachable state.                                    *)
THEOREM Invariance == Spec => []IInv
BY InitInv, InvariantNext, PTL DEF Spec

(* The two files, the clock and the histories keep their types.            *)
THEOREM TypeCorrect == Spec => []TypeOK
<1>1. IInv => TypeOK
  BY DEF IInv
<1> QED BY <1>1, Invariance, PTL

(* No event is attributed to a session that was ended or replaced before   *)
(* its publish began.                                                      *)
THEOREM AttributionIsCurrent == Spec => []NoStaleSession
<1>1. IInv => NoStaleSession
  BY DEF IInv
<1> QED BY <1>1, Invariance, PTL

(* A started session is not overlooked by a later publish without a reason. *)
THEOREM AttributionSticks == Spec => []SessionSticks
<1>1. IInv => SessionSticks
  BY DEF IInv
<1> QED BY <1>1, Invariance, PTL

(* The hint does not fire again after a publish has marked it, until a     *)
(* session end clears the marker.                                          *)
THEOREM HintIsOnce == Spec => []RepeatNeedsEnd
<1>1. IInv => RepeatNeedsEnd
  BY DEF IInv
<1> QED BY <1>1, Invariance, PTL

(* After a successful session end the hint is due again.                   *)
THEOREM HintReturns == Spec => []HintComesBack
<1>1. IInv => HintComesBack
  BY DEF IInv
<1> QED BY <1>1, Invariance, PTL
=============================================================================
