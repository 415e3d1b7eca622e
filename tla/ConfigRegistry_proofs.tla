----------------------- MODULE ConfigRegistry_proofs -----------------------
(***************************************************************************)
(* The registry loses nothing but to overlapping commands, for any number  *)
(* of processes and projects.                                              *)
(***************************************************************************)
EXTENDS ConfigRegistry, TLAPS

(* What modify_add and modify_remove make of a registry is a registry. *)
LEMMA EditedType ==
  ASSUME NEW p \in Writers, NEW cfg \in Content
  PROVE  /\ Edited(p, cfg) \in Content
         /\ Edited(p, cfg).whole = cfg.whole
         /\ Edited(p, cfg).extras = cfg.extras
         /\ Edited(p, cfg).projects[Target[p]] = Entry(p)
         /\ \A j \in Projects : j # Target[p] => Edited(p, cfg).projects[j] = cfg.projects[j]
BY ProcessesAssumption DEF Edited, Registry, Content, Tokens, Entry, Writers

(* What status, list and publish answer to a reader is one of five outcomes. *)
LEMMA AnswerType ==
  ASSUME TypeOK, NEW r \in Readers
  PROVE  Answer(r) \in {"listed", "error", "usage", "token", "project_not_registered"}
<1>1. CASE Reads[r] = "status"
  BY <1>1 DEF Answer
<1>2. CASE Reads[r] = "list"
  <2>1. CASE file.whole
    BY <1>2, <2>1 DEF Answer
  <2>2. CASE ~file.whole
    BY <1>2, <2>2 DEF Answer
  <2> QED
    BY <2>1, <2>2
<1>3. CASE Reads[r] = "publish"
  <2>1. CASE file.whole
    BY <1>3, <2>1 DEF Answer
  <2>2. CASE ~file.whole
    BY <1>3, <2>2 DEF Answer
  <2> QED
    BY <2>1, <2>2
<1> QED
  BY <1>1, <1>2, <1>3, ProcessesAssumption

(* The positions of reads and writes in the history of the file are numbers. *)
LEMMA NumbersType ==
  ASSUME TypeOK
  PROVE  /\ version \in Nat
         /\ \A p \in Writers : readAt[p] \in Nat /\ wroteAt[p] \in Nat
         /\ \A t \in Tools : saved[t] \in Nat
BY DEF TypeOK

(* The file as it is before the first command satisfies the invariant. *)
LEMMA InitInv == Init => IInv
<1> SUFFICES ASSUME Init
             PROVE  IInv
  OBVIOUS
<1>1. /\ Initially \in Content
      /\ \A whole \in BOOLEAN : Registry(whole, Initially.projects, {}) \in Content
  BY DEF Initially, Registry, Content, Tokens
<1>2. TypeOK
  BY <1>1 DEF Init, TypeOK
<1>3. \A j \in Projects : Steady(j) => Initially.projects[j] # None
  BY TokensAssumption DEF Initially, Registry, Steady
<1>4. TimeInv /\ SnapInv /\ TmpInv
  BY DEF Init, TimeInv, SnapInv, TmpInv, Working
<1>5. SteadyInv
  <2>1. file.projects = Initially.projects
    BY DEF Init, Registry
  <2> QED
    BY <1>3, <2>1 DEF Init, SteadyInv
<1>6. LossNeedsOverlap /\ ExtrasNeedOverlap /\ SteadyProjects /\ OneFaultLeavesNothing
  BY DEF Init, LossNeedsOverlap, ExtrasNeedOverlap, SteadyProjects, OneFaultLeavesNothing
<1> QED
  BY <1>2, <1>4, <1>5, <1>6 DEF IInv

(* No step of a writer, a reader or an adjacent tool leaves the types. *)
LEMMA TypeNext == IInv /\ [Next]_vars => TypeOK'
<1> SUFFICES ASSUME IInv, [Next]_vars
             PROVE  TypeOK'
  OBVIOUS
<1>1. TypeOK /\ TmpInv
  BY DEF IInv
<1>2. CASE UNCHANGED vars
  BY <1>1, <1>2 DEF vars, TypeOK
<1>3. ASSUME NEW p \in Writers, FailsEarly(p) \/ ReadRefuses(p) \/ CreateFails(p)
      PROVE  TypeOK'
  BY <1>1, <1>3 DEF FailsEarly, ReadRefuses, CreateFails, End, history, TypeOK
<1>4. ASSUME NEW p \in Writers, Read(p)
      PROVE  TypeOK'
  BY <1>1, <1>4 DEF Read, TypeOK
<1>5. ASSUME NEW p \in Writers, Create(p)
      PROVE  TypeOK'
  BY <1>1, <1>5 DEF Create, Partial, Registry, Content, Tokens, history, TypeOK
<1>6. ASSUME NEW p \in Writers, Write(p)
      PROVE  TypeOK'
  BY <1>1, <1>6, EditedType DEF Write, history, TypeOK
<1>7. ASSUME NEW p \in Writers, WriteFails(p) \/ RenameFails(p)
      PROVE  TypeOK'
  BY <1>1, <1>7 DEF WriteFails, RenameFails, history, TypeOK, TmpInv
<1>8. ASSUME NEW p \in Writers, Rename(p)
      PROVE  TypeOK'
  <2>1. tmp[p] \in Content
    BY <1>1, <1>8, EditedType DEF Rename, TypeOK, TmpInv
  <2> QED
    BY <1>1, <1>8, <2>1 DEF Rename, End, TypeOK
<1>9. ASSUME NEW p \in Writers, Scrub(p) \/ Kill(p)
      PROVE  TypeOK'
  BY <1>1, <1>9 DEF Scrub, Kill, End, history, TypeOK, TmpInv
<1>10. ASSUME NEW r \in Readers, Consult(r)
       PROVE  TypeOK'
  BY <1>1, <1>10, AnswerType DEF Consult, End, history, TypeOK
<1>11. ASSUME NEW t \in Tools, ToolSaves(t)
       PROVE  TypeOK'
  BY <1>1, <1>11 DEF ToolSaves, Registry, TypeOK, Content
<1> QED
  BY <1>2, <1>3, <1>4, <1>5, <1>6, <1>7, <1>8, <1>9, <1>10, <1>11 DEF Next, WriterStep

-----------------------------------------------------------------------------
(* The steps that replace the file, and those that read it                 *)

Rest == /\ TimeInv /\ SnapInv /\ TmpInv /\ SteadyInv
        /\ LossNeedsOverlap /\ ExtrasNeedOverlap /\ SteadyProjects /\ OneFaultLeavesNothing

(* The rename of save, the one step that changes what others see,
   preserves the invariant. *)
LEMMA RenameStep ==
  ASSUME IInv, TypeOK', NEW q \in Writers, Rename(q)
  PROVE  Rest'
<1>0. /\ version \in Nat
      /\ \A p \in Writers : readAt[p] \in Nat /\ wroteAt[p] \in Nat
      /\ \A t \in Tools : saved[t] \in Nat
  BY NumbersType DEF IInv
<1>1. /\ pc[q] = "rename" /\ wroteAt[q] = 0
      /\ version' = version + 1
      /\ wroteAt'[q] = version + 1
      /\ \A p \in Writers : p # q => wroteAt'[p] = wroteAt[p]
      /\ pc'[q] = "ended"
      /\ \A p \in Writers : p # q => pc'[p] = pc[p] /\ tmp'[p] = tmp[p]
      /\ tmp'[q] = NoFile
      /\ UNCHANGED <<snap, faults, readAt, saved>>
      /\ \A r \in Readers : exit'[r] = exit[r]
  <2>1. pc[q] = "rename" /\ wroteAt[q] = 0
    BY <1>0 DEF Rename, IInv, TimeInv
  <2>2. \A r \in Readers : r # q
    BY ProcessesAssumption
  <2> QED
    BY <2>1, <2>2 DEF Rename, End, IInv, TypeOK
<1>13. snap[q] \in Content /\ file' = Edited(q, snap[q])
  BY <1>1 DEF Rename, IInv, TypeOK, TmpInv
<1> USE DEF IInv
<1>2. snap[q].whole /\ ~Refused(q, snap[q]) /\ file.whole
  BY <1>1 DEF SnapInv, TmpInv, Working
<1>3. \A p \in Writers : wroteAt[p] > 0 /\ Undone(p) => Undone(p)'
  BY <1>0, <1>1 DEF Undone, Overrides, TimeInv
<1>4. \A t \in Tools : Overlapped(t) => Overlapped(t)'
  BY <1>0, <1>1 DEF Overlapped, TimeInv
<1>5. TimeInv'
  BY <1>0, <1>1 DEF TimeInv
<1>6. SnapInv'
  <2> SUFFICES ASSUME NEW w \in Writers, pc'[w] \in Working
               PROVE  /\ snap'[w].whole /\ ~Refused(w, snap'[w])
                      /\ \A p \in Writers : wroteAt'[p] > 0 /\ wroteAt'[p] <= readAt'[w]
                           => snap'[w].projects[Target[p]] = Entry(p) \/ Undone(p)'
                      /\ \A t \in Tools : saved'[t] > 0 /\ saved'[t] <= readAt'[w]
                           => t \in snap'[w].extras \/ Overlapped(t)'
    BY DEF SnapInv, Refused, Entry
  <2>1. w # q /\ pc[w] \in Working
    BY <1>1 DEF Working
  <2>2. \A p \in Writers : wroteAt'[p] <= readAt'[w] => p # q
    BY <1>0, <1>1 DEF TimeInv
  <2> QED
    BY <1>1, <1>3, <1>4, <2>1, <2>2 DEF SnapInv
<1>7. TmpInv'
  <2>1. file'.whole
    BY <1>2, <1>13, EditedType
  <2>2. \A w \in Writers : w # q => Edited(w, snap[w])' = Edited(w, snap[w])
    BY <1>1 DEF Edited
  <2> QED
    BY <1>1, <2>1, <2>2 DEF TmpInv, Working
<1>8. SteadyInv'
  <2> SUFFICES ASSUME NEW j \in Projects, Steady(j)
               PROVE  file'.projects[j] # None /\ \A w \in Writers : snap'[w].projects[j] # None
    BY DEF SteadyInv, Steady
  <2>1. CASE j = Target[q]
    <3>1. q \in Adders
      BY <2>1 DEF Steady, Writers
    <3> QED
      BY <1>1, <2>1, <3>1, <1>13, EditedType, TokensAssumption DEF SteadyInv, Entry
  <2>2. CASE j # Target[q]
    BY <1>1, <2>2, <1>13, EditedType DEF SteadyInv
  <2> QED
    BY <2>1, <2>2
<1>9. LossNeedsOverlap'
  <2> SUFFICES ASSUME NEW p \in Writers, wroteAt'[p] > 0
               PROVE  file'.projects[Target[p]] = Entry(p) \/ Undone(p)'
    BY DEF LossNeedsOverlap, Undone, Entry, Overrides
  <2>1. CASE p = q
    BY <1>1, <2>1, <1>13, EditedType
  <2>2. CASE p # q /\ wroteAt[p] > readAt[q]
    <3>1. wroteAt'[p] = wroteAt[p] /\ wroteAt'[q] > wroteAt[p] /\ readAt'[q] < wroteAt[p]
      BY <1>0, <1>1, <2>2 DEF TimeInv
    <3> QED
      BY <3>1 DEF Undone, Overrides
  <2>3. CASE p # q /\ wroteAt[p] <= readAt[q]
    <3>1. wroteAt'[p] = wroteAt[p] /\ wroteAt'[q] > wroteAt[p]
      BY <1>0, <1>1, <2>3 DEF TimeInv
    <3>2. snap[q].projects[Target[p]] = Entry(p) \/ Undone(p)
      BY <1>1, <2>3, <3>1 DEF SnapInv, Working
    <3>3. CASE Undone(p)
      BY <1>3, <3>1, <3>3
    <3>4. CASE snap[q].projects[Target[p]] = Entry(p) /\ Target[q] # Target[p]
      BY <1>1, <3>4, <1>13, EditedType, ProcessesAssumption DEF Writers
    <3>5. CASE snap[q].projects[Target[p]] = Entry(p) /\ Target[q] = Target[p]
      <4>1. q \in Adders \ Forced => Entry(p) = None
        BY <1>2, <3>5 DEF Refused
      <4>2. Overrides(q, wroteAt[p], Target[p], Entry(p))'
        BY <3>1, <3>5, <4>1 DEF Overrides, Entry
      <4> QED
        BY <4>2 DEF Undone
    <3> QED
      BY <3>2, <3>3, <3>4, <3>5
  <2> QED
    BY <1>0, <2>1, <2>2, <2>3
<1>10. ExtrasNeedOverlap'
  <2> SUFFICES ASSUME NEW t \in Tools, saved[t] > 0
               PROVE  t \in file'.extras \/ Overlapped(t)'
    BY <1>1 DEF ExtrasNeedOverlap, Overlapped
  <2>1. CASE saved[t] > readAt[q]
    BY <1>0, <1>1, <2>1 DEF Overlapped, TimeInv
  <2>2. CASE saved[t] <= readAt[q]
    BY <1>1, <1>4, <2>2, <1>13, EditedType DEF SnapInv, Working
  <2> QED
    BY <1>0, <2>1, <2>2
<1>11. SteadyProjects'
  BY <1>1 DEF SteadyProjects
<1>12. OneFaultLeavesNothing'
  BY <1>1 DEF OneFaultLeavesNothing
<1> QED
  BY <1>5, <1>6, <1>7, <1>8, <1>9, <1>10, <1>11, <1>12 DEF Rest

(* The adjacent tool that adds a key of its own preserves the invariant. *)
LEMMA ToolStep ==
  ASSUME IInv, TypeOK', NEW u \in Tools, ToolSaves(u)
  PROVE  Rest'
<1>0. /\ version \in Nat
      /\ \A p \in Writers : readAt[p] \in Nat /\ wroteAt[p] \in Nat
      /\ \A t \in Tools : saved[t] \in Nat
  BY NumbersType DEF IInv
<1> USE DEF IInv
<1>1. /\ saved[u] = 0 /\ saved'[u] = version + 1
      /\ \A t \in Tools : t # u => saved'[t] = saved[t]
      /\ version' = version + 1
      /\ file.whole /\ file'.whole /\ file'.projects = file.projects
      /\ u \in file'.extras /\ file.extras \subseteq file'.extras
      /\ UNCHANGED <<pc, snap, tmp, exit, faults, readAt, wroteAt>>
  BY DEF ToolSaves, Registry, Content, TypeOK
<1>2. \A p \in Writers : Undone(p)' = Undone(p)
  BY <1>1 DEF Undone, Overrides, Entry
<1>3. \A t \in Tools : t # u => Overlapped(t)' = Overlapped(t)
  BY <1>1 DEF Overlapped
<1>4. TimeInv'
  BY <1>0, <1>1 DEF TimeInv
<1>5. SnapInv'
  <2> SUFFICES ASSUME NEW w \in Writers, pc[w] \in Working
               PROVE  /\ snap[w].whole /\ ~Refused(w, snap[w])
                      /\ \A p \in Writers : wroteAt[p] > 0 /\ wroteAt[p] <= readAt[w]
                           => snap[w].projects[Target[p]] = Entry(p) \/ Undone(p)'
                      /\ \A t \in Tools : saved'[t] > 0 /\ saved'[t] <= readAt[w]
                           => t \in snap[w].extras \/ Overlapped(t)'
    BY <1>1 DEF SnapInv, Refused, Entry
  <2>1. saved'[u] > readAt[w]
    BY <1>0, <1>1 DEF TimeInv
  <2> QED
    BY <1>0, <1>1, <1>2, <1>3, <2>1 DEF SnapInv
<1>6. TmpInv'
  BY <1>1 DEF TmpInv, Edited
<1>7. SteadyInv' /\ SteadyProjects' /\ OneFaultLeavesNothing'
  BY <1>1 DEF SteadyInv, Steady, SteadyProjects, OneFaultLeavesNothing
<1>8. LossNeedsOverlap'
  BY <1>1, <1>2 DEF LossNeedsOverlap, Undone, Entry
<1>9. ExtrasNeedOverlap'
  BY <1>1, <1>3 DEF ExtrasNeedOverlap, Overlapped
<1> QED
  BY <1>4, <1>5, <1>6, <1>7, <1>8, <1>9 DEF Rest

(* The read that add and remove start with preserves the invariant. *)
LEMMA ReadStep ==
  ASSUME IInv, TypeOK', NEW q \in Writers, Read(q)
  PROVE  Rest'
<1>0. /\ version \in Nat
      /\ \A p \in Writers : readAt[p] \in Nat /\ wroteAt[p] \in Nat
      /\ \A t \in Tools : saved[t] \in Nat
  BY NumbersType DEF IInv
<1> USE DEF IInv
<1>1. /\ pc[q] = "start" /\ wroteAt[q] = 0 /\ file.whole /\ ~Refused(q, file)
      /\ snap'[q] = file /\ readAt'[q] = version /\ pc'[q] = "create"
      /\ \A w \in Writers : w # q =>
           snap'[w] = snap[w] /\ readAt'[w] = readAt[w] /\ pc'[w] = pc[w]
      /\ UNCHANGED <<file, tmp, exit, faults, version, wroteAt, saved>>
  <2>1. pc[q] = "start" /\ wroteAt[q] = 0
    BY <1>0 DEF Read, TimeInv
  <2> QED
    BY <2>1 DEF Read, TypeOK
<1>2. \A p \in Writers : wroteAt[p] > 0 /\ Undone(p) => Undone(p)'
  BY <1>0, <1>1 DEF Undone, Overrides, Entry
<1>3. \A t \in Tools : Overlapped(t) => Overlapped(t)'
  BY <1>0, <1>1 DEF Overlapped
<1>4. TimeInv'
  BY <1>0, <1>1 DEF TimeInv
<1>5. SnapInv'
  <2> SUFFICES ASSUME NEW w \in Writers, pc'[w] \in Working
               PROVE  /\ snap'[w].whole /\ ~Refused(w, snap'[w])
                      /\ \A p \in Writers : wroteAt[p] > 0 /\ wroteAt[p] <= readAt'[w]
                           => snap'[w].projects[Target[p]] = Entry(p) \/ Undone(p)'
                      /\ \A t \in Tools : saved[t] > 0 /\ saved[t] <= readAt'[w]
                           => t \in snap'[w].extras \/ Overlapped(t)'
    BY <1>1 DEF SnapInv, Refused, Entry
  <2>1. CASE w = q
    BY <1>1, <1>2, <1>3, <2>1 DEF LossNeedsOverlap, ExtrasNeedOverlap, Undone, Overlapped
  <2>2. CASE w # q
    BY <1>1, <1>2, <1>3, <2>2 DEF SnapInv
  <2> QED
    BY <2>1, <2>2
<1>6. TmpInv'
  BY <1>1 DEF TmpInv, Working
<1>7. SteadyInv' /\ SteadyProjects' /\ OneFaultLeavesNothing'
  BY <1>1 DEF SteadyInv, Steady, SteadyProjects, OneFaultLeavesNothing
<1>8. LossNeedsOverlap'
  BY <1>1, <1>2 DEF LossNeedsOverlap, Undone
<1>9. ExtrasNeedOverlap'
  BY <1>1, <1>3 DEF ExtrasNeedOverlap, Overlapped
<1> QED
  BY <1>4, <1>5, <1>6, <1>7, <1>8, <1>9 DEF Rest

-----------------------------------------------------------------------------
(* The steps of a writer between its read and its rename                   *)

LEMMA PrivateStep ==
  ASSUME IInv, TypeOK', NEW q \in Writers,
         pc[q] \in {"start"} \cup Working,
         \A w \in Writers : w # q =>
           pc'[w] = pc[w] /\ tmp'[w] = tmp[w] /\ faults'[w] = faults[w],
         pc'[q] \in Working => pc[q] \in Working,
         \A r \in Readers : exit'[r] = exit[r],
         pc'[q] # "start",
         UNCHANGED <<snap, file, history>>
  PROVE  /\ TimeInv' /\ SnapInv' /\ SteadyInv'
         /\ LossNeedsOverlap' /\ ExtrasNeedOverlap' /\ SteadyProjects'
<1>0. \A p \in Writers : wroteAt[p] \in Nat
  BY NumbersType DEF IInv
<1> USE DEF IInv, history
<1>1. wroteAt[q] = 0
  BY <1>0 DEF TimeInv, Working
<1>2. TimeInv'
  BY <1>0, <1>1 DEF TimeInv
<1>3. /\ \A p \in Writers : Undone(p)' = Undone(p)
      /\ \A t \in Tools : Overlapped(t)' = Overlapped(t)
  BY DEF Undone, Overrides, Entry, Overlapped
<1>4. SnapInv'
  BY <1>3 DEF SnapInv, Refused, Entry
<1>5. SteadyInv' /\ SteadyProjects'
  BY DEF SteadyInv, Steady, SteadyProjects
<1>6. LossNeedsOverlap' /\ ExtrasNeedOverlap'
  BY <1>3 DEF LossNeedsOverlap, ExtrasNeedOverlap, Undone, Overlapped, Entry
<1> QED
  BY <1>2, <1>4, <1>5, <1>6

(* The other steps of add and remove, failures and kills among them,
   preserve the invariant. *)
LEMMA WriterStepInv ==
  ASSUME IInv, TypeOK', NEW q \in Writers, WriterStep(q)
  PROVE  Rest'
<1>1. CASE Read(q)
  BY <1>1, ReadStep
<1>2. CASE Rename(q)
  BY <1>2, RenameStep
<1>3. ASSUME \/ FailsEarly(q) \/ ReadRefuses(q) \/ Create(q) \/ CreateFails(q) \/ Write(q)
             \/ WriteFails(q) \/ RenameFails(q) \/ Scrub(q) \/ Kill(q)
      PROVE  Rest'
  <2> USE DEF TypeOK
  <2>1. TypeOK /\ TmpInv /\ OneFaultLeavesNothing
    BY DEF IInv
  <2>2. /\ pc[q] \in {"start"} \cup Working
        /\ \A w \in Writers : w # q =>
             pc'[w] = pc[w] /\ tmp'[w] = tmp[w] /\ faults'[w] = faults[w]
        /\ pc'[q] \in Working => pc[q] \in Working
        /\ \A r \in Readers : exit'[r] = exit[r]
        /\ pc'[q] # "start"
        /\ UNCHANGED <<snap, file, history>>
    BY <1>3, <2>1, ProcessesAssumption DEF FailsEarly, ReadRefuses, Create, CreateFails, Write,
       WriteFails, RenameFails, Scrub, Kill, End, history, Working
  <2>3. TimeInv' /\ SnapInv' /\ SteadyInv' /\ LossNeedsOverlap' /\ ExtrasNeedOverlap'
          /\ SteadyProjects'
    BY <2>2, PrivateStep
  <2>4. TmpInv' /\ OneFaultLeavesNothing'
    <3>1. ASSUME NEW w \in Writers, w # q
          PROVE  /\ Edited(w, snap[w])' = Edited(w, snap[w])
                 /\ pc'[w] = pc[w] /\ tmp'[w] = tmp[w] /\ faults'[w] = faults[w]
      BY <2>2, <3>1 DEF Edited
    <3>2. SUFFICES
            /\ pc'[q] = "create" => tmp'[q] = NoFile
            /\ pc'[q] = "rename" => tmp'[q] = Edited(q, snap[q])'
            /\ pc'[q] \in {"create", "write", "rename"} => faults'[q] = 0
            /\ pc'[q] = "scrub" => faults'[q] = 1
            /\ pc'[q] = "ended" /\ tmp'[q] # NoFile => faults'[q] = 2
      BY <2>1, <2>2, <3>1 DEF TmpInv, OneFaultLeavesNothing, Working, history
    <3>3. CASE FailsEarly(q) \/ ReadRefuses(q) \/ CreateFails(q) \/ Kill(q)
      BY <2>1, <3>3 DEF FailsEarly, ReadRefuses, CreateFails, Kill, End, TmpInv
    <3>4. CASE Create(q)
      BY <2>1, <3>4 DEF Create, TmpInv
    <3>5. CASE Write(q)
      BY <2>1, <3>5 DEF Write, TmpInv
    <3>6. CASE WriteFails(q) \/ RenameFails(q)
      BY <2>1, <3>6 DEF WriteFails, RenameFails, TmpInv
    <3>7. CASE Scrub(q)
      BY <2>1, <3>7 DEF Scrub, End, TmpInv
    <3> QED
      BY <1>3, <3>3, <3>4, <3>5, <3>6, <3>7
  <2> QED
    BY <2>3, <2>4 DEF Rest
<1> QED
  BY <1>1, <1>2, <1>3 DEF WriterStep

(* A reader of the registry preserves the invariant. *)
LEMMA ConsultStep ==
  ASSUME IInv, TypeOK', NEW r \in Readers, Consult(r)
  PROVE  Rest'
<1> USE DEF IInv, TypeOK
<1>1. /\ UNCHANGED <<snap, file, tmp, faults, version, readAt, wroteAt, saved>>
      /\ \A p \in Writers : pc'[p] = pc[p]
      /\ \A w \in Readers : w # r => exit'[w] = exit[w]
      /\ exit'[r] = Answer(r)
  BY ProcessesAssumption DEF Consult, End, history
<1>2. /\ \A p \in Writers : Undone(p)' = Undone(p)
      /\ \A t \in Tools : Overlapped(t)' = Overlapped(t)
  BY <1>1 DEF Undone, Overrides, Entry, Overlapped
<1>3. TimeInv' /\ TmpInv' /\ OneFaultLeavesNothing'
  BY <1>1 DEF TimeInv, TmpInv, OneFaultLeavesNothing, Edited, Working
<1>4. SnapInv'
  BY <1>1, <1>2 DEF SnapInv, Refused, Entry
<1>5. SteadyInv'
  BY <1>1 DEF SteadyInv, Steady
<1>6. LossNeedsOverlap' /\ ExtrasNeedOverlap'
  BY <1>1, <1>2 DEF LossNeedsOverlap, ExtrasNeedOverlap, Undone, Overlapped, Entry
<1>7. Steady(Target[r]) => Answer(r) # "project_not_registered"
  <2> SUFFICES ASSUME Steady(Target[r])
               PROVE  Answer(r) # "project_not_registered"
    OBVIOUS
  <2>1. file.projects[Target[r]] # None
    BY ProcessesAssumption DEF SteadyInv
  <2>2. CASE Reads[r] = "status"
    BY <2>2 DEF Answer
  <2>3. CASE Reads[r] = "list"
    <3>1. CASE file.whole
      BY <2>3, <3>1 DEF Answer
    <3>2. CASE ~file.whole
      BY <2>3, <3>2 DEF Answer
    <3> QED
      BY <3>1, <3>2
  <2>4. CASE Reads[r] = "publish"
    <3>1. CASE file.whole
      BY <2>1, <2>4, <3>1 DEF Answer
    <3>2. CASE ~file.whole
      BY <2>4, <3>2 DEF Answer
    <3> QED
      BY <3>1, <3>2
  <2> QED
    BY <2>2, <2>3, <2>4, ProcessesAssumption
<1>8. SteadyProjects'
  BY <1>1, <1>7 DEF SteadyProjects, Steady
<1> QED
  BY <1>3, <1>4, <1>5, <1>6, <1>8 DEF Rest

(* A step that changes no variable preserves the invariant. *)
LEMMA StutterStep ==
  ASSUME IInv, UNCHANGED vars
  PROVE  Rest'
<1> USE DEF IInv, vars
<1>1. /\ \A p \in Writers : Undone(p)' = Undone(p)
      /\ \A t \in Tools : Overlapped(t)' = Overlapped(t)
  BY DEF Undone, Overrides, Entry, Overlapped
<1>2. TimeInv' /\ TmpInv' /\ OneFaultLeavesNothing' /\ SteadyInv' /\ SteadyProjects'
  BY DEF TimeInv, TmpInv, OneFaultLeavesNothing, Edited, Working, SteadyInv, Steady, SteadyProjects
<1>3. SnapInv'
  BY <1>1 DEF SnapInv, Refused, Entry
<1>4. LossNeedsOverlap' /\ ExtrasNeedOverlap'
  BY <1>1 DEF LossNeedsOverlap, ExtrasNeedOverlap, Undone, Overlapped, Entry
<1> QED
  BY <1>2, <1>3, <1>4 DEF Rest

(* Every step preserves the invariant: one lemma per action. *)
LEMMA InvariantNext == IInv /\ [Next]_vars => IInv'
<1> SUFFICES ASSUME IInv, [Next]_vars
             PROVE  IInv'
  OBVIOUS
<1>1. TypeOK'
  BY TypeNext
<1>2. Rest'
  BY <1>1, WriterStepInv, ConsultStep, ToolStep, StutterStep DEF Next
<1> QED
  BY <1>1, <1>2 DEF IInv, Rest

-----------------------------------------------------------------------------
(* The inductive invariant holds in every reachable state; the properties
   of config.json below follow from it. *)
THEOREM Invariance == Spec => []IInv
BY InitInv, InvariantNext, PTL DEF Spec

(* config.json, the temporary files and the exit codes keep their types;   *)
(* no writer ever meets a third fault.                                     *)
THEOREM TypeCorrect == Spec => []TypeOK
BY Invariance, PTL DEF IInv

(* A successful add or remove is undone only by a command told to, or by   *)
(* one it overlapped with.                                                 *)
THEOREM LossesOverlap == Spec => []LossNeedsOverlap
BY Invariance, PTL DEF IInv

(* An adjacent tool loses its key only to a command it overlapped with.    *)
THEOREM ExtrasOverlap == Spec => []ExtrasNeedOverlap
BY Invariance, PTL DEF IInv

(* A registered project nobody removes is always found by publish.         *)
THEOREM RotationIsSeamless == Spec => []SteadyProjects
BY Invariance, PTL DEF IInv

(* A token is left in a temporary file by a kill or by two faults.         *)
THEOREM SingleFaultIsClean == Spec => []OneFaultLeavesNothing
BY Invariance, PTL DEF IInv

(* Replacing the file never makes it unreadable and never hides that it is. *)
THEOREM RegistryStaysWhole == Spec => NeverHalfWritten
<1>1. IInv /\ [Next]_vars => [file'.whole = file.whole /\ (file.whole \/ file' = file)]_vars
  <2> SUFFICES ASSUME IInv, Next
               PROVE  file'.whole = file.whole /\ (file.whole \/ file' = file)
    OBVIOUS
  <2>1. CASE file' = file
    BY <2>1
  <2>2. ASSUME NEW q \in Writers, Rename(q)
        PROVE  file'.whole /\ file.whole
    BY <2>2, EditedType DEF IInv, TypeOK, Rename, TmpInv, SnapInv, Working
  <2>3. ASSUME NEW t \in Tools, ToolSaves(t)
        PROVE  file'.whole /\ file.whole
    BY <2>3 DEF IInv, TypeOK, ToolSaves, Registry, Content
  <2> QED
    BY <2>1, <2>2, <2>3 DEF IInv, TypeOK, Content, Next, WriterStep, FailsEarly, Read,
       ReadRefuses, Create, CreateFails, Write, WriteFails, RenameFails, Scrub, Kill, Consult, End
<1> QED
  BY <1>1, Invariance, PTL DEF Spec, NeverHalfWritten
============================================================================
