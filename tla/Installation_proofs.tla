------------------------- MODULE Installation_proofs -------------------------
(***************************************************************************)
(* Proofs about an installation: for any number of writers, first runs and *)
(* outages, of updates, tags and markers, of releases and hours, and any   *)
(* max-age.  Each part is proved about as a specification of its own; then *)
(* the whole is shown to implement each of them.                           *)
(***************************************************************************)
EXTENDS Installation, TLAPS

-----------------------------------------------------------------------------
(* The files nt-cli writes                                                 *)

(* The parts of the type invariant.                                        *)
LEMMA FilesTypes == Fs!IInv => Fs!TypeOK
BY DEF Fs!IInv, Fs!FileInv, Fs!FileTypes, Fs!SaltTypes, Fs!TypeOK

(* Nobody has begun: no temporary file, no salt, and both files are whole. *)
LEMMA FilesInitInv == Fs!Init => Fs!IInv
<1> SUFFICES ASSUME Fs!Init PROVE Fs!IInv
  OBVIOUS
<1> USE FilesAssumption DEF Fs!Init
<1>1. Fs!FileTypes
  <2>1. Fs!Old \in Fs!Content
    BY DEF Fs!Old, Fs!Content
  <2> QED BY <2>1 DEF Fs!FileTypes
<1>2. Fs!TmpInv
  BY DEF Fs!TmpInv
<1>3. Fs!DiskInv
  BY DEF Fs!DiskInv, Fs!TornNeedsOutage, Fs!Old, Fs!Files
<1>4. Fs!SaltTypes
  <2>1. Fs!NoSalt \in Fs!Salts
    BY DEF Fs!NoSalt, Fs!Salts
  <2> QED BY <2>1 DEF Fs!SaltTypes
<1>5. Fs!SaltInv
  BY DEF Fs!SaltInv, Fs!Generating, Fs!Settled, Fs!NoSalt
<1> QED BY <1>1, <1>2, <1>3, <1>4, <1>5 DEF Fs!IInv, Fs!FileInv

-----------------------------------------------------------------------------
(* Steps of a writer                                                       *)

(* A step that moves one writer on and touches no file.                    *)
LEMMA FilesQuietWriterStep ==
  ASSUME Fs!FileInv, NEW w \in Fs!Writers,
         Fs!Create(w) \/ Fs!CreateFails(w) \/ Fs!Write(w) \/ Fs!WriteFails(w) \/ Fs!Sync(w) \/ Fs!SyncFails(w)
           \/ Fs!RenameFails(w) \/ Fs!Scrub(w) \/ Fs!ScrubFails(w) \/ Fs!KillWriter(w)
  PROVE  Fs!FileInv'
<1> USE FilesAssumption DEF Fs!Goes, Fs!Becomes, Fs!Fault
<1>1. Fs!DiskInv'
  BY DEF Fs!FileInv, Fs!DiskInv, Fs!TornNeedsOutage, Fs!Create, Fs!CreateFails, Fs!Write,
      Fs!WriteFails, Fs!Sync,
         Fs!SyncFails, Fs!RenameFails, Fs!Scrub, Fs!ScrubFails, Fs!KillWriter
<1>2. CASE Fs!Create(w)
  BY <1>1, <1>2 DEF Fs!FileInv, Fs!FileTypes, Fs!TmpInv, Fs!Create
<1>3. CASE Fs!CreateFails(w)
  BY <1>1, <1>3 DEF Fs!FileInv, Fs!FileTypes, Fs!TmpInv, Fs!CreateFails
<1>4. CASE Fs!Write(w)
  BY <1>1, <1>4 DEF Fs!FileInv, Fs!FileTypes, Fs!TmpInv, Fs!Write
<1>5. CASE Fs!WriteFails(w)
  BY <1>1, <1>5 DEF Fs!FileInv, Fs!FileTypes, Fs!TmpInv, Fs!WriteFails
<1>6. CASE Fs!Sync(w)
  BY <1>1, <1>6 DEF Fs!FileInv, Fs!FileTypes, Fs!TmpInv, Fs!Sync
<1>7. CASE Fs!SyncFails(w)
  BY <1>1, <1>7 DEF Fs!FileInv, Fs!FileTypes, Fs!TmpInv, Fs!SyncFails
<1>8. CASE Fs!RenameFails(w)
  BY <1>1, <1>8 DEF Fs!FileInv, Fs!FileTypes, Fs!TmpInv, Fs!RenameFails, Fs!Ready
<1>9. CASE Fs!Scrub(w)
  BY <1>1, <1>9 DEF Fs!FileInv, Fs!FileTypes, Fs!TmpInv, Fs!Scrub
<1>10. CASE Fs!ScrubFails(w)
  BY <1>1, <1>10 DEF Fs!FileInv, Fs!FileTypes, Fs!TmpInv, Fs!ScrubFails
<1>11. CASE Fs!KillWriter(w)
  BY <1>1, <1>11 DEF Fs!FileInv, Fs!FileTypes, Fs!TmpInv, Fs!KillWriter, Fs!Running
<1> QED BY <1>2, <1>3, <1>4, <1>5, <1>6, <1>7, <1>8, <1>9, <1>10, <1>11

(* What is renamed is whole, and synced if it is state.json or a session.  *)
LEMMA FilesRenameInv ==
  ASSUME Fs!FileInv, NEW w \in Fs!Writers, Fs!Rename(w)
  PROVE  Fs!FileInv'
<1> USE FilesAssumption DEF Fs!FileInv, Fs!Rename, Fs!Goes, Fs!Becomes
<1>1. fsTmp[w] = "whole" /\ (w \in Synced => w \in fsSafe)
  BY DEF Fs!TmpInv, Fs!Ready
<1>2. Fs!FileOf(w) \in Fs!Files /\ (Fs!FileOf(w) = "state" <=> w \in Synced)
  BY DEF Fs!FileOf, Fs!Files
<1>3. fsDisk' = [fsDisk EXCEPT ![Fs!FileOf(w)] = [by |-> w, whole |-> TRUE]]
  BY <1>1
<1>4. [by |-> w, whole |-> TRUE] \in Fs!Content
  BY DEF Fs!Content
<1>5. Fs!FileTypes'
  <2>1. fsDisk' \in [Fs!Files -> Fs!Content]
    BY <1>2, <1>3, <1>4 DEF Fs!FileTypes
  <2>2. fsPending' \in [Fs!Files -> SUBSET Fs!Writers]
    BY <1>2 DEF Fs!FileTypes
  <2> QED BY <2>1, <2>2 DEF Fs!FileTypes
<1>6. Fs!TmpInv'
  BY DEF Fs!TmpInv, Fs!FileTypes
<1>7. Fs!DiskInv'
  BY <1>1, <1>2, <1>3 DEF Fs!DiskInv, Fs!TornNeedsOutage, Fs!FileTypes, Fs!Files
<1> QED BY <1>5, <1>6, <1>7

(* What is written back is what a reader sees already.                     *)
LEMMA FilesFlushInv ==
  ASSUME Fs!FileInv, NEW f \in Fs!Files, Fs!Flush(f)
  PROVE  Fs!FileInv'
<1> USE FilesAssumption DEF Fs!FileInv, Fs!Flush
<1>1. Fs!FileTypes'
  BY DEF Fs!FileTypes
<1>2. Fs!TmpInv'
  BY DEF Fs!TmpInv
<1>3. Fs!DiskInv'
  BY DEF Fs!DiskInv, Fs!TornNeedsOutage, Fs!FileTypes, Fs!Files
<1> QED BY <1>1, <1>2, <1>3

-----------------------------------------------------------------------------
(* Steps of a first run                                                    *)

(* Whoever generates a salt finds none, or the salts are disturbed.        *)
LEMMA FilesGeneratesInv ==
  ASSUME Fs!SaltTypes, Fs!SaltInv, NEW p \in Salters, Fs!Generates(p),
         fsDisturbed' \in BOOLEAN, fsDisturbed => fsDisturbed',
         fsSalt.text # "none" => fsDisturbed'
  PROVE  Fs!SaltTypes' /\ Fs!SaltInv'
<1> USE FilesAssumption DEF Fs!Generates, Fs!Moves
<1>1. Fs!SaltTypes'
  BY DEF Fs!SaltTypes, Fs!Generating
<1>2. Fs!Generating' = Fs!Generating \cup {p} /\ p \notin Fs!Generating /\ fsRaced \subseteq fsRaced'
  BY DEF Fs!Generating, Fs!SaltTypes
<1>3. \A q \in Fs!Generating' : q \notin fsRaced' => Fs!Generating' = {q}
  BY <1>2
<1>4. \A q \in Salters : fsStep'[q] \in {"salted", "tagged"} => fsUsed'[q].text # "none"
  BY DEF Fs!SaltInv, Fs!SaltTypes
<1>5. ASSUME ~fsDisturbed'
      PROVE  /\ \A q \in Salters : Fs!Settled(fsUsed[q])' => fsSalt' = fsUsed'[q]
             /\ Fs!Settled(fsSalt)' => \A q \in Fs!Generating' : q = fsSalt'.by /\ fsStep'[q] = "written"
             /\ \A q \in Salters :
                  fsStep'[q] = "written" /\ q \notin fsRaced' => fsSalt' = [by |-> q,
                      text |-> "whole"]
  BY <1>2, <1>5 DEF Fs!SaltInv, Fs!SaltTypes, Fs!Settled
<1> QED BY <1>1, <1>3, <1>4, <1>5 DEF Fs!SaltInv

LEMMA FilesReadSaltInv ==
  ASSUME Fs!SaltTypes, Fs!SaltInv, NEW p \in Salters, Fs!ReadSalt(p) \/ Fs!MisreadSalt(p)
  PROVE  Fs!SaltTypes' /\ Fs!SaltInv'
<1>1. CASE Fs!MisreadSalt(p)
  BY <1>1, FilesGeneratesInv DEF Fs!MisreadSalt
<1>2. CASE Fs!ReadSalt(p) /\ fsSalt.text = "none"
  BY <1>2, FilesGeneratesInv DEF Fs!ReadSalt, Fs!SaltTypes
<1>3. CASE Fs!ReadSalt(p) /\ fsSalt.text # "none"
  <2> USE <1>3, FilesAssumption DEF Fs!ReadSalt, Fs!Moves
  <2>1. Fs!SaltTypes'
    BY DEF Fs!SaltTypes
  <2>2. Fs!Generating' = Fs!Generating
    BY DEF Fs!Generating, Fs!SaltTypes
  <2>3. /\ fsStep' = [fsStep EXCEPT ![p] = "salted"] /\ fsUsed' = [fsUsed EXCEPT ![p] = fsSalt]
        /\ fsSalt' = fsSalt /\ fsRaced' = fsRaced /\ fsDisturbed' = fsDisturbed
    OBVIOUS
  <2>4. \A q \in Salters : fsStep'[q] \in {"salted", "tagged"} => fsUsed'[q].text # "none"
    BY <2>3 DEF Fs!SaltInv, Fs!SaltTypes
  <2>5. ASSUME ~fsDisturbed
        PROVE  /\ \A q \in Salters : Fs!Settled(fsUsed[q])' => fsSalt' = fsUsed'[q]
               /\ Fs!Settled(fsSalt)' => \A q \in Fs!Generating' : q = fsSalt'.by /\ fsStep'[q] = "written"
               /\ \A q \in Salters :
                    fsStep'[q] = "written" /\ q \notin fsRaced' => fsSalt' = [by |-> q,
                        text |-> "whole"]
    BY <2>2, <2>3, <2>5 DEF Fs!SaltInv, Fs!SaltTypes, Fs!Settled, Fs!Generating
  <2>6. Fs!SaltInv'
    BY <2>2, <2>3, <2>4, <2>5 DEF Fs!SaltInv
  <2> QED BY <2>1, <2>6
<1> QED BY <1>1, <1>2, <1>3

(* Who is about to write is alone, or races, or nobody relies on a salt.   *)
LEMMA FilesOpenSaltInv ==
  ASSUME Fs!SaltTypes, Fs!SaltInv, NEW p \in Salters, Fs!OpenSalt(p)
  PROVE  Fs!SaltTypes' /\ Fs!SaltInv'
<1> USE FilesAssumption DEF Fs!OpenSalt, Fs!Moves
<1>1. Fs!SaltTypes'
  BY DEF Fs!SaltTypes, Fs!NoSalt, Fs!Salts
<1>2. Fs!Generating' = Fs!Generating /\ p \in Fs!Generating /\ fsStep[p] = "fresh"
  BY DEF Fs!Generating, Fs!SaltTypes
<1>3. Fs!SaltInv'
  BY <1>2 DEF Fs!SaltInv, Fs!SaltTypes, Fs!Settled, Fs!NoSalt, Fs!Generating
<1> QED BY <1>1, <1>3

LEMMA FilesWriteSaltInv ==
  ASSUME Fs!SaltTypes, Fs!SaltInv, NEW p \in Salters, Fs!WriteSalt(p)
  PROVE  Fs!SaltTypes' /\ Fs!SaltInv'
<1> USE FilesAssumption DEF Fs!WriteSalt, Fs!Moves
<1>1. Fs!SaltTypes'
  BY DEF Fs!SaltTypes, Fs!Salts
<1>2. Fs!Generating' = Fs!Generating /\ p \in Fs!Generating /\ fsStep[p] = "opened"
  BY DEF Fs!Generating, Fs!SaltTypes
<1>3. Fs!SaltInv'
  BY <1>2 DEF Fs!SaltInv, Fs!SaltTypes, Fs!Settled, Fs!Generating
<1> QED BY <1>1, <1>3

LEMMA FilesWriteSaltFailsInv ==
  ASSUME Fs!SaltTypes, Fs!SaltInv, NEW p \in Salters, Fs!WriteSaltFails(p)
  PROVE  Fs!SaltTypes' /\ Fs!SaltInv'
<1> USE FilesAssumption DEF Fs!WriteSaltFails, Fs!Moves
<1>1. Fs!SaltTypes'
  BY DEF Fs!SaltTypes, Fs!Salts
<1>2. Fs!Generating' = Fs!Generating \ {p} /\ p \in Fs!Generating /\ fsStep[p] = "opened"
  BY DEF Fs!Generating, Fs!SaltTypes
<1>3. Fs!SaltInv'
  BY <1>2 DEF Fs!SaltInv, Fs!SaltTypes, Fs!Settled, Fs!Generating
<1> QED BY <1>1, <1>3

(* Whoever has written its salt alone uses the one that is there.          *)
LEMMA FilesRestrictInv ==
  ASSUME Fs!SaltTypes, Fs!SaltInv, NEW p \in Salters, Fs!Restrict(p)
  PROVE  Fs!SaltTypes' /\ Fs!SaltInv'
<1> USE FilesAssumption DEF Fs!Restrict, Fs!Moves
<1>1. Fs!SaltTypes'
  BY DEF Fs!SaltTypes, Fs!Salts
<1>2. Fs!Generating' = Fs!Generating \ {p} /\ p \in Fs!Generating /\ fsStep[p] = "written"
  BY DEF Fs!Generating, Fs!SaltTypes
<1>3. Fs!SaltInv'
  BY <1>2 DEF Fs!SaltInv, Fs!SaltTypes, Fs!Settled, Fs!Generating
<1> QED BY <1>1, <1>3

(* Steps that leave the file as it is and at most one generator fewer.     *)
LEMMA FilesQuietSaltStep ==
  ASSUME Fs!SaltTypes, Fs!SaltInv, NEW p \in Salters,
         Fs!OpenSaltFails(p) \/ Fs!RestrictFails(p) \/ Fs!Hash(p) \/ Fs!HostnameFails(p) \/ Fs!KillSalter(p)
  PROVE  Fs!SaltTypes' /\ Fs!SaltInv'
<1> USE FilesAssumption DEF Fs!OpenSaltFails, Fs!RestrictFails, Fs!Hash, Fs!HostnameFails,
    Fs!KillSalter, Fs!Moves
<1>1. Fs!SaltTypes'
  BY DEF Fs!SaltTypes
<1>2. Fs!Generating' = Fs!Generating \ {p}
  BY DEF Fs!Generating, Fs!SaltTypes
<1>3. Fs!SaltInv'
  BY <1>2 DEF Fs!SaltInv, Fs!SaltTypes, Fs!Settled, Fs!Generating
<1> QED BY <1>1, <1>3

-----------------------------------------------------------------------------
(* Steps of the machine                                                    *)

(* After an outage state.json is whole: what was renamed to it is safe.    *)
LEMMA FilesPowerFailsInv ==
  ASSUME Fs!IInv, Fs!PowerFails
  PROVE  Fs!IInv'
<1> USE FilesAssumption DEF Fs!IInv, Fs!FileInv
<1> PICK s \in Fs!Survives("state"), c \in Fs!Survives("config") :
      fsDisk' = [fsDisk EXCEPT !["state"] = s, !["config"] = c]
  BY DEF Fs!PowerFails
<1>1. s \in Fs!Content /\ c \in Fs!Content /\ s.whole
  <2>1. fsDurable["state"] \in Fs!Content /\ fsDurable["config"] \in Fs!Content /\ fsDurable["state"].whole
    BY DEF Fs!DiskInv, Fs!FileTypes, Fs!Files
  <2>2. Fs!Torn \in Fs!Content
    BY DEF Fs!Torn, Fs!Content
  <2>3. fsPending["state"] \subseteq Fs!Writers /\ fsPending["config"] \subseteq Fs!Writers
    BY DEF Fs!FileTypes, Fs!Files
  <2>4. \A w \in Fs!Writers : [by |-> w, whole |-> TRUE] \in Fs!Content
    BY DEF Fs!Content
  <2>5. s = fsDurable["state"] \/ \E w \in fsPending["state"] : s = [by |-> w, whole |-> TRUE]
    BY DEF Fs!Survives, Fs!DiskInv
  <2>6. c \in {fsDurable["config"], Fs!Torn} \/ \E w \in fsPending["config"] : c = [by |-> w,
      whole |-> TRUE]
    BY DEF Fs!Survives
  <2>7. s \in Fs!Content /\ s.whole
    BY <2>1, <2>3, <2>4, <2>5
  <2>8. c \in Fs!Content
    BY <2>1, <2>2, <2>3, <2>4, <2>6
  <2> QED BY <2>7, <2>8
<1>2. /\ fsDurable' = fsDisk' /\ fsOutages' = fsOutages + 1 /\ fsOutages < MaxOutages
      /\ fsPending' = [f \in Fs!Files |-> {}]
      /\ fsPc' = [w \in Fs!Writers |-> IF w \in Fs!Running THEN "killed" ELSE fsPc[w]]
      /\ UNCHANGED <<fsTmp, fsSafe, fsFaults>>
  BY DEF Fs!PowerFails
<1>3. fsOutages' \in 0..MaxOutages /\ fsOutages' > 0
  BY <1>2
<1>4. Fs!FileTypes'
  BY <1>1, <1>2 DEF Fs!FileTypes, Fs!Files
<1>5. Fs!TmpInv'
  BY <1>2 DEF Fs!TmpInv, Fs!FileTypes
<1>6. Fs!DiskInv'
  BY <1>1, <1>2, <1>3 DEF Fs!DiskInv, Fs!TornNeedsOutage, Fs!FileTypes, Fs!Files
<1>7. Fs!SaltTypes'
  BY DEF Fs!PowerFails, Fs!SaltTypes, Fs!NoSalt, Fs!Salts
<1>8. Fs!Generating' = {} /\ (~fsDisturbed' => ~fsDisturbed /\ fsSalt' = fsSalt)
  BY DEF Fs!PowerFails, Fs!Generating, Fs!SaltTypes
<1>9. Fs!SaltInv'
  BY <1>8 DEF Fs!PowerFails, Fs!SaltInv, Fs!SaltTypes, Fs!Settled
<1> QED BY <1>3, <1>4, <1>5, <1>6, <1>7, <1>9

(* A step of the writers leaves the salt alone, and the other way round.   *)
LEMMA FilesSaltFrame == Fs!SaltTypes /\ Fs!SaltInv /\ UNCHANGED Fs!saltVars => Fs!SaltTypes' /\ Fs!SaltInv'
BY DEF Fs!saltVars, Fs!SaltTypes, Fs!SaltInv, Fs!Settled, Fs!Generating

LEMMA FilesFileFrame == Fs!FileInv /\ UNCHANGED <<Fs!fileVars, fsOutages>> => Fs!FileInv'
BY DEF Fs!fileVars, Fs!FileInv, Fs!FileTypes, Fs!TmpInv, Fs!DiskInv, Fs!TornNeedsOutage

LEMMA FilesInvariantNext == Fs!IInv /\ [Fs!Next]_Fs!vars => Fs!IInv'
<1> SUFFICES ASSUME Fs!IInv, [Fs!Next]_Fs!vars PROVE Fs!IInv'
  OBVIOUS
<1> USE DEF Fs!IInv
<1>1. CASE \E w \in Fs!Writers : Fs!WriterStep(w)
  <2> PICK w \in Fs!Writers : Fs!WriterStep(w)
    BY <1>1
  <2>1. UNCHANGED <<Fs!saltVars, fsOutages>>
    BY DEF Fs!WriterStep, Fs!Create, Fs!CreateFails, Fs!Write, Fs!WriteFails, Fs!Sync,
        Fs!SyncFails, Fs!Rename,
           Fs!RenameFails, Fs!Scrub, Fs!ScrubFails, Fs!KillWriter
  <2>2. Fs!FileInv'
    BY FilesQuietWriterStep, FilesRenameInv DEF Fs!WriterStep
  <2> QED BY <2>1, <2>2, FilesSaltFrame
<1>2. CASE \E p \in Salters : Fs!SalterStep(p)
  <2> PICK p \in Salters : Fs!SalterStep(p)
    BY <1>2
  <2>1. UNCHANGED <<Fs!fileVars, fsOutages>>
    BY DEF Fs!SalterStep, Fs!ReadSalt, Fs!MisreadSalt, Fs!Generates, Fs!OpenSalt,
        Fs!OpenSaltFails, Fs!WriteSalt,
           Fs!WriteSaltFails, Fs!Restrict, Fs!RestrictFails, Fs!Hash, Fs!HostnameFails,
               Fs!KillSalter
  <2>2. Fs!SaltTypes' /\ Fs!SaltInv'
    BY FilesReadSaltInv, FilesOpenSaltInv, FilesWriteSaltInv, FilesWriteSaltFailsInv,
        FilesRestrictInv, FilesQuietSaltStep
       DEF Fs!SalterStep
  <2> QED BY <2>1, <2>2, FilesFileFrame
<1>3. CASE \E f \in Fs!Files : Fs!Flush(f)
  BY <1>3, FilesFlushInv, FilesSaltFrame DEF Fs!Flush
<1>4. CASE Fs!FlushSalt
  <2>1. Fs!SaltTypes' /\ Fs!SaltInv'
    BY <1>4 DEF Fs!FlushSalt, Fs!SaltTypes, Fs!SaltInv, Fs!Settled, Fs!Generating
  <2> QED BY <1>4, <2>1, FilesFileFrame DEF Fs!FlushSalt
<1>5. CASE Fs!PowerFails
  BY <1>5, FilesPowerFailsInv
<1>6. CASE UNCHANGED Fs!vars
  BY <1>6, FilesSaltFrame, FilesFileFrame DEF Fs!vars
<1> QED BY <1>1, <1>2, <1>3, <1>4, <1>5, <1>6 DEF Fs!Next


-----------------------------------------------------------------------------
(* The binary `no-tickets update` swaps                                    *)

(* Who has no marker in its path is a direct install, and nobody else:     *)
(* detect_install_kind names a manager for every other path.               *)
LEMMA UpdateDirectHasNoMarker ==
  ASSUME updPath \subseteq Upd!Managers
  PROVE  Upd!DetectInstallKind = "Direct" <=> updPath = {}
<1> DEFINE order == <<"Homebrew", "Cargo", "Scoop", "Asdf", "Mise", "Volta">>
           First(k) == order[k] \in updPath /\ \A j \in 1..(k - 1) : order[j] \notin updPath
<1>1. ASSUME updPath # {}
      PROVE  \E k \in 1..6 : First(k)
  <2>1. \E k \in 1..6 : order[k] \in updPath
    <3>1. PICK m \in updPath : m \in Upd!Managers
      BY <1>1
    <3>2. \/ m = order[1] \/ m = order[2] \/ m = order[3]
          \/ m = order[4] \/ m = order[5] \/ m = order[6]
      BY <3>1 DEF Upd!Managers
    <3> QED BY <3>2
  <2>2. CASE order[1] \in updPath
    BY <2>2
  <2>3. CASE order[1] \notin updPath /\ order[2] \in updPath
    BY <2>3
  <2>4. CASE order[1] \notin updPath /\ order[2] \notin updPath /\ order[3] \in updPath
    BY <2>4
  <2>5. CASE order[1] \notin updPath /\ order[2] \notin updPath /\ order[3] \notin updPath /\ order[4] \in updPath
    BY <2>5
  <2>6. CASE /\ order[1] \notin updPath /\ order[2] \notin updPath /\ order[3] \notin updPath
             /\ order[4] \notin updPath /\ order[5] \in updPath
    BY <2>6
  <2>7. CASE /\ order[1] \notin updPath /\ order[2] \notin updPath /\ order[3] \notin updPath
             /\ order[4] \notin updPath /\ order[5] \notin updPath
    BY <2>1, <2>7
  <2> QED BY <2>2, <2>3, <2>4, <2>5, <2>6, <2>7
<1>2. \A k \in 1..6 : order[k] # "Direct"
  OBVIOUS
<1>3. ASSUME updPath # {}
      PROVE  Upd!DetectInstallKind # "Direct"
  <2> DEFINE i == CHOOSE k \in 1..6 : First(k)
  <2>1. i \in 1..6
    BY <1>1, <1>3
  <2>2. Upd!DetectInstallKind = order[i]
    BY <1>3 DEF Upd!DetectInstallKind
  <2> QED BY <1>2, <2>1, <2>2
<1> QED BY <1>3 DEF Upd!DetectInstallKind

(* Nothing has run yet, and the release installed is the latest.           *)
LEMMA UpdateInitInv == Upd!Init => Upd!IInv
<1> SUFFICES ASSUME Upd!Init PROVE Upd!IInv
  OBVIOUS
<1> USE TagsAssumption DEF Upd!Init
<1>1. Upd!TypeOK
  <2>1. updPath \subseteq Upd!Managers
    BY DEF Upd!Managers
  <2>2. updInstalled \in Nat /\ updReleases \subseteq Tags /\ updLatest \in Tags
    OBVIOUS
  <2>3. /\ updPc \in [Updates -> {"idle", "fetching", "swapping", "over"}]
        /\ updCurrent \in [Updates -> Nat] /\ updBefore \in [Updates -> Nat] /\ updLeft \in [Updates -> Nat]
        /\ updSeen \in [Updates -> Tags \cup {Upd!NoTag}] /\ updOutcome \in [Updates -> Upd!Outcomes]
    BY DEF Upd!Outcomes
  <2> QED BY <2>1, <2>2, <2>3 DEF Upd!TypeOK
<1>2. Upd!RunInv /\ Upd!UpdatesGoForward
  BY DEF Upd!RunInv, Upd!UpdatesGoForward, Upd!Running
<1> QED BY <1>1, <1>2 DEF Upd!IInv

(* What an update says when it is over is said of itself only.             *)
LEMMA UpdateEndsInv ==
  ASSUME Upd!IInv, NEW u \in Updates, NEW o \in Upd!Outcomes, NEW version \in Nat,
         Upd!Ends(u, o, version), updPc[u] # "over",
         updPath' = updPath, updReleases' = updReleases, updLatest' = updLatest,
         updCurrent' \in [Updates -> Nat], \A w \in Updates \ {u} : updCurrent'[w] = updCurrent[w],
         updSeen' \in [Updates -> Tags \cup {Upd!NoTag}],
             \A w \in Updates \ {u} : updSeen'[w] = updSeen[w],
         updOverlapped' \in {updOverlapped, updOverlapped \cup (Upd!Running \ {u})},
         version # updInstalled => updOverlapped' = updOverlapped \cup (Upd!Running \ {u}),
         version < updInstalled => u \in updOverlapped,
         version # updInstalled => updPath = {} /\ version > updCurrent'[u],
         updPath = {} /\ Upd!ExitCode(o) = 0 =>
           updSeen'[u].ok /\ (version = Upd!Normalise(updSeen'[u]) \/ u \in updOverlapped)
  PROVE  Upd!IInv'
<1> USE DEF Upd!Ends
<1>1. Upd!TypeOK'
  BY DEF Upd!IInv, Upd!TypeOK, Upd!Running
<1>2. /\ \A w \in Updates \ {u} : updPc'[w] = updPc[w] /\ updOutcome'[w] = updOutcome[w]
                                  /\ updBefore'[w] = updBefore[w] /\ updLeft'[w] = updLeft[w]
      /\ updPc'[u] = "over" /\ updOutcome'[u] = o /\ updBefore'[u] = updInstalled /\ updLeft'[u] = version
  BY DEF Upd!IInv, Upd!TypeOK
<1>3. Upd!Running' = Upd!Running \ {u}
  BY <1>2 DEF Upd!Running
<1>4. Upd!RunInv'
  BY <1>2, <1>3 DEF Upd!IInv, Upd!RunInv, Upd!Running, Upd!Normalise
<1>5. Upd!UpdatesGoForward'
  <2> SUFFICES ASSUME NEW w \in Updates, updPc'[w] = "over"
               PROVE  /\ updLeft'[w] < updBefore'[w] => w \in updOverlapped'
                      /\ updLeft'[w] # updBefore'[w] => updPath' = {} /\ updLeft'[w] > updCurrent'[w]
                      /\ updPath' = {} /\ Upd!ExitCode(updOutcome'[w]) = 0 =>
                           updSeen'[w].ok /\ (updLeft'[w] = updSeen'[w].num \/ w \in updOverlapped')
    BY DEF Upd!UpdatesGoForward, Upd!Normalise, Upd!ExitCode
  <2>1. CASE w = u
    BY <1>2, <2>1 DEF Upd!Normalise
  <2>2. CASE w # u
    BY <1>2, <2>2 DEF Upd!IInv, Upd!UpdatesGoForward, Upd!Normalise
  <2> QED BY <2>1, <2>2
<1> QED BY <1>1, <1>4, <1>5 DEF Upd!IInv

(* A managed install is left alone; any other update starts from the       *)
(* version it was compiled as.                                             *)
LEMMA UpdateBeginInv ==
  ASSUME Upd!IInv, NEW u \in Updates, Upd!Begin(u)
  PROVE  Upd!IInv'
<1> USE DEF Upd!Begin
<1>1. CASE Upd!DetectInstallKind # "Direct"
  <2>1. updPath # {}
    BY <1>1, UpdateDirectHasNoMarker DEF Upd!IInv, Upd!TypeOK
  <2>2. "ManagedRedirect" \in Upd!Outcomes /\ updInstalled \in Nat
    BY DEF Upd!Outcomes, Upd!IInv, Upd!TypeOK
  <2>3. updCurrent' \in [Updates -> Nat] /\ \A w \in Updates \ {u} : updCurrent'[w] = updCurrent[w]
    BY DEF Upd!IInv, Upd!TypeOK
  <2> QED BY <1>1, <2>1, <2>2, <2>3, UpdateEndsInv DEF Upd!githubVars, Upd!IInv, Upd!TypeOK
<1>2. CASE Upd!DetectInstallKind = "Direct"
  <2>1. updPath = {}
    BY <1>2, UpdateDirectHasNoMarker DEF Upd!IInv, Upd!TypeOK
  <2>2. /\ updPc' = [updPc EXCEPT ![u] = "fetching"]
        /\ updCurrent' = [updCurrent EXCEPT ![u] = updInstalled]
        /\ UNCHANGED <<updPath, updInstalled, updOutcome, updBefore, updLeft, updSeen,
            updReleases, updLatest, updOverlapped>>
    BY <1>2 DEF Upd!githubVars
  <2>3. Upd!TypeOK'
    BY <2>2 DEF Upd!IInv, Upd!TypeOK
  <2>4. Upd!RunInv'
    BY <2>1, <2>2 DEF Upd!IInv, Upd!TypeOK, Upd!RunInv, Upd!Running, Upd!Normalise
  <2>5. Upd!UpdatesGoForward'
    BY <2>2 DEF Upd!IInv, Upd!TypeOK, Upd!UpdatesGoForward, Upd!Normalise, Upd!ExitCode
  <2> QED BY <2>3, <2>4, <2>5 DEF Upd!IInv
<1> QED BY <1>1, <1>2

(* What is fetched is either no newer, and the end of it, or swapped in.   *)
LEMMA UpdateFetchInv ==
  ASSUME Upd!IInv, NEW u \in Updates, Upd!Fetch(u)
  PROVE  Upd!IInv'
<1> USE DEF Upd!Fetch
<1>1. /\ u \in Upd!Running /\ updPath = {} /\ updPc[u] = "fetching"
      /\ updInstalled \in Nat /\ updCurrent[u] \in Nat /\ updLatest \in Tags /\ updLatest.num \in Nat
      /\ updSeen' \in [Updates -> Tags \cup {Upd!NoTag}] /\ updSeen'[u] = updLatest
      /\ \A w \in Updates \ {u} : updSeen'[w] = updSeen[w]
  BY TagsAssumption DEF Upd!IInv, Upd!TypeOK, Upd!RunInv, Upd!Running
<1>2. updInstalled = updCurrent[u] \/ u \in updOverlapped
  BY <1>1 DEF Upd!IInv, Upd!RunInv
<1>3. CASE Upd!Verdict(updCurrent[u], updLatest) = "swap"
  <2>1. updLatest.ok /\ Upd!Normalise(updLatest) > updCurrent[u]
    BY <1>1, <1>3 DEF Upd!Verdict, Upd!IsDowngrade, Upd!IsUpdateAvailable
  <2>2. /\ updPc' = [updPc EXCEPT ![u] = "swapping"]
        /\ updSeen' = [updSeen EXCEPT ![u] = updLatest]
        /\ UNCHANGED <<updPath, updInstalled, updCurrent, updOutcome, updBefore, updLeft,
            updReleases, updLatest, updOverlapped>>
    BY <1>3 DEF Upd!githubVars
  <2>3. Upd!TypeOK'
    BY <1>1, <2>2 DEF Upd!IInv, Upd!TypeOK
  <2>4. Upd!RunInv'
    BY <1>1, <1>2, <2>1, <2>2 DEF Upd!IInv, Upd!TypeOK, Upd!RunInv, Upd!Running, Upd!Normalise
  <2>5. Upd!UpdatesGoForward'
    BY <1>1, <2>2 DEF Upd!IInv, Upd!TypeOK, Upd!UpdatesGoForward, Upd!Normalise, Upd!ExitCode
  <2> QED BY <2>3, <2>4, <2>5 DEF Upd!IInv
<1>4. CASE Upd!Verdict(updCurrent[u], updLatest) # "swap"
  <2> DEFINE o == Upd!Verdict(updCurrent[u], updLatest)
  <2>1. o \in Upd!Outcomes
    BY <1>4 DEF Upd!Verdict, Upd!Outcomes
  <2>2. ASSUME Upd!ExitCode(o) = 0
        PROVE  updLatest.ok /\ Upd!Normalise(updLatest) = updCurrent[u]
    BY <1>1, <1>4, <2>2 DEF Upd!ExitCode, Upd!Verdict, Upd!IsDowngrade, Upd!IsUpdateAvailable,
        Upd!Normalise
  <2>3. Upd!Ends(u, o, updInstalled)
    BY <1>4
  <2> HIDE DEF o
  <2> QED BY <1>1, <1>2, <2>1, <2>2, <2>3, UpdateEndsInv DEF Upd!githubVars, Upd!IInv, Upd!TypeOK
<1> QED BY <1>3, <1>4

LEMMA UpdateFetchFailsInv ==
  ASSUME Upd!IInv, NEW u \in Updates, Upd!FetchFails(u)
  PROVE  Upd!IInv'
<1>1. "FetchFailed" \in Upd!Outcomes /\ Upd!ExitCode("FetchFailed") # 0
  BY DEF Upd!Outcomes, Upd!ExitCode
<1> QED BY <1>1, UpdateEndsInv DEF Upd!FetchFails, Upd!githubVars, Upd!IInv, Upd!TypeOK

(* The version swapped in is the one that was compared, whatever the       *)
(* latest has become.                                                      *)
LEMMA UpdateSwapInv ==
  ASSUME Upd!IInv, NEW u \in Updates, Upd!Swap(u)
  PROVE  Upd!IInv'
<1> DEFINE version == Upd!Normalise(updSeen[u])
<1>1. /\ u \in Upd!Running /\ updPath = {} /\ updPc[u] = "swapping" /\ updSeen[u].ok /\ version > updCurrent[u]
      /\ updInstalled = updCurrent[u] \/ u \in updOverlapped
  BY DEF Upd!Swap, Upd!Running, Upd!IInv, Upd!RunInv
<1>2. updInstalled \in Nat /\ updCurrent[u] \in Nat /\ version \in Nat
  BY TagsAssumption DEF Upd!IInv, Upd!TypeOK, Upd!Normalise, Upd!NoTag
<1>3. Upd!Ends(u, "Updated", version) /\ "Updated" \in Upd!Outcomes
  BY DEF Upd!Swap, Upd!Outcomes
<1> QED BY <1>1, <1>2, <1>3, UpdateEndsInv DEF Upd!Swap, Upd!githubVars, Upd!IInv, Upd!TypeOK

LEMMA UpdateSwapFailsInv ==
  ASSUME Upd!IInv, NEW u \in Updates, Upd!SwapFails(u)
  PROVE  Upd!IInv'
<1>1. "SwapFailed" \in Upd!Outcomes /\ Upd!ExitCode("SwapFailed") # 0
  BY DEF Upd!Outcomes, Upd!ExitCode
<1> QED BY <1>1, UpdateEndsInv DEF Upd!SwapFails, Upd!githubVars, Upd!IInv, Upd!TypeOK

(* Whoever replaces the binary overlaps with every update that runs.       *)
LEMMA UpdateReinstallInv ==
  ASSUME Upd!IInv, NEW t \in Tags, Upd!Reinstall(t)
  PROVE  Upd!IInv'
<1> USE DEF Upd!Reinstall, Upd!updateVars, Upd!githubVars
<1>1. Upd!TypeOK'
  BY TagsAssumption DEF Upd!IInv, Upd!TypeOK, Upd!Running
<1>2. Upd!RunInv'
  BY DEF Upd!IInv, Upd!RunInv, Upd!Running, Upd!Normalise
<1>3. Upd!UpdatesGoForward'
  BY DEF Upd!IInv, Upd!UpdatesGoForward, Upd!Normalise, Upd!ExitCode
<1> QED BY <1>1, <1>2, <1>3 DEF Upd!IInv

LEMMA UpdateReleasesInv ==
  ASSUME Upd!IInv, NEW t \in Tags, Upd!PublishRelease(t) \/ Upd!Withdraw(t)
  PROVE  Upd!IInv'
<1> USE DEF Upd!PublishRelease, Upd!Withdraw, Upd!updateVars
<1>1. Upd!TypeOK'
  BY DEF Upd!IInv, Upd!TypeOK
<1>2. Upd!RunInv'
  BY DEF Upd!IInv, Upd!RunInv, Upd!Running, Upd!Normalise
<1>3. Upd!UpdatesGoForward'
  BY DEF Upd!IInv, Upd!UpdatesGoForward, Upd!Normalise, Upd!ExitCode
<1> QED BY <1>1, <1>2, <1>3 DEF Upd!IInv

LEMMA UpdateInvariantNext == Upd!IInv /\ [Upd!Next]_Upd!vars => Upd!IInv'
<1> SUFFICES ASSUME Upd!IInv, [Upd!Next]_Upd!vars PROVE Upd!IInv'
  OBVIOUS
<1>1. CASE Upd!Next
  BY <1>1, UpdateBeginInv, UpdateFetchInv, UpdateFetchFailsInv, UpdateSwapInv,
      UpdateSwapFailsInv, UpdateReinstallInv, UpdateReleasesInv
     DEF Upd!Next
<1>2. CASE UNCHANGED Upd!vars
  BY <1>2 DEF Upd!vars, Upd!updateVars, Upd!githubVars, Upd!IInv, Upd!TypeOK, Upd!RunInv,
      Upd!Running, Upd!UpdatesGoForward,
     Upd!Normalise, Upd!ExitCode
<1> QED BY <1>1, <1>2


-----------------------------------------------------------------------------
(* The worker behind get.no-tickets.com                                    *)

LEMMA WebInitInv == Web!Init => Web!IInv
<1> SUFFICES ASSUME Web!Init PROVE Web!IInv
  OBVIOUS
<1> USE WorkerAssumption DEF Web!Init
<1>1. Web!TypeOK
  <2>1. webLatest \in 1..MaxRelease /\ webNow \in 0..MaxHours
    OBVIOUS
  <2>2. webDown \in BOOLEAN
    OBVIOUS
  <2>3. webCached \in [Web!Paths -> [body : {b \in Web!Bodies : b.kind # "error"} \cup {Web!NoBody}, at : 0..MaxHours]]
    OBVIOUS
  <2>4. webUntil \in [1..MaxRelease -> 0..MaxHours]
    OBVIOUS
  <2> QED BY <2>1, <2>2, <2>3, <2>4 DEF Web!TypeOK
<1>2. Web!CacheInv
  BY DEF Web!CacheInv, Web!IsInstaller, Web!NoBody
<1>3. Web!IsInstaller(webServed.body) => webServed.body.release \in 1..webLatest
  BY DEF Web!IsInstaller, Web!NoAnswer, Web!NoBody
<1>4. Web!ServedIsRecent
  BY DEF Web!ServedIsRecent, Web!NoAnswer, Web!NoBody
<1> QED BY <1>1, <1>2, <1>3, <1>4 DEF Web!IInv

(* What the worker answers is an installer of the latest release, or none. *)
LEMMA WebAnswerType ==
  ASSUME Web!TypeOK, NEW p \in Web!Paths, NEW accept \in Web!Accepts
  PROVE  /\ Web!Answer(p, accept) \in Web!Bodies
         /\ Web!IsInstaller(Web!Answer(p, accept)) => Web!Answer(p, accept).release = webLatest
         /\ Web!Answer(p, accept).kind = "error" => webDown
BY WorkerAssumption DEF Web!TypeOK, Web!Answer, Web!Bodies, Web!PickUpstream, Web!IsInstaller

(* A cached answer is younger than max-age, and at most that much older    *)
(* than the last moment of its release.                                    *)
LEMMA WebGetCachedInv ==
  ASSUME Web!IInv, NEW p \in Web!Paths, NEW accept \in Web!Accepts, Web!GetCached(p, accept)
  PROVE  Web!IInv'
<1> USE WorkerAssumption DEF Web!IInv, Web!GetCached
<1>1. webCached[p].body \in Web!Bodies /\ webCached[p].body.kind # "error" /\ webCached[p].at \in 0..MaxHours
  BY DEF Web!TypeOK, Web!IsFresh
<1>2. Web!TypeOK'
  BY <1>1 DEF Web!TypeOK
<1>3. Web!CacheInv'
  BY DEF Web!CacheInv
<1>4. webServed'.body = webCached[p].body /\ webNow - webCached[p].at < MaxAge
  BY DEF Web!IsFresh
<1>5. Web!IsInstaller(webServed'.body) => webServed'.body.release \in 1..webLatest'
  BY <1>4 DEF Web!CacheInv
<1>6. ASSUME Web!IsInstaller(webCached[p].body)
      PROVE  webNow <= webUntil[webCached[p].body.release] + MaxAge
  <2>1. webCached[p].body.release \in 1..webLatest /\ webCached[p].at <= webUntil[webCached[p].body.release]
    BY <1>6 DEF Web!CacheInv
  <2>2. webUntil[webCached[p].body.release] \in Nat /\ webNow \in Nat
    BY <2>1 DEF Web!TypeOK
  <2> QED BY <1>1, <1>4, <2>1, <2>2
<1>7. Web!ServedIsRecent'
  BY <1>1, <1>4, <1>6 DEF Web!ServedIsRecent, Web!IsInstaller
<1> QED BY <1>2, <1>3, <1>5, <1>7 DEF Web!IInv

(* An answer of the worker is of now, and may be kept from now on.         *)
LEMMA WebGetInv ==
  ASSUME Web!IInv, NEW p \in Web!Paths, NEW accept \in Web!Accepts, Web!Get(p, accept)
  PROVE  Web!IInv'
<1> DEFINE body == Web!Answer(p, accept)
<1>1. /\ body \in Web!Bodies
      /\ Web!IsInstaller(body) => body.release = webLatest
      /\ body.kind = "error" => webDown
  BY WebAnswerType DEF Web!IInv
<1>2. /\ webServed' = [accept |-> accept, path |-> p, body |-> body]
      /\ webCached' = IF Web!MayKeep(body) THEN [webCached EXCEPT ![p] = [body |-> body,
          at |-> webNow]]
                   ELSE webCached
      /\ UNCHANGED <<webLatest, webDown, webNow, webUntil>>
  BY DEF Web!Get
<1> HIDE DEF body
<1> USE WorkerAssumption DEF Web!IInv
<1>3. Web!TypeOK'
  BY <1>1, <1>2 DEF Web!TypeOK, Web!MayKeep
<1>4. Web!CacheInv'
  <2>1. webCached \in [Web!Paths -> [body : {b \in Web!Bodies : b.kind # "error"} \cup {Web!NoBody}, at : 0..MaxHours]]
        /\ webLatest \in 1..MaxRelease /\ webNow \in Nat
    BY DEF Web!TypeOK
  <2>2. SUFFICES ASSUME NEW q \in Web!Paths
                 PROVE  /\ webCached'[q].at <= webNow
                        /\ Web!IsInstaller(webCached'[q].body) =>
                             /\ webCached'[q].body.release \in 1..webLatest
                             /\ webCached'[q].at <= webUntil[webCached'[q].body.release]
    BY <1>2 DEF Web!CacheInv
  <2>3. CASE q = p /\ Web!MayKeep(body)
    BY <1>1, <1>2, <2>1, <2>3 DEF Web!CacheInv
  <2>4. CASE ~(q = p /\ Web!MayKeep(body))
    BY <1>2, <2>1, <2>4 DEF Web!CacheInv
  <2> QED BY <2>3, <2>4
<1>5. Web!IsInstaller(webServed'.body) => webServed'.body.release \in 1..webLatest'
  BY <1>1, <1>2 DEF Web!TypeOK
<1>6. Web!ServedIsRecent'
  BY <1>1, <1>2 DEF Web!ServedIsRecent, Web!TypeOK, Web!CacheInv, Web!IsInstaller
<1> QED BY <1>3, <1>4, <1>5, <1>6 DEF Web!IInv

(* A new release begins its time now.                                      *)
LEMMA WebPublishReleaseInv ==
  ASSUME Web!IInv, Web!PublishRelease
  PROVE  Web!IInv'
<1> USE WorkerAssumption DEF Web!IInv, Web!PublishRelease
<1>1. Web!TypeOK'
  BY DEF Web!TypeOK
<1>2. Web!CacheInv'
  BY DEF Web!TypeOK, Web!CacheInv
<1>3. ~Web!IsInstaller(webServed'.body) /\ Web!ServedIsRecent'
  BY DEF Web!IsInstaller, Web!ServedIsRecent, Web!NoAnswer, Web!NoBody
<1> QED BY <1>1, <1>2, <1>3 DEF Web!IInv

LEMMA WebToggleInv ==
  ASSUME Web!IInv, Web!Toggle
  PROVE  Web!IInv'
<1> USE WorkerAssumption DEF Web!IInv, Web!Toggle
<1>1. Web!TypeOK' /\ Web!CacheInv'
  BY DEF Web!TypeOK, Web!CacheInv
<1>2. ~Web!IsInstaller(webServed'.body) /\ Web!ServedIsRecent'
  BY DEF Web!IsInstaller, Web!ServedIsRecent, Web!NoAnswer, Web!NoBody
<1> QED BY <1>1, <1>2 DEF Web!IInv

(* The latest release stays the latest while time passes.                  *)
LEMMA WebTickInv ==
  ASSUME Web!IInv, Web!Tick
  PROVE  Web!IInv'
<1> USE WorkerAssumption DEF Web!IInv, Web!Tick
<1>1. Web!TypeOK'
  BY DEF Web!TypeOK
<1>2. Web!CacheInv'
  BY DEF Web!TypeOK, Web!CacheInv
<1>3. ~Web!IsInstaller(webServed'.body) /\ Web!ServedIsRecent'
  BY DEF Web!IsInstaller, Web!ServedIsRecent, Web!NoAnswer, Web!NoBody
<1> QED BY <1>1, <1>2, <1>3 DEF Web!IInv

LEMMA WebInvariantNext == Web!IInv /\ [Web!Next]_Web!vars => Web!IInv'
<1> SUFFICES ASSUME Web!IInv, [Web!Next]_Web!vars PROVE Web!IInv'
  OBVIOUS
<1>1. CASE Web!Next
  BY <1>1, WebGetCachedInv, WebGetInv, WebPublishReleaseInv, WebToggleInv, WebTickInv DEF Web!Next
<1>2. CASE UNCHANGED Web!vars
  BY <1>2 DEF Web!vars, Web!IInv, Web!TypeOK, Web!CacheInv, Web!ServedIsRecent
<1> QED BY <1>1, <1>2


-----------------------------------------------------------------------------
(* The inductive invariant of FileWrites holds throughout.                 *)
LEMMA FilesInvariance == Fs!Spec => []Fs!IInv
BY FilesInitInv, FilesInvariantNext, PTL DEF Fs!Spec

(* That of SelfUpdate does.                                                *)
LEMMA UpdateInvariance == Upd!Spec => []Upd!IInv
BY UpdateInitInv, UpdateInvariantNext, PTL DEF Upd!Spec

(* That of InstallWorker does.                                             *)
LEMMA WebInvariance == Web!Spec => []Web!IInv
BY WebInitInv, WebInvariantNext, PTL DEF Web!Spec

-----------------------------------------------------------------------------
(* The installation implements each of its parts                           *)

(* A step of one part is a step of it, and a stutter of the others.        *)
LEMMA PartSteps ==
  [AllNext]_allVars =>
    /\ [Next]_vars
    /\ [Fs!Next]_(Fs!vars)
    /\ [Upd!Next]_(Upd!vars)
    /\ [Web!Next]_(Web!vars)
<1> SUFFICES ASSUME [AllNext]_allVars
             PROVE  /\ [Next]_vars
                    /\ [Fs!Next]_(Fs!vars)
                    /\ [Upd!Next]_(Upd!vars)
                    /\ [Web!Next]_(Web!vars)
  OBVIOUS
<1>1. \/ Next /\ UNCHANGED <<fsVars, updVars, webVars>>
      \/ Fs!Next /\ UNCHANGED <<vars, updVars, webVars>>
      \/ Upd!Next /\ UNCHANGED <<vars, fsVars, webVars>>
      \/ Web!Next /\ UNCHANGED <<vars, fsVars, updVars>>
      \/ UNCHANGED <<vars, fsVars, updVars, webVars>>
  BY DEF AllNext, AccountOnly, FilesOnly, UpdateOnly, InstallOnly, allVars, Next, LoginStep,
     Fs!Next, Fs!WriterStep, Fs!SalterStep, Upd!Next, Web!Next
<1>2. UNCHANGED fsVars => UNCHANGED Fs!vars
  BY DEF fsVars, Fs!vars, Fs!fileVars, Fs!saltVars
<1>3. UNCHANGED updVars => UNCHANGED Upd!vars
  BY DEF updVars, Upd!vars, Upd!updateVars, Upd!githubVars
<1>4. UNCHANGED webVars => UNCHANGED Web!vars
  BY DEF webVars, Web!vars
<1> QED BY <1>1, <1>2, <1>3, <1>4

(* An installation behaves, towards its credentials, its files, its binary *)
(* and its installer, as the module of each says, and the steps of one are *)
(* none of another.                                                        *)
THEOREM ImplementsParts == AllSpec => Spec /\ Fs!Spec /\ Upd!Spec /\ Web!Spec
<1>1. AllInit => Init /\ Fs!Init /\ Upd!Init /\ Web!Init
  BY DEF AllInit
<1> QED
  BY <1>1, PartSteps, PTL DEF AllSpec, Spec, Fs!Spec, Upd!Spec, Web!Spec

-----------------------------------------------------------------------------
(* Files, temporary files, salts, updates, releases, caches and histories  *)
(* keep their types; in particular no writer meets more than two faults.   *)
THEOREM TypesCorrect == AllSpec => []TypesOK
<1>1. Web!IInv => Web!TypeOK
  BY DEF Web!IInv
<1>2. Upd!IInv => Upd!TypeOK
  BY DEF Upd!IInv
<1>3. Fs!TypeOK /\ Upd!TypeOK /\ Web!TypeOK => TypesOK
  BY DEF TypesOK
<1> QED
  BY <1>1, <1>2, <1>3, FilesTypes, FilesInvariance, UpdateInvariance, WebInvariance,
     ImplementsParts, PTL

(* write_atomic never shows a part of a file, however often the power      *)
(* fails; write_secret_atomic does only after an outage.                   *)
THEOREM TearingNeedsOutage == AllSpec => []TornNeedsOutage
<1>1. Fs!IInv => TornNeedsOutage
  BY DEF Fs!IInv, Fs!FileInv, Fs!DiskInv, TornNeedsOutage
<1> QED BY <1>1, FilesInvariance, ImplementsParts, PTL

(* A temporary file stays behind only after a kill or two failing calls:   *)
(* each of the three functions scrubs on every error it returns.           *)
THEOREM LeftoversHaveExcuse == AllSpec => []LeftoversAreExcused
<1>1. Fs!IInv => LeftoversAreExcused
  BY DEF Fs!IInv, Fs!FileInv, Fs!FileTypes, Fs!TmpInv, Fs!LeftoversAreExcused, Fs!Running,
     LeftoversAreExcused
<1> QED BY <1>1, FilesInvariance, ImplementsParts, PTL

(* Two hashes of read_or_create_salt's salts differ only after a race, an  *)
(* unreadable salt or an outage.                                           *)
THEOREM HashesAgree == AllSpec => []SaltsAgree
<1>1. Fs!IInv => SaltsAgree
  BY DEF Fs!IInv, Fs!SaltTypes, Fs!SaltInv, Fs!Settled, Fs!SaltsAgree, SaltsAgree
<1> QED BY <1>1, FilesInvariance, ImplementsParts, PTL

(* orchestrate never takes the binary back unless it was replaced under    *)
(* the update, never touches a managed install, and swaps in what it       *)
(* compared, whatever is published or withdrawn in between.                *)
THEOREM UpdatesAdvance == AllSpec => []UpdatesGoForward
<1>1. Upd!IInv => UpdatesGoForward
  BY DEF Upd!IInv, UpdatesGoForward
<1> QED BY <1>1, UpdateInvariance, ImplementsParts, PTL

(* An installer is served until max-age after its release was the latest,  *)
(* through however many caches, and an error only while GitHub fails:      *)
(* fetch gives Cache-Control to nothing else.                              *)
THEOREM InstallersAreRecent == AllSpec => []ServedIsRecent
<1>1. Web!IInv => ServedIsRecent
  BY DEF Web!IInv, ServedIsRecent
<1> QED BY <1>1, WebInvariance, ImplementsParts, PTL
==============================================================================
