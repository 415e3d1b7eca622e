---------------------------- MODULE Installation ----------------------------
(***************************************************************************)
(* What an installation consists of, one after the other: the session      *)
(* credentials, the files nt-cli writes, the binary it swaps, and the      *)
(* installer it came from.  `part` says which a behaviour is of.           *)
(***************************************************************************)
EXTENDS Authentication

CONSTANTS
  Synced, Secret, Salters, MaxStarted, MaxOutages,  \* of FileWrites
  Updates, Tags, Markers,                           \* of SelfUpdate
  MaxAge, MaxRelease, MaxHours                      \* of InstallWorker

(* Nobody is a process, and each writer calls one of the two functions.    *)
ASSUME FilesAssumption ==
  /\ "nobody" \notin Synced \cup Secret \cup Salters
  /\ Synced \cap Secret = {}
  /\ MaxOutages \in Nat
ASSUME TagsAssumption ==
  /\ Tags \subseteq [num : Nat, v : BOOLEAN, meta : BOOLEAN, ok : BOOLEAN]
  /\ Markers \subseteq {"Homebrew", "Cargo", "Scoop", "Asdf", "Mise", "Volta"}
ASSUME WorkerAssumption ==
  MaxAge \in Nat /\ MaxRelease \in Nat \ {0} /\ MaxHours \in Nat

VARIABLES
  part,
  fsPc, fsTmp, fsSafe, fsDisk, fsDurable, fsPending, fsStep, fsUsed, fsSalt, fsSaltKept,
  fsOutages, fsFaults, fsRaced, fsDisturbed,
  updPath, updInstalled, updReleases, updLatest, updPc, updCurrent, updSeen, updOutcome,
  updBefore, updLeft, updOverlapped,
  webLatest, webDown, webCached, webServed, webNow, webUntil

fsVars == <<fsPc, fsTmp, fsSafe, fsDisk, fsDurable, fsPending, fsStep, fsUsed, fsSalt,
            fsSaltKept, fsOutages, fsFaults, fsRaced, fsDisturbed>>

updVars == <<updPath, updInstalled, updReleases, updLatest, updPc, updCurrent, updSeen,
             updOutcome, updBefore, updLeft, updOverlapped>>

webVars == <<webLatest, webDown, webCached, webServed, webNow, webUntil>>

Fs == INSTANCE FileWrites WITH
  pc <- fsPc, tmp <- fsTmp, safe <- fsSafe, disk <- fsDisk, durable <- fsDurable,
  pending <- fsPending, step <- fsStep, used <- fsUsed, salt <- fsSalt, saltKept <- fsSaltKept,
  outages <- fsOutages, faults <- fsFaults, raced <- fsRaced, disturbed <- fsDisturbed

Upd == INSTANCE SelfUpdate WITH
  path <- updPath, installed <- updInstalled, releases <- updReleases, latest <- updLatest,
  pc <- updPc, current <- updCurrent, seen <- updSeen, outcome <- updOutcome,
  before <- updBefore, left <- updLeft, overlapped <- updOverlapped

Web == INSTANCE InstallWorker WITH
  MaxTime <- MaxHours,
  latest <- webLatest, down <- webDown, cached <- webCached, served <- webServed,
  now <- webNow, until <- webUntil

allVars == <<part, vars, fsVars, updVars, webVars>>

AllInit ==
  /\ part \in {"account", "files", "update", "install"}
  /\ Init
  /\ Fs!Init
  /\ Upd!Init /\ (part = "update" \/ updPath = {})
  /\ Web!Init

AccountOnly(A) == part = "account" /\ A /\ UNCHANGED <<part, fsVars, updVars, webVars>>

FilesOnly(A) == part = "files" /\ A /\ UNCHANGED <<part, vars, updVars, webVars>>

UpdateOnly(A) == part = "update" /\ A /\ UNCHANGED <<part, vars, fsVars, webVars>>

InstallOnly(A) == part = "install" /\ A /\ UNCHANGED <<part, vars, fsVars, updVars>>

AllNext ==
  \/ \E l \in Logins, h \in Hosts : AccountOnly(Begin(l, h))
  \/ \E l \in Logins, q \in Requests : AccountOnly(Connect(l, q))
  \/ \E l \in Logins : AccountOnly(SetupFails(l))
  \/ \E l \in Logins : AccountOnly(Accept(l))
  \/ \E l \in Logins : AccountOnly(GiveUp(l))
  \/ \E l \in Logins : AccountOnly(Reply(l))
  \/ \E l \in Logins : AccountOnly(Refuse(l))
  \/ \E l \in Logins : AccountOnly(ReadTimesOut(l))
  \/ \E l \in Logins : AccountOnly(BreaksOff(l))
  \/ \E l \in Logins : AccountOnly(Save(l))
  \/ \E l \in Logins : AccountOnly(SaveFails(l))
  \/ \E l \in Logins : AccountOnly(Kill(l))
  \/ \E o \in Logouts : AccountOnly(Logout(o))
  \/ \E o \in Logouts : AccountOnly(LogoutFails(o))
  \/ \E r \in Readers, h \in Hosts, token \in BOOLEAN : AccountOnly(Ask(r, h, token))
  \/ AccountOnly(Tick)
  \/ AccountOnly(SetClock)
  \/ \E w \in Fs!Writers : FilesOnly(Fs!Create(w))
  \/ \E w \in Fs!Writers : FilesOnly(Fs!CreateFails(w))
  \/ \E w \in Fs!Writers : FilesOnly(Fs!Write(w))
  \/ \E w \in Fs!Writers : FilesOnly(Fs!WriteFails(w))
  \/ \E w \in Fs!Writers : FilesOnly(Fs!Sync(w))
  \/ \E w \in Fs!Writers : FilesOnly(Fs!SyncFails(w))
  \/ \E w \in Fs!Writers : FilesOnly(Fs!Rename(w))
  \/ \E w \in Fs!Writers : FilesOnly(Fs!RenameFails(w))
  \/ \E w \in Fs!Writers : FilesOnly(Fs!Scrub(w))
  \/ \E w \in Fs!Writers : FilesOnly(Fs!ScrubFails(w))
  \/ \E w \in Fs!Writers : FilesOnly(Fs!KillWriter(w))
  \/ \E p \in Salters : FilesOnly(Fs!ReadSalt(p))
  \/ \E p \in Salters : FilesOnly(Fs!MisreadSalt(p))
  \/ \E p \in Salters : FilesOnly(Fs!OpenSalt(p))
  \/ \E p \in Salters : FilesOnly(Fs!OpenSaltFails(p))
  \/ \E p \in Salters : FilesOnly(Fs!WriteSalt(p))
  \/ \E p \in Salters : FilesOnly(Fs!WriteSaltFails(p))
  \/ \E p \in Salters : FilesOnly(Fs!Restrict(p))
  \/ \E p \in Salters : FilesOnly(Fs!RestrictFails(p))
  \/ \E p \in Salters : FilesOnly(Fs!Hash(p))
  \/ \E p \in Salters : FilesOnly(Fs!HostnameFails(p))
  \/ \E p \in Salters : FilesOnly(Fs!KillSalter(p))
  \/ \E f \in Fs!Files : FilesOnly(Fs!Flush(f))
  \/ FilesOnly(Fs!FlushSalt)
  \/ FilesOnly(Fs!PowerFails)
  \/ \E u \in Updates : UpdateOnly(Upd!Begin(u))
  \/ \E u \in Updates : UpdateOnly(Upd!Fetch(u))
  \/ \E u \in Updates : UpdateOnly(Upd!FetchFails(u))
  \/ \E u \in Updates : UpdateOnly(Upd!Swap(u))
  \/ \E u \in Updates : UpdateOnly(Upd!SwapFails(u))
  \/ \E t \in Tags : UpdateOnly(Upd!PublishRelease(t))
  \/ \E t \in Tags : UpdateOnly(Upd!Withdraw(t))
  \/ \E t \in Tags : UpdateOnly(Upd!Reinstall(t))
  \/ \E p \in Web!Paths, a \in Web!Accepts : InstallOnly(Web!GetCached(p, a))
  \/ \E p \in Web!Paths, a \in Web!Accepts : InstallOnly(Web!Get(p, a))
  \/ InstallOnly(Web!PublishRelease)
  \/ InstallOnly(Web!Toggle)
  \/ InstallOnly(Web!Tick)

AllSpec == AllInit /\ [][AllNext]_allVars

(* The type invariants of the three that are instances.                    *)
TypesOK == Fs!TypeOK /\ Upd!TypeOK /\ Web!TypeOK

(* No reader sees a part of a file, unless the power failed.               *)
TornNeedsOutage == Fs!TornNeedsOutage

(* A temporary file is left behind by a kill or two failing calls.         *)
LeftoversAreExcused == Fs!LeftoversAreExcused

(* Hashes of one machine differ only after a race for the salt.            *)
SaltsAgree == Fs!SaltsAgree

(* The salt that lost such a race was never used: a statement of           *)
(* source_detect.rs the code does not live up to.                          *)
LoserIsUnobserved == Fs!LoserIsUnobserved

(* An update takes the binary forward.                                     *)
UpdatesGoForward == Upd!UpdatesGoForward

(* An installer is recent, and an error only the answer while GitHub fails.*)
ServedIsRecent == Web!ServedIsRecent
=============================================================================
