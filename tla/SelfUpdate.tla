----------------------------- MODULE SelfUpdate -----------------------------
(***************************************************************************)
(* `no-tickets update` (commands/update.rs): it finds out who installed    *)
(* the binary, asks GitHub for the tag of the latest release, compares it  *)
(* with the version it was compiled as, and has the binary swapped.        *)
(* Meanwhile releases come and go, and others replace the same binary.     *)
(***************************************************************************)
EXTENDS Naturals

CONSTANTS
  Updates,    \* runs of `no-tickets update`
  Tags,       \* release tags: records of the fields of NoTag
  Markers     \* the directories managers install to, found in a path

Managers == {"Homebrew", "Cargo", "Scoop", "Asdf", "Mise", "Volta"}

VARIABLES
  path,       \* the markers in the path of the executable
  installed,  \* the version installed
  releases,   \* the tags that are published: external
  latest,     \* the tag GitHub calls the latest
  pc,         \* of an update: idle, fetching, swapping, over
  current,    \* the version compiled into it
  seen,       \* the tag it fetched
  outcome,    \* its UpdateOutcome
  before,     \* history: the version an update found when it was over
  left,       \* history: the version it left
  overlapped  \* history: the updates under which the binary was replaced

updateVars == <<pc, current, seen, outcome, before, left>>
githubVars == <<releases, latest>>
vars == <<path, installed, updateVars, githubVars, overlapped>>

-----------------------------------------------------------------------------
(* Tags and versions                                                       *)

(* A tag is a number that orders releases, with a leading v or not, with   *)
(* build metadata or not; some are no semantic version at all.             *)
NoTag == [num |-> 0, v |-> FALSE, meta |-> FALSE, ok |-> FALSE]

(* normalise_version drops the v and the metadata.                         *)
Normalise(tag) == tag.num

(* to_release_tag: the version that was compared, with a v before it.      *)
ToReleaseTag(version) == [num |-> version, v |-> TRUE, meta |-> FALSE, ok |-> TRUE]

IsDowngrade(version, tag) == tag.ok /\ Normalise(tag) < version

IsUpdateAvailable(version, tag) == tag.ok /\ Normalise(tag) > version

(* detect_install_kind: the first marker, in this order, names the manager *)
(* that is in charge; without one the install is a direct download.        *)
DetectInstallKind ==
  IF path = {} THEN "Direct"
  ELSE LET order == <<"Homebrew", "Cargo", "Scoop", "Asdf", "Mise", "Volta">>
           i == CHOOSE k \in 1..6 : order[k] \in path /\ \A j \in 1..(k - 1) : order[j] \notin path
       IN  order[i]

(* What orchestrate makes of the tag: the end of it, or a swap.            *)
Verdict(version, tag) ==
  IF ~tag.ok THEN "VersionParseError"
  ELSE IF IsDowngrade(version, tag) THEN "DowngradeRefused"
  ELSE IF IsUpdateAvailable(version, tag) THEN "swap"
  ELSE "NoUpdate"

Outcomes ==
  {"none", "NoUpdate", "Updated", "ManagedRedirect", "DowngradeRefused", "VersionParseError",
   "FetchFailed", "SwapFailed"}

(* outcome_to_exit_code.                                                   *)
ExitCode(o) == IF o \in {"ManagedRedirect", "NoUpdate", "Updated"} THEN 0 ELSE 1

-----------------------------------------------------------------------------
Init ==
  /\ path \in {{}} \cup {{a} : a \in Markers} \cup {Markers}
  /\ \E t \in Tags :
       /\ t.ok /\ \A s \in Tags : s.ok => s.num >= t.num
       /\ installed = t.num
       /\ releases = {t}
       /\ latest = t
  /\ pc = [u \in Updates |-> "idle"]
  /\ current = [u \in Updates |-> 0]
  /\ seen = [u \in Updates |-> NoTag]
  /\ outcome = [u \in Updates |-> "none"]
  /\ before = [u \in Updates |-> 0]
  /\ left = [u \in Updates |-> 0]
  /\ overlapped = {}

Running == {u \in Updates : pc[u] \in {"fetching", "swapping"}}

(* An update is over, and leaves this version behind.                      *)
Ends(u, o, version) ==
  /\ pc' = [pc EXCEPT ![u] = "over"]
  /\ outcome' = [outcome EXCEPT ![u] = o]
  /\ before' = [before EXCEPT ![u] = installed]
  /\ left' = [left EXCEPT ![u] = version]
  /\ installed' = version

(* run up to the fetch.  A managed install is left to its manager, without *)
(* a request.                                                              *)
Begin(u) ==
  /\ pc[u] = "idle"
  /\ current' = [current EXCEPT ![u] = installed]
  /\ IF DetectInstallKind # "Direct"
       THEN Ends(u, "ManagedRedirect", installed)
       ELSE /\ pc' = [pc EXCEPT ![u] = "fetching"]
            /\ UNCHANGED <<installed, outcome, before, left>>
  /\ UNCHANGED <<path, seen, githubVars, overlapped>>

(* fetch_latest_release, and orchestrate up to the swap.                   *)
Fetch(u) ==
  /\ pc[u] = "fetching"
  /\ seen' = [seen EXCEPT ![u] = latest]
  /\ IF Verdict(current[u], latest) = "swap"
       THEN /\ pc' = [pc EXCEPT ![u] = "swapping"]
            /\ UNCHANGED <<installed, outcome, before, left>>
       ELSE Ends(u, Verdict(current[u], latest), installed)
  /\ UNCHANGED <<path, current, githubVars, overlapped>>

(* A status, the rate limit, the network, or a body without a usable tag.  *)
FetchFails(u) ==
  /\ pc[u] = "fetching"
  /\ Ends(u, "FetchFailed", installed)
  /\ UNCHANGED <<path, current, seen, githubVars, overlapped>>

(* Slip: the swap takes the release that is the latest by then.            *)
Swap_Latest(u) ==
  /\ pc[u] = "swapping"
  /\ latest.ok
  /\ Ends(u, "Updated", latest.num)
  /\ overlapped' = overlapped \cup (Running \ {u})
  /\ UNCHANGED <<path, current, seen, githubVars>>

(* UpdateSwap::apply: self_update (external) takes the release of the tag  *)
(* it is told, and replaces the binary.                                    *)
Swap(u) ==
  /\ pc[u] = "swapping"
  /\ ToReleaseTag(Normalise(seen[u])) \in releases
  /\ Ends(u, "Updated", Normalise(seen[u]))
  /\ overlapped' = overlapped \cup (Running \ {u})
  /\ UNCHANGED <<path, current, seen, githubVars>>

(* The tag is not to be found, or the download or the replacement fails.   *)
SwapFails(u) ==
  /\ pc[u] = "swapping"
  /\ Ends(u, "SwapFailed", installed)
  /\ UNCHANGED <<path, current, seen, githubVars, overlapped>>

(* The installer script, or the user, replaces the binary (external).      *)
Reinstall(t) ==
  /\ t \in releases /\ t.ok
  /\ installed' = t.num
  /\ overlapped' = overlapped \cup Running
  /\ UNCHANGED <<path, updateVars, githubVars>>

(* GitHub and the maintainers (external): any tag may become the latest,   *)
(* also an older one, and a release may be withdrawn.                      *)
PublishRelease(t) ==
  /\ t \notin releases
  /\ releases' = releases \cup {t}
  /\ latest' = t
  /\ UNCHANGED <<path, installed, updateVars, overlapped>>

Withdraw(t) ==
  /\ t \in releases \ {latest}
  /\ releases' = releases \ {t}
  /\ UNCHANGED <<path, installed, updateVars, latest, overlapped>>

Next ==
  \/ \E u \in Updates : Begin(u) \/ Fetch(u) \/ FetchFails(u) \/ Swap(u) \/ SwapFails(u)
  \/ \E t \in Tags : PublishRelease(t) \/ Withdraw(t) \/ Reinstall(t)

Spec == Init /\ [][Next]_vars

-----------------------------------------------------------------------------
TypeOK ==
  /\ path \subseteq Managers
  /\ installed \in Nat
  /\ releases \subseteq Tags /\ latest \in Tags
  /\ pc \in [Updates -> {"idle", "fetching", "swapping", "over"}]
  /\ current \in [Updates -> Nat]
  /\ seen \in [Updates -> Tags \cup {NoTag}]
  /\ outcome \in [Updates -> Outcomes]
  /\ before \in [Updates -> Nat] /\ left \in [Updates -> Nat]
  /\ overlapped \subseteq Updates

(* An update takes the binary forward.  It takes it back only if the       *)
(* binary was replaced under it: it compares with the version it was       *)
(* compiled as, not with the one it replaces.  A managed install it leaves *)
(* alone; after exit code 0 a direct one is what the pre-flight found,     *)
(* whatever has been published since.                                      *)
UpdatesGoForward ==
  \A u \in Updates : pc[u] = "over" =>
    /\ left[u] < before[u] => u \in overlapped
    /\ left[u] # before[u] => path = {} /\ left[u] > current[u]
    /\ path = {} /\ ExitCode(outcome[u]) = 0 =>
         seen[u].ok /\ (left[u] = Normalise(seen[u]) \/ u \in overlapped)

-----------------------------------------------------------------------------
(* The inductive invariant behind the safety property                      *)

(* An update that runs is of a direct install; unless the binary was       *)
(* replaced meanwhile, it still is what the update was compiled as; and    *)
(* what is about to be swapped in is newer than that.                      *)
RunInv ==
  \A u \in Running :
    /\ path = {}
    /\ installed = current[u] \/ u \in overlapped
    /\ pc[u] = "swapping" => seen[u].ok /\ Normalise(seen[u]) > current[u]

IInv == TypeOK /\ RunInv /\ UpdatesGoForward
=============================================================================
