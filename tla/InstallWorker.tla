--------------------------- MODULE InstallWorker ---------------------------
(***************************************************************************)
(* The worker behind get.no-tickets.com (infra/get-no-tickets): it serves  *)
(* the installer of the latest release, or a landing page to browsers,     *)
(* through caches that keep an answer for as long as it allows.            *)
(***************************************************************************)
EXTENDS Naturals

CONSTANTS
  MaxAge,      \* CACHE_MAX_AGE_SECONDS
  MaxRelease,  \* bound: releases 1..MaxRelease
  MaxTime      \* bound: the clock runs from 0 to MaxTime

VARIABLES
  latest,   \* the latest release: external
  down,     \* GitHub's downloads fail
  cached,   \* what the caches on the way hold for each path, and since when
  served,   \* what a client has just been answered
  now,
  until     \* history: the last time each release was the latest

vars == <<latest, down, cached, served, now, until>>

Paths == {"/", "/installer.sh", "/install.sh", "/installer.ps1"}

Accepts == {"text/html", "*/*"}

Bodies == [kind : {"html", "sh", "ps1", "error"}, release : 0..MaxRelease]

NoBody == [kind |-> "none", release |-> 0]

NoAnswer == [accept |-> "none", path |-> "none", body |-> NoBody]

-----------------------------------------------------------------------------
WantsHtml(p, accept) == p = "/" /\ accept = "text/html"

(* pickUpstream: what is no PowerShell path gets the shell installer.      *)
PickUpstream(p) == IF p = "/installer.ps1" THEN "ps1" ELSE "sh"

(* fetch(request).                                                         *)
Answer(p, accept) ==
  IF WantsHtml(p, accept) THEN [kind |-> "html", release |-> 0]
  ELSE IF down THEN [kind |-> "error", release |-> 0]
  ELSE [kind |-> PickUpstream(p), release |-> latest]

(* Only the page and an installer carry Cache-Control.                     *)
MayKeep(body) == body.kind # "error"

(* Slip: an answer is kept for good.                                       *)
IsFresh_Forever(p) == cached[p].body # NoBody

(* An answer is fresh until its age has reached max-age.                   *)
IsFresh(p) == cached[p].body # NoBody /\ now - cached[p].at < MaxAge

Init ==
  /\ latest = 1
  /\ down = FALSE
  /\ cached = [p \in Paths |-> [body |-> NoBody, at |-> 0]]
  /\ served = NoAnswer
  /\ now = 0
  /\ until = [r \in 1..MaxRelease |-> 0]

(* A cache on the way (external) answers.  Its key is the path: no answer  *)
(* of the worker has a Vary header.                                        *)
GetCached(p, accept) ==
  /\ IsFresh(p)
  /\ served' = [accept |-> accept, path |-> p, body |-> cached[p].body]
  /\ UNCHANGED <<latest, down, cached, now, until>>

(* The worker answers: there is no cache, or none that has the answer.     *)
Get(p, accept) ==
  LET body == Answer(p, accept)
  IN  /\ served' = [accept |-> accept, path |-> p, body |-> body]
      /\ cached' = IF MayKeep(body) THEN [cached EXCEPT ![p] = [body |-> body, at |-> now]]
                   ELSE cached
      /\ UNCHANGED <<latest, down, now, until>>

PublishRelease ==
  /\ latest < MaxRelease
  /\ latest' = latest + 1
  /\ until' = [until EXCEPT ![latest + 1] = now]
  /\ served' = NoAnswer
  /\ UNCHANGED <<down, cached, now>>

(* GitHub's downloads fail, or work again.                                 *)
Toggle ==
  /\ down' = ~down
  /\ served' = NoAnswer
  /\ UNCHANGED <<latest, cached, now, until>>

Tick ==
  /\ now < MaxTime
  /\ now' = now + 1
  /\ until' = [until EXCEPT ![latest] = now + 1]
  /\ served' = NoAnswer
  /\ UNCHANGED <<latest, down, cached>>

Next ==
  \/ \E p \in Paths, accept \in Accepts : GetCached(p, accept) \/ Get(p, accept)
  \/ PublishRelease
  \/ Toggle
  \/ Tick

Spec == Init /\ [][Next]_vars

-----------------------------------------------------------------------------
TypeOK ==
  /\ latest \in 1..MaxRelease
  /\ down \in BOOLEAN
  /\ cached \in [Paths -> [body : {b \in Bodies : b.kind # "error"} \cup {NoBody}, at : 0..MaxTime]]
  /\ served \in [accept : Accepts, path : Paths, body : Bodies] \cup {NoAnswer}
  /\ now \in 0..MaxTime
  /\ until \in [1..MaxRelease -> 0..MaxTime]

(* A new release is out everywhere within five minutes, and so is the      *)
(* recovery from an outage: an installer served was the latest no longer   *)
(* ago than max-age, and an error is the answer only while GitHub fails.   *)
ServedIsRecent ==
  /\ served.body.kind \in {"sh", "ps1"} => now <= until[served.body.release] + MaxAge
  /\ served.body.kind = "error" => down

-----------------------------------------------------------------------------
(* The inductive invariant behind the safety property                      *)

IsInstaller(body) == body.kind \in {"sh", "ps1"}

(* The latest release is the latest now; what a cache holds came from the  *)
(* worker when its release was.                                            *)
CacheInv ==
  /\ until[latest] = now
  /\ \A p \in Paths :
       /\ cached[p].at <= now
       /\ IsInstaller(cached[p].body) =>
            /\ cached[p].body.release \in 1..latest
            /\ cached[p].at <= until[cached[p].body.release]

IInv ==
  /\ TypeOK
  /\ CacheInv
  /\ IsInstaller(served.body) => served.body.release \in 1..latest
  /\ ServedIsRecent
=============================================================================
