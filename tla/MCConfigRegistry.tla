------------------------ MODULE MCConfigRegistry ------------------------
(***************************************************************************)
(* Small instances of ConfigRegistry for TLC.                              *)
(***************************************************************************)
EXTENDS ConfigRegistry, TLC

CONSTANTS a1, a2, f, r, get, ls, st, old, new

(* Two adds and a removal of the unregistered project `new`, a rotation of *)
(* the registered project `old`, and readers of both.                      *)
RaceTarget ==
  a1 :> new @@ a2 :> new @@ r :> new @@ f :> old @@ get :> old @@ ls :> new @@ st :> new
RaceReads == get :> "publish" @@ ls :> "list" @@ st :> "status"

(* The two adds are interchangeable; sound because the run checks safety.  *)
Symmetry == Permutations({a1, a2})
=========================================================================
