--------------------------- MODULE MCInstallation ---------------------------
(***************************************************************************)
(* A small instance of Installation for TLC.                               *)
(***************************************************************************)
EXTENDS Installation, TLC

CONSTANTS x1, x2, y1, y2, z

(* Three releases in order, the third with build metadata, and a tag that  *)
(* is no semantic version.                                                 *)
Tag(num, v, meta, ok) == [num |-> num, v |-> v, meta |-> meta, ok |-> ok]

SomeTags ==
  {Tag(1, TRUE, FALSE, TRUE), Tag(2, TRUE, FALSE, TRUE), Tag(3, TRUE, TRUE, TRUE),
   Tag(9, FALSE, FALSE, FALSE)}

(* The parts share their names, so that a permutation serves all of them.  *)
Symmetry == Permutations({x1, x2}) \cup Permutations({y1, y2})
=============================================================================
