--------------------------- MODULE MCSessionState ---------------------------
(***************************************************************************)
(* Small instances of SessionState for TLC.                                *)
(***************************************************************************)
EXTENDS SessionState, FiniteSets, TLC

CONSTANTS
  s1, s2, e1, e2, p1, p2, p3,
  MaxBegun  \* bound: how many of the commands begin

AnyType == [p \in Publishers |-> "any"]
NoAlt == [p \in Publishers |-> "none"]

(* Everyone has an alternate file that is past its age.                    *)
StaleAlt == [p \in Publishers |-> "stale"]

(* Starts are interchangeable, ends too, and publishers with equal flags;  *)
(* sound because the runs check safety only.                               *)
Interchangeable ==
  Permutations(Starters) \cup Permutations(Enders) \cup Permutations(Publishers \ Human)

FewBegin == Cardinality({x \in Procs : pc[x] # "start"}) <= MaxBegun
=============================================================================
