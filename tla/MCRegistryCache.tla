-------------------------- MODULE MCRegistryCache --------------------------
(***************************************************************************)
(* Small instances of RegistryCache for TLC: the calls are model values.   *)
(* They are not declared symmetric, because a liveness property is checked. *)
(***************************************************************************)
EXTENDS RegistryCache

CONSTANTS c1, c2, c3
============================================================================
