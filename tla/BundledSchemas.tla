--------------------------- MODULE BundledSchemas ---------------------------
(***************************************************************************)
(* The JSON schemas compiled into the binaries (nt-schemas): what a batch  *)
(* publish, `no-tickets validate` and the MCP server check a payload with. *)
(***************************************************************************)
EXTENDS FiniteSets

CONSTANTS
  Types,     \* event types anyone may name
  Payloads,  \* payloads anyone may send
  Bundle     \* what the bundle holds: [type, payloads], a type at most once

ASSUME BundleAssumption ==
  /\ Bundle \subseteq [type : Types, payloads : SUBSET Payloads]
  /\ \A d, e \in Bundle : d.type = e.type => d = e

(* The compiled validators, by type.                                       *)
KnownTypeIds == {e.type : e \in Bundle}

(* validate: no answer for a type that is not in the bundle; otherwise     *)
(* whether the payload violates the schema or one of its formats.          *)
Validate(type, data) ==
  IF type \notin KnownTypeIds THEN "unknown"
  ELSE IF \E e \in Bundle : e.type = type /\ data \in e.payloads THEN "valid"
  ELSE "issues"
=============================================================================
