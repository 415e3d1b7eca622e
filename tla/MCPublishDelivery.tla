------------------------ MODULE MCPublishDelivery ------------------------
(***************************************************************************)
(* Small instances of PublishDelivery for TLC.                             *)
(***************************************************************************)
EXTENDS PublishDelivery, TLC

CONSTANTS single, batch, e1, e2, k1

(* A single-event publish of e1 and a batch of e1 and e2 race: e1 has a    *)
(* dedupe key and may reach the server by both ways, e2 has none.          *)
TwoCarry == single :> {e1} @@ batch :> {e1, e2}
KeyOfE1 == e1 :> k1 @@ e2 :> NoKey

(* One publisher alone, with a key.                                        *)
OneCarries == single :> {e1}
OneKey == e1 :> k1
===========================================================================
