----------------------------- MODULE MCDelivery -----------------------------
(***************************************************************************)
(* An instance of Delivery for TLC: two archives that have the first asset *)
(* name in common.                                                         *)
(***************************************************************************)
EXTENDS Delivery, TLC

CONSTANTS n1, n2

MCNames == {n1, n2}
MCAssetsOf == (1 :> {n1, n2}) @@ (2 :> {n1})
=============================================================================
