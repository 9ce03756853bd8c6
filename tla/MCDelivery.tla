----------------------------- MODULE MCDelivery -----------------------------
(***************************************************************************)
(* A small instance of Delivery for TLC.                                   *)
(***************************************************************************)
EXTENDS Delivery, TLC
=============================================================================
