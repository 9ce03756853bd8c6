------------------------------ MODULE MCGossip ------------------------------
(***************************************************************************)
(* A small instance of Gossip for TLC.                                     *)
(***************************************************************************)
EXTENDS Gossip

CONSTANTS o, a1, b1

\* The origin, two peers of it that are peers of each other.
Triangle == {{o, a1}, {o, b1}, {a1, b1}}

=============================================================================
