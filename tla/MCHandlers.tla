----------------------------- MODULE MCHandlers -----------------------------
(***************************************************************************)
(* A small instance of Handlers for TLC.                                   *)
(***************************************************************************)
EXTENDS Handlers, TLC

CONSTANTS iden, core, m1

\* One message, of a channel that handlers may bind to or not.
CoreMessage == m1 :> core

=============================================================================
