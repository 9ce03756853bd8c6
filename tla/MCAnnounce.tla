----------------------------- MODULE MCAnnounce -----------------------------
(***************************************************************************)
(* Small instances of Announce for TLC.  Owner keys and handlers are       *)
(* interchangeable, but the instances check liveness, for which symmetry   *)
(* is unsound.                                                             *)
(***************************************************************************)
EXTENDS Announce

=============================================================================
