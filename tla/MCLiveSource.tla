---------------------------- MODULE MCLiveSource ----------------------------
(* Small instances of LiveSource for TLC. *)
EXTENDS LiveSource
=============================================================================
