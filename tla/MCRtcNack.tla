------------------------------ MODULE MCRtcNack ------------------------------
(***************************************************************************)
(* RtcNack for TLC.                                                        *)
(***************************************************************************)
EXTENDS RtcNack
=============================================================================
