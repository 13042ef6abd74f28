--------------------------- MODULE MCLiveDelivery ---------------------------
(***************************************************************************)
(* LiveDelivery for TLC.                                                   *)
(***************************************************************************)
EXTENDS LiveDelivery

\* Time goes on or back.
Steps == {-1, 1}
=============================================================================
