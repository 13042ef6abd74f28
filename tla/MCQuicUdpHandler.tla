------------------------- MODULE MCQuicUdpHandler --------------------------
(* Small instances of QuicUdpHandler for TLC. *)
EXTENDS QuicUdpHandler

CONSTANTS c1, c2, c3

ThreeConns == {c1, c2, c3}
=============================================================================
