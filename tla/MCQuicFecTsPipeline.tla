------------------------ MODULE MCQuicFecTsPipeline ------------------------
(* Small instances of QuicFecTsPipeline for TLC. *)
EXTENDS QuicFecTsPipeline

CONSTANTS c1, c2

OneConn == {c1}
TwoConns == {c1, c2}

Blk(size) == [size |-> size, sync |-> 0, key |-> FALSE]

\* A well-formed block of group g, data index or parity index i.
FecDatagram(g, parity, i, size) ==
  [len |-> "full", first |-> "other", head |-> "plausible", group |-> g,
   parity |-> parity, index |-> i, block |-> Blk(size), bytes |-> <<FALSE>>]

\* Blocks of a group with two data blocks and one parity block.
BlocksOf(g) ==
  {FecDatagram(g, FALSE, 0, 2), FecDatagram(g, FALSE, 1, 2), FecDatagram(g, TRUE, 0, 2)}

\* A sync byte and part of a TS packet; the middle of one; a short datagram; an
\* all-zero header; a header out of range; blocks out of range and one of
\* another size.
OddDatagrams ==
  {[FecDatagram(1, FALSE, 0, 2) EXCEPT !.first = "ts", !.bytes = <<FALSE, TRUE, FALSE, TRUE>>],
   [FecDatagram(1, FALSE, 0, 2) EXCEPT !.first = "high", !.head = "odd", !.bytes = <<FALSE, FALSE>>],
   [FecDatagram(0, FALSE, 0, 2) EXCEPT !.len = "short"],
   [FecDatagram(0, FALSE, 0, 2) EXCEPT !.head = "zero"],
   [FecDatagram(1, FALSE, 1, 2) EXCEPT !.head = "odd"],
   FecDatagram(2, FALSE, 2, 2), FecDatagram(2, TRUE, 1, 2),
   FecDatagram(2, FALSE, 1, 3)}

SingleDatagrams == BlocksOf(1) \cup BlocksOf(2) \cup OddDatagrams
SharedDatagrams == {d \in BlocksOf(1) \cup BlocksOf(2) : ~d.parity}
=============================================================================
