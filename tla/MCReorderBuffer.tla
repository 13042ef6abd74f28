-------------------------- MODULE MCReorderBuffer --------------------------
(* Small instances of ReorderBufferSpec for TLC. *)
EXTENDS ReorderBufferSpec

\* One whole TS packet; a packet preceded by a stray byte; a payload too short
\* to hold a packet.
MCShapes ==
  {[size |-> 2, sync |-> 0], [size |-> 3, sync |-> 1], [size |-> 1, sync |-> 1]}
=============================================================================
