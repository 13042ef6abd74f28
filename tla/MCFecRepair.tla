---------------------------- MODULE MCFecRepair ----------------------------
(* Small instances of FecRepairSpec for TLC. *)
EXTENDS FecRepairSpec

\* Blocks of two sizes, so that the repair of a mixed group fails.
MCPayloads == {[size |-> s, sync |-> 0, key |-> FALSE] : s \in {1, 2}}
=============================================================================
