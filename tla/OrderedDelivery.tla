-------------------------- MODULE OrderedDelivery --------------------------
(***************************************************************************)
(* What a reordering stage promises: a cursor that only moves forward, and *)
(* numbers handed out once each, in ascending order, all behind the        *)
(* cursor.  A number the cursor passes without handing it out is lost.     *)
(* Start lets the first packet choose where the numbering begins; Reset    *)
(* begins a new numbering.                                                 *)
(***************************************************************************)
EXTENDS Integers

VARIABLES cursor, delivered

absVars == <<cursor, delivered>>

Init == cursor = 0 /\ delivered = {}

Start ==
  /\ cursor = 0
  /\ cursor' \in Nat
  /\ UNCHANGED delivered

Advance ==
  /\ cursor' \in Nat
  /\ cursor' > cursor
  /\ delivered \subseteq delivered'
  /\ delivered' \ delivered \subseteq cursor .. (cursor' - 1)

Reset == cursor' = 0 /\ delivered' = {}

Next == Start \/ Advance \/ Reset

Spec == Init /\ [][Next]_absVars
=============================================================================
