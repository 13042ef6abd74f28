--------------------------- MODULE RtcNackProofs ---------------------------
(***************************************************************************)
(* Proofs about RtcNack for every size of the number space, window and     *)
(* limit.  The modular arithmetic of sequence numbers is first reduced to  *)
(* linear arithmetic: Off(x, y) is how far y is behind x.  The invariant   *)
(* then places every number by its distance behind the newest one sent.    *)
(***************************************************************************)
EXTENDS RtcNack, FiniteSetTheorems, WellFoundedInduction, TLAPS

\* Every non-empty set of numbers has a least element.
LEMMA LeastElement ==
  ASSUME NEW T \in SUBSET Nat, T # {}
  PROVE  \E x \in T : \A y \in T : x <= y
<1> DEFINE R == OpToRel(<, Nat)
<1>1. PICK x \in T : \A y \in T : ~ (<<y, x>> \in R)
  BY NatLessThanWellFounded, WFMin
<1>2. R = {ss \in Nat \X Nat : ss[1] < ss[2]}
  BY DEF OpToRel
<1> HIDE DEF R
<1>3. ASSUME NEW y \in T, y < x PROVE FALSE
  <2>1. <<y, x>> \in {ss \in Nat \X Nat : ss[1] < ss[2]}
    BY <1>3
  <2> QED BY <2>1, <1>1, <1>2
<1> QED BY <1>3

-----------------------------------------------------------------------------
(* Arithmetic of sequence numbers *)

M == 2 * HalfRange

Off(x, y) == IF x >= y THEN x - y ELSE (x - y) + M

LEMMA SizeOfRange ==
  M \in Nat /\ M >= 2 /\ HalfRange \in Nat /\ HalfRange >= 1 /\ Seqs = 0 .. (M - 1)
BY NackAssumption DEF M, Seqs

LEMMA ModSmall ==
  ASSUME NEW a \in 0 .. (M - 1)
  PROVE  a % M = a
BY NackAssumption DEF M

LEMMA ModLarge ==
  ASSUME NEW a \in M .. (2 * M - 1)
  PROVE  a % M = a - M
BY NackAssumption DEF M

LEMMA ModNegative ==
  ASSUME NEW a \in (0 - M) .. (0 - 1)
  PROVE  a % M = a + M
BY NackAssumption DEF M

LEMMA OffIsMod ==
  ASSUME NEW x \in Seqs, NEW y \in Seqs
  PROVE  (x - y) % (2 * HalfRange) = Off(x, y) /\ Off(x, y) \in Seqs
<1>1. M \in Nat /\ x \in 0 .. (M - 1) /\ y \in 0 .. (M - 1) /\ x - y \in Int
  BY SizeOfRange
<1>2. PICK a \in Int : a = x - y
  BY <1>1
<1>3. CASE x >= y
  <2>1. a \in 0 .. (M - 1)
    BY <1>1, <1>2, <1>3
  <2>2. a % M = a
    BY <2>1, ModSmall
  <2> QED BY <1>2, <1>3, <2>1, <2>2, SizeOfRange DEF M, Off
<1>4. CASE ~(x >= y)
  <2>1. a \in (0 - M) .. (0 - 1) /\ a + M \in 0 .. (M - 1)
    BY <1>1, <1>2, <1>4
  <2>2. a % M = a + M
    BY <2>1, ModNegative
  <2> QED BY <1>2, <1>4, <2>1, <2>2, SizeOfRange DEF M, Off
<1> QED BY <1>3, <1>4

LEMMA PlusIs ==
  ASSUME NEW x \in Seqs, NEW n \in 0 .. M
  PROVE  /\ Plus(x, n) = IF x + n < M THEN x + n ELSE (x + n) - M
         /\ Plus(x, n) \in Seqs
<1>1. M \in Nat /\ x \in 0 .. (M - 1) /\ x + n \in Int
  BY SizeOfRange
<1>2. PICK a \in Int : a = x + n
  BY <1>1
<1>3. CASE a < M
  <2>1. a \in 0 .. (M - 1)
    BY <1>1, <1>2, <1>3
  <2>2. a % M = a
    BY <2>1, ModSmall
  <2> QED BY <1>2, <1>3, <2>1, <2>2, SizeOfRange DEF M, Plus
<1>4. CASE ~(a < M)
  <2>1. a \in M .. (2 * M - 1) /\ a - M \in 0 .. (M - 1)
    BY <1>1, <1>2, <1>4
  <2>2. a % M = a - M
    BY <2>1, ModLarge
  <2> QED BY <1>2, <1>4, <2>1, <2>2, SizeOfRange DEF M, Plus
<1> QED BY <1>3, <1>4

LEMMA PlusOne ==
  ASSUME NEW x \in Seqs
  PROVE  Plus(x, 1) \in Seqs /\ Plus(x, 1) = IF x + 1 < M THEN x + 1 ELSE 0
<1>1. 1 \in 0 .. M /\ x \in 0 .. (M - 1) /\ M \in Nat
  BY SizeOfRange
<1> QED BY <1>1, PlusIs

LEMMA DistanceIs ==
  ASSUME NEW p \in Seqs, NEW v \in Seqs
  PROVE  Distance(p, v) = IF Off(v, p) < HalfRange THEN Off(v, p) ELSE Off(v, p) - M
BY OffIsMod DEF Distance, M

\* The window holds the numbers less than Window behind the newest.
RecentOf(h) == {Plus(h, 2 * HalfRange - i) : i \in 0 .. Window - 1}

LEMMA RecentIs ==
  ASSUME NEW h \in Seqs
  PROVE  \A n : n \in RecentOf(h) <=> n \in Seqs /\ Off(h, n) < Window
<1>1. /\ M \in Nat /\ h \in 0 .. (M - 1) /\ Seqs = 0 .. (M - 1)
      /\ Window \in Nat /\ Window < M
  BY SizeOfRange, NackAssumption DEF M
<1>2. ASSUME NEW i \in 0 .. (Window - 1)
      PROVE  /\ Plus(h, M - i) \in Seqs
             /\ Plus(h, M - i) = IF h >= i THEN h - i ELSE (h - i) + M
             /\ Off(h, Plus(h, M - i)) = i
  <2>1. PICK k \in 0 .. M : k = M - i
    BY <1>1
  <2>2. /\ Plus(h, k) = IF h + k < M THEN h + k ELSE (h + k) - M
        /\ Plus(h, k) \in Seqs
    BY <2>1, PlusIs
  <2> QED BY <1>1, <2>1, <2>2 DEF Off
<1>3. ASSUME NEW n \in Seqs, Off(h, n) < Window
      PROVE  \E i \in 0 .. (Window - 1) : n = Plus(h, M - i)
  <2>1. PICK i \in 0 .. (Window - 1) : i = Off(h, n)
    <3>1. Off(h, n) \in 0 .. (M - 1)
      BY <1>1, OffIsMod
    <3>2. Off(h, n) \in 0 .. (Window - 1)
      BY <1>1, <1>3, <3>1
    <3> QED BY <3>2
  <2>2. n = IF h >= i THEN h - i ELSE (h - i) + M
    BY <1>1, <2>1 DEF Off
  <2>3. n = Plus(h, M - i)
    BY <1>2, <2>2
  <2> QED BY <2>3
<1> QED BY <1>1, <1>2, <1>3 DEF RecentOf, M

\* insert walks from first up to last.
LEMMA NumbersAre ==
  ASSUME NEW first \in Seqs, NEW last \in Seqs
  PROVE  \A n : n \in Numbers(first, last) <=> n \in Seqs /\ Off(n, first) < Off(last, first)
<1>1. /\ M \in Nat /\ first \in 0 .. (M - 1) /\ Seqs = 0 .. (M - 1)
  BY SizeOfRange
<1>2. PICK d \in 0 .. (M - 1) : d = Off(last, first)
  BY <1>1, OffIsMod
<1>3. Numbers(first, last) = {Plus(first, i) : i \in 0 .. (d - 1)}
  BY <1>2, OffIsMod DEF Numbers
<1>4. ASSUME NEW i \in 0 .. (d - 1)
      PROVE  Plus(first, i) \in Seqs /\ Off(Plus(first, i), first) = i
  <2>1. i \in 0 .. M
    BY <1>1
  <2>2. /\ Plus(first, i) = IF first + i < M THEN first + i ELSE (first + i) - M
        /\ Plus(first, i) \in Seqs
    BY <2>1, PlusIs
  <2> QED BY <1>1, <2>2 DEF Off
<1>5. ASSUME NEW n \in Seqs, Off(n, first) < d
      PROVE  \E i \in 0 .. (d - 1) : n = Plus(first, i)
  <2>1. PICK i \in 0 .. (d - 1) : i = Off(n, first)
    <3>1. Off(n, first) \in 0 .. (M - 1)
      BY <1>1, OffIsMod
    <3>2. Off(n, first) \in 0 .. (d - 1)
      BY <1>1, <1>5, <3>1
    <3> QED BY <3>2
  <2>2. i \in 0 .. M
    BY <1>1
  <2>3. Plus(first, i) = IF first + i < M THEN first + i ELSE (first + i) - M
    BY <2>2, PlusIs
  <2>4. n = Plus(first, i)
    BY <1>1, <2>1, <2>3 DEF Off
  <2> QED BY <2>4
<1> QED BY <1>2, <1>3, <1>4, <1>5

-----------------------------------------------------------------------------
(* Numbers by their distance behind the newest one, h; x is the end of the   *)
(* range, the number after the newest received, and g how many numbers were  *)
(* sent since.                                                               *)

LEMMA OffType ==
  ASSUME NEW x \in Seqs, NEW y \in Seqs
  PROVE  Off(x, y) \in Nat /\ Off(x, y) < M
BY SizeOfRange DEF Off

\* The next number sent pushes every other one a step back.
LEMMA OffNext ==
  ASSUME NEW h \in Seqs, NEW n \in Seqs, NEW s, s = Plus(h, 1)
  PROVE  /\ s \in Seqs
         /\ Off(s, n) = IF n = s THEN 0 ELSE Off(h, n) + 1
<1>1. s \in Seqs /\ s = IF h + 1 < M THEN h + 1 ELSE 0
  BY PlusOne
<1> QED BY <1>1, SizeOfRange DEF Off

LEMMA OffEqual ==
  ASSUME NEW h \in Seqs, NEW n \in Seqs, NEW m \in Seqs, Off(h, n) = Off(h, m)
  PROVE  n = m
BY SizeOfRange DEF Off

Gap(h, x) == Off(Plus(h, 1), x)

LEMMA GapType ==
  ASSUME NEW h \in Seqs, NEW x \in Seqs
  PROVE  Gap(h, x) \in Nat /\ Gap(h, x) < M
BY PlusOne, OffType DEF Gap

\* The packet after s ends the range: as many were sent since as s is behind.
LEMMA GapAfter ==
  ASSUME NEW h \in Seqs, NEW s \in Seqs
  PROVE  Gap(h, Plus(s, 1)) = Off(h, s)
<1>1. PICK a \in Seqs, b \in Seqs :
        /\ a = Plus(h, 1) /\ a = (IF h + 1 < M THEN h + 1 ELSE 0)
        /\ b = Plus(s, 1) /\ b = (IF s + 1 < M THEN s + 1 ELSE 0)
  BY PlusOne
<1>2. Off(a, b) = Off(h, s)
  BY <1>1, SizeOfRange DEF Off
<1> QED BY <1>1, <1>2 DEF Gap

\* Sending keeps the end of the range and is one number more since.
LEMMA GapNext ==
  ASSUME NEW h \in Seqs, NEW x \in Seqs, NEW s, s = Plus(h, 1), Distance(x, s) >= 0
  PROVE  /\ s \in Seqs
         /\ Gap(h, x) < HalfRange
         /\ Gap(s, x) = Gap(h, x) + 1
<1>1. s \in Seqs /\ s = IF h + 1 < M THEN h + 1 ELSE 0
  BY PlusOne
<1>2. Distance(x, s) = IF Off(s, x) < HalfRange THEN Off(s, x) ELSE Off(s, x) - M
  BY <1>1, DistanceIs
<1>3. Off(s, x) \in Nat /\ Off(s, x) < M
  BY <1>1, OffType
<1>4. Off(s, x) < HalfRange
  BY <1>2, <1>3, SizeOfRange
<1>5. Gap(h, x) = Off(s, x)
  BY DEF Gap
<1>6. PICK t : t = Plus(s, 1)
  OBVIOUS
<1>7. Off(t, x) = IF x = t THEN 0 ELSE Off(s, x) + 1
  BY <1>1, <1>6, OffNext
<1>8. t = IF s + 1 < M THEN s + 1 ELSE 0
  BY <1>1, <1>6, PlusOne
<1>9. x # t
  BY <1>1, <1>4, <1>8, SizeOfRange DEF Off, M
<1> QED BY <1>1, <1>4, <1>5, <1>6, <1>7, <1>9 DEF Gap

\* Of the numbers in the window, those sent since are at or after the end of the
\* range and the others before it.
LEMMA SideOfEnd ==
  ASSUME NEW h \in Seqs, NEW x \in Seqs, NEW s \in Seqs, Off(h, s) < Window,
         Gap(h, x) <= HalfRange
  PROVE  /\ Distance(s, x) > 0 <=> Off(h, s) >= Gap(h, x)
         /\ Distance(x, s) >= 0 <=> Off(h, s) < Gap(h, x)
<1>1. PICK a \in Seqs : a = Plus(h, 1) /\ a = IF h + 1 < M THEN h + 1 ELSE 0
  BY PlusOne
<1>2. Gap(h, x) = Off(a, x)
  BY <1>1 DEF Gap
<1>3. /\ Distance(s, x) = IF Off(x, s) < HalfRange THEN Off(x, s) ELSE Off(x, s) - M
      /\ Distance(x, s) = IF Off(s, x) < HalfRange THEN Off(s, x) ELSE Off(s, x) - M
  BY DistanceIs
<1>4. Window \in Nat /\ Window <= HalfRange - 1
  BY NackAssumption
<1>5. Off(x, s) < HalfRange /\ Off(x, s) > 0 <=> Off(h, s) >= Off(a, x)
  BY <1>1, <1>2, <1>4, SizeOfRange DEF Off, M
<1>6. Off(s, x) < HalfRange <=> Off(h, s) < Off(a, x)
  BY <1>1, <1>2, <1>4, SizeOfRange DEF Off, M
<1>7. Off(x, s) \in Nat /\ Off(x, s) < M /\ Off(s, x) \in Nat /\ Off(s, x) < M
  BY OffType
<1> QED BY <1>2, <1>3, <1>5, <1>6, <1>7, SizeOfRange

\* The numbers insert walks through: sent since the end of the range, before s.
LEMMA MissingBefore ==
  ASSUME NEW h \in Seqs, NEW x \in Seqs, NEW s \in Seqs, Off(h, s) < Gap(h, x),
         Gap(h, x) <= HalfRange
  PROVE  \A n : n \in Numbers(x, s) <=>
                n \in Seqs /\ Off(h, s) < Off(h, n) /\ Off(h, n) < Gap(h, x)
<1>1. PICK a \in Seqs : a = Plus(h, 1) /\ a = IF h + 1 < M THEN h + 1 ELSE 0
  BY PlusOne
<1>2. Gap(h, x) = Off(a, x)
  BY <1>1 DEF Gap
<1>3. ASSUME NEW n \in Seqs
      PROVE  Off(n, x) < Off(s, x) <=> Off(h, s) < Off(h, n) /\ Off(h, n) < Off(a, x)
  BY <1>1, <1>2, SizeOfRange DEF Off, M
<1> QED BY <1>2, <1>3, NumbersAre

\* Being asked for: there is a number to insert.
LEMMA NothingMissing ==
  ASSUME NEW h \in Seqs, NEW x \in Seqs, NEW s \in Seqs, Off(h, s) < Window,
         Off(h, s) < Gap(h, x), Gap(h, x) <= HalfRange, ~Ask(x, s)
  PROVE  Gap(h, x) = Off(h, s) + 1
<1>1. PICK a \in Seqs : a = Plus(h, 1) /\ a = IF h + 1 < M THEN h + 1 ELSE 0
  BY PlusOne
<1>2. Gap(h, x) = Off(a, x)
  BY <1>1 DEF Gap
<1>3. Distance(x, s) >= 0
  BY SideOfEnd
<1>4. Distance(x, s) = IF Off(s, x) < HalfRange THEN Off(s, x) ELSE Off(s, x) - M
  BY DistanceIs
<1>5. Off(s, x) = 0
  <2>1. Off(s, x) \in Nat /\ Off(s, x) < M
    BY OffType
  <2>2. ~(Distance(x, s) > 0)
    BY DEF Ask
  <2> QED BY <1>3, <1>4, <2>1, <2>2, SizeOfRange
<1> QED BY <1>1, <1>2, <1>5, SizeOfRange DEF Off, M

-----------------------------------------------------------------------------
(* The invariant *)

\* A track that starts anew asks for nothing.
Anew == ~initialized => DOMAIN nacks = {} /\ ~early

\* The end of the range is at most half the number space behind.
EndPlaced == initialized => Gap(high, end) <= HalfRange

\* What arrived and what is asked for is before the end of the range, and what is
\* asked for has not come round.
BehindEnd ==
  initialized /\ ~early =>
    /\ \A n \in got : Gap(high, end) <= Off(high, n)
    /\ \A n \in DOMAIN nacks :
         Gap(high, end) <= Off(high, n) /\ Off(high, n) < HalfRange

\* GapsListed, with the numbers placed by Off.
Covered ==
  initialized =>
    \A n \in Recent : Gap(high, end) <= Off(high, n) => n \in got \cup waived \cup DOMAIN nacks

IInv == TypeOK /\ ListBounded /\ OnlyMissing /\ Anew /\ EndPlaced /\ BehindEnd /\ Covered

LEMMA FiniteSeqs == IsFiniteSet(Seqs)
BY SizeOfRange, FS_Interval

LEMMA NewNackType == NewNack \in NackInfo
BY NackAssumption DEF NewNack, NackInfo

\* A list with fewer numbers is bounded as well.
LEMMA StillBounded ==
  ASSUME ListBounded, DOMAIN nacks \subseteq Seqs, DOMAIN nacks' \subseteq DOMAIN nacks
  PROVE  ListBounded'
<1>1. IsFiniteSet(DOMAIN nacks)
  BY FiniteSeqs, FS_Subset
<1>2. /\ IsFiniteSet(DOMAIN nacks')
      /\ Cardinality(DOMAIN nacks') <= Cardinality(DOMAIN nacks)
  BY <1>1, FS_Subset
<1>3. Cardinality(DOMAIN nacks') \in Nat /\ Cardinality(DOMAIN nacks) \in Nat
  BY <1>1, <1>2, FS_CardinalityType
<1> QED BY <1>2, <1>3, NackAssumption DEF ListBounded

LEMMA InitInv == Init => IInv
<1> SUFFICES ASSUME Init PROVE IInv
  OBVIOUS
<1>1. DOMAIN nacks = {} /\ ~initialized /\ ~early /\ got = {} /\ waived = {}
  BY DEF Init
<1>2. 0 \in Seqs
  BY SizeOfRange
<1>3. TypeOK
  BY <1>1, <1>2 DEF Init, TypeOK
<1>4. ListBounded
  BY <1>1, FS_EmptySet, NackAssumption DEF ListBounded
<1> QED BY <1>1, <1>3, <1>4 DEF IInv, OnlyMissing, Anew, EndPlaced, BehindEnd, Covered

LEMMA SendStep ==
  ASSUME IInv, Send
  PROVE  IInv'
<1>1. PICK s : s = Plus(high, 1)
  OBVIOUS
<1>2. /\ high' = s /\ got' = (got \cap Recent') \ {s} /\ waived' = (waived \cap Recent') \ {s}
      /\ initialized' = initialized /\ begin' = begin /\ end' = end /\ early' = early
      /\ nacks' = nacks /\ due' = due
      /\ initialized => Distance(end, s) >= 0
      /\ early \/ \A n \in DOMAIN nacks : Distance(n, s) > 0
  BY <1>1 DEF Send, ring
<1>3. high \in Seqs /\ end \in Seqs /\ begin \in Seqs /\ DOMAIN nacks \subseteq Seqs
  BY DEF IInv, TypeOK
<1>4. s \in Seqs
  BY <1>1, <1>3, PlusOne
<1>5. \A n \in Seqs : Off(s, n) = IF n = s THEN 0 ELSE Off(high, n) + 1
  BY <1>1, <1>3, OffNext
<1>6. initialized => Gap(high, end) < HalfRange /\ Gap(s, end) = Gap(high, end) + 1
  BY <1>1, <1>2, <1>3, GapNext
<1>7. Gap(high, end) \in Nat
  BY <1>3, GapType
<1>8. \A n : n \in Recent <=> n \in Seqs /\ Off(high, n) < Window
  <2>1. Recent = RecentOf(high)
    BY DEF Recent, RecentOf
  <2> QED BY <1>3, <2>1, RecentIs
<1>9. \A n : n \in Recent' <=> n \in Seqs /\ Off(s, n) < Window
  <2>1. Recent' = RecentOf(s)
    BY <1>2 DEF Recent, RecentOf
  <2> QED BY <1>4, <2>1, RecentIs
<1>10. \A n \in Seqs : Off(high, n) \in Nat
  BY <1>3, OffType
<1>11. TypeOK'
  BY <1>2, <1>4 DEF IInv, TypeOK
<1>12. EndPlaced'
  BY <1>2, <1>6, <1>7, SizeOfRange DEF EndPlaced
<1>13. got \subseteq Seqs
  BY <1>8 DEF IInv, TypeOK
<1>14. BehindEnd'
  <2> SUFFICES ASSUME initialized, ~early
               PROVE  /\ \A n \in got' : Gap(s, end) <= Off(s, n)
                      /\ \A n \in DOMAIN nacks :
                           Gap(s, end) <= Off(s, n) /\ Off(s, n) < HalfRange
    BY <1>2 DEF BehindEnd
  <2>1. ASSUME NEW n \in got' PROVE Gap(s, end) <= Off(s, n)
    <3>1. n \in got /\ n # s /\ n \in Seqs
      BY <1>2, <1>13
    <3>2. Gap(high, end) <= Off(high, n)
      BY <3>1 DEF IInv, BehindEnd
    <3> QED BY <1>5, <1>6, <1>7, <1>10, <3>1, <3>2
  <2>2. ASSUME NEW n \in DOMAIN nacks
        PROVE  Gap(s, end) <= Off(s, n) /\ Off(s, n) < HalfRange
    <3>1. n \in Seqs /\ Gap(high, end) <= Off(high, n) /\ Distance(n, s) > 0
      BY <1>2, <1>3 DEF IInv, BehindEnd
    <3>2. Distance(n, s) = IF Off(s, n) < HalfRange THEN Off(s, n) ELSE Off(s, n) - M
      BY <1>4, <3>1, DistanceIs
    <3>3. Off(s, n) \in Nat /\ Off(s, n) < M
      BY <1>4, <3>1, OffType
    <3>4. Off(s, n) < HalfRange /\ Off(s, n) > 0
      BY <3>1, <3>2, <3>3, SizeOfRange
    <3>5. Off(s, n) = Off(high, n) + 1
      BY <1>5, <3>1, <3>4
    <3> QED BY <1>6, <1>7, <1>10, <3>1, <3>4, <3>5
  <2> QED BY <2>1, <2>2
<1>15. Covered'
  <2> SUFFICES ASSUME initialized, NEW n \in Recent', Gap(s, end) <= Off(s, n)
               PROVE  n \in got' \cup waived' \cup DOMAIN nacks'
    BY <1>2 DEF Covered
  <2>1. n \in Seqs /\ Off(s, n) < Window
    BY <1>9
  <2>2. n # s
    BY <1>5, <1>6, <1>7, <2>1
  <2>3. Off(s, n) = Off(high, n) + 1 /\ Off(high, n) \in Nat
    BY <1>5, <1>10, <2>1, <2>2
  <2>4. Off(high, n) < Window /\ Gap(high, end) <= Off(high, n)
    BY <1>6, <1>7, <2>1, <2>3, NackAssumption
  <2>5. n \in Recent
    BY <1>8, <2>1, <2>4
  <2>6. n \in got \cup waived \cup DOMAIN nacks
    BY <2>4, <2>5 DEF IInv, Covered
  <2> QED BY <1>2, <2>2, <2>6
<1>16. OnlyMissing'
  BY <1>2 DEF IInv, OnlyMissing
<1>17. ListBounded' /\ Anew'
  BY <1>2 DEF IInv, ListBounded, Anew
<1> QED BY <1>11, <1>12, <1>14, <1>15, <1>16, <1>17 DEF IInv

\* What the steps below start from.
LEMMA Facts ==
  ASSUME IInv
  PROVE  /\ high \in Seqs /\ end \in Seqs /\ begin \in Seqs
         /\ got \subseteq Recent /\ waived \subseteq Recent
         /\ DOMAIN nacks \subseteq Seqs /\ Recent \subseteq Seqs
         /\ \A n : n \in Recent <=> n \in Seqs /\ Off(high, n) < Window
         /\ \A n \in Seqs : Off(high, n) \in Nat
         /\ Gap(high, end) \in Nat
<1>1. /\ high \in Seqs /\ end \in Seqs /\ begin \in Seqs
      /\ got \subseteq Recent /\ waived \subseteq Recent /\ DOMAIN nacks \subseteq Seqs
  BY DEF IInv, TypeOK
<1>2. Recent = RecentOf(high)
  BY DEF Recent, RecentOf
<1>3. \A n : n \in Recent <=> n \in Seqs /\ Off(high, n) < Window
  BY <1>1, <1>2, RecentIs
<1>4. Gap(high, end) \in Nat
  BY <1>1, GapType
<1>5. \A n \in Seqs : Off(high, n) \in Nat
  BY <1>1, OffType
<1> QED BY <1>1, <1>3, <1>4, <1>5

LEMMA RecoveredStep ==
  ASSUME IInv, NEW s \in Recent, UNCHANGED <<high, due>>, Recovered(s)
  PROVE  IInv'
<1>1. /\ s \in DOMAIN nacks /\ nacks' = [n \in DOMAIN nacks \ {s} |-> nacks[n]]
      /\ got' = got \cup {s} /\ waived' = waived /\ high' = high /\ due' = due
      /\ initialized' = initialized /\ begin' = begin /\ end' = end /\ early' = early
      /\ Recent' = Recent
  BY DEF Recovered, Arrived, ring, Recent
<1>2. DOMAIN nacks' = DOMAIN nacks \ {s}
  BY <1>1
<1>3. ListBounded'
  BY <1>2, Facts, StillBounded DEF IInv
<1>4. TypeOK'
  BY <1>1, <1>2 DEF IInv, TypeOK
<1>5. BehindEnd'
  BY <1>1, <1>2 DEF IInv, BehindEnd
<1>6. Covered'
  BY <1>1, <1>2 DEF IInv, Covered
<1>7. OnlyMissing' /\ Anew' /\ EndPlaced'
  BY <1>1, <1>2 DEF IInv, OnlyMissing, Anew, EndPlaced
<1> QED BY <1>3, <1>4, <1>5, <1>6, <1>7 DEF IInv

LEMMA FirstStep ==
  ASSUME IInv, NEW s \in Recent, UNCHANGED <<high, due>>, First(s)
  PROVE  IInv'
<1>1. /\ ~initialized /\ nacks' = nacks /\ got' = {s} /\ high' = high /\ due' = due
      /\ initialized' /\ begin' = s /\ end' = Plus(s, 1) /\ early' = FALSE
      /\ waived' = {n \in Recent : Distance(n, s) >= 0}
      /\ Recent' = Recent
  BY DEF First, Recent
<1>2. DOMAIN nacks = {}
  BY <1>1 DEF IInv, Anew
<1>3. s \in Seqs /\ high \in Seqs /\ Off(high, s) < Window /\ Off(high, s) \in Nat
  BY Facts
<1>4. Gap(high, end') = Off(high, s) /\ end' \in Seqs
  BY <1>1, <1>3, GapAfter, PlusOne
<1>5. TypeOK'
  BY <1>1, <1>2, <1>3, <1>4 DEF IInv, TypeOK, First
<1>6. EndPlaced' /\ Anew'
  BY <1>1, <1>3, <1>4, NackAssumption DEF EndPlaced, Anew
<1>7. BehindEnd' /\ OnlyMissing'
  BY <1>1, <1>2, <1>3, <1>4 DEF BehindEnd, OnlyMissing
<1>8. Covered'
  <2> SUFFICES ASSUME NEW n \in Recent, Off(high, s) <= Off(high, n)
               PROVE  n \in waived'
    BY <1>1, <1>4 DEF Covered
  <2>1. n \in Seqs /\ Off(high, n) < Window
    BY Facts
  <2>2. Distance(n, s) = IF Off(s, n) < HalfRange THEN Off(s, n) ELSE Off(s, n) - M
    BY <1>3, <2>1, DistanceIs
  <2>3. Off(s, n) < HalfRange
    BY <1>3, <2>1, NackAssumption, SizeOfRange DEF Off
  <2>4. Distance(n, s) >= 0
    BY <1>3, <2>1, <2>2, <2>3, OffType
  <2> QED BY <1>1, <2>4
<1>9. ListBounded'
  BY <1>1 DEF IInv, ListBounded
<1> QED BY <1>5, <1>6, <1>7, <1>8, <1>9 DEF IInv

\* The list when update found the numbers from first up to last missing.
LEMMA InsertResult ==
  ASSUME IInv, NEW first \in Seqs, NEW last \in Seqs
  PROVE  /\ \A n : n \in DOMAIN Insert(first, last)
                    <=> n \in DOMAIN nacks \/ n \in Numbers(first, last)
         /\ DOMAIN Insert(first, last) \subseteq Seqs
         /\ \A n \in DOMAIN Insert(first, last) : Insert(first, last)[n] \in NackInfo
<1>1. Numbers(first, last) \subseteq Seqs
  BY NumbersAre
<1>2. DOMAIN nacks \subseteq Seqs /\ \A n \in DOMAIN nacks : nacks[n] \in NackInfo
  BY DEF IInv, TypeOK
<1> QED BY <1>1, <1>2, NewNackType DEF Insert

\* on_nack after update: the track starts anew, or it has the new range and the
\* missing numbers are in the list or waived.
Accepted(s, first, last, b, e, odd) ==
  /\ initialized' = TRUE /\ begin' = b /\ end' = e /\ early' = odd
  /\ got' = got \cup {s}
  /\ waived \subseteq waived' /\ waived' \subseteq Recent
  /\ DOMAIN nacks \subseteq DOMAIN nacks'
  /\ \A n \in DOMAIN nacks' : n \in DOMAIN nacks \/ n \in Numbers(first, last)
  /\ Ask(first, last) => \A n \in Numbers(first, last) \cap Recent :
                           n \in waived' \/ n \in DOMAIN nacks'

LEMMA ListedResult ==
  ASSUME IInv, NEW s \in Recent, NEW first \in Seqs, NEW last \in Seqs, NEW b, NEW e,
         NEW odd, Listed(s, first, last, b, e, odd)
  PROVE  /\ DOMAIN nacks' \subseteq Seqs /\ \A n \in DOMAIN nacks' : nacks'[n] \in NackInfo
         /\ ListBounded'
         /\ NotifyFull \/ Accepted(s, first, last, b, e, odd)
<1>1. PICK new : new = Insert(first, last)
  OBVIOUS
<1>2. /\ \A n : n \in DOMAIN new <=> n \in DOMAIN nacks \/ n \in Numbers(first, last)
      /\ DOMAIN new \subseteq Seqs
      /\ \A n \in DOMAIN new : new[n] \in NackInfo
  BY <1>1, InsertResult
<1>3. /\ DOMAIN nacks \subseteq Seqs /\ (\A n \in DOMAIN nacks : nacks[n] \in NackInfo)
      /\ waived \subseteq Recent /\ ListBounded
  BY DEF IInv, TypeOK
<1>4. CASE NotifyFull
  <2>1. DOMAIN nacks' = {}
    BY <1>4 DEF NotifyFull
  <2>2. ListBounded'
    BY <2>1, FS_EmptySet, NackAssumption DEF ListBounded
  <2> QED BY <1>4, <2>1, <2>2
<1>5. CASE /\ Ask(first, last) /\ ~Full(new)
           /\ nacks' = new
           /\ RangeIs(b, e, odd)
           /\ Arrived(s)
           /\ UNCHANGED waived
  <2>1. ListBounded'
    <3>1. Cardinality(DOMAIN new) \in Nat
      BY <1>2, FiniteSeqs, FS_Subset, FS_CardinalityType
    <3> QED BY <1>5, <3>1, NackAssumption DEF ListBounded, Full
  <2>2. Accepted(s, first, last, b, e, odd)
    BY <1>2, <1>3, <1>5 DEF Accepted, RangeIs, Arrived
  <2> QED BY <1>2, <1>5, <2>1, <2>2
<1>6. CASE /\ RangeIs(b, e, odd)
           /\ Arrived(s)
           /\ waived' = IF Ask(first, last)
                        THEN waived \cup (Numbers(first, last) \cap Recent) ELSE waived
           /\ UNCHANGED nacks
  <2>1. ListBounded'
    BY <1>3, <1>6 DEF ListBounded
  <2>2. /\ initialized' = TRUE /\ begin' = b /\ end' = e /\ early' = odd
        /\ got' = got \cup {s} /\ DOMAIN nacks' = DOMAIN nacks /\ nacks' = nacks
    BY <1>6 DEF RangeIs, Arrived
  <2>3. /\ waived \subseteq waived' /\ waived' \subseteq Recent
        /\ Ask(first, last) => \A n \in Numbers(first, last) \cap Recent : n \in waived'
    <3>1. CASE Ask(first, last)
      BY <1>3, <1>6, <3>1
    <3>2. CASE ~Ask(first, last)
      BY <1>3, <1>6, <3>2
    <3> QED BY <3>1, <3>2
  <2>4. Accepted(s, first, last, b, e, odd)
    BY <2>2, <2>3 DEF Accepted
  <2> QED BY <1>3, <2>1, <2>2, <2>4
<1> QED BY <1>1, <1>4, <1>5, <1>6 DEF Listed

LEMMA NotifyFullStep ==
  ASSUME IInv, UNCHANGED <<high, due>>, NotifyFull
  PROVE  IInv'
<1>1. /\ DOMAIN nacks' = {} /\ ~initialized' /\ ~early' /\ got' = {} /\ waived' = waived
      /\ high' = high /\ due' = due /\ begin' = 0 /\ end' = 0 /\ Recent' = Recent
      /\ initialized' = FALSE /\ early' = FALSE
  BY DEF NotifyFull, Recent
<1>2. 0 \in Seqs
  BY SizeOfRange
<1>3. TypeOK'
  BY <1>1, <1>2 DEF IInv, TypeOK
<1>4. ListBounded'
  BY <1>1, FS_EmptySet, NackAssumption DEF ListBounded
<1> QED BY <1>1, <1>3, <1>4 DEF IInv, OnlyMissing, Anew, EndPlaced, BehindEnd, Covered

\* The types after update: Accepted with a range of numbers.
LEMMA AcceptedTypes ==
  ASSUME NEW s, NEW first, NEW last, NEW b, NEW e, NEW odd,
         IInv, s \in Recent, b \in Seqs, e \in Seqs, odd \in BOOLEAN,
         high' = high, due' = due, Accepted(s, first, last, b, e, odd),
         DOMAIN nacks' \subseteq Seqs, \A n \in DOMAIN nacks' : nacks'[n] \in NackInfo
  PROVE  TypeOK' /\ Anew' /\ Recent' = Recent
<1>1. Recent' = Recent
  BY DEF Recent
<1> QED BY <1>1 DEF IInv, TypeOK, Accepted, Anew

LEMMA FollowsStep ==
  ASSUME IInv, NEW s \in Recent, UNCHANGED <<high, due>>, Follows(s)
  PROVE  IInv'
<1>1. /\ s \notin DOMAIN nacks /\ initialized /\ Distance(end, s) >= 0
      /\ Listed(s, end, s, begin, Plus(s, 1), early)
      /\ high' = high /\ due' = due
  BY DEF Follows
<1>2. /\ s \in Seqs /\ high \in Seqs /\ end \in Seqs /\ begin \in Seqs
      /\ Off(high, s) < Window /\ Off(high, s) \in Nat /\ Gap(high, end) \in Nat
  BY Facts
<1>3. PICK b, e, odd : b = begin /\ e = Plus(s, 1) /\ odd = early
  OBVIOUS
<1>4. /\ DOMAIN nacks' \subseteq Seqs /\ \A n \in DOMAIN nacks' : nacks'[n] \in NackInfo
      /\ ListBounded'
      /\ NotifyFull \/ Accepted(s, end, s, b, e, odd)
  BY <1>1, <1>2, <1>3, ListedResult
<1>5. CASE NotifyFull
  BY <1>1, <1>5, NotifyFullStep
<1>6. CASE Accepted(s, end, s, b, e, odd)
  <2>1. b \in Seqs /\ e \in Seqs /\ odd \in BOOLEAN
    BY <1>2, <1>3, PlusOne DEF IInv, TypeOK
  <2>2. TypeOK' /\ Anew' /\ Recent' = Recent
    BY <1>1, <1>4, <1>6, <2>1, AcceptedTypes
  <2>3. /\ initialized' = TRUE /\ end' = e /\ early' = early /\ got' = got \cup {s}
        /\ waived \subseteq waived' /\ DOMAIN nacks \subseteq DOMAIN nacks'
        /\ \A n \in DOMAIN nacks' : n \in DOMAIN nacks \/ n \in Numbers(end, s)
        /\ Ask(end, s) => \A n \in Numbers(end, s) \cap Recent :
                            n \in waived' \/ n \in DOMAIN nacks'
    BY <1>3, <1>6 DEF Accepted
  <2>4. Gap(high, end) <= HalfRange
    BY <1>1 DEF IInv, EndPlaced
  <2>5. Off(high, s) < Gap(high, end)
    BY <1>1, <1>2, <2>4, SideOfEnd
  <2>6. Gap(high, e) = Off(high, s)
    BY <1>2, <1>3, GapAfter
  <2>7. \A n : n \in Numbers(end, s) <=>
               n \in Seqs /\ Off(high, s) < Off(high, n) /\ Off(high, n) < Gap(high, end)
    BY <1>2, <2>4, <2>5, MissingBefore
  <2>8. EndPlaced'
    BY <1>1, <1>2, <2>3, <2>4, <2>5, <2>6, SizeOfRange DEF EndPlaced
  <2>9. ASSUME ~early, NEW n \in got PROVE Gap(high, end) <= Off(high, n) /\ n \in Seqs
    BY <1>1, <2>9, Facts DEF IInv, BehindEnd
  <2>10. ASSUME ~early, NEW n \in DOMAIN nacks'
         PROVE  /\ Off(high, s) < Off(high, n) /\ Off(high, n) < HalfRange
                /\ n \in DOMAIN nacks \/ Off(high, n) < Gap(high, end)
    <3>1. n \in Seqs /\ Off(high, n) \in Nat
      BY <1>4, Facts
    <3>2. CASE n \in DOMAIN nacks
      <4>1. Gap(high, end) <= Off(high, n) /\ Off(high, n) < HalfRange
        BY <1>1, <2>10, <3>2 DEF IInv, BehindEnd
      <4> QED BY <1>2, <2>5, <3>1, <3>2, <4>1
    <3>3. CASE n \in Numbers(end, s)
      BY <1>2, <2>4, <2>7, <3>1, <3>3, SizeOfRange
    <3> QED BY <2>3, <3>2, <3>3
  <2>11. BehindEnd'
    <3> SUFFICES ASSUME ~early
                 PROVE  /\ \A n \in got' : Off(high, s) <= Off(high, n)
                        /\ \A n \in DOMAIN nacks' :
                             Off(high, s) <= Off(high, n) /\ Off(high, n) < HalfRange
      BY <1>1, <2>3, <2>6 DEF BehindEnd
    <3>1. ASSUME NEW n \in got' PROVE Off(high, s) <= Off(high, n)
      <4>1. CASE n = s
        BY <1>2, <4>1
      <4>2. CASE n \in got
        BY <1>2, <2>5, <2>9, <4>2, Facts
      <4> QED BY <2>3, <4>1, <4>2
    <3>2. ASSUME NEW n \in DOMAIN nacks'
          PROVE  Off(high, s) <= Off(high, n) /\ Off(high, n) < HalfRange
      <4>1. Off(high, n) \in Nat
        BY <1>4, Facts
      <4> QED BY <1>2, <2>10, <4>1
    <3> QED BY <3>1, <3>2
  <2>12. OnlyMissing'
    <3> SUFFICES ASSUME ~early, NEW n \in got', n \in DOMAIN nacks' PROVE FALSE
      BY <2>3 DEF OnlyMissing
    <3>1. n \in DOMAIN nacks \/ Off(high, n) < Gap(high, end)
      BY <2>10
    <3>2. Off(high, s) < Off(high, n)
      BY <2>10
    <3>3. n \in got
      BY <1>2, <2>3, <3>2
    <3>4. n \notin DOMAIN nacks
      BY <3>3 DEF IInv, OnlyMissing
    <3>5. Off(high, n) \in Nat
      BY <1>4, Facts
    <3> QED BY <1>2, <2>9, <3>1, <3>3, <3>4, <3>5
  <2>13. Covered'
    <3> SUFFICES ASSUME NEW n \in Recent, Off(high, s) <= Off(high, n)
                 PROVE  n \in got' \cup waived' \cup DOMAIN nacks'
      BY <1>1, <2>2, <2>3, <2>6 DEF Covered
    <3>1. n \in Seqs /\ Off(high, n) \in Nat
      BY Facts
    <3>2. CASE n = s
      BY <2>3, <3>2
    <3>3. CASE Gap(high, end) <= Off(high, n)
      <4>1. n \in got \cup waived \cup DOMAIN nacks
        BY <1>1, <3>3 DEF IInv, Covered
      <4> QED BY <2>3, <4>1
    <3>4. CASE n # s /\ ~(Gap(high, end) <= Off(high, n))
      <4>1. Off(high, n) # Off(high, s)
        BY <1>2, <3>1, <3>4, OffEqual
      <4>2. Off(high, s) < Off(high, n) /\ Off(high, n) < Gap(high, end)
        BY <1>2, <3>1, <3>4, <4>1
      <4>3. n \in Numbers(end, s)
        BY <2>7, <3>1, <4>2
      <4>4. Gap(high, end) # Off(high, s) + 1
        BY <1>2, <3>1, <4>2
      <4>5. Ask(end, s)
        BY <1>2, <2>4, <2>5, <4>4, NothingMissing
      <4> QED BY <2>3, <4>3, <4>5
    <3> QED BY <3>2, <3>3, <3>4
  <2> QED BY <1>4, <2>2, <2>8, <2>11, <2>12, <2>13 DEF IInv
<1> QED BY <1>4, <1>5, <1>6

LEMMA BeforeStep ==
  ASSUME IInv, NEW s \in Recent, UNCHANGED <<high, due>>, Before(s)
  PROVE  IInv'
<1>1. /\ initialized /\ Listed(s, s, begin, s, end, TRUE)
      /\ high' = high /\ due' = due
  BY DEF Before
<1>2. s \in Seqs /\ end \in Seqs /\ begin \in Seqs
  BY Facts
<1>3. PICK b, e, odd : b = s /\ e = end /\ odd = TRUE
  OBVIOUS
<1>4. /\ DOMAIN nacks' \subseteq Seqs /\ \A n \in DOMAIN nacks' : nacks'[n] \in NackInfo
      /\ ListBounded'
      /\ NotifyFull \/ Accepted(s, s, begin, b, e, odd)
  BY <1>1, <1>2, <1>3, ListedResult
<1>5. CASE NotifyFull
  BY <1>1, <1>5, NotifyFullStep
<1>6. CASE Accepted(s, s, begin, b, e, odd)
  <2>1. b \in Seqs /\ e \in Seqs /\ odd \in BOOLEAN
    BY <1>2, <1>3
  <2>2. TypeOK' /\ Anew' /\ Recent' = Recent
    BY <1>1, <1>4, <1>6, <2>1, AcceptedTypes
  <2>3. /\ initialized' = TRUE /\ end' = end /\ early' = TRUE /\ got' = got \cup {s}
        /\ waived \subseteq waived' /\ DOMAIN nacks \subseteq DOMAIN nacks'
    BY <1>3, <1>6 DEF Accepted
  <2>4. EndPlaced'
    BY <1>1, <2>3 DEF IInv, EndPlaced
  <2>5. OnlyMissing' /\ BehindEnd'
    BY <2>3 DEF OnlyMissing, BehindEnd
  <2>6. Covered'
    BY <1>1, <2>2, <2>3 DEF IInv, Covered
  <2> QED BY <1>4, <2>2, <2>4, <2>5, <2>6 DEF IInv
<1> QED BY <1>4, <1>5, <1>6

\* A packet in the range that is not asked for changes nothing but what arrived.
LEMMA WithinStep ==
  ASSUME IInv, NEW s \in Recent, UNCHANGED <<high, due>>, Within(s)
  PROVE  IInv'
<1>1. /\ s \notin DOMAIN nacks /\ initialized /\ Distance(end, s) < 0
      /\ got' = got \cup {s} /\ high' = high /\ due' = due /\ nacks' = nacks
      /\ initialized' = initialized /\ begin' = begin /\ end' = end /\ early' = early
      /\ waived' = waived /\ Recent' = Recent
  BY DEF Within, Arrived, ring, Recent
<1>2. /\ s \in Seqs /\ high \in Seqs /\ end \in Seqs /\ Off(high, s) < Window
      /\ Off(high, s) \in Nat /\ Gap(high, end) \in Nat
  BY Facts
<1>3. Gap(high, end) <= HalfRange
  BY <1>1 DEF IInv, EndPlaced
<1>4. Distance(end, s) \in Int
  <2>1. Distance(end, s) = IF Off(s, end) < HalfRange THEN Off(s, end) ELSE Off(s, end) - M
    BY <1>2, DistanceIs
  <2>2. Off(s, end) \in Nat
    BY <1>2, OffType
  <2> QED BY <2>1, <2>2, SizeOfRange
<1>5. Gap(high, end) <= Off(high, s)
  <2>1. ~(Distance(end, s) >= 0)
    BY <1>1, <1>4
  <2>2. ~(Off(high, s) < Gap(high, end))
    BY <1>2, <1>3, <2>1, SideOfEnd
  <2> QED BY <1>2, <2>2
<1>6. TypeOK'
  BY <1>1 DEF IInv, TypeOK
<1>7. BehindEnd'
  BY <1>1, <1>5 DEF IInv, BehindEnd
<1>8. Covered'
  BY <1>1 DEF IInv, Covered
<1>9. OnlyMissing' /\ Anew' /\ EndPlaced' /\ ListBounded'
  BY <1>1 DEF IInv, OnlyMissing, Anew, EndPlaced, ListBounded
<1> QED BY <1>6, <1>7, <1>8, <1>9 DEF IInv

\* begin_ moves behind the newest number given up: there is one.
LEMMA NewestDropped ==
  ASSUME NEW D, D \subseteq Seqs, D # {}, end \in Seqs
  PROVE  \E n \in D : \A m \in D : ~Older(n, m)
<1> DEFINE T == {Off(end, n) : n \in D}
<1>1. \A n \in D : n \in Seqs /\ Off(end, n) \in Nat
  BY OffType
<1>2. T \subseteq Nat /\ T # {}
  BY <1>1
<1>3. PICK x \in T : \A y \in T : x <= y
  BY <1>2, LeastElement
<1>4. PICK n \in D : x = Off(end, n)
  BY <1>3
<1>5. ASSUME NEW m \in D PROVE ~Older(n, m)
  <2>1. Off(end, m) \in T
    BY <1>5
  <2>2. Off(end, n) <= Off(end, m)
    BY <1>3, <1>4, <2>1
  <2>3. /\ (end - n) % (2 * HalfRange) = Off(end, n)
        /\ (end - m) % (2 * HalfRange) = Off(end, m)
    BY <1>1, OffIsMod
  <2> QED BY <1>1, <2>2, <2>3 DEF Older
<1> QED BY <1>4, <1>5

\* A number asked for once more has the type of one in the list.
LEMMA AskedType ==
  ASSUME NEW i, i \in NackInfo, ~(i.count > MaxCount)
  PROVE  Asked(i) \in NackInfo
<1>1. /\ MaxAlive \in Nat /\ MaxCount \in Nat /\ Interval \in Nat
  BY NackAssumption
<1>2. i.count + 1 \in 0 .. MaxCount + 1 /\ 0 \in 0 .. Interval
  BY <1>1 DEF NackInfo
<1>3. [i EXCEPT !.count = @ + 1, !.since = 0] \in NackInfo
  BY <1>2 DEF NackInfo
<1> QED BY <1>3 DEF Asked

\* A step of the timer: numbers may leave the list, but only for waived.
LEMMA TimerStep ==
  ASSUME IInv, high' = high, got' = got, initialized' = initialized, end' = end,
         early' = early, begin' \in Seqs, due' \in BOOLEAN,
         DOMAIN nacks' \subseteq DOMAIN nacks,
         \A n \in DOMAIN nacks' : nacks'[n] \in NackInfo,
         waived \subseteq waived', waived' \subseteq Recent,
         \A n \in Recent : n \in DOMAIN nacks => n \in DOMAIN nacks' \/ n \in waived'
  PROVE  IInv'
<1>1. Recent' = Recent
  BY DEF Recent
<1>2. ListBounded'
  BY Facts, StillBounded DEF IInv
<1>3. TypeOK'
  BY <1>1 DEF IInv, TypeOK
<1>4. BehindEnd' /\ EndPlaced'
  BY DEF IInv, BehindEnd, EndPlaced
<1>5. OnlyMissing' /\ Anew'
  BY DEF IInv, OnlyMissing, Anew
<1>6. Covered'
  BY <1>1 DEF IInv, Covered
<1> QED BY <1>2, <1>3, <1>4, <1>5, <1>6 DEF IInv

LEMMA GetNackSeqsStep ==
  ASSUME IInv, GetNackSeqs
  PROVE  IInv'
<1>1. PICK dropped : dropped = {n \in DOMAIN nacks : Expired(n) /\ Reached(n)}
  OBVIOUS
<1>2. /\ due' = FALSE
      /\ nacks' = [n \in DOMAIN nacks \ dropped |->
                     IF Reached(n) THEN Asked(nacks[n]) ELSE nacks[n]]
      /\ begin' = IF dropped = {} THEN begin
                  ELSE Plus(CHOOSE n \in dropped : \A m \in dropped : ~Older(n, m), 1)
      /\ waived' = waived \cup (dropped \cap Recent)
      /\ high' = high /\ got' = got /\ initialized' = initialized /\ end' = end
      /\ early' = early
  BY <1>1 DEF GetNackSeqs
<1>3. /\ begin \in Seqs /\ end \in Seqs /\ dropped \subseteq Seqs /\ waived \subseteq Recent
      /\ \A n \in DOMAIN nacks : nacks[n] \in NackInfo
  BY <1>1, Facts DEF IInv, TypeOK
<1>4. begin' \in Seqs
  <2>1. CASE dropped = {}
    BY <1>2, <1>3, <2>1
  <2>2. CASE dropped # {}
    <3>1. \E n \in dropped : \A m \in dropped : ~Older(n, m)
      BY <1>3, <2>2, NewestDropped
    <3>2. PICK x : x = CHOOSE n \in dropped : \A m \in dropped : ~Older(n, m)
      OBVIOUS
    <3>3. x \in dropped
      BY <3>1, <3>2
    <3>4. begin' = Plus(x, 1)
      BY <1>2, <2>2, <3>2
    <3> QED BY <1>3, <3>3, <3>4, PlusOne
  <2> QED BY <2>1, <2>2
<1>5. DOMAIN nacks' = DOMAIN nacks \ dropped
  BY <1>2
<1>6. ASSUME NEW n \in DOMAIN nacks' PROVE nacks'[n] \in NackInfo
  <2>1. n \in DOMAIN nacks /\ n \notin dropped /\ nacks[n] \in NackInfo
    BY <1>3, <1>5
  <2>2. nacks'[n] = IF Reached(n) THEN Asked(nacks[n]) ELSE nacks[n]
    BY <1>2, <2>1
  <2>3. CASE Reached(n)
    <3>1. ~(nacks[n].count > MaxCount)
      BY <1>1, <2>1, <2>3 DEF Expired
    <3>2. PICK i : i = nacks[n]
      OBVIOUS
    <3>3. Asked(i) \in NackInfo
      BY <2>1, <3>1, <3>2, AskedType
    <3> QED BY <2>2, <2>3, <3>2, <3>3
  <2>4. CASE ~Reached(n)
    BY <2>1, <2>2, <2>4
  <2> QED BY <2>3, <2>4
<1>7. /\ waived \subseteq waived' /\ waived' \subseteq Recent /\ due' \in BOOLEAN
      /\ DOMAIN nacks' \subseteq DOMAIN nacks
      /\ \A n \in Recent : n \in DOMAIN nacks => n \in DOMAIN nacks' \/ n \in waived'
  BY <1>2, <1>3, <1>5
<1> QED BY <1>2, <1>4, <1>6, <1>7, TimerStep

LEMMA AgedType ==
  ASSUME NEW i, i \in NackInfo
  PROVE  Aged(i) \in NackInfo
<1>1. /\ MaxAlive \in Nat /\ MaxCount \in Nat /\ Interval \in Nat
  BY NackAssumption
<1>2. PICK a, c : /\ a = IF i.age > MaxAlive THEN i.age ELSE i.age + 1
                  /\ c = IF i.since >= Interval THEN i.since ELSE i.since + 1
  OBVIOUS
<1>3. a \in 0 .. MaxAlive + 1 /\ c \in 0 .. Interval
  BY <1>1, <1>2 DEF NackInfo
<1>4. Aged(i) = [i EXCEPT !.age = a, !.since = c]
  BY <1>2 DEF Aged
<1> QED BY <1>3, <1>4 DEF NackInfo

LEMMA TickStep ==
  ASSUME IInv, Tick
  PROVE  IInv'
<1>1. /\ due' = TRUE /\ high' = high /\ got' = got /\ waived' = waived
      /\ initialized' = initialized /\ begin' = begin /\ end' = end /\ early' = early
      /\ nacks' = [n \in DOMAIN nacks |-> Aged(nacks[n])]
  BY DEF Tick, client, ring
<1>2. DOMAIN nacks' = DOMAIN nacks
  BY <1>1
<1>4. ASSUME NEW n \in DOMAIN nacks PROVE nacks'[n] \in NackInfo
  <2>1. PICK i : i = nacks[n]
    OBVIOUS
  <2>2. i \in NackInfo
    BY <2>1 DEF IInv, TypeOK
  <2>3. Aged(i) \in NackInfo
    BY <2>2, AgedType
  <2> QED BY <1>1, <2>1, <2>3
<1>5. begin \in Seqs /\ waived \subseteq Recent
  BY Facts
<1>6. /\ waived \subseteq waived' /\ waived' \subseteq Recent /\ due' \in BOOLEAN
      /\ begin' \in Seqs /\ DOMAIN nacks' \subseteq DOMAIN nacks
      /\ \A n \in Recent : n \in DOMAIN nacks => n \in DOMAIN nacks' \/ n \in waived'
  BY <1>1, <1>2, <1>5
<1>7. \A n \in DOMAIN nacks' : nacks'[n] \in NackInfo
  BY <1>2, <1>4
<1> QED BY <1>1, <1>6, <1>7, TimerStep

LEMMA NextInv == IInv /\ [Next]_vars => IInv'
<1> SUFFICES ASSUME IInv, [Next]_vars PROVE IInv'
  OBVIOUS
<1>1. CASE Send
  BY <1>1, SendStep
<1>2. CASE \E s \in Recent : OnNack(s)
  <2>1. PICK s \in Recent : OnNack(s)
    BY <1>2
  <2>2. /\ UNCHANGED <<high, due>>
        /\ Recovered(s) \/ First(s) \/ Follows(s) \/ Before(s) \/ Within(s)
    BY <2>1 DEF OnNack
  <2> QED BY <2>2, RecoveredStep, FirstStep, FollowsStep, BeforeStep, WithinStep
<1>3. CASE GetNackSeqs
  BY <1>3, GetNackSeqsStep
<1>4. CASE Tick
  BY <1>4, TickStep
<1>5. CASE UNCHANGED vars
  <2>1. /\ high' = high /\ got' = got /\ waived' = waived /\ nacks' = nacks /\ due' = due
        /\ initialized' = initialized /\ begin' = begin /\ end' = end /\ early' = early
        /\ Recent' = Recent
    BY <1>5 DEF vars, client, ring, Recent
  <2>2. TypeOK' /\ ListBounded' /\ OnlyMissing'
    BY <2>1 DEF IInv, TypeOK, ListBounded, OnlyMissing
  <2>3. Anew' /\ EndPlaced' /\ BehindEnd' /\ Covered'
    BY <2>1 DEF IInv, Anew, EndPlaced, BehindEnd, Covered
  <2> QED BY <2>2, <2>3 DEF IInv
<1> QED BY <1>1, <1>2, <1>3, <1>4, <1>5 DEF Next

LEMMA Invariant == Spec => []IInv
BY InitInv, NextInv, PTL DEF Spec

-----------------------------------------------------------------------------
(* The theorems *)

\* The nack list of a receiving track never reaches max_queue_size_ between two
\* packets, holds only numbers that did not arrive as long as none was taken to be
\* before begin_, and the range and the list keep their types (update, insert,
\* check_queue_size, get_nack_seqs and the timer).
THEOREM NackCorrect == Spec => []NackInv
<1>1. IInv => NackInv
  BY DEF IInv, NackInv
<1> QED BY <1>1, Invariant, PTL

\* Whatever is lost, late or repeated, and wherever the numbers wrap, on_nack
\* overlooks no gap: a packet of the window behind end_ arrived, is in the nack
\* list, or was given up.
THEOREM NoGapOverlooked == Spec => []GapsListed
<1>1. IInv => GapsListed
  <2> SUFFICES ASSUME IInv, NEW s \in Recent, initialized, Distance(s, end) > 0
               PROVE  s \in got \cup waived \cup DOMAIN nacks
    BY DEF GapsListed
  <2>1. s \in Seqs /\ high \in Seqs /\ end \in Seqs /\ Off(high, s) < Window
    BY Facts
  <2>2. Gap(high, end) <= HalfRange
    BY DEF IInv, EndPlaced
  <2>3. Off(high, s) >= Gap(high, end)
    BY <2>1, <2>2, SideOfEnd
  <2>4. Off(high, s) \in Nat /\ Gap(high, end) \in Nat
    BY <2>1, Facts
  <2>5. Gap(high, end) <= Off(high, s)
    BY <2>3, <2>4
  <2> QED BY <2>5 DEF IInv, Covered
<1> QED BY <1>1, Invariant, PTL
=============================================================================
