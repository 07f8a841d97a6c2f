--------------------------- MODULE SpscRingProofs ---------------------------
(***************************************************************************)
(* Proofs about SpscRing: types, slot ownership and the refinement of the  *)
(* bounded queue, for every capacity of at least two slots that divides the *)
(* range of the index word, by the inductive invariant IInv.  The lemmas    *)
(* about modular arithmetic come first, so that the lemmas about actions    *)
(* need no division.                                                        *)
(***************************************************************************)
EXTENDS SpscRing, SequenceTheorems, TLAPS

(* Integer division and remainder. *)
LEMMA DivMod == ASSUME NEW c \in Nat \ {0}, NEW i \in Nat
                PROVE  /\ i = c * (i \div c) + (i % c)
                       /\ i \div c \in Nat
                       /\ i % c \in 0 .. c - 1
  OBVIOUS

(* The remainder is determined by its range. *)
LEMMA ModUnique == ASSUME NEW c \in Nat \ {0}, NEW q \in Nat, NEW r \in 0 .. c - 1
                   PROVE  (c * q + r) % c = r
<1> DEFINE i == c * q + r
<1>1. i \in Nat
  OBVIOUS
<1>2. i = c * (i \div c) + (i % c) /\ i \div c \in Nat /\ i % c \in 0 .. c - 1
  BY <1>1, DivMod
<1> DEFINE p == i \div c
           m == i % c
<1>3. c * q + r = c * p + m /\ p \in Nat /\ m \in 0 .. c - 1
  BY <1>2
<1> HIDE DEF p, m
<1>4. c * (q - p) = m - r
  BY <1>3
<1>5. q - p < 1
  <2>1. SUFFICES ASSUME q - p >= 1 PROVE FALSE
    BY <1>3
  <2>2. c * (q - p) >= c
    BY <2>1, <1>3
  <2> QED  BY <2>2, <1>4, <1>3
<1>6. q - p > -1
  <2>1. SUFFICES ASSUME p - q >= 1 PROVE FALSE
    BY <1>3
  <2>2. c * (p - q) >= c
    BY <2>1, <1>3
  <2>3. c * (p - q) = r - m
    BY <1>3
  <2> QED  BY <2>2, <2>3, <1>3
<1>7. m = r
  BY <1>3, <1>5, <1>6, <1>4
<1> QED  BY <1>7 DEF m

(* Slots advance cyclically with the index ... *)
LEMMA SlotPlus ==
  ASSUME NEW i \in Nat, NEW k \in 0 .. Capacity
  PROVE  Slot(i + k) = IF Slot(i) + k < Capacity THEN Slot(i) + k
                                                 ELSE Slot(i) + k - Capacity
<1> USE CapacityAssumption
<1>1. PICK q \in Nat : i = Capacity * q + (i % Capacity)
  BY DivMod
<1>2. i % Capacity \in 0 .. Capacity - 1
  BY DivMod
<1> DEFINE r == i % Capacity
<1> HIDE DEF r
<1>3. CASE r + k < Capacity
  <2>1. i + k = Capacity * q + (r + k)
    BY <1>1, <1>2 DEF r
  <2>2. r + k \in 0 .. Capacity - 1
    BY <1>2, <1>3 DEF r
  <2>3. (i + k) % Capacity = r + k
    BY <2>1, <2>2, ModUnique
  <2> QED  BY <2>3, <1>3 DEF r, Slot
<1>4. CASE ~(r + k < Capacity)
  <2>1. i + k = Capacity * (q + 1) + (r + k - Capacity)
    BY <1>1, <1>2 DEF r
  <2>2. r + k - Capacity \in 0 .. Capacity - 1
    BY <1>2, <1>4 DEF r
  <2> DEFINE d == r + k - Capacity
             p == q + 1
  <2>3. p \in Nat /\ d \in 0 .. Capacity - 1
    BY <2>2
  <2> HIDE DEF d, p
  <2>4. (Capacity * p + d) % Capacity = d
    BY <2>3, ModUnique
  <2>5. (i + k) % Capacity = r + k - Capacity
    BY <2>1, <2>4 DEF d, p
  <2> QED  BY <2>5, <1>4 DEF r, Slot
<1> QED  BY <1>3, <1>4

(* ... also where the index word wraps. *)
LEMMA SlotSucc ==
  ASSUME NEW i \in Index
  PROVE  Slot(Succ(i)) = IF Slot(i) = Capacity - 1 THEN 0 ELSE Slot(i) + 1
<1> USE CapacityAssumption
<1>1. CASE i # Modulus - 1
  <2>1. i \in Nat /\ Succ(i) = i + 1 /\ 1 \in 0 .. Capacity
    BY <1>1 DEF Index, Succ
  <2>2. Slot(i) \in 0 .. Capacity - 1
    BY <2>1, DivMod DEF Slot
  <2>3. Slot(i + 1) = IF Slot(i) + 1 < Capacity THEN Slot(i) + 1
                                                ELSE Slot(i) + 1 - Capacity
    BY <2>1, SlotPlus
  <2> HIDE DEF Slot
  <2> QED  BY <2>1, <2>2, <2>3
<1>2. CASE i = Modulus - 1
  <2>1. PICK laps \in 2 .. Modulus : Modulus = laps * Capacity
    OBVIOUS
  <2>2. i = Capacity * (laps - 1) + (Capacity - 1)
    BY <2>1, <1>2
  <2>3. Slot(i) = Capacity - 1
    BY <2>2, ModUnique DEF Slot
  <2>4. 0 = Capacity * 0 + 0
    OBVIOUS
  <2>5. Slot(0) = 0
    BY <2>4, ModUnique DEF Slot
  <2> QED  BY <2>3, <2>5, <1>2 DEF Succ
<1> QED  BY <1>1, <1>2

-----------------------------------------------------------------------------
(* Index arithmetic: everything the steps need of Distance and Succ. *)

LEMMA ModulusIsLarge == Modulus \in Nat /\ Capacity \in Nat /\ Capacity >= 2
                        /\ Modulus >= 2 * Capacity
<1>1. PICK laps \in 2 .. Modulus : Modulus = laps * Capacity
  BY CapacityAssumption
<1>2. (laps - 2) * Capacity >= 0
  BY <1>1, CapacityAssumption
<1>3. laps * Capacity = (laps - 2) * Capacity + 2 * Capacity
  BY <1>1, CapacityAssumption
<1> QED  BY <1>1, <1>2, <1>3, CapacityAssumption

LEMMA SlotType == ASSUME NEW i \in Index PROVE Slot(i) \in Slots
  BY DivMod, CapacityAssumption DEF Index, Slot, Slots

(* Unsigned subtraction of indices. *)
LEMMA DistanceFacts ==
  ASSUME NEW i \in Index, NEW j \in Index
  PROVE  /\ Distance(i, j) \in Index
         /\ Succ(j) \in Index
         /\ Distance(i, j) = 0 <=> i = j
         /\ Distance(i, j) < Modulus - 1
              => Distance(i, Succ(j)) = Distance(i, j) + 1
         /\ i # j => Distance(Succ(i), j) = Distance(i, j) - 1
  BY ModulusIsLarge DEF Index, Distance, Succ

(* Going from i to j by way of k. *)
LEMMA DistanceSplits ==
  ASSUME NEW i \in Index, NEW j \in Index, NEW k \in Index,
         Distance(i, k) <= Distance(i, j)
  PROVE  Distance(k, j) = Distance(i, j) - Distance(i, k)
  BY ModulusIsLarge DEF Index, Distance

-----------------------------------------------------------------------------
LEMMA InitIInv == Init => IInv
<1> SUFFICES ASSUME Init PROVE IInv
  OBVIOUS
<1>1. 0 \in Index /\ Distance(0, 0) = 0 /\ Slot(0) \in Slots
  BY ModulusIsLarge, SlotType DEF Index, Distance
<1>2. TypeOK
  BY <1>1 DEF Init, TypeOK
<1>3. CachedIndicesLag
  BY <1>1, ModulusIsLarge DEF Init, CachedIndicesLag
<1>4. SlotsFollowIndices
  BY <1>1, ModulusIsLarge DEF Init, SlotsFollowIndices, Size, Slots
<1>5. SlotsAreOccupied
  BY <1>1, ModulusIsLarge DEF Init, SlotsAreOccupied, Occupied, Size, Offset, Slots
<1> QED  BY <1>2, <1>3, <1>4, <1>5
         DEF Init, IInv, ThereIsRoom, ThereIsAnElement, ItemIsConstructed

-----------------------------------------------------------------------------
(* The invariant is preserved: one lemma per action. *)

(* What the steps use of the invariant: the room and the element seen through
   a cached index are really there. *)
LEMMA CachedViewIsSafe ==
  ASSUME IInv
  PROVE  /\ Size \in 0 .. Capacity
         /\ ppc \in {"construct", "publish"} => Size < Capacity
         /\ cpc \in {"move", "advance"} => Size > 0
<1> USE ModulusIsLarge DEF IInv, TypeOK
<1>1. Size = Distance(head_cached, tail) - Distance(head_cached, head)
  BY DistanceSplits DEF CachedIndicesLag, Size
<1>2. /\ Distance(head_cached, tail) \in Index
      /\ Distance(head_cached, head) \in Index
      /\ Distance(head, tail) \in Index
      /\ Distance(head, tail_cached) \in Index
  BY DistanceFacts
<1>3. Size \in 0 .. Capacity
  BY <1>1, <1>2 DEF CachedIndicesLag, Size, Index
<1>4. ppc \in {"construct", "publish"} => Size < Capacity
  BY <1>1, <1>2 DEF ThereIsRoom, Index
<1>5. cpc \in {"move", "advance"} => Size > 0
  BY <1>2 DEF ThereIsAnElement, CachedIndicesLag, Size, Index
<1> QED  BY <1>3, <1>4, <1>5

LEMMA PushInv == ASSUME IInv, NEW v \in Values, Push(v) PROVE IInv'
<1> USE DEF IInv, Push, consumerVars
<1>1. TypeOK'
  BY NoItemAssumption DEF TypeOK
<1>2. Distance(head_cached, tail) \in Index
  BY DistanceFacts DEF TypeOK
<1>3. ThereIsRoom'
  BY <1>2, ModulusIsLarge DEF ThereIsRoom, Index, Distance
<1>4. /\ CachedIndicesLag' /\ SlotsFollowIndices' /\ ThereIsAnElement'
  BY DEF CachedIndicesLag, SlotsFollowIndices, ThereIsAnElement, Size
<1>5. SlotsAreOccupied'
  BY DEF SlotsAreOccupied, Occupied, Offset, Size
<1>6. ItemIsConstructed'
  BY DEF ItemIsConstructed
<1> QED  BY <1>1, <1>3, <1>4, <1>5, <1>6

LEMMA ReloadHeadInv == ASSUME IInv, ReloadHead PROVE IInv'
<1> USE DEF IInv, ReloadHead, consumerVars
<1>1. TypeOK'
  BY DEF TypeOK
<1>2. Size \in 0 .. Capacity /\ Distance(head, head) = 0
  BY CachedViewIsSafe, DistanceFacts DEF TypeOK
<1>3. CachedIndicesLag'
  BY <1>2 DEF CachedIndicesLag, Size
<1>4. ThereIsRoom'
  BY <1>2, ModulusIsLarge DEF ThereIsRoom, Size
<1>5. SlotsFollowIndices' /\ ThereIsAnElement'
  BY DEF SlotsFollowIndices, ThereIsAnElement, Size
<1>6. SlotsAreOccupied'
  BY DEF SlotsAreOccupied, Occupied, Offset, Size
<1>7. ItemIsConstructed'
  BY DEF ItemIsConstructed
<1> QED  BY <1>1, <1>3, <1>4, <1>5, <1>6, <1>7

LEMMA ConstructInv == ASSUME IInv, Construct PROVE IInv'
<1> USE DEF IInv, Construct, consumerVars
<1>1. TypeOK'
  BY DEF TypeOK
<1>2. Slot(tail) \in Slots /\ Slot(head) \in Slots
  BY SlotType DEF TypeOK
<1>3. Size \in 0 .. Capacity /\ Size < Capacity
  BY CachedViewIsSafe
<1>4. CachedIndicesLag' /\ SlotsFollowIndices' /\ ThereIsRoom' /\ ThereIsAnElement'
  BY DEF CachedIndicesLag, SlotsFollowIndices, ThereIsRoom, ThereIsAnElement, Size
<1>5. item # NoItem
  BY DEF TypeOK
<1>6. Offset(Slot(tail)) = Size
  BY <1>2, <1>3, ModulusIsLarge DEF SlotsFollowIndices, Offset, Slots
<1>7. ASSUME NEW s \in Slots PROVE (buffer'[s] # NoItem) <=> Occupied(s)'
  <2>1. CASE s = Slot(tail)
    BY <1>2, <1>5, <1>6, <2>1 DEF TypeOK, Occupied, Offset, Size
  <2>2. CASE s # Slot(tail)
    <3>1. Offset(s) # Size
      BY <1>2, <1>3, <2>2, ModulusIsLarge DEF SlotsFollowIndices, Offset, Slots
    <3>2. Occupied(s)' <=> Occupied(s)
      BY <3>1 DEF Occupied, Offset, Size
    <3> QED  BY <3>2, <2>2, <1>2 DEF SlotsAreOccupied, TypeOK
  <2> QED  BY <2>1, <2>2
<1>8. SlotsAreOccupied'
  BY <1>7 DEF SlotsAreOccupied
<1>9. ItemIsConstructed'
  BY <1>2 DEF ItemIsConstructed, TypeOK
<1> QED  BY <1>1, <1>4, <1>8, <1>9

LEMMA PublishInv == ASSUME IInv, Publish PROVE IInv'
<1> USE DEF IInv, Publish, consumerVars
<1>1. TypeOK'
  BY DistanceFacts DEF TypeOK
<1>2. Slot(tail) \in Slots /\ Slot(head) \in Slots
  BY SlotType DEF TypeOK
<1>3. Size \in 0 .. Capacity /\ Size < Capacity
  BY CachedViewIsSafe
<1>4. Size' = Size + 1
  BY <1>3, DistanceFacts, ModulusIsLarge DEF TypeOK, Size
<1>5. /\ Distance(head_cached, head) \in Index
      /\ Distance(head_cached, tail) \in Index
      /\ Distance(head_cached, tail)' = Distance(head_cached, tail) + 1
  <2>1. /\ Distance(head_cached, head) \in Index
        /\ Distance(head_cached, tail) \in Index
    BY DistanceFacts DEF TypeOK
  <2>2. Distance(head_cached, tail) < Modulus - 1
    BY <2>1, ModulusIsLarge DEF ThereIsRoom, Index
  <2>3. Distance(head_cached, Succ(tail)) = Distance(head_cached, tail) + 1
    BY <2>2, DistanceFacts DEF TypeOK
  <2> QED  BY <2>1, <2>3
<1>6. Distance(head, tail_cached) \in Index
  BY DistanceFacts DEF TypeOK
<1>7. CachedIndicesLag'
  BY <1>3, <1>4, <1>5, <1>6, ModulusIsLarge
     DEF CachedIndicesLag, ThereIsRoom, Size, Index, Distance
<1>8. Slot(tail)' = IF Slot(tail) = Capacity - 1 THEN 0 ELSE Slot(tail) + 1
  BY SlotSucc DEF TypeOK
<1>9. SlotsFollowIndices'
  BY <1>2, <1>3, <1>4, <1>8, ModulusIsLarge DEF SlotsFollowIndices, Slots
<1>10. ThereIsRoom' /\ ThereIsAnElement' /\ ItemIsConstructed'
  BY DEF ThereIsRoom, ThereIsAnElement, ItemIsConstructed
<1>11. ASSUME NEW s \in Slots PROVE Occupied(s)' <=> Occupied(s)
  <2>1. Offset(s) \in 0 .. Capacity - 1 /\ Offset(s)' = Offset(s)
    BY <1>2, ModulusIsLarge DEF Offset, Slots
  <2>2. cpc = "advance" => Size > 0
    BY CachedViewIsSafe
  <2> QED  BY <1>3, <1>4, <2>1, <2>2 DEF Occupied
<1>12. SlotsAreOccupied'
  BY <1>11 DEF SlotsAreOccupied
<1> QED  BY <1>1, <1>7, <1>9, <1>10, <1>12

LEMMA PopInv == ASSUME IInv, Pop PROVE IInv'
<1> USE DEF IInv, Pop, producerVars
<1>1. TypeOK'
  BY DEF TypeOK
<1>2. Distance(head, tail_cached) \in Index
      /\ (Distance(head, tail_cached) = 0 <=> head = tail_cached)
  BY DistanceFacts DEF TypeOK
<1>3. ThereIsAnElement'
  BY <1>2 DEF ThereIsAnElement, Index
<1>4. CachedIndicesLag' /\ SlotsFollowIndices' /\ ThereIsRoom' /\ ItemIsConstructed'
  BY DEF CachedIndicesLag, SlotsFollowIndices, ThereIsRoom, ItemIsConstructed, Size
<1>5. SlotsAreOccupied'
  BY DEF SlotsAreOccupied, Occupied, Offset, Size
<1> QED  BY <1>1, <1>3, <1>4, <1>5

LEMMA ReloadTailInv == ASSUME IInv, ReloadTail PROVE IInv'
<1> USE DEF IInv, ReloadTail, producerVars
<1>1. TypeOK'
  BY DEF TypeOK
<1>2. Size \in Index /\ (Size = 0 <=> head = tail)
  BY DistanceFacts DEF TypeOK, Size
<1>3. CachedIndicesLag'
  BY <1>2 DEF CachedIndicesLag, Size, Index
<1>4. ThereIsAnElement'
  BY <1>2 DEF ThereIsAnElement, Size, Index
<1>5. SlotsFollowIndices' /\ ThereIsRoom' /\ ItemIsConstructed'
  BY DEF SlotsFollowIndices, ThereIsRoom, ItemIsConstructed, Size
<1>6. SlotsAreOccupied'
  BY DEF SlotsAreOccupied, Occupied, Offset, Size
<1> QED  BY <1>1, <1>3, <1>4, <1>5, <1>6

LEMMA MoveOutInv == ASSUME IInv, MoveOut PROVE IInv'
<1> USE DEF IInv, MoveOut, producerVars
<1>1. Slot(tail) \in Slots /\ Slot(head) \in Slots
  BY SlotType DEF TypeOK
<1>2. Size \in 0 .. Capacity /\ Size > 0
  BY CachedViewIsSafe
<1>3. Offset(Slot(head)) = 0
  BY <1>1 DEF Offset, Slots
<1>4. buffer[Slot(head)] # NoItem
  BY <1>1, <1>2, <1>3 DEF SlotsAreOccupied, Occupied
<1>5. TypeOK'
  BY <1>1, <1>4 DEF TypeOK
<1>6. CachedIndicesLag' /\ SlotsFollowIndices' /\ ThereIsRoom' /\ ThereIsAnElement'
  BY DEF CachedIndicesLag, SlotsFollowIndices, ThereIsRoom, ThereIsAnElement, Size
<1>7. ASSUME NEW s \in Slots PROVE (buffer'[s] # NoItem) <=> Occupied(s)'
  <2>1. CASE s = Slot(head)
    BY <1>1, <1>2, <1>3, <2>1 DEF TypeOK, Occupied, Offset, Size
  <2>2. CASE s # Slot(head)
    <3>1. Offset(s) # 0
      BY <1>1, <2>2, ModulusIsLarge DEF Offset, Slots
    <3>2. Occupied(s)' <=> Occupied(s)
      BY <3>1 DEF Occupied, Offset, Size
    <3> QED  BY <3>2, <2>2, <1>1 DEF SlotsAreOccupied, TypeOK
  <2> QED  BY <2>1, <2>2
<1>8. SlotsAreOccupied'
  BY <1>7 DEF SlotsAreOccupied
<1>9. ItemIsConstructed'
  <2>1. ppc = "publish" => Slot(tail) # Slot(head)
    BY <1>1, <1>2, CachedViewIsSafe, ModulusIsLarge DEF SlotsFollowIndices, Slots
  <2> QED  BY <2>1, <1>1 DEF ItemIsConstructed, TypeOK
<1> QED  BY <1>5, <1>6, <1>8, <1>9

LEMMA AdvanceInv == ASSUME IInv, Advance PROVE IInv'
<1> USE DEF IInv, Advance, producerVars
<1>1. TypeOK'
  BY DistanceFacts DEF TypeOK
<1>2. Slot(tail) \in Slots /\ Slot(head) \in Slots
  BY SlotType DEF TypeOK
<1>3. Size \in 0 .. Capacity /\ Size > 0
  BY CachedViewIsSafe
<1>4. Size' = Size - 1
  BY <1>3, DistanceFacts DEF TypeOK, Size
<1>5. /\ Distance(head_cached, head) \in Index
      /\ Distance(head_cached, tail) \in Index
      /\ Distance(head_cached, head) = Distance(head_cached, tail) - Size
  BY <1>3, DistanceFacts, DistanceSplits DEF TypeOK, CachedIndicesLag, Size, Index
<1>6. Distance(head_cached, head)' = Distance(head_cached, head) + 1
  <2>1. Distance(head_cached, head) < Modulus - 1
    BY <1>3, <1>5, ModulusIsLarge DEF CachedIndicesLag, Index
  <2>2. Distance(head_cached, Succ(head)) = Distance(head_cached, head) + 1
    BY <2>1, DistanceFacts DEF TypeOK
  <2> QED  BY <2>2
<1>7. Distance(head, tail_cached) \in Index
      /\ Distance(head, tail_cached)' = Distance(head, tail_cached) - 1
  <2>1. Distance(head, tail_cached) \in Index /\ head # tail_cached
    BY DistanceFacts DEF TypeOK, ThereIsAnElement, Index
  <2>2. Distance(Succ(head), tail_cached) = Distance(head, tail_cached) - 1
    BY <2>1, DistanceFacts DEF TypeOK
  <2> QED  BY <2>1, <2>2
<1>8. CachedIndicesLag'
  BY <1>3, <1>4, <1>5, <1>6, <1>7 DEF CachedIndicesLag, Size, Index
<1>9. Slot(head)' = IF Slot(head) = Capacity - 1 THEN 0 ELSE Slot(head) + 1
  BY SlotSucc DEF TypeOK
<1>10. SlotsFollowIndices'
  BY <1>2, <1>3, <1>4, <1>9, ModulusIsLarge DEF SlotsFollowIndices, Slots
<1>11. ThereIsRoom' /\ ThereIsAnElement' /\ ItemIsConstructed'
  BY DEF ThereIsRoom, ThereIsAnElement, ItemIsConstructed
<1>12. ASSUME NEW s \in Slots PROVE Occupied(s)' <=> Occupied(s)
  <2>1. Offset(s) \in 0 .. Capacity - 1
    BY <1>2, ModulusIsLarge DEF Offset, Slots
  <2>2. Offset(s)' = IF Offset(s) = 0 THEN Capacity - 1 ELSE Offset(s) - 1
    BY <1>2, <1>9, ModulusIsLarge DEF Offset, Slots
  <2>3. ppc = "publish" => Size < Capacity
    BY CachedViewIsSafe
  <2>4. Occupied(s) <=> \/ Offset(s) < Size /\ Offset(s) # 0
                        \/ Offset(s) = Size /\ ppc = "publish"
    BY DEF Occupied
  <2>5. Occupied(s)' <=> \/ Offset(s)' < Size'
                         \/ Offset(s)' = Size' /\ ppc = "publish"
    BY DEF Occupied
  <2>6. CASE Offset(s) = 0
    BY <1>3, <1>4, <2>2, <2>3, <2>4, <2>5, <2>6, ModulusIsLarge
  <2>7. CASE Offset(s) # 0
    BY <1>3, <1>4, <2>1, <2>2, <2>4, <2>5, <2>7, ModulusIsLarge
  <2> QED  BY <2>6, <2>7
<1>13. SlotsAreOccupied'
  BY <1>12 DEF SlotsAreOccupied
<1> QED  BY <1>1, <1>8, <1>10, <1>11, <1>13

LEMMA NextIInv == IInv /\ [Next]_vars => IInv'
<1> SUFFICES ASSUME IInv, [Next]_vars PROVE IInv'
  OBVIOUS
<1>1. ASSUME NEW v \in Values, Push(v) PROVE IInv'
  BY <1>1, PushInv
<1>2. CASE ReloadHead
  BY <1>2, ReloadHeadInv
<1>3. CASE Construct
  BY <1>3, ConstructInv
<1>4. CASE Publish
  BY <1>4, PublishInv
<1>5. CASE Pop
  BY <1>5, PopInv
<1>6. CASE ReloadTail
  BY <1>6, ReloadTailInv
<1>7. CASE MoveOut
  BY <1>7, MoveOutInv
<1>8. CASE Advance
  BY <1>8, AdvanceInv
<1>9. CASE UNCHANGED vars
  BY <1>9 DEF vars, IInv, TypeOK, CachedIndicesLag, SlotsFollowIndices,
     ThereIsRoom, ThereIsAnElement, SlotsAreOccupied, ItemIsConstructed,
     Occupied, Offset, Size
<1> QED  BY <1>1, <1>2, <1>3, <1>4, <1>5, <1>6, <1>7, <1>8, <1>9 DEF Next

LEMMA IInvSafe == IInv => SlotOwnership
<1> SUFFICES ASSUME IInv PROVE SlotOwnership
  OBVIOUS
<1> USE DEF IInv
<1>1. Slot(tail) \in Slots /\ Slot(head) \in Slots
  BY SlotType DEF TypeOK
<1>2. /\ Size \in 0 .. Capacity
      /\ ppc \in {"construct", "publish"} => Size < Capacity
      /\ cpc \in {"move", "advance"} => Size > 0
  BY CachedViewIsSafe
<1>3. Offset(Slot(head)) = 0
  BY <1>1 DEF Offset, Slots
<1>4. Size < Capacity => Offset(Slot(tail)) = Size
  BY <1>1, <1>2, ModulusIsLarge DEF SlotsFollowIndices, Offset, Slots
<1>5. ppc = "construct" => buffer[Slot(tail)] = NoItem
  BY <1>1, <1>2, <1>4 DEF SlotsAreOccupied, Occupied
<1>6. cpc = "move" => buffer[Slot(head)] # NoItem
  BY <1>1, <1>2, <1>3 DEF SlotsAreOccupied, Occupied
<1>7. ppc \in {"construct", "publish"} /\ cpc \in {"move", "advance"}
        => Slot(tail) # Slot(head)
  BY <1>2, <1>3, <1>4
<1> QED  BY <1>5, <1>6, <1>7 DEF SlotOwnership

(* Every reachable state of the ring is well typed, for every capacity that
   divides the range of the index word and every set of elements
   (SpscRingBuffer, ring_buffer.hpp:34-152). *)
THEOREM TypeCorrect == Spec => []TypeOK
<1>1. IInv => TypeOK
  BY DEF IInv
<1> QED  BY <1>1, InitIInv, NextIInv, PTL DEF Spec, SafeSpec

(* For every capacity the producer never overwrites an element that is still
   queued and the consumer never reads a slot that holds none (emplace and
   pop, ring_buffer.hpp:72-84 and 96-110). *)
THEOREM SlotsAreOwned == Spec => []SlotOwnership
  BY IInvSafe, InitIInv, NextIInv, PTL DEF Spec, SafeSpec

(* For every capacity the cached indices are only ever behind the other side,
   also when the index word wraps (head_cached_ and tail_cached_,
   ring_buffer.hpp:74-79 and 98-103). *)
THEOREM CachesLag == Spec => []CachedIndicesLag
<1>1. IInv => CachedIndicesLag
  BY DEF IInv
<1> QED  BY <1>1, InitIInv, NextIInv, PTL DEF Spec, SafeSpec

-----------------------------------------------------------------------------
(***************************************************************************)
(* The ring implements the safety part of BoundedFifo for every capacity   *)
(* and index width: each step of the two threads is a step of the queue or *)
(* leaves it alone.  A push takes effect when tail is stored, a pop when   *)
(* head is; in between the queue's contents do not change.                 *)
(***************************************************************************)
Element(k) == IF k = 1 /\ cpc = "advance" THEN out ELSE buffer[Slot(head + k - 1)]

(* The k-th element lies k - 1 slots after the slot of head. *)
LEMMA PlaceOfElement ==
  ASSUME IInv, NEW k \in 1 .. Capacity
  PROVE  /\ Slot(head + k - 1) \in Slots
         /\ Offset(Slot(head + k - 1)) = k - 1
<1>1. head \in Nat /\ k - 1 \in 0 .. Capacity /\ head + k - 1 = head + (k - 1)
  BY ModulusIsLarge DEF IInv, TypeOK, Index
<1>2. Slot(head) \in Slots
  BY SlotType DEF IInv, TypeOK
<1>3. Slot(head + (k - 1)) = IF Slot(head) + (k - 1) < Capacity
                               THEN Slot(head) + (k - 1)
                               ELSE Slot(head) + (k - 1) - Capacity
  BY <1>1, SlotPlus
<1> DEFINE s == Slot(head + (k - 1))
<1> HIDE DEF s
<1>4. s \in Slots /\ Offset(s) = k - 1
  BY <1>2, <1>3, ModulusIsLarge DEF s, Slots, Offset
<1> QED  BY <1>1, <1>4 DEF s

ElementsInPlace ==
  \A k \in 1 .. Capacity : /\ Slot(head + k - 1) \in Slots
                           /\ Offset(Slot(head + k - 1)) = k - 1

LEMMA AllElementsInPlace == IInv => ElementsInPlace
  BY PlaceOfElement DEF ElementsInPlace

LEMMA ElementType ==
  ASSUME IInv, NEW k \in 1 .. Size
  PROVE  Element(k) \in Values
<1>1. Size \in 0 .. Capacity /\ k \in 1 .. Capacity
  BY CachedViewIsSafe, ModulusIsLarge
<1>2. CASE k = 1 /\ cpc = "advance"
  BY <1>2 DEF IInv, TypeOK, Element
<1>3. CASE ~(k = 1 /\ cpc = "advance")
  <2> DEFINE s == Slot(head + k - 1)
  <2>1. s \in Slots /\ Offset(s) = k - 1
    BY <1>1, PlaceOfElement
  <2> HIDE DEF s
  <2>2. Occupied(s)
    BY <1>1, <1>3, <2>1 DEF Occupied
  <2>3. buffer[s] # NoItem
    BY <2>1, <2>2 DEF IInv, SlotsAreOccupied
  <2>4. buffer[s] \in Values
    BY <2>1, <2>3 DEF IInv, TypeOK
  <2> QED  BY <1>3, <2>4 DEF s, Element
<1> QED  BY <1>2, <1>3

ContentsAreElements == /\ Contents \in Seq(Values)
                       /\ Len(Contents) = Size
                       /\ \A k \in 1 .. Size : Contents[k] = Element(k)

LEMMA ContentsType == IInv => ContentsAreElements
<1> SUFFICES ASSUME IInv PROVE ContentsAreElements
  OBVIOUS
<1>1. Size \in Nat
  BY CachedViewIsSafe, ModulusIsLarge
<1>2. Contents = [k \in 1 .. Size |-> Element(k)]
  BY DEF Contents, Size, Element
<1>3. Contents \in [1 .. Size -> Values]
  BY <1>2, ElementType
<1>4. Contents \in Seq(Values)
  BY <1>1, <1>3, SeqDef
<1>5. Len(Contents) = Size
  BY <1>1, <1>3, <1>4, LenProperties
<1> QED  BY <1>2, <1>4, <1>5 DEF ContentsAreElements

(* A step that changes no element leaves the queue alone. *)
LEMMA ContentsKept ==
  ASSUME Size' = Size, \A k \in 1 .. Size : Element(k)' = Element(k)
  PROVE  Contents' = Contents
<1>1. Contents = [k \in 1 .. Size |-> Element(k)]
  BY DEF Contents, Size, Element
<1>2. Contents' = [k \in 1 .. Size' |-> Element(k)']
  BY DEF Contents, Size, Element
<1> QED  BY <1>1, <1>2

-----------------------------------------------------------------------------
(* Steps of the ring as steps of the queue. *)

LEMMA InitImplements == Init => Fifo!Init
<1> SUFFICES ASSUME Init PROVE Fifo!Init
  OBVIOUS
<1>1. IInv
  BY InitIInv
<1>2. Size = 0
  BY ModulusIsLarge DEF Init, Size, Distance
<1>3. Contents = <<>>
  BY <1>1, <1>2, ContentsType, EmptySeq DEF ContentsAreElements
<1> QED  BY <1>3 DEF Init, Fifo!Init

LEMMA PushImplements ==
  ASSUME IInv, NEW v \in Values, Push(v)
  PROVE  Fifo!Push(v)
<1>1. Contents' = Contents
  BY DEF Push, consumerVars, Contents
<1>2. item = NoItem
  BY DEF IInv, TypeOK, Push
<1> QED  BY <1>1, <1>2 DEF Push, consumerVars, Fifo!Push

LEMMA ReloadHeadImplements ==
  ASSUME IInv, ReloadHead
  PROVE  Fifo!Reject \/ UNCHANGED Fifo!fifoVars
<1>1. Contents' = Contents
  BY DEF ReloadHead, consumerVars, Contents
<1>2. CASE Distance(head, tail) >= Capacity
  <2>1. Len(Contents) = Capacity
    BY <1>2, ContentsType, CachedViewIsSafe, ModulusIsLarge
       DEF Size, ContentsAreElements
  <2>2. item # NoItem
    BY DEF IInv, TypeOK, ReloadHead
  <2> QED  BY <1>1, <1>2, <2>1, <2>2 DEF ReloadHead, consumerVars, Fifo!Reject
<1>3. CASE ~(Distance(head, tail) >= Capacity)
  BY <1>1, <1>3 DEF ReloadHead, consumerVars, Fifo!fifoVars
<1> QED  BY <1>2, <1>3

(* The slot being filled lies after the last element. *)
LEMMA ConstructImplements ==
  ASSUME IInv, Construct
  PROVE  UNCHANGED Fifo!fifoVars
<1>1. Size \in 0 .. Capacity /\ Size < Capacity
  BY CachedViewIsSafe DEF Construct
<1>2. Slot(tail) \in Slots /\ Slot(head) \in Slots
  BY SlotType DEF IInv, TypeOK
<1>3. Offset(Slot(tail)) = Size
  BY <1>1, <1>2, ModulusIsLarge DEF IInv, SlotsFollowIndices, Offset, Slots
<1>4. ASSUME NEW k \in 1 .. Size PROVE Element(k)' = Element(k)
  <2>1. k \in 1 .. Capacity /\ k - 1 # Size
    BY <1>1, ModulusIsLarge
  <2>2. Slot(head + k - 1) \in Slots /\ Offset(Slot(head + k - 1)) = k - 1
    BY <2>1, PlaceOfElement
  <2>3. Slot(head + k - 1) # Slot(tail)
    BY <1>3, <2>1, <2>2
  <2> QED  BY <2>2, <2>3 DEF IInv, TypeOK, Construct, consumerVars, Element
<1>5. Contents' = Contents
  BY <1>4, ContentsKept DEF Construct, consumerVars, Size
<1> QED  BY <1>5 DEF Construct, consumerVars, Fifo!fifoVars

LEMMA PublishImplements ==
  ASSUME IInv, IInv', Publish
  PROVE  Fifo!Accept
<1>1. Size \in 0 .. Capacity /\ Size < Capacity
  BY CachedViewIsSafe DEF Publish
<1>2. Size' = Size + 1
  <2>1. Size \in Index /\ Size < Modulus - 1
    BY <1>1, ModulusIsLarge, DistanceFacts DEF IInv, TypeOK, Size
  <2>2. Distance(head, Succ(tail)) = Size + 1
    BY <2>1, DistanceFacts DEF IInv, TypeOK, Size
  <2> QED  BY <2>2 DEF Publish, consumerVars, Size
<1>3. item \in Values /\ item # NoItem
  BY DEF IInv, TypeOK, Publish
<1>4. Element(Size + 1) = item
  <2>1. Size > 0 \/ cpc # "advance"
    BY CachedViewIsSafe
  <2>2. head \in Nat /\ Size \in 0 .. Capacity /\ head + (Size + 1) - 1 = head + Size
    BY <1>1, ModulusIsLarge DEF IInv, TypeOK, Index
  <2>3. Slot(head + Size) = Slot(tail)
    BY <2>2, SlotPlus DEF IInv, SlotsFollowIndices
  <2>4. ~(Size + 1 = 1 /\ cpc = "advance")
    BY <1>1, <2>1
  <2> QED  BY <2>2, <2>3, <2>4 DEF IInv, ItemIsConstructed, Publish, Element
<1>5. \A k \in 1 .. Size + 1 : Element(k)' = Element(k)
  BY DEF Publish, consumerVars, Element
<1>6. /\ Contents \in Seq(Values) /\ Len(Contents) = Size
      /\ \A k \in 1 .. Size : Contents[k] = Element(k)
  BY ContentsType DEF ContentsAreElements
<1>7. /\ Contents' \in Seq(Values) /\ Len(Contents') = Size + 1
      /\ \A k \in 1 .. Size + 1 : Contents'[k] = Element(k)
  <2>1. ContentsAreElements'
    BY ContentsType, PTL
  <2> QED  BY <1>2, <1>5, <2>1 DEF ContentsAreElements
<1>8. Contents' = Append(Contents, item)
  <2> DEFINE c == Contents
             a == Append(c, item)
  <2>1. /\ a \in Seq(Values) /\ Len(a) = Size + 1
        /\ \A k \in 1 .. Size : a[k] = c[k]
        /\ a[Size + 1] = item
    BY <1>1, <1>3, <1>6, AppendProperties
  <2> HIDE DEF a
  <2>2. \A k \in 1 .. Size + 1 : a[k] = Contents'[k]
    BY <1>1, <1>4, <1>6, <1>7, <2>1
  <2>3. a = Contents'
    BY <1>7, <2>1, <2>2, SeqEqual
  <2> QED  BY <2>3 DEF a
<1> QED  BY <1>1, <1>3, <1>6, <1>8 DEF Publish, consumerVars, Fifo!Accept

LEMMA PopImplements ==
  ASSUME IInv, Pop
  PROVE  Fifo!Pop
<1>1. Contents' = Contents
  BY DEF Pop, producerVars, Contents
<1>2. cpc = "idle" /\ cpc' \in {"reload", "move"}
  BY DEF Pop
<1> QED  BY <1>1, <1>2 DEF Pop, producerVars, Fifo!Pop

LEMMA ReloadTailImplements ==
  ASSUME IInv, ReloadTail
  PROVE  Fifo!Miss \/ UNCHANGED Fifo!fifoVars
<1>1. Contents' = Contents
  BY DEF ReloadTail, producerVars, Contents
<1>2. CASE head = tail
  <2>1. Size = 0
    BY <1>2, DistanceFacts DEF IInv, TypeOK, Size
  <2>2. Contents = <<>>
    BY <2>1, ContentsType, EmptySeq DEF ContentsAreElements
  <2>3. cpc = "reload" /\ cpc' = "idle" /\ popped' = NoItem
    BY <1>2 DEF ReloadTail
  <2> QED  BY <1>1, <2>2, <2>3 DEF ReloadTail, producerVars, Fifo!Miss
<1>3. CASE head # tail
  <2>1. cpc = "reload" /\ cpc' = "move" /\ popped' = popped
    BY <1>3 DEF ReloadTail
  <2> QED  BY <1>1, <2>1 DEF ReloadTail, producerVars, Fifo!fifoVars
<1> QED  BY <1>2, <1>3

(* The element moved out is still the first of the queue. *)
LEMMA MoveOutImplements ==
  ASSUME IInv, MoveOut
  PROVE  UNCHANGED Fifo!fifoVars
<1>1. Size \in 0 .. Capacity
  BY CachedViewIsSafe
<1>2. Slot(head) \in Slots /\ Offset(Slot(head)) = 0 /\ head \in Nat
  BY SlotType DEF IInv, TypeOK, Offset, Slots, Index
<1>3. ASSUME NEW k \in 1 .. Size PROVE Element(k)' = Element(k)
  <2>1. k \in 1 .. Capacity
    BY <1>1, ModulusIsLarge
  <2>2. CASE k = 1
    <3>1. head + k - 1 = head
      BY <1>2, <2>2
    <3> QED  BY <2>2, <3>1 DEF MoveOut, producerVars, Element
  <2>3. CASE k # 1
    <3>1. Slot(head + k - 1) \in Slots /\ Offset(Slot(head + k - 1)) = k - 1
      BY <2>1, PlaceOfElement
    <3>2. Slot(head + k - 1) # Slot(head)
      BY <1>2, <2>1, <2>3, <3>1
    <3> QED  BY <1>2, <2>3, <3>1, <3>2 DEF IInv, TypeOK, MoveOut, producerVars, Element
  <2> QED  BY <2>2, <2>3
<1>4. Contents' = Contents
  BY <1>3, ContentsKept DEF MoveOut, producerVars, Size
<1>5. cpc = "move" /\ cpc' = "advance"
  BY DEF MoveOut
<1> QED  BY <1>4, <1>5 DEF MoveOut, producerVars, Fifo!fifoVars

LEMMA AdvanceImplements ==
  ASSUME IInv, IInv', Advance
  PROVE  Fifo!Take
<1>1. Size \in 0 .. Capacity /\ Size > 0
  BY CachedViewIsSafe DEF Advance
<1>2. Size' = Size - 1
  <2>1. head # tail
    BY <1>1, DistanceFacts DEF IInv, TypeOK, Size
  <2>2. Distance(Succ(head), tail) = Size - 1
    BY <2>1, DistanceFacts DEF IInv, TypeOK, Size
  <2> QED  BY <2>2 DEF Advance, producerVars, Size
<1>3. ASSUME NEW k \in 1 .. Size - 1 PROVE Element(k)' = Element(k + 1)
  <2>1. k \in 1 .. Capacity /\ k + 1 \in 1 .. Capacity /\ k + 1 # 1
    BY <1>1, ModulusIsLarge
  <2>2. (Slot(head + k - 1) \in Slots /\ Offset(Slot(head + k - 1)) = k - 1)'
    <3>1. ElementsInPlace'
      BY AllElementsInPlace, PTL
    <3> QED  BY <2>1, <3>1 DEF ElementsInPlace
  <2>3. Offset(Slot(head + (k + 1) - 1)) = k /\ Slot(head + (k + 1) - 1) \in Slots
    BY <2>1, PlaceOfElement
  <2>4. Slot(head) \in Slots
        /\ Slot(Succ(head)) = IF Slot(head) = Capacity - 1 THEN 0 ELSE Slot(head) + 1
    BY SlotType, SlotSucc DEF IInv, TypeOK
  <2>5. head' = Succ(head)
    BY DEF Advance
  <2>6. Slot(head' + k - 1) = Slot(head + (k + 1) - 1)
    BY <2>1, <2>2, <2>3, <2>4, <2>5, ModulusIsLarge DEF Offset, Slots
  <2>7. buffer' = buffer /\ cpc' = "idle"
    BY DEF Advance
  <2> QED  BY <2>1, <2>6, <2>7 DEF Element
<1>4. /\ Contents \in Seq(Values) /\ Len(Contents) = Size
      /\ \A k \in 1 .. Size : Contents[k] = Element(k)
  BY ContentsType DEF ContentsAreElements
<1>5. /\ Contents' \in Seq(Values) /\ Len(Contents') = Size - 1
      /\ \A k \in 1 .. Size - 1 : Contents'[k] = Element(k + 1)
  <2>1. ContentsAreElements'
    BY ContentsType, PTL
  <2> QED  BY <1>2, <1>3, <2>1 DEF ContentsAreElements
<1>6. Contents # <<>>
  BY <1>1, <1>4
<1>7. Contents' = Tail(Contents)
  <2> DEFINE c == Contents
             t == Tail(c)
  <2>1. t \in Seq(Values) /\ Len(t) = Size - 1 /\ \A k \in 1 .. Size - 1 : t[k] = c[k + 1]
    BY <1>1, <1>4, <1>6, HeadTailProperties
  <2> HIDE DEF t
  <2>2. \A k \in 1 .. Size - 1 : t[k] = Contents'[k]
    BY <1>1, <1>4, <1>5, <2>1
  <2>3. t = Contents'
    BY <1>5, <2>1, <2>2, SeqEqual
  <2> QED  BY <2>3 DEF t
<1>8. Head(Contents) = out
  <2>1. Head(Contents) = Contents[1] /\ 1 \in 1 .. Size
    BY <1>1, <1>4, <1>6
  <2> QED  BY <1>4, <2>1 DEF Advance, Element
<1>9. cpc = "advance" /\ cpc' = "idle" /\ popped' = out
  BY DEF Advance
<1> QED  BY <1>6, <1>7, <1>8, <1>9 DEF Advance, producerVars, Fifo!Take

LEMMA NextImplements == IInv /\ IInv' /\ [Next]_vars => [Fifo!Next]_(Fifo!fifoVars)
<1> SUFFICES ASSUME IInv, IInv', [Next]_vars
             PROVE  Fifo!Next \/ UNCHANGED Fifo!fifoVars
  OBVIOUS
<1>1. CASE \E v \in Values : Push(v)
  BY <1>1, PushImplements DEF Fifo!Next
<1>2. CASE ReloadHead
  BY <1>2, ReloadHeadImplements DEF Fifo!Next
<1>3. CASE Construct
  BY <1>3, ConstructImplements
<1>4. CASE Publish
  BY <1>4, PublishImplements DEF Fifo!Next
<1>5. CASE Pop
  BY <1>5, PopImplements DEF Fifo!Next
<1>6. CASE ReloadTail
  BY <1>6, ReloadTailImplements DEF Fifo!Next
<1>7. CASE MoveOut
  BY <1>7, MoveOutImplements
<1>8. CASE Advance
  BY <1>8, AdvanceImplements DEF Fifo!Next
<1>9. CASE UNCHANGED vars
  BY <1>9 DEF vars, Fifo!fifoVars, Contents
<1> QED  BY <1>1, <1>2, <1>3, <1>4, <1>5, <1>6, <1>7, <1>8, <1>9 DEF Next

(* Whatever the interleaving, the capacity and the width of the index, the
   ring behaves as a bounded FIFO queue (emplace and pop, ring_buffer.hpp:72-110). *)
THEOREM RingIsAFifo == Spec => Fifo!SafeSpec
  BY InitImplements, InitIInv, NextIInv, NextImplements, PTL
     DEF Spec, SafeSpec, Fifo!SafeSpec
=============================================================================
