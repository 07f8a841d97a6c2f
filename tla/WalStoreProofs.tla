---------------------------- MODULE WalStoreProofs ----------------------------
(***************************************************************************)
(* Proofs about WalStore, for any capacities, retention and number of      *)
(* samples, crashes and refused writes: the log implements the journal of  *)
(* TelemetryJournal, young samples survive, and the ring in memory shows   *)
(* an unbroken run of them.                                                *)
(*                                                                         *)
(* Samples are numbered as they are recorded, and everything that holds    *)
(* samples holds them in that order.  Two sequences in that order are      *)
(* equal when they have the same elements, so that most of the proofs      *)
(* speak of sets of samples.                                               *)
(***************************************************************************)
EXTENDS WalStore, SequenceTheorems, WellFoundedInduction, TLAPS

-----------------------------------------------------------------------------
(* The inductive invariant. *)

Rising(s) == \A i, j \in DOMAIN s : i < j => s[i].id < s[j].id
Before(s, t) == \A x \in ToSet(s), y \in ToSet(t) : x.id < y.id
Times == (0 - Retention) .. MaxTime
InHand == IF in_hand = None THEN <<>> ELSE <<in_hand>>
Logged == ToSet(file) \cup ToSet(pending)
            \cup (IF reader = "pushed" THEN {in_hand} ELSE {})

(* What a prune that holds the lock has decided to keep. *)
Kept(time) ==
  LET all == NotOlderThan(file, time)
  IN  IF tmp.short THEN \E n \in 0 .. Len(all) - 1 : tmp.samples = SubSeq(all, 1, n)
                   ELSE tmp.samples = all
PruneInv ==
  locked => /\ tmp # None /\ pending = <<>>
            /\ tmp.short => damage < MaxFailures
            /\ \E time \in Times : time <= Cutoff /\ Kept(time)

(* Samples are numbered, and dated, in the order they are recorded. *)
RecordInv ==
  /\ \A i \in DOMAIN recorded : recorded[i].id = i
  /\ \A x, y \in ToSet(recorded) : x.id <= y.id => x.ts <= y.ts
  /\ \A x \in ToSet(recorded) : x.ts <= clock
  /\ in_hand # None => /\ in_hand.ts <= clock
                       /\ \A x \in ToSet(recorded) : x.ts <= in_hand.ts
  /\ reader \in {"due", "received"} => in_hand.id = Len(recorded) + 1
  /\ \A n \in gone : n <= Len(recorded)

OrderInv ==
  /\ Rising(file) /\ Rising(pending) /\ Before(file, pending)
  /\ Before(file, InHand) /\ Before(pending, InHand)
  /\ Logged \subseteq ToSet(recorded)

YoungInv ==
  \A x \in Samples : x.ts >= Cutoff =>
    (x \in Logged <=> x \in ToSet(recorded) /\ x.id \notin gone)

(* What the ring shows. *)
MemoryInv ==
  LET shown == Recent(Capacity)
  IN  IF known
      THEN /\ shown \in Seq(Samples) /\ Len(shown) = size /\ Rising(shown)
           /\ ToSet(shown) \subseteq ToSet(recorded)
           /\ \A x \in ToSet(recorded) :
                x.id \notin gone /\ shown # <<>> /\ x.id > shown[1].id => x \in ToSet(shown)
           /\ \A x \in ToSet(recorded) :
                x.id \notin gone /\ size < Capacity /\ x.ts >= Cutoff => x \in ToSet(shown)
      ELSE pending = <<>> /\ reader \in {"idle", "due"}

IInv == TypeOK /\ PruneInv /\ RecordInv /\ OrderInv /\ YoungInv /\ MemoryInv
-----------------------------------------------------------------------------
(* Sequences of samples. *)

LEMMA LeastOf ==
  ASSUME NEW S, S \subseteq Nat, S # {}
  PROVE  \E x \in S : \A y \in S : x <= y
<1>1. IsWellFoundedOn(OpToRel(<, Nat), Nat)
  BY NatLessThanWellFounded
<1>2. PICK x \in S : \A y \in S : ~(<<y, x>> \in OpToRel(<, Nat))
  BY <1>1, WFMin
<1>3. \A y \in S : ~(y < x)
  BY <1>2 DEF OpToRel
<1> QED  BY <1>3

LEMMA SeqIs ==
  ASSUME NEW S, NEW s \in Seq(S)
  PROVE  /\ Len(s) \in Nat /\ DOMAIN s = 1 .. Len(s)
         /\ \A i \in 1 .. Len(s) : s[i] \in S
         /\ ToSet(s) \subseteq S /\ \A x \in ToSet(s) : \E i \in 1 .. Len(s) : x = s[i]
         /\ \A i \in 1 .. Len(s) : s[i] \in ToSet(s)
         /\ ToSet(s) = {} <=> s = <<>>
<1>1. Len(s) \in Nat /\ DOMAIN s = 1 .. Len(s)
  BY LenProperties
<1>2. \A i \in 1 .. Len(s) : s[i] \in S
  BY ElementOfSeq
<1>3. s # <<>> => Len(s) \in Nat \ {0}
  BY EmptySeq
<1>4. ToSet(<<>>) = {}
  BY DEF ToSet
<1>5. s # <<>> => s[1] \in ToSet(s)
  BY <1>1, <1>3 DEF ToSet
<1> QED  BY <1>1, <1>2, <1>4, <1>5 DEF ToSet

LEMMA ConcatIs ==
  ASSUME NEW S, NEW s \in Seq(S), NEW t \in Seq(S)
  PROVE  s \o t \in Seq(S) /\ ToSet(s \o t) = ToSet(s) \cup ToSet(t)
<1>1. /\ s \o t \in Seq(S) /\ Len(s \o t) = Len(s) + Len(t)
      /\ \A i \in 1 .. Len(s) + Len(t) :
            (s \o t)[i] = IF i <= Len(s) THEN s[i] ELSE t[i - Len(s)]
  BY ConcatProperties
<1>2. /\ Len(s) \in Nat /\ Len(t) \in Nat /\ DOMAIN s = 1 .. Len(s) /\ DOMAIN t = 1 .. Len(t)
      /\ DOMAIN (s \o t) = 1 .. Len(s) + Len(t)
  BY <1>1, SeqIs
<1> DEFINE u == s \o t
<1>3. /\ \A i \in DOMAIN s : i \in DOMAIN u /\ u[i] = s[i]
      /\ \A i \in DOMAIN t : i + Len(s) \in DOMAIN u /\ u[i + Len(s)] = t[i]
      /\ \A i \in DOMAIN u : \/ i \in DOMAIN s /\ u[i] = s[i]
                             \/ i - Len(s) \in DOMAIN t /\ u[i] = t[i - Len(s)]
  BY <1>1, <1>2
<1>4. ToSet(u) \subseteq ToSet(s) \cup ToSet(t)
  <2> HIDE DEF u
  <2> QED  BY <1>3 DEF ToSet
<1>5. ToSet(s) \subseteq ToSet(u) /\ ToSet(t) \subseteq ToSet(u)
  <2> HIDE DEF u
  <2> QED  BY <1>3 DEF ToSet
<1> QED  BY <1>1, <1>4, <1>5

LEMMA ConcatRises ==
  ASSUME NEW s \in Seq(Samples), NEW t \in Seq(Samples), Rising(s), Rising(t), Before(s, t)
  PROVE  Rising(s \o t)
<1>1. /\ Len(s \o t) = Len(s) + Len(t)
      /\ \A i \in 1 .. Len(s) + Len(t) :
            (s \o t)[i] = IF i <= Len(s) THEN s[i] ELSE t[i - Len(s)]
  BY ConcatProperties
<1>2. /\ Len(s) \in Nat /\ Len(t) \in Nat /\ DOMAIN s = 1 .. Len(s) /\ DOMAIN t = 1 .. Len(t)
      /\ DOMAIN (s \o t) = 1 .. Len(s) + Len(t)
      /\ \A i \in DOMAIN s : s[i] \in ToSet(s) /\ \A j \in DOMAIN t : t[j] \in ToSet(t)
  <2>1. s \o t \in Seq(Samples)
    BY ConcatIs
  <2> QED  BY <1>1, <2>1, SeqIs DEF ToSet
<1> SUFFICES ASSUME NEW i \in 1 .. Len(s) + Len(t), NEW j \in 1 .. Len(s) + Len(t), i < j
             PROVE  (s \o t)[i].id < (s \o t)[j].id
  BY <1>2 DEF Rising
<1>3. CASE j <= Len(s)
  <2>1. i \in DOMAIN s /\ j \in DOMAIN s /\ (s \o t)[i] = s[i] /\ (s \o t)[j] = s[j]
    BY <1>1, <1>2, <1>3
  <2> QED  BY <2>1 DEF Rising
<1>4. CASE i <= Len(s) /\ j > Len(s)
  <2>1. i \in DOMAIN s /\ j - Len(s) \in DOMAIN t
        /\ (s \o t)[i] = s[i] /\ (s \o t)[j] = t[j - Len(s)]
    BY <1>1, <1>2, <1>4
  <2>2. s[i] \in ToSet(s) /\ t[j - Len(s)] \in ToSet(t)
    BY <2>1 DEF ToSet
  <2> QED  BY <2>1, <2>2 DEF Before
<1>5. CASE i > Len(s)
  <2>1. i - Len(s) \in DOMAIN t /\ j - Len(s) \in DOMAIN t /\ i - Len(s) < j - Len(s)
        /\ (s \o t)[i] = t[i - Len(s)] /\ (s \o t)[j] = t[j - Len(s)]
    BY <1>1, <1>2, <1>5
  <2> QED  BY <2>1 DEF Rising
<1> QED  BY <1>2, <1>3, <1>4, <1>5

(* What is in the order of the numbers is known by its elements. *)
LEMMA SameElements ==
  ASSUME NEW s \in Seq(Samples), NEW t \in Seq(Samples), Rising(s), Rising(t),
         ToSet(s) = ToSet(t)
  PROVE  s = t
<1>1. /\ Len(s) \in Nat /\ DOMAIN s = 1 .. Len(s) /\ Len(t) \in Nat /\ DOMAIN t = 1 .. Len(t)
      /\ \A i \in DOMAIN s : s[i].id \in Nat /\ s[i] \in ToSet(t)
      /\ \A i \in DOMAIN t : t[i].id \in Nat /\ t[i] \in ToSet(s)
  <2>1. /\ Len(s) \in Nat /\ DOMAIN s = 1 .. Len(s)
        /\ \A i \in DOMAIN s : s[i] \in Samples /\ s[i] \in ToSet(s)
    BY SeqIs
  <2>2. /\ Len(t) \in Nat /\ DOMAIN t = 1 .. Len(t)
        /\ \A i \in DOMAIN t : t[i] \in Samples /\ t[i] \in ToSet(t)
    BY SeqIs
  <2>3. \A x \in Samples : x.id \in Nat
    BY DEF Samples
  <2> QED  BY <2>1, <2>2, <2>3
<1>2. /\ \A i \in DOMAIN s : \E j \in DOMAIN t : s[i] = t[j]
      /\ \A i \in DOMAIN t : \E j \in DOMAIN s : t[i] = s[j]
  BY <1>1 DEF ToSet
<1> DEFINE D == {i \in (DOMAIN s) \cap (DOMAIN t) : s[i] # t[i]}
<1>3. D = {}
  <2> SUFFICES ASSUME D # {} PROVE FALSE
    OBVIOUS
  <2>1. D \subseteq Nat
    BY <1>1
  <2>2. PICK i \in D : \A j \in D : i <= j
    <3> HIDE DEF D
    <3> QED  BY <2>1, LeastOf
  <2>3. i \in DOMAIN s /\ i \in DOMAIN t /\ s[i] # t[i]
    OBVIOUS
  <2>4. \A j \in (DOMAIN s) \cap (DOMAIN t) : j < i => s[j] = t[j]
    BY <1>1, <2>2
  <2> HIDE DEF D
  <2>5. PICK j \in DOMAIN t : s[i] = t[j]
    BY <1>2, <2>3
  <2>6. PICK k \in DOMAIN s : t[i] = s[k]
    BY <1>2, <2>3
  <2>7. ~(j < i) /\ ~(k < i)
    <3>1. j < i => j \in DOMAIN s /\ s[j] = s[i] /\ s[j].id < s[i].id
      BY <1>1, <2>3, <2>4, <2>5 DEF Rising
    <3>2. k < i => k \in DOMAIN t /\ t[k] = t[i] /\ t[k].id < t[i].id
      BY <1>1, <2>3, <2>4, <2>6 DEF Rising
    <3> QED  BY <1>1, <2>3, <3>1, <3>2
  <2>8. i < j /\ i < k
    BY <1>1, <2>3, <2>5, <2>6, <2>7
  <2>9. t[i].id < s[i].id /\ s[i].id < t[i].id
    BY <2>3, <2>5, <2>6, <2>8 DEF Rising
  <2> QED  BY <1>1, <2>3, <2>9
<1>4. \A i \in (DOMAIN s) \cap (DOMAIN t) : s[i] = t[i]
  BY <1>3
<1>5. ~(Len(s) < Len(t))
  <2> SUFFICES ASSUME Len(s) < Len(t) PROVE FALSE
    OBVIOUS
  <2>0. Len(s) + 1 \in DOMAIN t
    BY <1>1
  <2>1. PICK j \in DOMAIN s : t[Len(s) + 1] = s[j]
    BY <1>2, <2>0
  <2>2. j \in DOMAIN t /\ Len(s) + 1 \in DOMAIN t /\ j < Len(s) + 1 /\ t[j] = s[j]
    BY <1>1, <1>4, <2>1
  <2>3. t[j].id < t[Len(s) + 1].id
    BY <2>2 DEF Rising
  <2> QED  BY <1>1, <2>1, <2>2, <2>3
<1>6. ~(Len(t) < Len(s))
  <2> SUFFICES ASSUME Len(t) < Len(s) PROVE FALSE
    OBVIOUS
  <2>0. Len(t) + 1 \in DOMAIN s
    BY <1>1
  <2>1. PICK j \in DOMAIN t : s[Len(t) + 1] = t[j]
    BY <1>2, <2>0
  <2>2. j \in DOMAIN s /\ Len(t) + 1 \in DOMAIN s /\ j < Len(t) + 1 /\ t[j] = s[j]
    BY <1>1, <1>4, <2>1
  <2>3. s[j].id < s[Len(t) + 1].id
    BY <2>2 DEF Rising
  <2> QED  BY <1>1, <2>1, <2>2, <2>3
<1>7. Len(s) = Len(t)
  <2>1. Len(s) \in Nat /\ Len(t) \in Nat
    BY <1>1
  <2> QED  BY <1>5, <1>6, <2>1
<1> QED  BY <1>1, <1>4, <1>7, SeqEqual

(* The first elements of a sequence, and the rest. *)
LEMMA PrefixIs ==
  ASSUME NEW S, NEW s \in Seq(S), NEW n \in 0 .. Len(s)
  PROVE  /\ SubSeq(s, 1, n) \in Seq(S) /\ SubSeq(s, n + 1, Len(s)) \in Seq(S)
         /\ Len(SubSeq(s, 1, n)) = n
         /\ \A i \in 1 .. n : SubSeq(s, 1, n)[i] = s[i]
         /\ ToSet(SubSeq(s, 1, n)) = {s[i] : i \in 1 .. n}
         /\ ToSet(SubSeq(s, n + 1, Len(s))) = {s[i] : i \in n + 1 .. Len(s)}
         /\ ToSet(SubSeq(s, 1, n)) \cup ToSet(SubSeq(s, n + 1, Len(s))) = ToSet(s)
<1>1. Len(s) \in Nat /\ \A i \in 1 .. Len(s) : s[i] \in S
  BY SeqIs
<1> DEFINE a == SubSeq(s, 1, n)
           b == SubSeq(s, n + 1, Len(s))
<1>2. a \in Seq(S) /\ Len(a) = n /\ \A i \in 1 .. n : a[i] = s[i]
  BY <1>1, SubSeqProperties
<1>3. b \in Seq(S) /\ Len(b) = Len(s) - n /\ \A i \in 1 .. Len(s) - n : b[i] = s[n + i]
  BY <1>1, SubSeqProperties
<1>4. DOMAIN a = 1 .. n /\ DOMAIN b = 1 .. Len(s) - n /\ DOMAIN s = 1 .. Len(s)
  BY <1>2, <1>3, SeqIs
<1> HIDE DEF a, b
<1>5. ToSet(a) = {s[i] : i \in 1 .. n}
  BY <1>2, <1>4 DEF ToSet
<1>6. ToSet(b) = {s[i] : i \in n + 1 .. Len(s)}
  <2>1. \A i \in 1 .. Len(s) - n : n + i \in n + 1 .. Len(s) /\ b[i] = s[n + i]
    BY <1>1, <1>3
  <2>2. \A i \in n + 1 .. Len(s) : i - n \in 1 .. Len(s) - n /\ b[i - n] = s[i]
    BY <1>1, <1>3
  <2> QED  BY <1>4, <2>1, <2>2 DEF ToSet
<1>7. 1 .. Len(s) = (1 .. n) \cup (n + 1 .. Len(s))
  BY <1>1
<1> QED  BY <1>2, <1>3, <1>4, <1>5, <1>6, <1>7 DEF a, b, ToSet

LEMMA PrefixRises ==
  ASSUME NEW s \in Seq(Samples), NEW n \in 0 .. Len(s), Rising(s)
  PROVE  /\ Rising(SubSeq(s, 1, n))
         /\ Before(SubSeq(s, 1, n), SubSeq(s, n + 1, Len(s)))
<1>1. Len(s) \in Nat /\ DOMAIN s = 1 .. Len(s)
  BY SeqIs
<1> DEFINE a == SubSeq(s, 1, n)
           b == SubSeq(s, n + 1, Len(s))
<1>2. a \in Seq(Samples) /\ Len(a) = n /\ \A i \in 1 .. n : a[i] = s[i]
  BY PrefixIs
<1>3. DOMAIN a = 1 .. n
  BY <1>2, SeqIs
<1>4. ToSet(a) = {s[i] : i \in 1 .. n} /\ ToSet(b) = {s[i] : i \in n + 1 .. Len(s)}
  BY PrefixIs
<1> HIDE DEF a, b
<1>5. Rising(a)
  BY <1>1, <1>2, <1>3 DEF Rising
<1>6. Before(a, b)
  BY <1>1, <1>4 DEF Rising, Before
<1> QED  BY <1>5, <1>6 DEF a, b
-----------------------------------------------------------------------------
(* The elements of a sequence that are in a set. *)

Copies(s, wanted, n, g) ==
  g = [i \in 0 .. n |-> IF i = 0 THEN <<>>
                        ELSE IF s[i] \in wanted THEN Append(g[i - 1], s[i])
                                                ELSE g[i - 1]]

LEMMA OnlyIs ==
  \A s, wanted : Only(s, wanted) = (CHOOSE g : Copies(s, wanted, Len(s), g))[Len(s)]
BY DEF Only, Copies

LEMMA CopiesExist ==
  ASSUME NEW s, NEW wanted, NEW len \in Nat
  PROVE  Copies(s, wanted, len, CHOOSE g : Copies(s, wanted, len, g))
<1> DEFINE D == {n \in Nat : ~ \E g : Copies(s, wanted, n, g)}
<1>1. D = {}
  <2> SUFFICES ASSUME D # {} PROVE FALSE
    OBVIOUS
  <2>1. PICK n \in D : \A m \in D : n <= m
    <3>1. D \subseteq Nat
      OBVIOUS
    <3> HIDE DEF D
    <3> QED  BY <3>1, LeastOf
  <2>2. n \in Nat /\ ~ \E g : Copies(s, wanted, n, g)
    OBVIOUS
  <2>3. \A m \in Nat : m < n => \E g : Copies(s, wanted, m, g)
    BY <2>1, <2>2
  <2> HIDE DEF D
  <2>4. CASE n = 0
    <3> DEFINE g == [i \in 0 .. n |-> <<>>]
    <3>1. g = [i \in 0 .. n |-> IF i = 0 THEN <<>>
                                ELSE IF s[i] \in wanted THEN Append(g[i - 1], s[i])
                                                        ELSE g[i - 1]]
      BY <2>4
    <3> HIDE DEF g
    <3> QED  BY <2>2, <3>1 DEF Copies
  <2>5. CASE n # 0
    <3>1. n - 1 \in Nat /\ n - 1 < n
      BY <2>2, <2>5
    <3>2. PICK h : Copies(s, wanted, n - 1, h)
      BY <2>3, <3>1
    <3> DEFINE g == [i \in 0 .. n |-> IF i < n THEN h[i]
                                      ELSE IF s[n] \in wanted THEN Append(h[n - 1], s[n])
                                                              ELSE h[n - 1]]
    <3>3. \A i \in 0 .. n - 1 : h[i] = IF i = 0 THEN <<>>
                                       ELSE IF s[i] \in wanted THEN Append(h[i - 1], s[i])
                                                               ELSE h[i - 1]
      BY <3>2 DEF Copies
    <3>4. ASSUME NEW i \in 0 .. n
          PROVE  g[i] = IF i = 0 THEN <<>>
                        ELSE IF s[i] \in wanted THEN Append(g[i - 1], s[i]) ELSE g[i - 1]
      <4>1. i # 0 => i - 1 \in 0 .. n /\ i - 1 < n /\ g[i - 1] = h[i - 1]
        BY <2>2
      <4>2. CASE i < n
        <5>1. i \in 0 .. n - 1 /\ g[i] = h[i]
          BY <2>2, <4>2
        <5> HIDE DEF g
        <5> QED  BY <3>3, <4>1, <5>1
      <4>3. CASE i = n
        <5>1. g[i] = IF s[i] \in wanted THEN Append(h[i - 1], s[i]) ELSE h[i - 1]
          BY <2>2, <4>3
        <5> HIDE DEF g
        <5> QED  BY <2>5, <4>1, <4>3, <5>1
      <4> QED  BY <2>2, <4>2, <4>3
    <3>5. g = [i \in 0 .. n |-> IF i = 0 THEN <<>>
                                ELSE IF s[i] \in wanted THEN Append(g[i - 1], s[i])
                                                        ELSE g[i - 1]]
      <4>1. \A i \in 0 .. n :
               g[i] = IF i = 0 THEN <<>>
                      ELSE IF s[i] \in wanted THEN Append(g[i - 1], s[i]) ELSE g[i - 1]
        BY <3>4
      <4>2. g = [i \in 0 .. n |-> g[i]]
        OBVIOUS
      <4> HIDE DEF g
      <4> QED  BY <4>1, <4>2
    <3> HIDE DEF g
    <3> QED  BY <2>2, <3>5 DEF Copies
  <2> QED  BY <2>4, <2>5
<1>2. \E g : Copies(s, wanted, len, g)
  BY <1>1
<1> QED  BY <1>2

LEMMA OnlyHas ==
  ASSUME NEW s \in Seq(Samples), NEW wanted
  PROVE  /\ Only(s, wanted) \in Seq(Samples)
         /\ ToSet(Only(s, wanted)) = ToSet(s) \cap wanted
         /\ Rising(s) => Rising(Only(s, wanted))
<1> DEFINE g == CHOOSE f : Copies(s, wanted, Len(s), f)
           S(i) == {s[j] : j \in 1 .. i} \cap wanted
           Good(i) == /\ g[i] \in Seq(Samples) /\ ToSet(g[i]) = S(i)
                      /\ Rising(s) => Rising(g[i])
           D == {i \in 0 .. Len(s) : ~Good(i)}
<1>1. /\ Len(s) \in Nat /\ DOMAIN s = 1 .. Len(s) /\ \A i \in 1 .. Len(s) : s[i] \in Samples
      /\ ToSet(s) = {s[j] : j \in 1 .. Len(s)}
  BY SeqIs DEF ToSet
<1>2. Only(s, wanted) = g[Len(s)]
  BY OnlyIs
<1>3. Copies(s, wanted, Len(s), g)
  BY <1>1, CopiesExist
<1> HIDE DEF g
<1>4. /\ g[0] = <<>>
      /\ \A i \in 1 .. Len(s) : g[i] = IF s[i] \in wanted THEN Append(g[i - 1], s[i])
                                                          ELSE g[i - 1]
  <2>1. \A i \in 0 .. Len(s) : g[i] = IF i = 0 THEN <<>>
                                      ELSE IF s[i] \in wanted THEN Append(g[i - 1], s[i])
                                                              ELSE g[i - 1]
    BY <1>3 DEF Copies
  <2>2. 0 \in 0 .. Len(s) /\ \A i \in 1 .. Len(s) : i \in 0 .. Len(s) /\ i # 0
    BY <1>1
  <2> QED  BY <2>1, <2>2
<1>5. D = {}
  <2> SUFFICES ASSUME D # {} PROVE FALSE
    OBVIOUS
  <2>1. PICK i \in D : \A j \in D : i <= j
    <3>1. D \subseteq Nat
      BY <1>1
    <3> HIDE DEF D
    <3> QED  BY <3>1, LeastOf
  <2>2. i \in 0 .. Len(s) /\ ~Good(i)
    OBVIOUS
  <2>3. \A j \in 0 .. Len(s) : j < i => Good(j)
    <3> HIDE DEF Good
    <3> QED  BY <1>1, <2>1
  <2> HIDE DEF D
  <2>4. CASE i = 0
    <3>1. S(0) = {} /\ ToSet(<<>>) = {} /\ <<>> \in Seq(Samples) /\ Rising(<<>>)
      BY DEF ToSet, Rising
    <3> QED  BY <1>4, <2>2, <2>4, <3>1
  <2>5. CASE i # 0
    <3>1. i \in 1 .. Len(s) /\ i - 1 \in 0 .. Len(s) /\ i - 1 < i
      BY <1>1, <2>2, <2>5
    <3>2. Good(i - 1)
      BY <2>3, <3>1
    <3>3. S(i) = S(i - 1) \cup ({s[i]} \cap wanted)
      <4>1. 1 .. i = (1 .. i - 1) \cup {i}
        BY <3>1
      <4> QED  BY <4>1
    <3>4. Rising(s) => \A x \in S(i - 1) : x.id < s[i].id
      BY <1>1, <3>1 DEF Rising
    <3> HIDE DEF S
    <3>5. CASE s[i] \in wanted
      <4> DEFINE b == g[i - 1]
                 one == <<s[i]>>
      <4>1. g[i] = b \o one /\ one \in Seq(Samples) /\ ToSet(one) = {s[i]} /\ Rising(one)
        <5>1. Append(b, s[i]) = b \o one
          BY <1>1, <3>1, <3>2, AppendIsConcat
        <5>2. one \in Seq(Samples) /\ DOMAIN one = {1} /\ one[1] = s[i]
          BY <1>1, <3>1
        <5>3. ToSet(one) = {s[i]} /\ Rising(one)
          BY <5>2 DEF ToSet, Rising
        <5> QED  BY <1>4, <3>1, <3>5, <5>1, <5>2, <5>3
      <4>2. b \in Seq(Samples) /\ ToSet(b) = S(i - 1) /\ (Rising(s) => Rising(b))
        BY <3>2
      <4> HIDE DEF b, one
      <4>3. g[i] \in Seq(Samples) /\ ToSet(g[i]) = S(i)
        BY <3>3, <3>5, <4>1, <4>2, ConcatIs
      <4>4. Rising(s) => Rising(g[i])
        <5>1. Rising(s) => Before(b, one)
          BY <3>4, <4>1, <4>2 DEF Before
        <5> QED  BY <4>1, <4>2, <5>1, ConcatRises
      <4> QED  BY <2>2, <4>3, <4>4
    <3>6. CASE s[i] \notin wanted
      <4>1. g[i] = g[i - 1] /\ S(i) = S(i - 1)
        BY <1>4, <3>1, <3>3, <3>6
      <4> QED  BY <2>2, <3>2, <4>1
    <3> QED  BY <3>5, <3>6
  <2> QED  BY <2>4, <2>5
<1>6. Good(Len(s))
  <2> HIDE DEF Good
  <2> QED  BY <1>1, <1>5
<1> QED  BY <1>1, <1>2, <1>6
-----------------------------------------------------------------------------
(* The ring. *)

LEMMA DivMod ==
  ASSUME NEW c \in Nat \ {0}, NEW i \in Nat
  PROVE  /\ i = c * (i \div c) + (i % c)
         /\ i \div c \in Nat /\ i % c \in 0 .. c - 1
OBVIOUS

(* Numbers that far apart, with the same remainder, are equal. *)
LEMMA RemainderIs ==
  ASSUME NEW c \in Nat \ {0}, NEW p \in Int, NEW q \in Int, NEW a \in Int, NEW b \in Int,
         c * p + a = c * q + b, a - b < c, b - a < c
  PROVE  a = b
<1>1. c * (p - q) = b - a
  OBVIOUS
<1>2. p - q < 1
  <2> SUFFICES ASSUME p - q >= 1 PROVE FALSE
    OBVIOUS
  <2>1. c * (p - q) >= c
    OBVIOUS
  <2> QED  BY <1>1, <2>1
<1>3. q - p < 1
  <2> SUFFICES ASSUME q - p >= 1 PROVE FALSE
    OBVIOUS
  <2>1. c * (q - p) >= c /\ c * (q - p) = a - b
    BY <1>1
  <2> QED  BY <2>1
<1> QED  BY <1>1, <1>2, <1>3

LEMMA ModIs ==
  ASSUME NEW c \in Nat \ {0}, NEW q \in Nat, NEW r \in 0 .. c - 1
  PROVE  (c * q + r) % c = r
<1> DEFINE i == c * q + r
           p == i \div c
           m == i % c
<1>1. i \in Nat
  OBVIOUS
<1>2. i = c * p + m /\ p \in Nat /\ m \in 0 .. c - 1
  BY <1>1, DivMod
<1>3. c * q + r = c * p + m
  BY <1>2
<1> HIDE DEF p, m
<1>4. r = m
  BY <1>2, <1>3, RemainderIs
<1> QED  BY <1>4 DEF m

(* One turn of the ring at most. *)
LEMMA Turn ==
  ASSUME NEW a \in 0 .. 2 * Capacity - 1
  PROVE  a % Capacity = IF a < Capacity THEN a ELSE a - Capacity
<1>1. Capacity \in Nat \ {0}
  BY WalAssumption
<1>2. CASE a < Capacity
  <2>1. a = Capacity * 0 + a /\ a \in 0 .. Capacity - 1
    BY <1>1, <1>2
  <2>2. (Capacity * 0 + a) % Capacity = a
    BY <1>1, <2>1, ModIs
  <2> QED  BY <1>2, <2>1, <2>2
<1>3. CASE ~(a < Capacity)
  <2> DEFINE b == a - Capacity
  <2>1. a = Capacity * 1 + b /\ b \in 0 .. Capacity - 1
    BY <1>1, <1>3
  <2> HIDE DEF b
  <2>2. (Capacity * 1 + b) % Capacity = b
    BY <1>1, <2>1, ModIs
  <2> QED  BY <1>3, <2>1, <2>2 DEF b
<1> QED  BY <1>2, <1>3

LEMMA MinIs ==
  ASSUME NEW a \in Nat, NEW b \in Nat
  PROVE  Min({a, b}) = IF a <= b THEN a ELSE b
BY DEF Min

LEMMA MaxIs ==
  ASSUME NEW S, S \subseteq Int, NEW m \in S, \A x \in S : x <= m
  PROVE  Max(S) = m
<1>1. \A x \in S : m >= x
  OBVIOUS
<1>2. Max(S) \in S /\ \A x \in S : Max(S) >= x
  BY <1>1 DEF Max
<1>3. Max(S) \in Int /\ m \in Int /\ Max(S) >= m /\ Max(S) <= m
  BY <1>2
<1> QED  BY <1>3

LEMMA GreatestOf ==
  ASSUME NEW n \in Nat, NEW S, S \subseteq 0 .. n, S # {}
  PROVE  \E m \in S : \A x \in S : x <= m
<1> DEFINE T == {n - x : x \in S}
<1>1. \A x \in S : x \in Nat /\ x <= n /\ n - x \in Nat
  OBVIOUS
<1>2. T \subseteq Nat /\ T # {}
  BY <1>1
<1>3. PICK t \in T : \A y \in T : t <= y
  <2> HIDE DEF T
  <2> QED  BY <1>2, LeastOf
<1>4. PICK m \in S : t = n - m
  OBVIOUS
<1>5. \A x \in S : n - m <= n - x
  BY <1>3, <1>4
<1> HIDE DEF T
<1> QED  BY <1>1, <1>4, <1>5

LEMMA RecentIs ==
  size \in 0 .. Capacity =>
    Recent(Capacity) =
      [i \in 1 .. size |-> data[(write_index + Capacity - size + i - 1) % Capacity]]
<1> SUFFICES ASSUME size \in 0 .. Capacity
             PROVE  Recent(Capacity) =
                      [i \in 1 .. size |->
                         data[(write_index + Capacity - size + i - 1) % Capacity]]
  OBVIOUS
<1>1. Min({Capacity, size}) = size
  BY WalAssumption, MinIs
<1> QED  BY <1>1 DEF Recent

LEMMA RecentPrimed ==
  size' \in 0 .. Capacity =>
    Recent(Capacity)' =
      [i \in 1 .. size' |-> data'[(write_index' + Capacity - size' + i - 1) % Capacity]]
<1> SUFFICES ASSUME size' \in 0 .. Capacity
             PROVE  Recent(Capacity)' =
                      [i \in 1 .. size' |->
                         data'[(write_index' + Capacity - size' + i - 1) % Capacity]]
  OBVIOUS
<1>1. Min({Capacity, size'}) = size'
  BY WalAssumption, MinIs
<1> QED  BY <1>1 DEF Recent

(* A push shows one more sample, or shows it in place of the oldest one. *)
LEMMA PushShows ==
  ASSUME size \in 0 .. Capacity, write_index \in 0 .. Capacity - 1, NEW x,
         data \in [0 .. Capacity - 1 -> Samples \cup {None}],
         data' = [data EXCEPT ![write_index] = x],
         write_index' = (write_index + 1) % Capacity, size' = Min({size + 1, Capacity})
  PROVE  /\ write_index' \in 0 .. Capacity - 1 /\ size' \in 1 .. Capacity
         /\ size' = IF size < Capacity THEN size + 1 ELSE size
         /\ Recent(Capacity)' =
              [i \in 1 .. size' |-> IF i = size' THEN x
                                    ELSE Recent(Capacity)[i + (size + 1 - size')]]
<1>1. Capacity \in Nat \ {0}
  BY WalAssumption
<1>2. size' = IF size < Capacity THEN size + 1 ELSE size
  BY <1>1, MinIs
<1>3. write_index' = IF write_index + 1 < Capacity THEN write_index + 1 ELSE 0
  <2> DEFINE a == write_index + 1
  <2>1. a \in 0 .. 2 * Capacity - 1
    BY <1>1
  <2> HIDE DEF a
  <2>2. a % Capacity = IF a < Capacity THEN a ELSE a - Capacity
    BY <2>1, Turn
  <2>3. write_index' = a % Capacity
    BY DEF a
  <2> QED  BY <1>1, <2>2, <2>3 DEF a
<1>4. write_index' \in 0 .. Capacity - 1 /\ size' \in 1 .. Capacity
  BY <1>1, <1>2, <1>3
<1>5. Recent(Capacity)' =
        [i \in 1 .. size' |-> data'[(write_index' + Capacity - size' + i - 1) % Capacity]]
  <2>1. size' \in 0 .. Capacity
    BY <1>1, <1>4
  <2> QED  BY <2>1, RecentPrimed
<1>6. ASSUME NEW i \in 1 .. size'
      PROVE  data'[(write_index' + Capacity - size' + i - 1) % Capacity]
               = IF i = size' THEN x ELSE Recent(Capacity)[i + (size + 1 - size')]
  <2> DEFINE a == write_index' + Capacity - size' + i - 1
  <2>1. a \in 0 .. 2 * Capacity - 1
    BY <1>1, <1>4
  <2>2. a % Capacity = IF a < Capacity THEN a ELSE a - Capacity
    BY <2>1, Turn
  <2>3. CASE i = size'
    <3>1. a % Capacity = write_index
      <4>1. a = write_index' + Capacity - 1
        BY <1>1, <1>4, <2>3
      <4> HIDE DEF a
      <4> QED  BY <1>1, <1>3, <2>2, <4>1
    <3> QED  BY <2>3, <3>1
  <2>4. CASE i # size'
    <3> DEFINE j == i + (size + 1 - size')
               b == write_index + Capacity - size + j - 1
    <3>0. (size' = size + 1 /\ j = i) \/ (size' = size /\ size = Capacity /\ j = i + 1)
      BY <1>1, <1>2
    <3>1. j \in 1 .. size /\ b \in 0 .. 2 * Capacity - 1
      <4>1. i < size' /\ i \in Nat
        BY <1>4, <2>4
      <4>2. j \in 1 .. size
        <5> HIDE DEF j
        <5> QED  BY <1>1, <3>0, <4>1
      <4> HIDE DEF j
      <4> QED  BY <1>1, <4>2
    <3>2. b % Capacity = IF b < Capacity THEN b ELSE b - Capacity
      BY <3>1, Turn
    <3>3. a % Capacity = b % Capacity /\ b % Capacity # write_index
      <4> DEFINE am == a % Capacity
                 bm == b % Capacity
                 d == Capacity + i - size'
      <4>1. b = write_index + d /\ a = write_index' + d - 1 /\ d \in 1 .. Capacity - 1
        <5>1. i < size' /\ i \in Nat
          BY <1>4, <2>4
        <5>2. j = i + size + 1 - size' /\ size \in Nat /\ size' \in Nat
          BY <1>1, <1>4
        <5>3. b = write_index + d /\ a = write_index' + d - 1
          <6> HIDE DEF j
          <6> QED  BY <1>1, <1>4, <5>1, <5>2
        <5>4. d \in 1 .. Capacity - 1
          <6>1. size' \in 1 .. Capacity
            BY <1>4
          <6> QED  BY <1>1, <5>1, <6>1
        <5> QED  BY <5>3, <5>4
      <4>2. /\ am = IF a < Capacity THEN a ELSE a - Capacity
            /\ bm = IF b < Capacity THEN b ELSE b - Capacity
        BY <2>2, <3>2
      <4> HIDE DEF a, b, am, bm, d
      <4>3. am = bm /\ bm # write_index
        <5>1. CASE write_index + 1 < Capacity
          BY <1>1, <1>3, <4>1, <4>2, <5>1
        <5>2. CASE ~(write_index + 1 < Capacity)
          BY <1>1, <1>3, <4>1, <4>2, <5>2
        <5> QED  BY <5>1, <5>2
      <4> QED  BY <4>3 DEF am, bm
    <3>4. Recent(Capacity)[j] = data[b % Capacity]
      BY <3>1, RecentIs
    <3>5. b % Capacity \in 0 .. Capacity - 1
      <4> HIDE DEF b
      <4> QED  BY <1>1, <3>1, <3>2
    <3> HIDE DEF a, b
    <3>6. data'[a % Capacity] = data[b % Capacity]
      BY <3>3, <3>5
    <3> QED  BY <2>4, <3>4, <3>6 DEF a
  <2> QED  BY <2>3, <2>4
<1> QED  BY <1>2, <1>4, <1>5, <1>6

(* The slot and the sample of the i-th place shown after a replay. *)
LEMMA PlaceIs ==
  ASSUME NEW c \in Nat \ {0}, NEW l \in Nat, NEW n \in Nat, n = IF c <= l THEN c ELSE l,
         NEW w \in 0 .. c - 1, NEW i \in 1 .. n
  PROVE  /\ w + c - n + i - 1 \in 0 .. 2 * c - 1
         /\ l - n + i \in 1 .. l /\ l - n + i - 1 \in Nat
         /\ \A e \in Int : l = e + w => l - n + i - 1 = e + ((w + c - n + i - 1) - c)
<1>1. i \in Nat /\ 1 <= i /\ i <= n /\ n <= c /\ n <= l /\ w \in Nat /\ w < c
  OBVIOUS
<1> QED  BY <1>1

(* A replay shows the last samples, as many as the ring has room for. *)
LEMMA ReplayShows ==
  ASSUME NEW s \in Seq(Samples), AfterReplay(s)
  PROVE  /\ write_index' \in 0 .. Capacity - 1 /\ size' \in 0 .. Capacity /\ size' <= Len(s)
         /\ size' < Capacity => size' = Len(s)
         /\ data' \in [0 .. Capacity - 1 -> Samples \cup {None}]
         /\ Recent(Capacity)' = [i \in 1 .. size' |-> s[Len(s) - size' + i]]
<1> DEFINE L == Len(s)
           last(k) == Max({0} \cup {i \in DOMAIN s : (i - 1) % Capacity = k})
<1>1. Capacity \in Nat \ {0} /\ L \in Nat /\ DOMAIN s = 1 .. L /\ \A i \in 1 .. L : s[i] \in Samples
  BY WalAssumption, SeqIs
<1>2. size' = IF Capacity <= L THEN Capacity ELSE L
  BY <1>1, MinIs DEF AfterReplay
<1>3. write_index' = L % Capacity /\ write_index' \in 0 .. Capacity - 1
      /\ L = Capacity * (L \div Capacity) + write_index' /\ L \div Capacity \in Nat
  BY <1>1, DivMod DEF AfterReplay
<1>4. data' = [k \in 0 .. Capacity - 1 |-> IF last(k) = 0 THEN None ELSE s[last(k)]]
  BY DEF AfterReplay
<1>5. ASSUME NEW k \in 0 .. Capacity - 1, NEW j \in 1 .. L, (j - 1) % Capacity = k,
             \A i \in 1 .. L : (i - 1) % Capacity = k => i <= j
      PROVE  last(k) = j
  <2> DEFINE S == {0} \cup {i \in DOMAIN s : (i - 1) % Capacity = k}
  <2>1. S \subseteq Int /\ j \in S /\ \A x \in S : x <= j
    BY <1>1, <1>5
  <2> HIDE DEF S
  <2>2. Max(S) = j
    BY <2>1, MaxIs
  <2> QED  BY <2>2 DEF S
<1>6. \A k \in 0 .. Capacity - 1 : last(k) \in 0 .. L
  <2> SUFFICES ASSUME NEW k \in 0 .. Capacity - 1 PROVE last(k) \in 0 .. L
    OBVIOUS
  <2> DEFINE S == {0} \cup {i \in DOMAIN s : (i - 1) % Capacity = k}
  <2>1. S \subseteq 0 .. L /\ S # {}
    BY <1>1
  <2> HIDE DEF S, L
  <2>2. PICK m \in S : \A x \in S : x <= m
    BY <1>1, <2>1, GreatestOf
  <2>3. S \subseteq Int
    BY <1>1, <2>1
  <2>4. Max(S) = m
    BY <2>2, <2>3, MaxIs
  <2> QED  BY <2>1, <2>4 DEF S
<1>7. data' \in [0 .. Capacity - 1 -> Samples \cup {None}]
  <2> HIDE DEF last, L
  <2>1. \A k \in 0 .. Capacity - 1 :
          (IF last(k) = 0 THEN None ELSE s[last(k)]) \in Samples \cup {None}
    BY <1>1, <1>6
  <2> QED  BY <1>4, <2>1
<1>8. Recent(Capacity)' =
        [i \in 1 .. size' |-> data'[(write_index' + Capacity - size' + i - 1) % Capacity]]
  <2>1. size' \in 0 .. Capacity
    BY <1>1, <1>2
  <2> QED  BY <2>1, RecentPrimed
<1>9. ASSUME NEW i \in 1 .. size'
      PROVE  data'[(write_index' + Capacity - size' + i - 1) % Capacity] = s[L - size' + i]
  <2> DEFINE b == write_index' + Capacity - size' + i - 1
             j == L - size' + i
             q == L \div Capacity
             k == b % Capacity
  <2>0. size' \in Nat /\ write_index' \in 0 .. Capacity - 1 /\ L \in Nat
    BY <1>1, <1>2, <1>3
  <2>a. /\ b \in 0 .. 2 * Capacity - 1 /\ j \in 1 .. L /\ j - 1 \in Nat
        /\ \A e \in Int : L = e + write_index' => j - 1 = e + (b - Capacity)
    <3> DEFINE n == size'
               w == write_index'
    <3>1. /\ Capacity \in Nat \ {0} /\ L \in Nat /\ n \in Nat /\ w \in 0 .. Capacity - 1
          /\ n = (IF Capacity <= L THEN Capacity ELSE L) /\ i \in 1 .. n
      BY <1>1, <1>2, <2>0
    <3>2. b = w + Capacity - n + i - 1 /\ j = L - n + i
      OBVIOUS
    <3> HIDE DEF L, n, w, b, j
    <3>3. /\ w + Capacity - n + i - 1 \in 0 .. 2 * Capacity - 1
          /\ L - n + i \in 1 .. L /\ L - n + i - 1 \in Nat
          /\ \A e \in Int : L = e + w => L - n + i - 1 = e + ((w + Capacity - n + i - 1) - Capacity)
      BY <3>1, PlaceIs
    <3>4. b \in 0 .. 2 * Capacity - 1 /\ j \in 1 .. L /\ j - 1 \in Nat
      BY <3>2, <3>3
    <3>5. \A e \in Int : L = e + w => j - 1 = e + (b - Capacity)
      <4> SUFFICES ASSUME NEW e \in Int, L = e + w PROVE j - 1 = e + (b - Capacity)
        OBVIOUS
      <4>1. L - n + i - 1 = e + ((w + Capacity - n + i - 1) - Capacity)
        BY <3>3
      <4> QED  BY <3>1, <3>2, <3>4, <4>1
    <3> QED  BY <3>4, <3>5 DEF w
  <2>1. b \in 0 .. 2 * Capacity - 1 /\ j \in 1 .. L /\ j - 1 \in Nat
    BY <2>a
  <2>2. k = IF b < Capacity THEN b ELSE b - Capacity
    BY <2>1, Turn
  <2>3. q \in Nat /\ L = Capacity * q + write_index'
    BY <1>3
  <2> HIDE DEF L, q
  <2>4. j - 1 = Capacity * q + (b - Capacity)
    <3>1. Capacity * q \in Int
      BY <1>1, <2>3
    <3> HIDE DEF b, j
    <3> QED  BY <2>3, <2>a, <3>1
  <2> HIDE DEF k
  <2>5. k \in 0 .. Capacity - 1
    <3> HIDE DEF b
    <3> QED  BY <1>1, <2>1, <2>2
  <2>6. (j - 1) % Capacity = k
    <3>1. CASE b < Capacity
      <4>1. q # 0
        <5> SUFFICES ASSUME q = 0 PROVE FALSE
          OBVIOUS
        <5>1. L = write_index'
          BY <1>1, <1>3, <2>3
        <5> QED  BY <1>1, <1>2, <1>3, <3>1, <5>1
      <4>2. q - 1 \in Nat
        BY <2>3, <4>1
      <4>3. Capacity * (q - 1) = Capacity * q - Capacity
        BY <1>1, <2>3
      <4>4. j - 1 = Capacity * (q - 1) + k /\ k = b
        <5> HIDE DEF b, j
        <5> QED  BY <1>1, <2>1, <2>2, <2>3, <2>4, <3>1, <4>3
      <4> HIDE DEF b, j
      <4>5. (Capacity * (q - 1) + k) % Capacity = k
        BY <1>1, <2>5, <4>2, ModIs
      <4> QED  BY <4>4, <4>5
    <3>2. CASE ~(b < Capacity)
      <4>1. j - 1 = Capacity * q + k
        BY <2>2, <2>4, <3>2
      <4> HIDE DEF b, j
      <4>2. (Capacity * q + k) % Capacity = k
        BY <1>1, <2>3, <2>5, ModIs
      <4> QED  BY <4>1, <4>2
    <3> QED  BY <3>1, <3>2
  <2>7. ASSUME NEW m \in 1 .. L, (m - 1) % Capacity = k PROVE m <= j
    <3> SUFFICES ASSUME m > j PROVE FALSE
      BY <1>1, <2>1
    <3>1. m - j < Capacity /\ m - j > 0
      BY <1>1, <1>2, <2>1
    <3> HIDE DEF b, j
    <3>2. /\ m - 1 \in Nat /\ j - 1 \in Nat
          /\ m - 1 = Capacity * ((m - 1) \div Capacity) + k
          /\ j - 1 = Capacity * ((j - 1) \div Capacity) + k
          /\ (m - 1) \div Capacity \in Nat /\ (j - 1) \div Capacity \in Nat
      <4>1. m - 1 \in Nat
        BY <1>1
      <4> QED  BY <1>1, <2>1, <2>6, <2>7, <4>1, DivMod
    <3> DEFINE u == (m - 1) \div Capacity
               v == (j - 1) \div Capacity
    <3>3. Capacity * v + (m - j) = Capacity * u + 0 /\ u \in Nat /\ v \in Nat /\ m - j \in Int
      <4>1. m - 1 = Capacity * u + k /\ j - 1 = Capacity * v + k /\ u \in Nat /\ v \in Nat
        BY <3>2
      <4> HIDE DEF u, v
      <4> QED  BY <1>1, <2>1, <2>5, <4>1
    <3> HIDE DEF u, v
    <3>4. m - j = 0
      BY <1>1, <3>1, <3>3, RemainderIs
    <3> QED  BY <3>1, <3>4
  <2>8. last(k) = j /\ j # 0
    <3> HIDE DEF b, j, last
    <3> QED  BY <1>5, <2>1, <2>5, <2>6, <2>7
  <2>9. data'[k] = s[j]
    <3> HIDE DEF b, j, last
    <3> QED  BY <1>4, <2>5, <2>8
  <2> QED  BY <2>9 DEF k, L
<1>10. size' \in 0 .. Capacity /\ size' <= L /\ (size' < Capacity => size' = L)
  <2> HIDE DEF L
  <2> QED  BY <1>1, <1>2
<1> QED  BY <1>3, <1>7, <1>8, <1>9, <1>10
-----------------------------------------------------------------------------
(* Samples, and sequences of one. *)

LEMMA SampleIs ==
  ASSUME NEW x \in Samples
  PROVE  /\ x # None /\ x.id \in 1 .. MaxSamples /\ x.id \in Nat
         /\ x.ts \in 0 .. MaxTime /\ x.ts \in Nat
<1>1. x = [id |-> x.id, ts |-> x.ts] /\ x.id \in 1 .. MaxSamples /\ x.ts \in 0 .. MaxTime
  BY DEF Samples
<1>2. "id" \in DOMAIN x
  BY <1>1
<1>3. DOMAIN None = {}
  BY DEF None
<1>4. x # None
  BY <1>2, <1>3
<1>5. x.id \in Nat /\ x.ts \in Nat
  BY <1>1, WalAssumption
<1> QED  BY <1>1, <1>4, <1>5

LEMMA OneIs ==
  ASSUME NEW x \in Samples
  PROVE  <<x>> \in Seq(Samples) /\ ToSet(<<x>>) = {x} /\ Rising(<<x>>)
<1>1. <<x>> \in Seq(Samples) /\ DOMAIN <<x>> = {1} /\ <<x>>[1] = x
  OBVIOUS
<1> QED  BY <1>1 DEF ToSet, Rising

LEMMA NoneIs == <<>> \in Seq(Samples) /\ ToSet(<<>>) = {} /\ Rising(<<>>) /\ Len(<<>>) = 0
BY DEF ToSet, Rising

LEMMA IdsIs ==
  ASSUME NEW s \in Seq(Samples)
  PROVE  Ids(s) = {x.id : x \in ToSet(s)}
BY DEF Ids, ToSet

LEMMA AppendHas ==
  ASSUME NEW s \in Seq(Samples), NEW x \in Samples, Rising(s), \A y \in ToSet(s) : y.id < x.id
  PROVE  /\ Append(s, x) \in Seq(Samples) /\ ToSet(Append(s, x)) = ToSet(s) \cup {x}
         /\ Rising(Append(s, x)) /\ Len(Append(s, x)) = Len(s) + 1
<1>1. Append(s, x) = s \o <<x>>
  BY AppendIsConcat
<1>2. <<x>> \in Seq(Samples) /\ ToSet(<<x>>) = {x} /\ Rising(<<x>>)
  BY OneIs
<1>3. Before(s, <<x>>)
  BY <1>2 DEF Before
<1>4. Len(Append(s, x)) = Len(s) + 1
  OBVIOUS
<1> DEFINE one == <<x>>
<1>5. one \in Seq(Samples) /\ ToSet(one) = {x} /\ Rising(one) /\ Before(s, one)
  BY <1>2, <1>3
<1> HIDE DEF one
<1>6. s \o one \in Seq(Samples) /\ ToSet(s \o one) = ToSet(s) \cup {x}
  BY <1>5, ConcatIs
<1>7. Rising(s \o one)
  BY <1>5, ConcatRises
<1> QED  BY <1>1, <1>4, <1>6, <1>7 DEF one

LEMMA YoungHas ==
  ASSUME NEW s \in Seq(Samples), NEW time
  PROVE  /\ NotOlderThan(s, time) \in Seq(Samples)
         /\ ToSet(NotOlderThan(s, time)) = {x \in ToSet(s) : x.ts >= time}
         /\ Rising(s) => Rising(NotOlderThan(s, time))
<1> DEFINE young == {x \in Samples : x.ts >= time}
<1>1. /\ Only(s, young) \in Seq(Samples) /\ ToSet(Only(s, young)) = ToSet(s) \cap young
      /\ Rising(s) => Rising(Only(s, young))
  BY OnlyHas
<1>2. ToSet(s) \subseteq Samples
  BY SeqIs
<1> QED  BY <1>1, <1>2 DEF NotOlderThan

LEMMA SameNumber ==
  ASSUME RecordInv, recorded \in Seq(Samples)
  PROVE  /\ \A x, y \in ToSet(recorded) : x.id = y.id => x = y
         /\ \A x \in ToSet(recorded) : x \in Samples /\ x.id \in 1 .. Len(recorded)
<1>1. /\ Len(recorded) \in Nat /\ DOMAIN recorded = 1 .. Len(recorded)
      /\ ToSet(recorded) \subseteq Samples
  BY SeqIs
<1>2. \A x \in ToSet(recorded) : x.id \in DOMAIN recorded /\ recorded[x.id] = x
  BY DEF RecordInv, ToSet
<1> QED  BY <1>1, <1>2

LEMMA Typed ==
  ASSUME TypeOK
  PROVE  /\ Capacity \in Nat \ {0} /\ FlushBatch \in Nat \ {0} /\ Retention \in Nat
         /\ MaxTime \in Nat /\ MaxSamples \in Nat /\ MaxFailures \in Nat /\ MaxCrashes \in Nat
         /\ clock \in Nat /\ Cutoff \in Int /\ Cutoff \in Times
         /\ ToSet(file) \subseteq Samples /\ ToSet(pending) \subseteq Samples
         /\ reader = "pushed" => in_hand \in Samples
         /\ in_hand # None => in_hand \in Samples
         /\ InHand \in Seq(Samples)
         /\ ToSet(InHand) = IF in_hand = None THEN {} ELSE {in_hand}
         /\ Logged \subseteq Samples
<1>1. /\ Capacity \in Nat \ {0} /\ FlushBatch \in Nat \ {0} /\ Retention \in Nat
      /\ MaxTime \in Nat /\ MaxSamples \in Nat /\ MaxFailures \in Nat /\ MaxCrashes \in Nat
  BY WalAssumption
<1>2. clock \in Nat /\ Cutoff \in Int /\ Cutoff \in Times
  BY <1>1 DEF TypeOK, Cutoff, Times
<1>3. ToSet(file) \subseteq Samples /\ ToSet(pending) \subseteq Samples
  BY SeqIs DEF TypeOK
<1>4. /\ reader = "pushed" => in_hand \in Samples
      /\ in_hand # None => in_hand \in Samples
  BY DEF TypeOK
<1>5. InHand \in Seq(Samples) /\ ToSet(InHand) = IF in_hand = None THEN {} ELSE {in_hand}
  <2>1. CASE in_hand = None
    BY <2>1, NoneIs DEF InHand
  <2>2. CASE in_hand # None
    BY <1>4, <2>2, OneIs DEF InHand
  <2> QED  BY <2>1, <2>2
<1>6. Logged \subseteq Samples
  BY <1>3, <1>4 DEF Logged
<1> QED  BY <1>1, <1>2, <1>3, <1>4, <1>5, <1>6
-----------------------------------------------------------------------------
(* What the disk keeps of a write. *)

LEMMA WriteIs ==
  ASSUME NEW s \in Seq(Samples), Rising(s), file \in Seq(Samples), Rising(file),
         Before(file, s), damage \in 0 .. MaxFailures, Write(s)
  PROVE  /\ file' \in Seq(Samples) /\ Rising(file') /\ damage' \in 0 .. MaxFailures
         /\ \E lost \in SUBSET ToSet(s) :
              /\ ToSet(file') = ToSet(file) \cup (ToSet(s) \ lost)
              /\ gone' = gone \cup {x.id : x \in lost}
<1>1. PICK n \in 0 .. Len(s) :
        /\ n = Len(s) \/ damage < MaxFailures
        /\ file' = file \o SubSeq(s, 1, n)
        /\ damage' = IF n = Len(s) THEN damage ELSE damage + 1
        /\ gone' = gone \cup Ids(SubSeq(s, n + 1, Len(s)))
  BY DEF Write
<1> DEFINE a == SubSeq(s, 1, n)
           b == SubSeq(s, n + 1, Len(s))
<1>2. /\ a \in Seq(Samples) /\ b \in Seq(Samples)
      /\ ToSet(a) \cup ToSet(b) = ToSet(s) /\ Rising(a) /\ Before(a, b)
  BY PrefixIs, PrefixRises
<1>3. ToSet(a) \subseteq Samples /\ ToSet(b) \subseteq Samples
  BY <1>2, SeqIs
<1> HIDE DEF a, b
<1>4. ToSet(a) = ToSet(s) \ ToSet(b)
  BY <1>2, <1>3, SampleIs DEF Before
<1>5. Before(file, a)
  BY <1>2 DEF Before
<1>6. file' \in Seq(Samples) /\ Rising(file') /\ ToSet(file') = ToSet(file) \cup ToSet(a)
  <2>1. file' = file \o a
    BY <1>1 DEF a
  <2>2. file \o a \in Seq(Samples) /\ ToSet(file \o a) = ToSet(file) \cup ToSet(a)
    BY <1>2, ConcatIs
  <2>3. Rising(file \o a)
    BY <1>2, <1>5, ConcatRises
  <2> QED  BY <2>1, <2>2, <2>3
<1>7. damage' \in 0 .. MaxFailures
  BY <1>1, WalAssumption
<1>8. gone' = gone \cup {x.id : x \in ToSet(b)}
  BY <1>1, <1>2, IdsIs DEF b
<1> QED  BY <1>2, <1>4, <1>6, <1>7, <1>8

(* A step that only moves samples within the log, or loses some of them. *)
LEMMA LogStep ==
  ASSUME TypeOK, RecordInv, OrderInv, YoungInv, UNCHANGED <<clock, recorded>>,
         \/ UNCHANGED <<in_hand, reader>>
         \/ in_hand' = None /\ reader' = "idle",
         NEW lost, lost \subseteq Logged, gone' = gone \cup {x.id : x \in lost},
         Logged' \subseteq Logged,
         \A x \in Logged : x.ts >= Cutoff => (x \in Logged' <=> x \notin lost)
  PROVE  /\ YoungInv' /\ RecordInv' /\ Logged' \subseteq ToSet(recorded')
         /\ gone \subseteq gone' /\ gone' \subseteq 1 .. MaxSamples
<1>1. /\ \A x, y \in ToSet(recorded) : x.id = y.id => x = y
      /\ \A x \in ToSet(recorded) : x \in Samples /\ x.id \in 1 .. Len(recorded)
  BY SameNumber DEF TypeOK
<1>2. Logged \subseteq ToSet(recorded) /\ recorded' = recorded /\ Cutoff' = Cutoff
  BY DEF OrderInv, Cutoff
<1>3. YoungInv'
  <2> SUFFICES ASSUME NEW x \in Samples, x.ts >= Cutoff
               PROVE  x \in Logged' <=> x \in ToSet(recorded) /\ x.id \notin gone'
    BY <1>2 DEF YoungInv
  <2>1. x \in Logged <=> x \in ToSet(recorded) /\ x.id \notin gone
    BY DEF YoungInv
  <2>2. \A y \in lost : y \in ToSet(recorded)
    BY <1>2
  <2>3. x \in ToSet(recorded) => (x.id \in {y.id : y \in lost} <=> x \in lost)
    BY <1>1, <2>2
  <2> QED  BY <1>2, <2>1, <2>3
<1>4. \A m \in gone' : m <= Len(recorded)
  <2>1. \A x \in lost : x.id <= Len(recorded)
    BY <1>1, <1>2
  <2> QED  BY <2>1 DEF RecordInv
<1>5. RecordInv'
  BY <1>4 DEF RecordInv
<1>6. gone' \subseteq 1 .. MaxSamples
  <2>1. \A x \in lost : x \in Samples
    BY <1>1, <1>2
  <2>2. \A x \in lost : x.id \in 1 .. MaxSamples
    BY <2>1, SampleIs
  <2>3. gone \subseteq 1 .. MaxSamples
    BY DEF TypeOK
  <2> QED  BY <2>2, <2>3
<1> QED  BY <1>2, <1>3, <1>5, <1>6
(* The ring is not touched, and what it owes the log only shrinks. *)
LEMMA MemoryStays ==
  ASSUME TypeOK, MemoryInv, UNCHANGED <<known, data, write_index, size, recorded>>,
         gone \subseteq gone', clock' \in Int, clock <= clock',
         ~known => pending' = <<>> /\ reader' \in {"idle", "due"}
  PROVE  MemoryInv'
<1>1. size \in 0 .. Capacity /\ recorded \in Seq(Samples)
  BY DEF TypeOK
<1>2. \A x \in ToSet(recorded) : x.ts \in Nat
  BY <1>1, SeqIs, SampleIs
<1>3. Recent(Capacity)' = Recent(Capacity)
  <2>1. size' \in 0 .. Capacity
    BY <1>1
  <2> QED  BY <1>1, <2>1, RecentIs, RecentPrimed
<1>4. \A x \in ToSet(recorded) : x.ts >= Cutoff' => x.ts >= Cutoff
  BY <1>2, Typed DEF Cutoff
<1>5. recorded' = recorded /\ known' = known /\ size' = size
  OBVIOUS
<1> DEFINE shown == Recent(Capacity)
<1>6. CASE known
  <2>1. /\ shown \in Seq(Samples) /\ Len(shown) = size /\ Rising(shown)
        /\ ToSet(shown) \subseteq ToSet(recorded)
        /\ \A x \in ToSet(recorded) :
             x.id \notin gone /\ shown # <<>> /\ x.id > shown[1].id => x \in ToSet(shown)
        /\ \A x \in ToSet(recorded) :
             x.id \notin gone /\ size < Capacity /\ x.ts >= Cutoff => x \in ToSet(shown)
    BY <1>6 DEF MemoryInv
  <2> HIDE DEF shown
  <2>2. /\ shown \in Seq(Samples) /\ Len(shown) = size /\ Rising(shown)
        /\ ToSet(shown) \subseteq ToSet(recorded)
        /\ \A x \in ToSet(recorded) :
             x.id \notin gone' /\ shown # <<>> /\ x.id > shown[1].id => x \in ToSet(shown)
        /\ \A x \in ToSet(recorded) :
             x.id \notin gone' /\ size < Capacity /\ x.ts >= Cutoff' => x \in ToSet(shown)
    BY <1>4, <2>1
  <2> QED  BY <1>3, <1>5, <1>6, <2>2 DEF MemoryInv, shown
<1>7. CASE ~known
  BY <1>5, <1>7 DEF MemoryInv
<1> QED  BY <1>6, <1>7

(* Writing what is pending keeps every part of the invariant. *)
LEMMA PendingIsWritten ==
  ASSUME IInv, Write(pending), pending' = <<>>,
         UNCHANGED <<clock, recorded, reader, in_hand, memory>>
  PROVE  /\ file' \in Seq(Samples) /\ Rising(file') /\ damage' \in 0 .. MaxFailures
         /\ gone' \subseteq 1 .. MaxSamples
         /\ RecordInv' /\ OrderInv' /\ YoungInv' /\ MemoryInv'
<1> USE DEF IInv
<1>1. file \in Seq(Samples) /\ pending \in Seq(Samples) /\ damage \in 0 .. MaxFailures
  BY DEF TypeOK
<1>2. Rising(file) /\ Rising(pending) /\ Before(file, pending)
  BY DEF OrderInv
<1>3. /\ file' \in Seq(Samples) /\ Rising(file') /\ damage' \in 0 .. MaxFailures
      /\ \E lost \in SUBSET ToSet(pending) :
           /\ ToSet(file') = ToSet(file) \cup (ToSet(pending) \ lost)
           /\ gone' = gone \cup {x.id : x \in lost}
  BY <1>1, <1>2, WriteIs
<1>4. PICK lost \in SUBSET ToSet(pending) :
        /\ ToSet(file') = ToSet(file) \cup (ToSet(pending) \ lost)
        /\ gone' = gone \cup {x.id : x \in lost}
  BY <1>3
<1> DEFINE hand == IF reader = "pushed" THEN {in_hand} ELSE {}
<1>5. Logged = ToSet(file) \cup ToSet(pending) \cup hand
  BY DEF Logged
<1>6. Logged' = ToSet(file') \cup hand
  <2>1. ToSet(pending') = {}
    BY NoneIs
  <2> QED  BY <2>1 DEF Logged
<1>7. \A x \in lost : x \notin ToSet(file) /\ x \notin hand
  <2>1. ToSet(pending) \subseteq Samples /\ (reader = "pushed" => ToSet(InHand) = {in_hand})
    BY Typed DEF TypeOK
  <2> QED  BY <1>2, <2>1, SampleIs DEF Before, OrderInv
<1> HIDE DEF hand
<1>8. /\ lost \subseteq Logged /\ Logged' \subseteq Logged
      /\ \A x \in Logged : x.ts >= Cutoff => (x \in Logged' <=> x \notin lost)
  BY <1>4, <1>5, <1>6, <1>7
<1>9. /\ YoungInv' /\ RecordInv' /\ Logged' \subseteq ToSet(recorded')
      /\ gone \subseteq gone' /\ gone' \subseteq 1 .. MaxSamples
  BY <1>4, <1>8, LogStep
<1>10. OrderInv'
  <2>1. Rising(pending') /\ ToSet(pending') = {}
    BY NoneIs
  <2>2. Before(file', pending') /\ Before(pending', InHand')
    BY <2>1 DEF Before
  <2>3. Before(file', InHand')
    <3>1. Before(file, InHand) /\ Before(pending, InHand) /\ InHand' = InHand
      BY DEF OrderInv, InHand
    <3> QED  BY <1>4, <3>1 DEF Before
  <2> QED  BY <1>3, <1>9, <2>1, <2>2, <2>3 DEF OrderInv
<1>11. MemoryInv'
  <2>1. ~known => reader' \in {"idle", "due"}
    BY DEF MemoryInv
  <2>2. clock \in Int /\ clock' = clock
    BY Typed
  <2> QED  BY <1>9, <2>1, <2>2, MemoryStays DEF memory
<1> QED  BY <1>3, <1>9, <1>10, <1>11
-----------------------------------------------------------------------------
(* A prune that holds the lock. *)

LEMMA YoungPrimed ==
  ASSUME NEW CONSTANT time
  PROVE  NotOlderThan(file, time)' = NotOlderThan(file', time)
OBVIOUS

LEMMA LaterCutoff ==
  ASSUME NEW c \in Int, NEW d \in Int, c <= d, NEW r \in Int, NEW time \in Int,
         time <= c - r
  PROVE  time <= d - r
OBVIOUS

(* What it decided is undisturbed by steps that leave the log alone. *)
LEMMA PruneStays ==
  ASSUME PruneInv, UNCHANGED <<locked, pending, file, tmp, damage>>, clock \in Int,
         clock' \in Int, clock <= clock'
  PROVE  PruneInv'
<1> SUFFICES ASSUME locked
             PROVE  PruneInv'
  BY DEF PruneInv
<1>1. /\ tmp # None /\ pending = <<>>
      /\ tmp.short => damage < MaxFailures
      /\ \E time \in Times : time <= Cutoff /\ Kept(time)
  BY DEF PruneInv
<1>2. PICK time \in Times : time <= Cutoff /\ Kept(time)
  BY <1>1
<1>3. Kept(time)'
  BY <1>2, YoungPrimed DEF Kept
<1>4. time <= Cutoff'
  <2>1. Retention \in Nat /\ MaxTime \in Nat
    BY WalAssumption
  <2>2. time \in Int /\ time <= clock - Retention
    BY <1>2, <2>1 DEF Cutoff, Times
  <2> DEFINE d == clock'
  <2>3. d \in Int /\ clock <= d /\ Retention \in Int
    BY <2>1
  <2> HIDE DEF d
  <2>4. time <= d - Retention
    BY <2>2, <2>3, LaterCutoff
  <2> QED  BY <2>4 DEF Cutoff, d
<1> QED  BY <1>1, <1>3, <1>4 DEF PruneInv

LEMMA KeptIs ==
  ASSUME NEW time, Kept(time), file \in Seq(Samples), Rising(file)
  PROVE  /\ tmp.samples \in Seq(Samples) /\ Rising(tmp.samples)
         /\ ToSet(tmp.samples) \subseteq {x \in ToSet(file) : x.ts >= time}
         /\ ~tmp.short => ToSet(tmp.samples) = {x \in ToSet(file) : x.ts >= time}
<1> DEFINE all == NotOlderThan(file, time)
<1>1. /\ all \in Seq(Samples) /\ Rising(all)
      /\ ToSet(all) = {x \in ToSet(file) : x.ts >= time}
  BY YoungHas
<1>2. CASE tmp.short
  <2>1. PICK n \in 0 .. Len(all) - 1 : tmp.samples = SubSeq(all, 1, n)
    BY <1>2 DEF Kept
  <2> HIDE DEF all
  <2>2. n \in 0 .. Len(all)
    BY <1>1, SeqIs
  <2> QED  BY <1>1, <1>2, <2>1, <2>2, PrefixIs, PrefixRises
<1>3. CASE ~tmp.short
  <2>1. tmp.samples = all
    BY <1>3 DEF Kept
  <2> HIDE DEF all
  <2> QED  BY <1>1, <1>3, <2>1
<1> QED  BY <1>2, <1>3

LEMMA RecordIsNotNone ==
  \A s, b : [samples |-> s, short |-> b] # None
<1> SUFFICES ASSUME NEW s, NEW b
             PROVE  [samples |-> s, short |-> b] # None
  OBVIOUS
<1>1. "short" \in DOMAIN [samples |-> s, short |-> b]
  OBVIOUS
<1>2. DOMAIN None = {}
  BY DEF None
<1> QED  BY <1>1, <1>2
-----------------------------------------------------------------------------
(* The invariant holds, step by step. *)

LEMMA InitHolds == Init => IInv
<1> SUFFICES ASSUME Init PROVE IInv
  OBVIOUS
<1> USE DEF Init
<1>1. TypeOK
  <2>1. /\ clock \in 0 .. MaxTime /\ crashes \in 0 .. MaxCrashes /\ damage \in 0 .. MaxFailures
        /\ write_index \in 0 .. Capacity - 1 /\ size \in 0 .. Capacity
    BY WalAssumption
  <2>2. data \in [0 .. Capacity - 1 -> Samples \cup {None}]
    OBVIOUS
  <2>3. pending \in Seq(Samples) /\ Len(pending) < FlushBatch
    BY WalAssumption, NoneIs
  <2>4. /\ in_hand \in Samples \cup {None} /\ ((in_hand # None) <=> (reader # "idle"))
        /\ tmp = None /\ gone \subseteq 1 .. MaxSamples
        /\ file \in Seq(Samples) /\ recorded \in Seq(Samples)
    BY NoneIs
  <2> QED  BY <2>1, <2>2, <2>3, <2>4 DEF TypeOK
<1>2. Logged = {} /\ Rising(<<>>) /\ ToSet(<<>>) = {}
  BY NoneIs DEF Logged
<1>3. PruneInv /\ RecordInv /\ MemoryInv
  BY <1>2 DEF PruneInv, RecordInv, MemoryInv
<1>4. OrderInv
  BY <1>2 DEF OrderInv, Before, InHand
<1>5. YoungInv
  BY <1>2 DEF YoungInv
<1> QED  BY <1>1, <1>3, <1>4, <1>5 DEF IInv

LEMMA FinishCycleHolds == IInv /\ FinishCycle => IInv'
<1> SUFFICES ASSUME IInv, FinishCycle PROVE IInv'
  OBVIOUS
<1> USE DEF IInv, FinishCycle
<1>0. UNCHANGED <<clock, main, tick, locked, known, data, write_index, size, pending, file, tmp,
                  recorded, gone, damage, crashes>>
  BY DEF memory, disk
<1>1. /\ Len(recorded) \in Nat /\ MaxSamples \in Nat /\ clock \in 0 .. MaxTime
      /\ \A x \in ToSet(recorded) : x.id \in 1 .. Len(recorded)
  BY Typed, SeqIs, SameNumber DEF TypeOK
<1>2. /\ in_hand' \in Samples /\ in_hand'.id = Len(recorded) + 1 /\ in_hand'.ts = clock
      /\ in_hand' # None
  <2>1. [id |-> Len(recorded) + 1, ts |-> clock] \in Samples
    BY <1>1 DEF Samples
  <2>2. in_hand' \in Samples
    BY <2>1
  <2> QED  BY <2>2, SampleIs
<1>3. TypeOK'
  BY <1>0, <1>2 DEF TypeOK
<1>4. PruneInv'
  BY <1>0, <1>1, PruneStays
<1>5. RecordInv'
  BY <1>0, <1>1, <1>2 DEF RecordInv
<1>6. Logged' = Logged
  BY <1>0 DEF Logged
<1>7. OrderInv'
  <2>1. InHand' = <<in_hand'>> /\ ToSet(InHand') = {in_hand'}
    BY <1>2, OneIs DEF InHand
  <2>2. ToSet(file) \subseteq ToSet(recorded) /\ ToSet(pending) \subseteq ToSet(recorded)
    BY DEF OrderInv, Logged
  <2>3. Before(file, InHand') /\ Before(pending, InHand')
    BY <1>1, <1>2, <2>1, <2>2 DEF Before
  <2> QED  BY <1>0, <1>6, <2>3 DEF OrderInv
<1>8. YoungInv'
  BY <1>0, <1>6 DEF YoungInv, Cutoff
<1>9. MemoryInv'
  <2>1. ~known => pending' = <<>> /\ reader' \in {"idle", "due"}
    BY <1>0 DEF MemoryInv
  <2> QED  BY <1>0, <1>1, <2>1, MemoryStays
<1> QED  BY <1>3, <1>4, <1>5, <1>7, <1>8, <1>9

(* Steps of main() and the timer, which touch no sample. *)
LEMMA QuietHolds ==
  ASSUME IInv, UNCHANGED <<clock, locked, reader, in_hand, memory, pending, disk, recorded,
                           gone, damage, crashes>>,
         tick' \in {"idle", "due"},
         main' \in {"down", "starting", "running", "stopping", "flushed", "stopped"}
  PROVE  IInv'
<1> USE DEF IInv
<1>0. UNCHANGED <<clock, locked, reader, in_hand, known, data, write_index, size, pending, file,
                  tmp, recorded, gone, damage, crashes>>
  BY DEF memory, disk
<1>1. TypeOK'
  BY <1>0 DEF TypeOK
<1>2. PruneInv'
  BY <1>0, Typed, PruneStays
<1>3. RecordInv'
  BY <1>0 DEF RecordInv
<1>4. Logged' = Logged /\ InHand' = InHand
  BY <1>0 DEF Logged, InHand
<1>5. OrderInv' /\ YoungInv'
  BY <1>0, <1>4 DEF OrderInv, YoungInv, Cutoff
<1>6. MemoryInv'
  <2>1. ~known => pending' = <<>> /\ reader' \in {"idle", "due"}
    BY <1>0 DEF MemoryInv
  <2> QED  BY <1>0, <2>1, Typed, MemoryStays
<1> QED  BY <1>1, <1>2, <1>3, <1>5, <1>6

LEMMA ClockTicksHolds == IInv /\ ClockTicks => IInv'
<1> SUFFICES ASSUME IInv, ClockTicks PROVE IInv'
  OBVIOUS
<1> USE DEF IInv, ClockTicks
<1>0. UNCHANGED <<main, tick, locked, reader, in_hand, known, data, write_index, size, pending,
                  file, tmp, recorded, gone, damage, crashes>>
  BY DEF memory, disk
<1>1. clock \in Nat /\ clock' \in 0 .. MaxTime /\ clock <= clock' /\ Retention \in Nat
      /\ clock' \in Nat
  BY Typed DEF TypeOK
<1>2. TypeOK'
  BY <1>0, <1>1 DEF TypeOK
<1>3. PruneInv'
  BY <1>0, <1>1, PruneStays
<1>4. RecordInv'
  <2>1. \A x \in ToSet(recorded) : x.ts \in Nat
    BY SeqIs, SampleIs DEF TypeOK
  <2>2. in_hand # None => in_hand.ts \in Nat
    BY Typed, SampleIs
  <2> QED  BY <1>0, <1>1, <2>1, <2>2 DEF RecordInv
<1>5. Logged' = Logged /\ InHand' = InHand
  BY <1>0 DEF Logged, InHand
<1>6. OrderInv'
  BY <1>0, <1>5 DEF OrderInv
<1>7. YoungInv'
  <2>1. \A x \in Samples : x.ts >= Cutoff' => x.ts >= Cutoff
    BY <1>1, SampleIs DEF Cutoff
  <2> QED  BY <1>0, <1>5, <2>1 DEF YoungInv
<1>8. MemoryInv'
  <2>1. ~known => pending' = <<>> /\ reader' \in {"idle", "due"}
    BY <1>0 DEF MemoryInv
  <2> QED  BY <1>0, <1>1, <2>1, MemoryStays
<1> QED  BY <1>2, <1>3, <1>4, <1>6, <1>7, <1>8

(* The first touch of the series reads it back from the log. *)
LEMMA GetOrCreateHolds == IInv /\ GetOrCreate => IInv'
<1> SUFFICES ASSUME IInv, GetOrCreate PROVE IInv'
  OBVIOUS
<1> USE DEF IInv
<1>0. UNCHANGED <<clock, main, tick, locked, in_hand, pending, file, tmp, recorded, gone, damage,
                  crashes>> /\ reader = "due" /\ reader' = "received"
  BY DEF GetOrCreate, disk
<1>a. \/ known /\ UNCHANGED <<known, data, write_index, size>>
      \/ ~known /\ known' /\ known' \in BOOLEAN /\ AfterReplay(Replayed)
  BY DEF GetOrCreate, memory
<1> DEFINE s == Replayed
<1>1. /\ s \in Seq(Samples) /\ Rising(s)
      /\ ToSet(s) = {x \in ToSet(file) : x.ts >= Cutoff}
  BY YoungHas DEF Replayed, TypeOK, OrderInv
<1>2. ~known =>
      /\ write_index' \in 0 .. Capacity - 1 /\ size' \in 0 .. Capacity /\ size' <= Len(s)
      /\ size' < Capacity => size' = Len(s)
      /\ data' \in [0 .. Capacity - 1 -> Samples \cup {None}]
      /\ Recent(Capacity)' = [i \in 1 .. size' |-> s[Len(s) - size' + i]]
  <2> HIDE DEF s
  <2>1. ~known => AfterReplay(s)
    BY <1>a DEF s
  <2> QED  BY <1>1, <2>1, ReplayShows
<1> HIDE DEF s
<1>3. TypeOK'
  <2>1. /\ known' \in BOOLEAN /\ write_index' \in 0 .. Capacity - 1 /\ size' \in 0 .. Capacity
        /\ data' \in [0 .. Capacity - 1 -> Samples \cup {None}]
    BY <1>a, <1>2 DEF TypeOK
  <2> QED  BY <1>0, <2>1 DEF TypeOK
<1>4. PruneInv'
  BY <1>0, Typed, PruneStays
<1>5. RecordInv'
  BY <1>0 DEF RecordInv
<1>6. Logged' = Logged /\ InHand' = InHand
  BY <1>0 DEF Logged, InHand
<1>7. OrderInv' /\ YoungInv'
  BY <1>0, <1>6 DEF OrderInv, YoungInv, Cutoff
<1>8. CASE known
  <2>1. UNCHANGED <<known, data, write_index, size>>
    BY <1>8, <1>a
  <2>2. MemoryInv'
    BY <1>0, <1>8, <2>1, Typed, MemoryStays
  <2> QED  BY <1>3, <1>4, <1>5, <1>7, <2>2
<1>9. CASE ~known
  <2> DEFINE shown == Recent(Capacity)'
             k == Len(s) - size'
  <2>1. /\ size' \in 0 .. Capacity /\ size' \in 0 .. Len(s) /\ Len(s) \in Nat /\ k \in Nat
        /\ \A i \in 1 .. size' : k + i \in 1 .. Len(s) /\ s[k + i] \in Samples
        /\ shown = [i \in 1 .. size' |-> s[k + i]] /\ size' \in Nat
        /\ (size' < Capacity => k = 0)
    <3>1. Capacity \in Nat /\ Len(s) \in Nat /\ \A i \in 1 .. Len(s) : s[i] \in Samples
      BY <1>1, Typed, SeqIs
    <3>2. /\ size' \in Nat /\ size' <= Len(s) /\ (size' < Capacity => size' = Len(s))
          /\ shown = [i \in 1 .. size' |-> s[k + i]] /\ size' \in 0 .. Capacity
      BY <1>2, <1>9, <3>1
    <3>3. \A i \in 1 .. size' : k + i \in 1 .. Len(s)
      BY <3>1, <3>2
    <3> HIDE DEF shown
    <3>4. k \in Nat /\ size' \in 0 .. Len(s) /\ (size' < Capacity => k = 0)
      BY <3>1, <3>2
    <3> QED  BY <3>1, <3>2, <3>3, <3>4
  <2> HIDE DEF shown, k
  <2>0. \A x \in ToSet(recorded) : x \in Samples /\ x.id \in Nat /\ x.ts \in Nat
    BY SeqIs, SampleIs DEF TypeOK
  <2>2. shown \in Seq(Samples) /\ Len(shown) = size' /\ DOMAIN shown = 1 .. size'
        /\ \A i \in 1 .. size' : shown[i] = s[k + i]
    BY <2>1
  <2>3. DOMAIN s = 1 .. Len(s)
    BY <1>1, SeqIs
  <2>4. Rising(shown)
    <3> SUFFICES ASSUME NEW i \in 1 .. size', NEW j \in 1 .. size', i < j
                 PROVE  shown[i].id < shown[j].id
      BY <2>2 DEF Rising
    <3>1. k + i \in DOMAIN s /\ k + j \in DOMAIN s /\ k + i < k + j
      BY <2>1, <2>3
    <3>2. s[k + i].id < s[k + j].id
      BY <1>1, <3>1 DEF Rising
    <3> QED  BY <2>2, <3>2
  <2>5. ToSet(shown) \subseteq ToSet(s)
    BY <2>1, <2>2, <2>3 DEF ToSet
  <2>6. ToSet(s) \subseteq ToSet(file) /\ ToSet(file) \subseteq ToSet(recorded)
    BY <1>1 DEF OrderInv, Logged
  <2>7. ASSUME NEW x \in ToSet(recorded), x.id \notin gone, x.ts >= Cutoff
        PROVE  x \in ToSet(s)
    <3>1. x \in Samples
      BY SeqIs DEF TypeOK
    <3>2. x \in Logged
      BY <2>7, <3>1 DEF YoungInv
    <3>3. pending = <<>> /\ ToSet(pending) = {}
      BY <1>9, NoneIs DEF MemoryInv
    <3> QED  BY <1>0, <1>1, <2>7, <3>2, <3>3 DEF Logged
  <2>8. ASSUME NEW x \in ToSet(recorded), x.id \notin gone, shown # <<>>, x.id > shown[1].id
        PROVE  x \in ToSet(shown)
    <3>1. size' \in 1 .. Len(s) /\ k + 1 \in 1 .. Len(s) /\ shown[1] = s[k + 1]
      <4>1. size' # 0
        BY <2>2, <2>8, EmptySeq
      <4> QED  BY <2>1, <2>2, <4>1
    <3>2. s[k + 1] \in ToSet(s) /\ s[k + 1] \in ToSet(recorded)
      BY <2>3, <2>6, <3>1 DEF ToSet
    <3>3. x.ts >= s[k + 1].ts /\ s[k + 1].ts >= Cutoff
      <4>1. s[k + 1].id <= x.id
        BY <2>0, <2>8, <3>1, <3>2
      <4> QED  BY <1>1, <3>2, <4>1 DEF RecordInv
    <3>4. x.ts \in Nat /\ s[k + 1].ts \in Nat /\ x.id \in Nat /\ Cutoff \in Int
      BY <2>0, <3>2, Typed
    <3>5. x \in ToSet(s)
      BY <2>7, <2>8, <3>3, <3>4
    <3>6. PICK m \in 1 .. Len(s) : x = s[m]
      BY <1>1, <3>5, SeqIs
    <3>7. m > k + 1
      <4>1. m = k + 1 => FALSE
        BY <2>8, <3>1, <3>4, <3>6
      <4>2. m < k + 1 => s[m].id < s[k + 1].id
        BY <1>1, <2>3, <3>1 DEF Rising
      <4>3. s[k + 1].id \in Nat
        BY <2>1, <3>1, SampleIs
      <4> QED  BY <2>1, <2>8, <3>1, <3>4, <3>6, <4>1, <4>2, <4>3
    <3>8. m - k \in 1 .. size' /\ k + (m - k) = m
      <4>1. Len(s) = k + size'
        BY <2>1 DEF k
      <4> DEFINE n == size'
                 l == Len(s)
      <4>2. m \in 1 .. l /\ l = k + n
        BY <4>1
      <4>5. k \in Nat /\ n \in Nat /\ l \in Nat
        BY <2>1
      <4> HIDE DEF n, l
      <4>3. m - k \in 1 .. n /\ k + (m - k) = m
        BY <3>7, <4>2, <4>5
      <4> QED  BY <4>3 DEF n
    <3>9. shown[m - k] = x
      BY <2>2, <3>6, <3>8
    <3> QED  BY <2>2, <3>8, <3>9 DEF ToSet
  <2>9. ASSUME NEW x \in ToSet(recorded), x.id \notin gone, size' < Capacity, x.ts >= Cutoff
        PROVE  x \in ToSet(shown)
    <3>1. x \in ToSet(s)
      BY <2>7, <2>9
    <3>2. PICK m \in 1 .. Len(s) : x = s[m]
      BY <1>1, <3>1, SeqIs
    <3>3. k = 0 /\ size' = Len(s)
      BY <2>1, <2>9 DEF k
    <3>4. m \in 1 .. size' /\ shown[m] = x
      BY <2>2, <3>2, <3>3
    <3> QED  BY <2>2, <3>4 DEF ToSet
  <2>10. MemoryInv'
    <3>1. known' /\ recorded' = recorded /\ gone' = gone /\ Cutoff' = Cutoff
      BY <1>0, <1>9, <1>a DEF Cutoff
    <3>2. /\ shown \in Seq(Samples) /\ Len(shown) = size' /\ Rising(shown)
          /\ ToSet(shown) \subseteq ToSet(recorded)
          /\ \A x \in ToSet(recorded) :
               x.id \notin gone /\ shown # <<>> /\ x.id > shown[1].id => x \in ToSet(shown)
          /\ \A x \in ToSet(recorded) :
               x.id \notin gone /\ size' < Capacity /\ x.ts >= Cutoff => x \in ToSet(shown)
      BY <2>2, <2>4, <2>5, <2>6, <2>8, <2>9
    <3> QED  BY <3>1, <3>2 DEF MemoryInv, shown
  <2> QED  BY <1>3, <1>4, <1>5, <1>7, <2>10
<1> QED  BY <1>8, <1>9

(* The sample enters the ring, and so counts as recorded. *)
LEMMA PushHolds == IInv /\ Push => IInv'
<1> SUFFICES ASSUME IInv, Push PROVE IInv'
  OBVIOUS
<1> USE DEF IInv
<1>0. /\ UNCHANGED <<clock, main, tick, locked, in_hand, known, pending, file, tmp, gone, damage,
                     crashes>>
      /\ reader = "received" /\ reader' = "pushed"
      /\ data' = [data EXCEPT ![write_index] = in_hand]
      /\ write_index' = (write_index + 1) % Capacity /\ size' = Min({size + 1, Capacity})
      /\ recorded' = Append(recorded, in_hand)
  BY DEF Push, disk
<1>1. /\ known /\ in_hand \in Samples /\ in_hand.id = Len(recorded) + 1 /\ in_hand # None
      /\ in_hand.ts <= clock /\ \A x \in ToSet(recorded) : x.ts <= in_hand.ts
  BY <1>0, Typed DEF MemoryInv, RecordInv, TypeOK
<1>2. /\ Len(recorded) \in Nat /\ DOMAIN recorded = 1 .. Len(recorded)
      /\ \A x \in ToSet(recorded) : x \in Samples /\ x.id \in 1 .. Len(recorded) /\ x.ts \in Nat
      /\ \A m \in gone : m <= Len(recorded)
      /\ recorded \in Seq(Samples)
  BY SeqIs, SameNumber, SampleIs DEF TypeOK, RecordInv
<1>3. /\ recorded' \in Seq(Samples) /\ Len(recorded') = Len(recorded) + 1
      /\ ToSet(recorded') = ToSet(recorded) \cup {in_hand}
      /\ \A i \in 1 .. Len(recorded) + 1 :
           recorded'[i] = IF i <= Len(recorded) THEN recorded[i] ELSE in_hand
  <2>1. Rising(recorded)
    BY <1>2 DEF Rising, RecordInv
  <2>2. \A x \in ToSet(recorded) : x.id < in_hand.id
    BY <1>1, <1>2
  <2>3. /\ recorded' \in Seq(Samples) /\ ToSet(recorded') = ToSet(recorded) \cup {in_hand}
        /\ Len(recorded') = Len(recorded) + 1
    BY <1>0, <1>1, <1>2, <2>1, <2>2, AppendHas
  <2>4. \A i \in 1 .. Len(recorded) + 1 :
           recorded'[i] = IF i <= Len(recorded) THEN recorded[i] ELSE in_hand
    BY <1>0, <1>1, <1>2, AppendProperties
  <2> QED  BY <2>3, <2>4
<1>4. /\ write_index' \in 0 .. Capacity - 1 /\ size' \in 1 .. Capacity
      /\ size' = IF size < Capacity THEN size + 1 ELSE size
      /\ Recent(Capacity)' =
           [i \in 1 .. size' |-> IF i = size' THEN in_hand
                                 ELSE Recent(Capacity)[i + (size + 1 - size')]]
  BY <1>0, PushShows DEF TypeOK
<1>5. TypeOK'
  <2>1. data' \in [0 .. Capacity - 1 -> Samples \cup {None}]
    BY <1>0, <1>1 DEF TypeOK
  <2>2. size' \in 0 .. Capacity
    BY <1>4, Typed
  <2> QED  BY <1>0, <1>1, <1>3, <1>4, <2>1, <2>2 DEF TypeOK
<1>6. PruneInv'
  BY <1>0, Typed, PruneStays
<1>7. RecordInv'
  <2>1. \A i \in DOMAIN recorded' : recorded'[i].id = i
    <3>1. DOMAIN recorded' = 1 .. Len(recorded) + 1
      BY <1>3, SeqIs
    <3>2. \A i \in 1 .. Len(recorded) : recorded[i].id = i
      BY <1>2 DEF RecordInv
    <3>3. \A i \in 1 .. Len(recorded) + 1 : i <= Len(recorded) => i \in 1 .. Len(recorded)
      BY <1>2
    <3>4. \A i \in 1 .. Len(recorded) + 1 : ~(i <= Len(recorded)) => i = Len(recorded) + 1
      BY <1>2
    <3> QED  BY <1>1, <1>3, <3>1, <3>2, <3>3, <3>4
  <2>2. \A x, y \in ToSet(recorded') : x.id <= y.id => x.ts <= y.ts
    <3>1. \A x, y \in ToSet(recorded) : x.id <= y.id => x.ts <= y.ts
      BY DEF RecordInv
    <3>2. \A y \in ToSet(recorded) : ~(in_hand.id <= y.id)
      BY <1>1, <1>2
    <3>3. in_hand.ts <= in_hand.ts
      BY <1>1, SampleIs
    <3> QED  BY <1>1, <1>3, <3>1, <3>2, <3>3
  <2>3. \A x \in ToSet(recorded') : x.ts <= clock /\ x.ts <= in_hand.ts
    <3>1. in_hand.ts <= in_hand.ts
      BY <1>1, SampleIs
    <3> QED  BY <1>1, <1>3, <3>1 DEF RecordInv
  <2>4. \A m \in gone : m <= Len(recorded')
    BY <1>2, <1>3 DEF TypeOK
  <2> QED  BY <1>0, <1>1, <2>1, <2>2, <2>3, <2>4 DEF RecordInv
<1>8. Logged' = Logged \cup {in_hand} /\ InHand' = InHand
  BY <1>0 DEF Logged, InHand
<1>9. OrderInv'
  BY <1>0, <1>3, <1>8 DEF OrderInv
<1>10. in_hand.id \notin gone /\ in_hand \notin ToSet(recorded)
  BY <1>1, <1>2
<1>11. YoungInv'
  BY <1>0, <1>3, <1>8, <1>10 DEF YoungInv, Cutoff
<1>12. MemoryInv'
  <2> DEFINE shown == Recent(Capacity)
             next == Recent(Capacity)'
             d == size + 1 - size'
  <2>1. /\ shown \in Seq(Samples) /\ Len(shown) = size /\ Rising(shown)
        /\ ToSet(shown) \subseteq ToSet(recorded)
        /\ \A x \in ToSet(recorded) :
             x.id \notin gone /\ shown # <<>> /\ x.id > shown[1].id => x \in ToSet(shown)
        /\ \A x \in ToSet(recorded) :
             x.id \notin gone /\ size < Capacity /\ x.ts >= Cutoff => x \in ToSet(shown)
    BY <1>1 DEF MemoryInv
  <2>2. next = [i \in 1 .. size' |-> IF i = size' THEN in_hand ELSE shown[i + d]]
    BY <1>4
  <2>3. size \in Nat /\ size' \in Nat /\ size' >= 1 /\ (d = 0 \/ d = 1) /\ size' = size + 1 - d
        /\ (size < Capacity <=> d = 0) /\ (size' < Capacity => d = 0)
    <3>1. size \in 0 .. Capacity /\ Capacity \in Nat \ {0}
      BY Typed DEF TypeOK
    <3> QED  BY <1>4, <3>1
  <2> HIDE DEF shown, next, d
  <2>4. DOMAIN shown = 1 .. size /\ \A i \in 1 .. size : shown[i] \in Samples
        /\ shown[i] \in ToSet(shown) /\ shown[i] \in ToSet(recorded)
    BY <2>1, SeqIs
  <2>5. \A i \in 1 .. size' : i # size' => i + d \in 1 .. size
    BY <2>3
  <2>6. next \in Seq(Samples) /\ Len(next) = size' /\ DOMAIN next = 1 .. size'
    <3>1. \A i \in 1 .. size' : next[i] \in Samples
      BY <1>1, <2>2, <2>4, <2>5
    <3>2. next = [i \in 1 .. size' |-> next[i]]
      BY <2>2
    <3> HIDE DEF next
    <3> QED  BY <2>3, <3>1, <3>2
  <2>7. Rising(next)
    <3> SUFFICES ASSUME NEW i \in 1 .. size', NEW j \in 1 .. size', i < j
                 PROVE  next[i].id < next[j].id
      BY <2>6 DEF Rising
    <3>1. i # size' /\ i + d \in 1 .. size /\ next[i] = shown[i + d]
      BY <2>2, <2>3, <2>5
    <3>2. CASE j = size'
      <4>1. next[j] = in_hand /\ shown[i + d] \in ToSet(recorded)
        BY <2>2, <2>4, <3>1, <3>2
      <4> QED  BY <1>1, <1>2, <3>1, <4>1
    <3>3. CASE j # size'
      <4>1. j + d \in 1 .. size /\ next[j] = shown[j + d] /\ i + d < j + d
        BY <2>2, <2>3, <2>5, <3>3
      <4> QED  BY <2>1, <2>4, <3>1, <4>1 DEF Rising
    <3> QED  BY <3>2, <3>3
  <2>8. in_hand \in ToSet(next)
    <3>1. size' \in 1 .. size' /\ next[size'] = in_hand
      BY <2>2, <2>3
    <3> QED  BY <2>6, <3>1 DEF ToSet
  <2>9. ToSet(next) \subseteq ToSet(recorded')
    <3>1. \A i \in 1 .. size' : next[i] \in ToSet(recorded')
      BY <1>3, <2>2, <2>4, <2>5
    <3> QED  BY <2>6, <3>1 DEF ToSet
  <2>10. ASSUME NEW m \in 1 .. size, m > d
         PROVE  shown[m] \in ToSet(next)
    <3>1. m - d \in 1 .. size' /\ m - d # size' /\ (m - d) + d = m
      BY <2>3, <2>10
    <3>2. next[m - d] = shown[m]
      BY <2>2, <3>1
    <3> QED  BY <2>6, <3>1, <3>2 DEF ToSet
  <2>11. ASSUME NEW x \in ToSet(recorded'), x.id \notin gone, next # <<>>, x.id > next[1].id
         PROVE  x \in ToSet(next)
    <3>1. CASE x = in_hand
      BY <2>8, <3>1
    <3>2. CASE x # in_hand
      <4>1. x \in ToSet(recorded) /\ x.id \in Nat /\ x.id < in_hand.id
        BY <1>1, <1>2, <1>3, <3>2
      <4>2. next[1] = IF 1 = size' THEN in_hand ELSE shown[1 + d]
        BY <2>2, <2>3
      <4>3. size' # 1 /\ 1 + d \in 1 .. size /\ next[1] = shown[1 + d] /\ 1 \in 1 .. size
        <5>1. size' # 1
          BY <1>1, <1>2, <2>11, <4>1, <4>2
        <5>2. 1 + d \in 1 .. size /\ 1 \in 1 .. size
          BY <2>3, <5>1
        <5> QED  BY <4>2, <5>1, <5>2
      <4>4. shown[1].id \in Nat /\ shown[1 + d].id \in Nat
        BY <2>4, <4>3, SampleIs
      <4>5. d = 1 => shown[1].id < shown[1 + d].id
        BY <2>1, <2>4, <4>3 DEF Rising
      <4>6. x.id > shown[1].id /\ shown # <<>>
        <5>1. shown # <<>>
          BY <2>1, <4>3
        <5>2. d = 0 => shown[1] = shown[1 + d]
          OBVIOUS
        <5>3. x.id > shown[1 + d].id
          BY <2>11, <4>3
        <5> QED  BY <2>3, <4>1, <4>4, <4>5, <5>1, <5>2, <5>3
      <4>7. x \in ToSet(shown)
        BY <2>1, <2>11, <4>1, <4>6
      <4>8. PICK m \in 1 .. size : x = shown[m]
        BY <2>1, <4>7, SeqIs
      <4>9. m # 1
        BY <4>4, <4>6, <4>8
      <4> QED  BY <2>3, <2>10, <4>8, <4>9
    <3> QED  BY <3>1, <3>2
  <2>12. ASSUME NEW x \in ToSet(recorded'), x.id \notin gone, size' < Capacity, x.ts >= Cutoff
         PROVE  x \in ToSet(next)
    <3>1. CASE x = in_hand
      BY <2>8, <3>1
    <3>2. CASE x # in_hand
      <4>1. x \in ToSet(shown) /\ d = 0
        BY <1>3, <2>1, <2>3, <2>12, <3>2
      <4>2. PICK m \in 1 .. size : x = shown[m]
        BY <2>1, <4>1, SeqIs
      <4> QED  BY <2>3, <2>10, <4>1, <4>2
    <3> QED  BY <3>1, <3>2
  <2>13. known' /\ gone' = gone /\ Cutoff' = Cutoff
    BY <1>0, <1>1 DEF Cutoff
  <2>14. /\ next \in Seq(Samples) /\ Len(next) = size' /\ Rising(next)
         /\ ToSet(next) \subseteq ToSet(recorded')
         /\ \A x \in ToSet(recorded') :
              x.id \notin gone /\ next # <<>> /\ x.id > next[1].id => x \in ToSet(next)
         /\ \A x \in ToSet(recorded') :
              x.id \notin gone /\ size' < Capacity /\ x.ts >= Cutoff => x \in ToSet(next)
    BY <2>6, <2>7, <2>9, <2>11, <2>12
  <2> QED  BY <2>13, <2>14 DEF MemoryInv, next
<1> QED  BY <1>5, <1>6, <1>7, <1>9, <1>11, <1>12

(* The sample joins what is pending, or is written with it. *)
LEMMA AppendToLogHolds == IInv /\ AppendToLog => IInv'
<1> SUFFICES ASSUME IInv, AppendToLog PROVE IInv'
  OBVIOUS
<1> USE DEF IInv
<1> DEFINE buffer == Append(pending, in_hand)
<1>0. /\ UNCHANGED <<clock, main, tick, locked, known, data, write_index, size, tmp, recorded,
                     crashes>>
      /\ reader = "pushed" /\ ~locked /\ reader' = "idle" /\ in_hand' = None
      /\ \/ ~BatchIsFull(buffer) /\ pending' = buffer /\ UNCHANGED <<file, gone, damage>>
         \/ BatchIsFull(buffer) /\ pending' = <<>> /\ Write(buffer)
  BY DEF AppendToLog, MayAppend, memory
<1>1. /\ in_hand \in Samples /\ in_hand # None /\ ToSet(InHand) = {in_hand}
      /\ file \in Seq(Samples) /\ pending \in Seq(Samples) /\ damage \in 0 .. MaxFailures
  BY <1>0, Typed DEF TypeOK
<1>2. /\ Rising(file) /\ Rising(pending) /\ Before(file, pending)
      /\ \A x \in ToSet(file) \cup ToSet(pending) : x.id < in_hand.id
  BY <1>1 DEF OrderInv, Before
<1>3. /\ buffer \in Seq(Samples) /\ ToSet(buffer) = ToSet(pending) \cup {in_hand}
      /\ Rising(buffer) /\ Len(buffer) = Len(pending) + 1
  BY <1>1, <1>2, AppendHas
<1> HIDE DEF buffer
<1>4. Before(file, buffer)
  BY <1>2, <1>3 DEF Before
<1>5. InHand' = <<>> /\ ToSet(InHand') = {}
  BY <1>0, NoneIs DEF InHand
<1>6. Logged = ToSet(file) \cup ToSet(buffer) /\ Logged' = ToSet(file') \cup ToSet(pending')
  BY <1>0, <1>3 DEF Logged
<1>7. PruneInv'
  BY <1>0 DEF PruneInv
<1>8. ASSUME file' \in Seq(Samples), pending' \in Seq(Samples), Rising(file'), Rising(pending'),
             Before(file', pending'), Len(pending') < FlushBatch, damage' \in 0 .. MaxFailures,
             NEW lost, lost \subseteq ToSet(buffer), gone' = gone \cup {x.id : x \in lost},
             ToSet(file') \cup ToSet(pending') = ToSet(file) \cup (ToSet(buffer) \ lost)
      PROVE  IInv'
  <2>1. \A x \in lost : x \notin ToSet(file)
    <3>1. ToSet(buffer) \subseteq Samples
      BY <1>3, SeqIs
    <3> QED  BY <1>4, <1>8, <3>1, SampleIs DEF Before
  <2>2. /\ lost \subseteq Logged /\ Logged' \subseteq Logged
        /\ \A x \in Logged : x.ts >= Cutoff => (x \in Logged' <=> x \notin lost)
    BY <1>6, <1>8, <2>1
  <2>3. /\ YoungInv' /\ RecordInv' /\ Logged' \subseteq ToSet(recorded')
        /\ gone \subseteq gone' /\ gone' \subseteq 1 .. MaxSamples
    BY <1>0, <1>8, <2>2, LogStep
  <2>4. TypeOK'
    BY <1>0, <1>8, <2>3 DEF TypeOK
  <2>5. OrderInv'
    BY <1>5, <1>8, <2>3 DEF OrderInv, Before
  <2>6. MemoryInv'
    <3>1. known
      BY <1>0 DEF MemoryInv
    <3> QED  BY <1>0, <2>3, <3>1, Typed, MemoryStays
  <2> QED  BY <1>7, <2>3, <2>4, <2>5, <2>6
<1>9. CASE ~BatchIsFull(buffer) /\ pending' = buffer /\ UNCHANGED <<file, gone, damage>>
  <2>1. Len(pending') < FlushBatch
    <3>1. Len(buffer) \in Nat /\ FlushBatch \in Nat
      BY <1>3, Typed, SeqIs
    <3> QED  BY <1>9, <3>1 DEF BatchIsFull
  <2>2. /\ {} \subseteq ToSet(buffer) /\ gone' = gone \cup {x.id : x \in {}}
        /\ ToSet(file') \cup ToSet(pending') = ToSet(file) \cup (ToSet(buffer) \ {})
    BY <1>9
  <2>3. /\ file' \in Seq(Samples) /\ pending' \in Seq(Samples) /\ Rising(file')
        /\ Rising(pending') /\ Before(file', pending') /\ damage' \in 0 .. MaxFailures
    BY <1>1, <1>2, <1>3, <1>4, <1>9
  <2> QED  BY <1>8, <2>1, <2>2, <2>3
<1>10. CASE BatchIsFull(buffer) /\ pending' = <<>> /\ Write(buffer)
  <2>1. /\ file' \in Seq(Samples) /\ Rising(file') /\ damage' \in 0 .. MaxFailures
        /\ \E lost \in SUBSET ToSet(buffer) :
             /\ ToSet(file') = ToSet(file) \cup (ToSet(buffer) \ lost)
             /\ gone' = gone \cup {x.id : x \in lost}
    BY <1>1, <1>2, <1>3, <1>4, <1>10, WriteIs
  <2>2. /\ pending' \in Seq(Samples) /\ Rising(pending') /\ ToSet(pending') = {}
        /\ Before(file', pending') /\ Len(pending') < FlushBatch
    BY <1>10, NoneIs, Typed DEF Before
  <2>3. PICK lost \in SUBSET ToSet(buffer) :
          /\ ToSet(file') = ToSet(file) \cup (ToSet(buffer) \ lost)
          /\ gone' = gone \cup {x.id : x \in lost}
    BY <2>1
  <2>4. ToSet(file') \cup ToSet(pending') = ToSet(file) \cup (ToSet(buffer) \ lost)
    BY <2>2, <2>3
  <2> QED  BY <1>8, <2>1, <2>2, <2>3, <2>4
<1> QED  BY <1>0, <1>9, <1>10

(* A flush, from whichever caller. *)
LEMMA FlushHolds ==
  ASSUME IInv, Flush, UNCHANGED <<clock, locked, reader, in_hand, memory, tmp, recorded, crashes>>,
         tick' \in {"idle", "due"},
         main' \in {"down", "starting", "running", "stopping", "flushed", "stopped"}
  PROVE  IInv'
<1> USE DEF IInv
<1>1. ~locked /\ Write(pending) /\ pending' = <<>>
  BY DEF Flush
<1>2. /\ file' \in Seq(Samples) /\ damage' \in 0 .. MaxFailures
      /\ gone' \subseteq 1 .. MaxSamples
      /\ RecordInv' /\ OrderInv' /\ YoungInv' /\ MemoryInv'
  BY <1>1, PendingIsWritten
<1>3. UNCHANGED <<known, data, write_index, size>>
  BY DEF memory
<1>4. pending' \in Seq(Samples) /\ Len(pending') < FlushBatch
  BY <1>1, NoneIs, Typed
<1>5. TypeOK'
  BY <1>2, <1>3, <1>4 DEF TypeOK
<1>6. PruneInv'
  BY <1>1 DEF PruneInv
<1> QED  BY <1>2, <1>5, <1>6

(* A prune up to its temporary file. *)
LEMMA PruneBeginHolds ==
  ASSUME IInv, PruneBegin, UNCHANGED <<clock, reader, in_hand, memory, recorded, crashes>>,
         tick' \in {"idle", "due"}
  PROVE  IInv'
<1> USE DEF IInv
<1> DEFINE survivors == NotOlderThan(file', Cutoff)
<1>1. ~locked /\ Write(pending) /\ pending' = <<>>
  BY DEF PruneBegin
<1>2. \/ UNCHANGED <<tmp, locked>> /\ main' = AfterPrune
      \/ tmp' = [samples |-> survivors, short |-> FALSE] /\ locked' = TRUE /\ main' = main
      \/ tmp' = None /\ UNCHANGED locked /\ main' = AfterPrune
      \/ /\ damage' < MaxFailures /\ locked' = TRUE /\ main' = main
         /\ \E n \in 0 .. Len(survivors) - 1 :
              tmp' = [samples |-> SubSeq(survivors, 1, n), short |-> TRUE]
  BY DEF PruneBegin
<1>3. /\ file' \in Seq(Samples) /\ Rising(file') /\ damage' \in 0 .. MaxFailures
      /\ gone' \subseteq 1 .. MaxSamples
      /\ RecordInv' /\ OrderInv' /\ YoungInv' /\ MemoryInv'
  BY <1>1, PendingIsWritten
<1>4. survivors \in Seq(Samples) /\ Len(survivors) \in Nat
  BY <1>3, YoungHas, SeqIs
<1> HIDE DEF survivors
<1>5. UNCHANGED <<known, data, write_index, size>>
  BY DEF memory
<1>6. pending' \in Seq(Samples) /\ Len(pending') < FlushBatch
  BY <1>1, NoneIs, Typed
<1>7. main' \in {"down", "starting", "running", "stopping", "flushed", "stopped"}
      /\ locked' \in BOOLEAN
  BY <1>2 DEF TypeOK, AfterPrune
<1>8. tmp' = None \/ (tmp'.samples \in Seq(Samples) /\ tmp'.short \in BOOLEAN)
  <2>1. CASE UNCHANGED <<tmp, locked>>
    BY <2>1 DEF TypeOK
  <2>2. CASE tmp' = [samples |-> survivors, short |-> FALSE]
    BY <1>4, <2>2
  <2>3. CASE \E n \in 0 .. Len(survivors) - 1 :
               tmp' = [samples |-> SubSeq(survivors, 1, n), short |-> TRUE]
    <3>1. PICK n \in 0 .. Len(survivors) - 1 :
               tmp' = [samples |-> SubSeq(survivors, 1, n), short |-> TRUE]
      BY <2>3
    <3>2. n \in 0 .. Len(survivors)
      BY <1>4
    <3>3. SubSeq(survivors, 1, n) \in Seq(Samples)
      BY <1>4, <3>2, PrefixIs
    <3> QED  BY <3>1, <3>3
  <2> QED  BY <1>2, <2>1, <2>2, <2>3
<1>9. TypeOK'
  BY <1>3, <1>5, <1>6, <1>7, <1>8 DEF TypeOK
<1>10. PruneInv'
  <2>1. ~locked' => PruneInv'
    BY DEF PruneInv
  <2>2. /\ Cutoff \in Times /\ Cutoff' = Cutoff /\ Cutoff <= Cutoff
        /\ NotOlderThan(file, Cutoff)' = survivors
    <3>1. Cutoff \in Times /\ Cutoff' = Cutoff /\ Cutoff <= Cutoff
      BY Typed DEF Cutoff
    <3> QED  BY <3>1 DEF survivors, NotOlderThan
  <2>3. CASE tmp' = [samples |-> survivors, short |-> FALSE]
    <3>1. tmp'.samples = survivors /\ tmp'.short = FALSE /\ tmp' # None
      BY <2>3, RecordIsNotNone
    <3> QED  BY <1>1, <2>2, <3>1 DEF PruneInv, Kept, survivors
  <2>4. CASE /\ damage' < MaxFailures
             /\ \E n \in 0 .. Len(survivors) - 1 :
                  tmp' = [samples |-> SubSeq(survivors, 1, n), short |-> TRUE]
    <3>1. PICK n \in 0 .. Len(survivors) - 1 :
               tmp' = [samples |-> SubSeq(survivors, 1, n), short |-> TRUE]
      BY <2>4
    <3>2. tmp'.samples = SubSeq(survivors, 1, n) /\ tmp'.short = TRUE /\ tmp' # None
      BY <3>1, RecordIsNotNone
    <3> QED  BY <1>1, <2>2, <2>4, <3>2 DEF PruneInv, Kept, survivors
  <2> QED  BY <1>1, <1>2, <2>1, <2>3, <2>4
<1> QED  BY <1>3, <1>9, <1>10

(* The temporary becomes the file.  When it is short, the samples a full one
   would have had are lost. *)
LEMMA PruneRenameHolds == IInv /\ PruneRename => IInv'
<1> SUFFICES ASSUME IInv, PruneRename PROVE IInv'
  OBVIOUS
<1> USE DEF IInv
<1>0. /\ UNCHANGED <<clock, tick, reader, in_hand, known, data, write_index, size, pending,
                     recorded, crashes>>
      /\ locked /\ locked' = FALSE /\ main' = AfterPrune
  BY DEF PruneRename, memory
<1>a. \/ /\ file' = tmp.samples /\ tmp' = None
         /\ damage' = IF tmp.short THEN damage + 1 ELSE damage
         /\ gone' = IF tmp.short
                      THEN gone \cup (Ids(NotOlderThan(file, Cutoff)) \ Ids(tmp.samples))
                      ELSE gone
      \/ UNCHANGED <<file, tmp, damage, gone>>
  BY DEF PruneRename, disk
<1>1. main' \in {"down", "starting", "running", "stopping", "flushed", "stopped"}
  BY <1>0 DEF TypeOK, AfterPrune
<1>2. PruneInv'
  BY <1>0 DEF PruneInv
<1>3. CASE UNCHANGED <<file, tmp, damage, gone>>
  <2>1. TypeOK'
    BY <1>0, <1>1, <1>3 DEF TypeOK
  <2>2. RecordInv'
    BY <1>0, <1>3 DEF RecordInv
  <2>3. Logged' = Logged /\ InHand' = InHand
    BY <1>0, <1>3 DEF Logged, InHand
  <2>4. OrderInv' /\ YoungInv'
    BY <1>0, <1>3, <2>3 DEF OrderInv, YoungInv, Cutoff
  <2>5. MemoryInv'
    <3>1. ~known => pending' = <<>> /\ reader' \in {"idle", "due"}
      BY <1>0 DEF MemoryInv
    <3> QED  BY <1>0, <1>3, <3>1, Typed, MemoryStays
  <2> QED  BY <1>2, <2>1, <2>2, <2>4, <2>5
<1>4. CASE /\ file' = tmp.samples /\ tmp' = None
           /\ damage' = IF tmp.short THEN damage + 1 ELSE damage
           /\ gone' = IF tmp.short
                        THEN gone \cup (Ids(NotOlderThan(file, Cutoff)) \ Ids(tmp.samples))
                        ELSE gone
  <2>1. /\ tmp # None /\ pending = <<>>
        /\ tmp.short => damage < MaxFailures
        /\ \E time \in Times : time <= Cutoff /\ Kept(time)
    BY <1>0 DEF PruneInv
  <2>2. PICK time \in Times : time <= Cutoff /\ Kept(time)
    BY <2>1
  <2>3. file \in Seq(Samples) /\ Rising(file) /\ Before(file, InHand) /\ tmp.short \in BOOLEAN
    BY <2>1 DEF TypeOK, OrderInv
  <2>4. /\ tmp.samples \in Seq(Samples) /\ Rising(tmp.samples)
        /\ ToSet(tmp.samples) \subseteq {x \in ToSet(file) : x.ts >= time}
        /\ ~tmp.short => ToSet(tmp.samples) = {x \in ToSet(file) : x.ts >= time}
    BY <2>2, <2>3, KeptIs
  <2> DEFINE kept == ToSet(tmp.samples)
             hand == IF reader = "pushed" THEN {in_hand} ELSE {}
             lost == IF tmp.short
                       THEN {x \in ToSet(file) : x.ts >= Cutoff /\ x \notin kept}
                       ELSE {}
  <2>5. Logged = ToSet(file) \cup hand /\ Logged' = kept \cup hand
    <3>1. ToSet(pending) = {} /\ ToSet(pending') = {}
      BY <1>0, <2>1, NoneIs
    <3> QED  BY <1>0, <1>4, <3>1 DEF Logged
  <2>6. /\ \A x \in ToSet(file) : x \in Samples /\ x.ts \in Nat /\ x \in ToSet(recorded)
        /\ time \in Int /\ Cutoff \in Int /\ time <= Cutoff
        /\ \A x, y \in ToSet(recorded) : x.id = y.id => x = y
    <3>1. \A x \in ToSet(file) : x \in Samples
      BY Typed
    <3>2. \A x \in ToSet(file) : x \in ToSet(recorded)
      BY DEF OrderInv, Logged
    <3>3. time \in Int /\ Cutoff \in Int
      BY <2>2, Typed DEF Times
    <3>4. \A x, y \in ToSet(recorded) : x.id = y.id => x = y
      BY SameNumber DEF TypeOK
    <3> QED  BY <2>2, <3>1, <3>2, <3>3, <3>4, SampleIs
  <2>7. \A x \in hand : x \notin ToSet(file)
    <3> SUFFICES ASSUME reader = "pushed" PROVE in_hand \notin ToSet(file)
      OBVIOUS
    <3>1. in_hand \in Samples /\ ToSet(InHand) = {in_hand}
      BY Typed DEF TypeOK
    <3> QED  BY <2>3, <3>1, SampleIs DEF Before
  <2>8. gone' = gone \cup {x.id : x \in lost}
    <3>1. CASE ~tmp.short
      BY <1>4, <3>1
    <3>2. CASE tmp.short
      <4>1. /\ Ids(NotOlderThan(file, Cutoff)) = {x.id : x \in {y \in ToSet(file) : y.ts >= Cutoff}}
            /\ Ids(tmp.samples) = {x.id : x \in kept}
        <5>1. /\ NotOlderThan(file, Cutoff) \in Seq(Samples)
              /\ ToSet(NotOlderThan(file, Cutoff)) = {x \in ToSet(file) : x.ts >= Cutoff}
          BY <2>3, YoungHas
        <5> QED  BY <2>4, <5>1, IdsIs
      <4>2. \A x \in ToSet(file) : x.id \in {y.id : y \in kept} <=> x \in kept
        <5>1. \A x \in kept : x \in ToSet(file)
          BY <2>4
        <5> HIDE DEF kept
        <5> QED  BY <2>6, <5>1
      <4> HIDE DEF kept
      <4>3. Ids(NotOlderThan(file, Cutoff)) \ Ids(tmp.samples) = {x.id : x \in lost}
        BY <3>2, <4>1, <4>2
      <4> HIDE DEF lost
      <4> QED  BY <1>4, <3>2, <4>3
    <3> QED  BY <3>1, <3>2
  <2>9. /\ lost \subseteq Logged /\ Logged' \subseteq Logged
        /\ \A x \in Logged : x.ts >= Cutoff => (x \in Logged' <=> x \notin lost)
    <3>1. kept \subseteq ToSet(file) /\ lost \subseteq ToSet(file)
      BY <2>4
    <3>2. ASSUME NEW x \in ToSet(file), x.ts >= Cutoff PROVE x \in kept <=> x \notin lost
      <4>1. x.ts >= time
        BY <2>6, <3>2
      <4> QED  BY <2>4, <3>2, <4>1
    <3>3. \A x \in hand : x \notin lost
      BY <2>7, <3>1
    <3> HIDE DEF kept, lost, hand
    <3> QED  BY <2>5, <3>1, <3>2, <3>3
  <2> HIDE DEF lost, hand
  <2>10. /\ YoungInv' /\ RecordInv' /\ Logged' \subseteq ToSet(recorded')
         /\ gone \subseteq gone' /\ gone' \subseteq 1 .. MaxSamples
    BY <1>0, <2>8, <2>9, LogStep
  <2>11. TypeOK'
    <3>1. damage' \in 0 .. MaxFailures
      BY <1>4, <2>1, <2>3, Typed DEF TypeOK
    <3> QED  BY <1>0, <1>1, <1>4, <2>4, <2>10, <3>1 DEF TypeOK
  <2>12. OrderInv'
    <3>1. ToSet(file') \subseteq ToSet(file) /\ Rising(file')
      BY <1>4, <2>4
    <3>2. Before(file', pending') /\ Before(file', InHand') /\ InHand' = InHand
      BY <1>0, <3>1 DEF OrderInv, Before, InHand
    <3> QED  BY <1>0, <2>10, <3>1, <3>2 DEF OrderInv
  <2>13. MemoryInv'
    <3>1. ~known => pending' = <<>> /\ reader' \in {"idle", "due"}
      BY <1>0 DEF MemoryInv
    <3> QED  BY <1>0, <2>10, <3>1, Typed, MemoryStays
  <2> QED  BY <1>2, <2>10, <2>11, <2>12, <2>13
<1> QED  BY <1>a, <1>3, <1>4

(* The process ends, with what is pending and what is in hand. *)
LEMMA LosesMemoryHolds ==
  ASSUME IInv, LosesMemory, main' = "down", crashes' \in 0 .. MaxCrashes
  PROVE  IInv'
<1> USE DEF IInv
<1>0. /\ tick' = "idle" /\ locked' = FALSE /\ reader' = "idle" /\ in_hand' = None
      /\ known' = FALSE /\ data' = [k \in 0 .. Capacity - 1 |-> None]
      /\ write_index' = 0 /\ size' = 0 /\ pending' = <<>>
      /\ gone' = gone \cup Ids(pending) \cup (IF reader = "pushed" THEN {in_hand.id} ELSE {})
      /\ UNCHANGED <<clock, file, tmp, recorded, damage>>
  BY DEF LosesMemory, disk
<1> DEFINE hand == IF reader = "pushed" THEN {in_hand} ELSE {}
           lost == ToSet(pending) \cup hand
<1>1. Logged = ToSet(file) \cup lost /\ Logged' = ToSet(file)
  <2>1. ToSet(pending') = {}
    BY <1>0, NoneIs
  <2> QED  BY <1>0, <2>1 DEF Logged
<1>2. \A x \in lost : x \notin ToSet(file)
  <2>1. /\ ToSet(pending) \subseteq Samples
        /\ reader = "pushed" => in_hand \in Samples /\ ToSet(InHand) = {in_hand}
    BY Typed DEF TypeOK
  <2>2. Before(file, pending) /\ Before(file, InHand)
    BY DEF OrderInv
  <2> QED  BY <2>1, <2>2, SampleIs DEF Before
<1>3. gone' = gone \cup {x.id : x \in lost}
  <2>1. Ids(pending) = {x.id : x \in ToSet(pending)}
    BY IdsIs DEF TypeOK
  <2> QED  BY <1>0, <2>1
<1> HIDE DEF lost
<1>4. /\ lost \subseteq Logged /\ Logged' \subseteq Logged
      /\ \A x \in Logged : x.ts >= Cutoff => (x \in Logged' <=> x \notin lost)
  BY <1>1, <1>2
<1>5. /\ YoungInv' /\ RecordInv' /\ Logged' \subseteq ToSet(recorded')
      /\ gone \subseteq gone' /\ gone' \subseteq 1 .. MaxSamples
  BY <1>0, <1>3, <1>4, LogStep
<1>6. TypeOK'
  <2>1. write_index' \in 0 .. Capacity - 1 /\ size' \in 0 .. Capacity
        /\ data' \in [0 .. Capacity - 1 -> Samples \cup {None}]
    BY <1>0, WalAssumption
  <2>2. pending' \in Seq(Samples) /\ Len(pending') < FlushBatch
    BY <1>0, NoneIs, Typed
  <2> QED  BY <1>0, <1>5, <2>1, <2>2 DEF TypeOK
<1>7. PruneInv' /\ MemoryInv'
  BY <1>0 DEF PruneInv, MemoryInv
<1>8. OrderInv'
  <2>1. InHand' = <<>> /\ ToSet(<<>>) = {} /\ Rising(<<>>)
    BY <1>0, NoneIs DEF InHand
  <2> QED  BY <1>0, <1>5, <2>1 DEF OrderInv, Before
<1> QED  BY <1>5, <1>6, <1>7, <1>8

LEMMA NextHolds == IInv /\ [Next]_vars => IInv'
<1> SUFFICES ASSUME IInv, [Next]_vars PROVE IInv'
  OBVIOUS
<1>0. tick \in {"idle", "due"} /\ crashes \in 0 .. MaxCrashes
      /\ main \in {"down", "starting", "running", "stopping", "flushed", "stopped"}
  BY DEF IInv, TypeOK
<1>1. CASE FinishCycle \/ GetOrCreate \/ Push \/ AppendToLog \/ PruneRename \/ ClockTicks
  BY <1>1, FinishCycleHolds, GetOrCreateHolds, PushHolds, AppendToLogHolds, PruneRenameHolds,
     ClockTicksHolds
<1>2. CASE PruneAtStart
  BY <1>0, <1>2, PruneBeginHolds DEF PruneAtStart
<1>3. CASE Maintain
  <2>1. CASE PruneBegin
    BY <1>0, <1>3, <2>1, PruneBeginHolds DEF Maintain
  <2>2. CASE Flush /\ UNCHANGED <<main, locked, tmp>>
    BY <1>0, <1>3, <2>2, FlushHolds DEF Maintain
  <2> QED  BY <1>3, <2>1, <2>2 DEF Maintain
<1>4. CASE History \/ FinalFlush
  BY <1>0, <1>4, FlushHolds DEF History, FinalFlush
<1>5. CASE MaintenanceTimer \/ Start \/ StopRequested \/ Join
  BY <1>0, <1>5, QuietHolds DEF MaintenanceTimer, Start, StopRequested, Join
<1>6. CASE Exit
  BY <1>0, <1>6, LosesMemoryHolds DEF Exit
<1>7. CASE Crash
  <2>1. crashes' \in 0 .. MaxCrashes
    BY <1>0, <1>7, WalAssumption DEF Crash
  <2> QED  BY <1>7, <2>1, LosesMemoryHolds DEF Crash
<1>8. CASE UNCHANGED vars
  BY <1>0, <1>8, QuietHolds DEF vars
<1> QED  BY <1>1, <1>2, <1>3, <1>4, <1>5, <1>6, <1>7, <1>8 DEF Next, Handlers

LEMMA Invariance == Spec => []IInv
BY InitHolds, NextHolds, PTL DEF Spec
-----------------------------------------------------------------------------
(* The properties. *)

(* Every variable keeps its type: the ring's slots and indices stay within
   the capacity, fewer than a batch is pending, a sample is in hand exactly
   while a record() is under way (storage/series_store.hpp,
   storage/ring_buffer.hpp, storage/wal_writer.hpp). *)
THEOREM TypeCorrectness == Spec => []TypeOK
<1>1. IInv => TypeOK
  BY DEF IInv
<1> QED  BY <1>1, Invariance, PTL

LEMMA YoungSurvive == IInv => YoungSamplesSurvive
<1> SUFFICES ASSUME IInv PROVE YoungSamplesSurvive
  OBVIOUS
<1> USE DEF IInv
<1> DEFINE hand == IF reader = "pushed" THEN <<in_hand>> ELSE <<>>
           appended == file \o pending \o hand
           wanted == {x \in Samples : x.ts >= clock - Retention /\ x.id \notin gone}
<1>1. file \in Seq(Samples) /\ pending \in Seq(Samples) /\ recorded \in Seq(Samples)
  BY DEF TypeOK
<1>2. /\ hand \in Seq(Samples) /\ Rising(hand)
      /\ ToSet(hand) = IF reader = "pushed" THEN {in_hand} ELSE {}
      /\ ToSet(hand) \subseteq ToSet(InHand)
  <2>1. CASE reader = "pushed"
    <3>1. in_hand \in Samples /\ ToSet(InHand) = {in_hand}
      BY <2>1, Typed DEF TypeOK
    <3> QED  BY <2>1, <3>1, OneIs
  <2>2. CASE reader # "pushed"
    BY <2>2, NoneIs
  <2> QED  BY <2>1, <2>2
<1> HIDE DEF hand
<1>3. /\ Rising(file) /\ Rising(pending) /\ Before(file, pending)
      /\ Before(file, hand) /\ Before(pending, hand)
  BY <1>2 DEF OrderInv, Before
<1>4. /\ file \o pending \in Seq(Samples) /\ ToSet(file \o pending) = ToSet(file) \cup ToSet(pending)
      /\ Rising(file \o pending)
  BY <1>1, <1>3, ConcatIs, ConcatRises
<1>5. Before(file \o pending, hand)
  BY <1>3, <1>4 DEF Before
<1>6. appended \in Seq(Samples) /\ ToSet(appended) = Logged /\ Rising(appended)
  <2> DEFINE both == file \o pending
  <2> HIDE DEF both
  <2>1. both \in Seq(Samples) /\ Rising(both) /\ Before(both, hand)
        /\ ToSet(both) = ToSet(file) \cup ToSet(pending)
    BY <1>4, <1>5 DEF both
  <2>2. /\ both \o hand \in Seq(Samples) /\ ToSet(both \o hand) = ToSet(both) \cup ToSet(hand)
        /\ Rising(both \o hand)
    BY <1>2, <2>1, ConcatIs, ConcatRises
  <2>3. ToSet(both) \cup ToSet(hand) = Logged
    BY <1>2, <2>1 DEF Logged
  <2> QED  BY <2>2, <2>3 DEF both
<1> HIDE DEF appended
<1>7. Rising(recorded)
  BY DEF RecordInv, Rising
<1>8. /\ NotOlderThan(appended, clock - Retention) \in Seq(Samples)
      /\ Rising(NotOlderThan(appended, clock - Retention))
      /\ ToSet(NotOlderThan(appended, clock - Retention))
           = {x \in Logged : x.ts >= clock - Retention}
  BY <1>6, YoungHas
<1>9. /\ Only(recorded, wanted) \in Seq(Samples) /\ Rising(Only(recorded, wanted))
      /\ ToSet(Only(recorded, wanted)) = ToSet(recorded) \cap wanted
  BY <1>1, <1>7, OnlyHas
<1>10. {x \in Logged : x.ts >= clock - Retention} = ToSet(recorded) \cap wanted
  <2>1. Logged \subseteq Samples
    BY Typed
  <2>2. \A x \in Samples : x.ts >= clock - Retention =>
          (x \in Logged <=> x \in ToSet(recorded) /\ x.id \notin gone)
    BY DEF YoungInv, Cutoff
  <2> QED  BY <2>1, <2>2
<1> HIDE DEF wanted
<1>11. NotOlderThan(appended, clock - Retention) = Only(recorded, wanted)
  BY <1>8, <1>9, <1>10, SameElements
<1> QED  BY <1>11 DEF YoungSamplesSurvive, appended, hand, wanted

(* Whatever happens to the process, the prunes and the disk, the samples of
   the retention period that neither a crash nor a refused write took are in
   the log exactly once and in order (wal_writer.hpp append, flush and
   prune_older_than). *)
THEOREM YoungSamplesAreKept == Spec => []YoungSamplesSurvive
BY Invariance, YoungSurvive, PTL

(* The ring shows samples the log accounts for, in order and without a gap,
   and leaves a young one out only for want of room (series_store.hpp
   get_or_create and record). *)
THEOREM TheRingFollowsTheLog == Spec => []MemoryFollowsLog
<1>1. IInv => MemoryFollowsLog
  <2> SUFFICES ASSUME IInv, known PROVE MemoryFollowsLog
    BY DEF MemoryFollowsLog
  <2> DEFINE shown == Recent(Capacity)
  <2>1. /\ shown \in Seq(Samples) /\ Len(shown) = size /\ Rising(shown)
        /\ \A x \in ToSet(recorded) :
             x.id \notin gone /\ shown # <<>> /\ x.id > shown[1].id => x \in ToSet(shown)
        /\ \A x \in ToSet(recorded) :
             x.id \notin gone /\ size < Capacity /\ x.ts >= Cutoff => x \in ToSet(shown)
    BY DEF IInv, MemoryInv
  <2> HIDE DEF shown
  <2>2. Len(shown) \in Nat /\ DOMAIN shown = 1 .. Len(shown)
    BY <2>1, SeqIs
  <2>3. \A i \in 1 .. Len(shown) : shown[i] # None
    BY <2>1, SeqIs, SampleIs
  <2>4. \A i \in 1 .. Len(shown) - 1 : shown[i].id < shown[i + 1].id
    <3> SUFFICES ASSUME NEW i \in 1 .. Len(shown) - 1 PROVE shown[i].id < shown[i + 1].id
      OBVIOUS
    <3>1. i \in DOMAIN shown /\ i + 1 \in DOMAIN shown /\ i < i + 1
      BY <2>2
    <3> QED  BY <2>1, <3>1 DEF Rising
  <2>5. \A x \in ToSet(recorded) :
          /\ x.id \notin gone /\ shown # <<>> /\ x.id > shown[1].id => x \in ToSet(shown)
          /\ x.id \notin gone /\ size < Capacity /\ x.ts >= clock - Retention
               => x \in ToSet(shown)
    BY <2>1 DEF Cutoff
  <2> QED  BY <2>3, <2>4, <2>5 DEF MemoryFollowsLog, shown
<1> QED  BY <1>1, Invariance, PTL
-----------------------------------------------------------------------------
(* The log as a journal. *)

LEMMA JournalYoung ==
  \A s, time : Journal!NotOlderThan(s, time) = NotOlderThan(s, time)
BY DEF Journal!NotOlderThan, NotOlderThan, Journal!Only, Only

LEMMA AllAreYoung ==
  ASSUME NEW s \in Seq(Samples), Rising(s)
  PROVE  /\ 0 - Retention \in Times
         /\ NotOlderThan(s, 0 - Retention) = s
<1>1. Retention \in Nat /\ MaxTime \in Nat
  BY WalAssumption
<1>2. \A x \in ToSet(s) : x.ts >= 0 - Retention
  BY <1>1, SeqIs, SampleIs
<1>3. /\ NotOlderThan(s, 0 - Retention) \in Seq(Samples)
      /\ Rising(NotOlderThan(s, 0 - Retention))
      /\ ToSet(NotOlderThan(s, 0 - Retention)) = ToSet(s)
  BY <1>2, YoungHas
<1>4. NotOlderThan(s, 0 - Retention) = s
  BY <1>3, SameElements
<1> QED  BY <1>1, <1>4 DEF Times

LEMMA PrefixWhen ==
  ASSUME NEW s \in Seq(Samples), NEW t \in Seq(Samples), Len(s) <= Len(t),
         \A i \in 1 .. Len(s) : s[i] = t[i]
  PROVE  Journal!IsPrefix(s, t)
<1>1. Len(s) \in Nat /\ Len(t) \in Nat
  BY SeqIs
<1>2. SubSeq(s, 1, Len(s)) = SubSeq(t, 1, Len(s))
  <2>1. SubSeq(s, 1, Len(s)) = s
    BY <1>1, SubSeqFull
  <2>2. /\ SubSeq(t, 1, Len(s)) \in Seq(Samples) /\ Len(SubSeq(t, 1, Len(s))) = Len(s)
        /\ \A i \in 1 .. Len(s) : SubSeq(t, 1, Len(s))[i] = t[i]
    <3>1. Len(s) \in 0 .. Len(t)
      BY <1>1
    <3> QED  BY <3>1, PrefixIs
  <2> QED  BY <2>1, <2>2, SeqEqual
<1> QED  BY <1>2 DEF Journal!IsPrefix

(* A write the disk refuses keeps a prefix of what it should have kept. *)
LEMMA WriteIsPrefix ==
  ASSUME NEW s \in Seq(Samples), NEW t \in Seq(Samples), NEW n \in 0 .. Len(t)
  PROVE  Journal!IsPrefix(s \o SubSeq(t, 1, n), s \o t)
<1> DEFINE a == SubSeq(t, 1, n)
<1>1. Len(s) \in Nat /\ Len(t) \in Nat
  BY SeqIs
<1>2. a \in Seq(Samples) /\ Len(a) = n /\ \A i \in 1 .. n : a[i] = t[i]
  BY PrefixIs
<1> HIDE DEF a
<1>3. /\ s \o a \in Seq(Samples) /\ Len(s \o a) = Len(s) + n
      /\ \A i \in 1 .. Len(s) + n : (s \o a)[i] = IF i <= Len(s) THEN s[i] ELSE a[i - Len(s)]
  BY <1>2, ConcatProperties
<1>4. /\ s \o t \in Seq(Samples) /\ Len(s \o t) = Len(s) + Len(t)
      /\ \A i \in 1 .. Len(s) + Len(t) :
           (s \o t)[i] = IF i <= Len(s) THEN s[i] ELSE t[i - Len(s)]
  BY ConcatProperties
<1>5. ASSUME NEW i \in 1 .. Len(s) + n PROVE (s \o a)[i] = (s \o t)[i]
  <2>1. i \in 1 .. Len(s) + Len(t) /\ (~(i <= Len(s)) => i - Len(s) \in 1 .. n)
    BY <1>1
  <2> QED  BY <1>2, <1>3, <1>4, <2>1
<1>6. Len(s \o a) <= Len(s \o t)
  BY <1>1, <1>3, <1>4
<1>7. Journal!IsPrefix(s \o a, s \o t)
  <2> DEFINE u == s \o a
             v == s \o t
  <2>1. u \in Seq(Samples) /\ v \in Seq(Samples) /\ Len(u) <= Len(v)
        /\ \A i \in 1 .. Len(u) : u[i] = v[i]
    BY <1>3, <1>4, <1>5, <1>6
  <2> HIDE DEF u, v
  <2>2. Journal!IsPrefix(u, v)
    BY <2>1, PrefixWhen
  <2> QED  BY <2>2 DEF u, v
<1> QED  BY <1>7 DEF a

LEMMA FirstsArePrefix ==
  ASSUME NEW t \in Seq(Samples), NEW n \in 0 .. Len(t)
  PROVE  Journal!IsPrefix(SubSeq(t, 1, n), t)
<1>1. Journal!IsPrefix(<<>> \o SubSeq(t, 1, n), <<>> \o t)
  BY NoneIs, WriteIsPrefix
<1>2. SubSeq(t, 1, n) \in Seq(Samples)
  BY PrefixIs
<1>3. <<>> \o SubSeq(t, 1, n) = SubSeq(t, 1, n) /\ <<>> \o t = t
  BY <1>2, ConcatEmptySeq
<1> QED  BY <1>1, <1>3

(* A write: all of it, or damage. *)
LEMMA WriteImplements ==
  ASSUME IInv, NEW s \in Seq(Samples), Rising(s), Before(file, s), Write(s)
  PROVE  \/ file' = file \o s /\ damage' = damage
         \/ /\ damage' = damage + 1
            /\ Journal!IsPrefix(file', Journal!NotOlderThan(file \o s, 0 - Retention))
<1>1. PICK n \in 0 .. Len(s) :
        /\ n = Len(s) \/ damage < MaxFailures
        /\ file' = file \o SubSeq(s, 1, n)
        /\ damage' = IF n = Len(s) THEN damage ELSE damage + 1
        /\ gone' = gone \cup Ids(SubSeq(s, n + 1, Len(s)))
  BY DEF Write
<1>2. file \in Seq(Samples) /\ Rising(file) /\ Len(s) \in Nat
  BY SeqIs DEF IInv, TypeOK, OrderInv
<1>3. CASE n = Len(s)
  <2>1. SubSeq(s, 1, Len(s)) = s
    BY SubSeqFull
  <2> QED  BY <1>1, <1>3, <2>1
<1>4. CASE n # Len(s)
  <2> DEFINE all == file \o s
  <2>1. all \in Seq(Samples) /\ Rising(all)
    BY <1>2, ConcatIs, ConcatRises
  <2>2. Journal!IsPrefix(file', all)
    BY <1>1, <1>2, WriteIsPrefix
  <2> HIDE DEF all
  <2>3. Journal!NotOlderThan(all, 0 - Retention) = all
    BY <2>1, AllAreYoung, JournalYoung
  <2> QED  BY <1>1, <1>4, <2>2, <2>3 DEF all
<1> QED  BY <1>3, <1>4

LEMMA PendingImplements ==
  ASSUME IInv, Write(pending), pending' = <<>>
  PROVE  Journal!Persist \/ Journal!Damage
<1>1. file \in Seq(Samples) /\ pending \in Seq(Samples) /\ Rising(pending) /\ Before(file, pending)
  BY DEF IInv, TypeOK, OrderInv
<1>2. CASE file' = file \o pending /\ damage' = damage
  BY <1>2 DEF Journal!Persist
<1>3. CASE /\ damage' = damage + 1
           /\ Journal!IsPrefix(file', Journal!NotOlderThan(file \o pending, 0 - Retention))
  <2>1. (file \o pending) \o <<>> = file \o pending
    <3>1. file \o pending \in Seq(Samples)
      BY <1>1, ConcatIs
    <3> QED  BY <3>1, ConcatEmptySeq
  <2>2. 0 - Retention \in (0 - Retention) .. MaxTime
    BY WalAssumption
  <2>3. Journal!IsPrefix(file', Journal!NotOlderThan((file \o pending) \o
                                  (IF <<>> = <<>> THEN <<>> ELSE <<<<>>>>), 0 - Retention))
    BY <1>3, <2>1
  <2>4. <<>> \in Samples \cup {<<>>}
    OBVIOUS
  <2> QED  BY <1>3, <2>2, <2>3, <2>4 DEF Journal!Damage
<1> QED  BY <1>1, <1>2, <1>3, WriteImplements

LEMMA AppendImplements ==
  ASSUME IInv, AppendToLog
  PROVE  Journal!Next
<1> DEFINE buffer == Append(pending, in_hand)
<1>0. /\ reader = "pushed"
      /\ \/ ~BatchIsFull(buffer) /\ pending' = buffer /\ UNCHANGED <<file, gone, damage>>
         \/ BatchIsFull(buffer) /\ pending' = <<>> /\ Write(buffer)
  BY DEF AppendToLog, MayAppend
<1>1. /\ in_hand \in Samples /\ in_hand # None /\ ToSet(InHand) = {in_hand}
      /\ file \in Seq(Samples) /\ pending \in Seq(Samples)
  BY <1>0, Typed DEF IInv, TypeOK
<1>2. /\ Rising(pending) /\ Before(file, pending)
      /\ \A x \in ToSet(file) \cup ToSet(pending) : x.id < in_hand.id
  BY <1>1 DEF IInv, OrderInv, Before
<1>3. /\ buffer \in Seq(Samples) /\ ToSet(buffer) = ToSet(pending) \cup {in_hand}
      /\ Rising(buffer) /\ Len(buffer) = Len(pending) + 1
  BY <1>1, <1>2, AppendHas
<1>4. (file \o pending) \o <<in_hand>> = file \o buffer
  <2> DEFINE one == <<in_hand>>
  <2>1. one \in Seq(Samples)
    BY <1>1, OneIs
  <2> HIDE DEF one
  <2>2. (file \o pending) \o one = file \o (pending \o one)
    BY <1>1, <2>1, ConcatAssociative
  <2>3. buffer = pending \o one
    BY <1>1, AppendIsConcat DEF one
  <2> HIDE DEF buffer
  <2> QED  BY <2>2, <2>3 DEF one
<1>5. CASE ~BatchIsFull(buffer) /\ pending' = buffer /\ UNCHANGED <<file, gone, damage>>
  <2>1. Len(pending) + 1 < FlushBatch
    BY <1>1, <1>3, <1>5, Typed, SeqIs DEF BatchIsFull, IInv
  <2>2. Journal!Append1(in_hand)
    BY <1>5, <2>1 DEF Journal!Append1
  <2> QED  BY <1>1, <2>2 DEF Journal!Next
<1>6. CASE BatchIsFull(buffer) /\ pending' = <<>> /\ Write(buffer)
  <2>1. Before(file, buffer)
    <3> HIDE DEF buffer
    <3> QED  BY <1>2, <1>3 DEF Before
  <2>2. \/ file' = file \o buffer /\ damage' = damage
        \/ /\ damage' = damage + 1
           /\ Journal!IsPrefix(file', Journal!NotOlderThan(file \o buffer, 0 - Retention))
    <3> HIDE DEF buffer
    <3> QED  BY <1>3, <1>6, <2>1, WriteImplements
  <2>3. CASE file' = file \o buffer /\ damage' = damage
    <3>1. Journal!Append1(in_hand)
      BY <1>6, <2>3 DEF Journal!Append1
    <3> QED  BY <1>1, <3>1 DEF Journal!Next
  <2>4. CASE /\ damage' = damage + 1
             /\ Journal!IsPrefix(file', Journal!NotOlderThan(file \o buffer, 0 - Retention))
    <3>1. 0 - Retention \in (0 - Retention) .. MaxTime
      BY WalAssumption
    <3>2. Journal!IsPrefix(file', Journal!NotOlderThan((file \o pending) \o
                  (IF in_hand = <<>> THEN <<>> ELSE <<in_hand>>), 0 - Retention))
      <4> HIDE DEF buffer
      <4> QED  BY <1>1, <1>4, <2>4 DEF None
    <3>3. Journal!Damage
      BY <1>1, <1>6, <2>4, <3>1, <3>2 DEF Journal!Damage
    <3> QED  BY <3>3 DEF Journal!Next
  <2> QED  BY <2>2, <2>3, <2>4
<1> QED  BY <1>0, <1>5, <1>6

LEMMA RenameImplements ==
  ASSUME IInv, PruneRename
  PROVE  Journal!Next \/ UNCHANGED Journal!vars
<1>1. /\ locked /\ pending' = pending
      /\ \/ /\ file' = tmp.samples /\ damage' = IF tmp.short THEN damage + 1 ELSE damage
         \/ UNCHANGED <<file, damage>>
  BY DEF PruneRename, disk
<1>2. pending = <<>> /\ \E time \in Times : time <= Cutoff /\ Kept(time)
  BY <1>1 DEF IInv, PruneInv
<1>3. PICK time \in Times : Kept(time)
  BY <1>2
<1> DEFINE all == NotOlderThan(file, time)
<1>4. file \in Seq(Samples) /\ all \in Seq(Samples) /\ file \o <<>> = file
  BY YoungHas, ConcatEmptySeq DEF IInv, TypeOK
<1>5. Journal!NotOlderThan(file, time) = all
  BY JournalYoung
<1> HIDE DEF all
<1>6. CASE file' = tmp.samples /\ tmp.short /\ damage' = damage + 1
  <2>1. PICK n \in 0 .. Len(all) - 1 : tmp.samples = SubSeq(all, 1, n)
    BY <1>3, <1>6 DEF Kept, all
  <2>2. n \in 0 .. Len(all)
    BY <1>4, SeqIs
  <2>3. Journal!IsPrefix(file', all)
    BY <1>4, <1>6, <2>1, <2>2, FirstsArePrefix
  <2>4. Journal!IsPrefix(file', Journal!NotOlderThan((file \o pending) \o
                                  (IF <<>> = <<>> THEN <<>> ELSE <<<<>>>>), time))
    BY <1>2, <1>4, <1>5, <2>3
  <2>5. <<>> \in Samples \cup {<<>>} /\ time \in (0 - Retention) .. MaxTime
    BY DEF Times
  <2>6. Journal!Damage
    BY <1>1, <1>2, <1>6, <2>4, <2>5 DEF Journal!Damage
  <2> QED  BY <2>6 DEF Journal!Next
<1>7. CASE file' = tmp.samples /\ ~tmp.short /\ damage' = damage
  <2>1. file' = Journal!NotOlderThan(file \o pending, time)
    BY <1>2, <1>3, <1>4, <1>5, <1>7 DEF Kept, all
  <2>2. Journal!Expire(time) /\ time \in (0 - Retention) .. MaxTime
    BY <1>1, <1>2, <1>7, <2>1 DEF Journal!Expire, Times
  <2> QED  BY <2>2 DEF Journal!Next
<1>8. CASE UNCHANGED <<file, damage>>
  BY <1>1, <1>8 DEF Journal!vars
<1> QED  BY <1>1, <1>6, <1>7, <1>8

(* Whatever the interleaving of records, flushes, prunes, refused writes and
   crashes, the file and the pending batch are a journal: a step of the store
   appends, persists, removes the samples older than some time or is counted
   as damage, and otherwise leaves them alone (wal_writer.hpp, all of
   WalWriter). *)
THEOREM TheLogIsAJournal == Spec => ImplementsJournal
<1>1. Init => Journal!Init
  BY DEF Init, Journal!Init
<1>2. ASSUME IInv, [Next]_vars
      PROVE  Journal!Next \/ UNCHANGED Journal!vars
  <2>1. CASE AppendToLog \/ PruneRename
    BY <1>2, <2>1, AppendImplements, RenameImplements
  <2>2. CASE Flush \/ PruneBegin
    BY <1>2, <2>2, PendingImplements DEF Flush, PruneBegin, Journal!Next
  <2>3. CASE LosesMemory
    BY <2>3 DEF LosesMemory, disk, Journal!Crash, Journal!Next
  <2>4. CASE UNCHANGED <<file, pending, damage>>
    BY <2>4 DEF Journal!vars
  <2>5. \/ AppendToLog \/ PruneRename \/ Flush \/ PruneBegin \/ LosesMemory
        \/ UNCHANGED <<file, pending, damage>>
    BY <1>2 DEF Next, Handlers, FinishCycle, GetOrCreate, Push, PruneAtStart, MaintenanceTimer,
       Maintain, History, Start, StopRequested, FinalFlush, Join, Exit, Crash, ClockTicks,
       vars, disk
  <2> QED  BY <2>1, <2>2, <2>3, <2>4, <2>5
<1>3. IInv /\ [Next]_vars => [Journal!Next]_(Journal!vars)
  BY <1>2
<1> QED  BY <1>1, <1>3, Invariance, PTL DEF Spec, ImplementsJournal, Journal!Spec
=============================================================================
