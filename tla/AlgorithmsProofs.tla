-------------------------- MODULE AlgorithmsProofs --------------------------
(***************************************************************************)
(* Proofs about the algorithms of Algorithms: how sensors are planned,     *)
(* asked for and decoded, how damaged segments are read, how               *)
(* configurations are loaded.                                              *)
(*                                                                         *)
(* Every state but the first holds a case and the result of an algorithm   *)
(* on it (ResultOfCase), so an invariant of these states is a theorem      *)
(* about the algorithm: what it returns for every input the assumptions    *)
(* allow. The recursive functions of the model are shown to exist and to   *)
(* satisfy their equations first; what they compute is then proved by the  *)
(* well-ordering of the numbers, from a counterexample that is the least   *)
(* or the greatest.                                                        *)
(***************************************************************************)
EXTENDS Algorithms, SequenceTheorems, FiniteSetTheorems, NaturalsInduction,
        WellFoundedInduction, TLAPS

-----------------------------------------------------------------------------
(***************************************************************************)
(* Numbers, recursion and flattened sequences.                             *)
(***************************************************************************)

(* A set of numbers that is not empty has a least one. *)
LEMMA LeastOf ==
  ASSUME NEW S, S \subseteq Nat, S # {}
  PROVE  \E x \in S : \A y \in S : x <= y
<1>1. IsWellFoundedOn(OpToRel(<, Nat), Nat)
  BY NatLessThanWellFounded
<1>2. PICK x \in S : \A y \in S : ~(<<y, x>> \in OpToRel(<, Nat))
  BY <1>1, WFMin
<1>3. \A y \in S : ~(y < x)
  BY <1>2 DEF OpToRel
<1> QED  BY <1>3

(* Induction, for a given set of numbers. *)
LEMMA UpTo ==
  ASSUME NEW N \in Nat, NEW S, 0 \in S,
         \A n \in 1 .. N : n - 1 \in S => n \in S
  PROVE  \A n \in 0 .. N : n \in S
<1> DEFINE D == (0 .. N) \ S
<1> SUFFICES ASSUME D # {} PROVE FALSE
  OBVIOUS
<1>1. PICK n \in D : \A m \in D : n <= m
  <2>1. D \subseteq Nat
    OBVIOUS
  <2> HIDE DEF D
  <2> QED  BY <2>1, LeastOf
<1>2. n \in 1 .. N /\ n - 1 \in 0 .. N /\ n - 1 < n
  BY <1>1
<1>3. n - 1 \in S
  BY <1>1, <1>2
<1> QED  BY <1>1, <1>2, <1>3

(* What holds of N and with each n of n - 1 holds down to 0. *)
LEMMA DownTo ==
  ASSUME NEW N \in Nat, NEW S, N \in S,
         \A n \in 1 .. N : n \in S => n - 1 \in S
  PROVE  \A n \in 0 .. N : n \in S
<1> DEFINE T == {n \in 0 .. N : N - n \in S}
<1>1. 0 \in T
  OBVIOUS
<1>2. \A n \in 1 .. N : n - 1 \in T => n \in T
  <2> TAKE n \in 1 .. N
  <2> HAVE n - 1 \in T
  <2>1. N - (n - 1) \in 1 .. N /\ N - (n - 1) \in S /\ N - (n - 1) - 1 = N - n
    OBVIOUS
  <2>2. N - n \in S
    BY <2>1
  <2> QED  BY <2>2
<1> HIDE DEF T
<1>3. \A n \in 0 .. N : n \in T
  BY <1>1, <1>2, UpTo
<1> TAKE n \in 0 .. N
<1>4. N - n \in 0 .. N /\ N - (N - n) = n
  OBVIOUS
<1>5. N - n \in T
  BY <1>3, <1>4
<1> QED  BY <1>4, <1>5 DEF T

(* A function may be defined from its value one before. *)
Recurs(g, N, V, first, step) ==
  /\ g \in [0 .. N -> V] /\ g[0] = first
  /\ \A n \in 1 .. N : g[n] = step[<<n, g[n - 1]>>]

(* A recursion over 0..N has a solution: the recursive functions of the model are defined. *)
LEMMA RecursionExists ==
  ASSUME NEW N \in Nat, NEW V, NEW first \in V, NEW step \in [(1 .. N) \X V -> V]
  PROVE  \E g : Recurs(g, N, V, first, step)
<1> DEFINE S == {m \in 0 .. N : \E g : Recurs(g, m, V, first, step)}
<1>1. 0 \in S
  <2>1. Recurs([n \in 0 .. 0 |-> first], 0, V, first, step)
    BY DEF Recurs
  <2> QED  BY <2>1
<1>2. \A m \in 1 .. N : m - 1 \in S => m \in S
  <2> TAKE m \in 1 .. N
  <2> HAVE m - 1 \in S
  <2>1. PICK g : Recurs(g, m - 1, V, first, step)
    OBVIOUS
  <2> DEFINE h == [n \in 0 .. m |-> IF n = m THEN step[<<m, g[m - 1]>>] ELSE g[n]]
  <2>2. g[m - 1] \in V /\ \A n \in 0 .. m - 1 : g[n] \in V
    BY <2>1 DEF Recurs
  <2>3. step[<<m, g[m - 1]>>] \in V
    BY <2>2
  <2>4. h \in [0 .. m -> V] /\ h[0] = first
    BY <2>1, <2>2, <2>3 DEF Recurs
  <2>5. \A n \in 1 .. m : h[n] = step[<<n, h[n - 1]>>]
    <3> TAKE n \in 1 .. m
    <3>1. n - 1 \in 0 .. m /\ n \in 0 .. m /\ n - 1 # m
      OBVIOUS
    <3>2. h[n - 1] = g[n - 1]
      BY <3>1
    <3>3. CASE n = m
      <4>1. h[m] = step[<<m, g[m - 1]>>]
        BY <3>1
      <4> HIDE DEF h
      <4> QED  BY <3>2, <3>3, <4>1
    <3>4. CASE n # m
      <4>1. n \in 1 .. m - 1 /\ h[n] = g[n]
        BY <3>4
      <4>2. g[n] = step[<<n, g[n - 1]>>]
        BY <2>1, <4>1 DEF Recurs
      <4> QED  BY <3>2, <4>1, <4>2
    <3> QED  BY <3>3, <3>4
  <2> HIDE DEF h
  <2>6. Recurs(h, m, V, first, step)
    BY <2>4, <2>5 DEF Recurs
  <2> QED  BY <2>6
<1> HIDE DEF S
<1>3. N \in S
  BY <1>1, <1>2, UpTo
<1> QED  BY <1>3 DEF S

(* FlattenSeq, for sequences over one set. *)
Flattens(f, seqs) ==
  f = [i \in 1 .. Len(seqs) |-> IF i = 1 THEN seqs[i] ELSE f[i - 1] \o seqs[i]]

(* FlattenSeq, unfolded. *)
LEMMA FlattenIs ==
  \A seqs : FlattenSeq(seqs) =
    IF Len(seqs) = 0 THEN seqs ELSE (CHOOSE f : Flattens(f, seqs))[Len(seqs)]
BY DEF FlattenSeq, Flattens

(* FlattenSeq appends one sequence after the other. *)
LEMMA FlattensExists ==
  ASSUME NEW T, NEW seqs \in Seq(Seq(T)), seqs # <<>>
  PROVE  /\ Len(seqs) \in Nat \ {0}
         /\ \E f : /\ Flattens(f, seqs)
                   /\ FlattenSeq(seqs) = f[Len(seqs)]
                   /\ f[1] = seqs[1]
                   /\ \A n \in 2 .. Len(seqs) : f[n] = f[n - 1] \o seqs[n]
                   /\ \A n \in 1 .. Len(seqs) : f[n] \in Seq(T)
<1> DEFINE N == Len(seqs)
           V == Seq(T)
           step == [p \in (1 .. N) \X V |-> p[2] \o seqs[p[1]]]
<1>1. N \in Nat \ {0} /\ \A n \in 1 .. N : seqs[n] \in V
  BY EmptySeq, LenProperties, ElementOfSeq
<1>2. step \in [(1 .. N) \X V -> V]
  BY <1>1, ConcatProperties
<1>3. <<>> \in V
  BY EmptySeq
<1> HIDE DEF V, N
<1>4. PICK g : Recurs(g, N, V, <<>>, step)
  <2> HIDE DEF step
  <2> QED  BY <1>1, <1>2, <1>3, RecursionExists
<1>5. \A n \in 1 .. N : g[n] = g[n - 1] \o seqs[n] /\ g[n] \in V
  <2> TAKE n \in 1 .. N
  <2>1. g[n - 1] \in V /\ g[n] \in V
    BY <1>1, <1>4 DEF Recurs
  <2>2. g[n] = step[<<n, g[n - 1]>>]
    BY <1>4 DEF Recurs
  <2>3. step[<<n, g[n - 1]>>] = g[n - 1] \o seqs[n]
    BY <2>1
  <2> QED  BY <2>1, <2>2, <2>3
<1>6. g[1] = seqs[1]
  <2>1. g[0] = <<>> /\ seqs[1] \in V
    BY <1>1, <1>4 DEF Recurs
  <2>2. g[1] = <<>> \o seqs[1]
    <3>1. 1 \in 1 .. N /\ 1 - 1 = 0
      BY <1>1
    <3>2. g[1] = g[1 - 1] \o seqs[1]
      BY <1>5, <3>1
    <3> QED  BY <2>1, <3>1, <3>2
  <2> QED  BY <2>1, <2>2, ConcatEmptySeq DEF V
<1> DEFINE h == [n \in 1 .. N |-> g[n]]
<1>7. Flattens(h, seqs)
  <2>1. \A n \in 1 .. N : h[n] = IF n = 1 THEN seqs[n] ELSE h[n - 1] \o seqs[n]
    <3> TAKE n \in 1 .. N
    <3>1. CASE n = 1
      BY <1>6, <3>1
    <3>2. CASE n # 1
      <4>1. n - 1 \in 1 .. N /\ n \in 1 .. N
        BY <1>1, <3>2
      <4>2. h[n - 1] = g[n - 1] /\ h[n] = g[n]
        BY <4>1
      <4> QED  BY <1>5, <3>2, <4>2
    <3> QED  BY <3>1, <3>2
  <2>2. h = [n \in 1 .. N |-> IF n = 1 THEN seqs[n] ELSE h[n - 1] \o seqs[n]]
    BY <2>1
  <2> HIDE DEF h
  <2> QED  BY <2>2 DEF Flattens, N
<1> HIDE DEF h
<1> DEFINE f == CHOOSE f : Flattens(f, seqs)
<1>8. Flattens(f, seqs)
  BY <1>7
<1>9. FlattenSeq(seqs) = f[N]
  BY <1>1, FlattenIs DEF N
<1> HIDE DEF f
<1>10. f[1] = seqs[1] /\ \A n \in 2 .. N : f[n] = f[n - 1] \o seqs[n]
  <2>1. \A n \in 1 .. N : f[n] = IF n = 1 THEN seqs[n] ELSE f[n - 1] \o seqs[n]
    BY <1>1, <1>8 DEF Flattens, N
  <2>2. 1 \in 1 .. N /\ \A n \in 2 .. N : n \in 1 .. N /\ n # 1
    BY <1>1
  <2> QED  BY <2>1, <2>2
<1>11. \A n \in 1 .. N : f[n] \in V
  <2> DEFINE S == {n \in 0 .. N : n = 0 \/ f[n] \in V}
  <2>1. 0 \in S
    BY <1>1
  <2>2. \A n \in 1 .. N : n - 1 \in S => n \in S
    <3> TAKE n \in 1 .. N
    <3> HAVE n - 1 \in S
    <3>1. CASE n = 1
      BY <1>1, <1>10, <3>1
    <3>2. CASE n # 1
      <4>1. n \in 2 .. N /\ n - 1 # 0
        BY <1>1, <3>2
      <4>2. f[n] = f[n - 1] \o seqs[n] /\ f[n - 1] \in V /\ seqs[n] \in V
        BY <1>1, <1>10, <4>1
      <4>3. f[n] \in V
        BY <4>2, ConcatProperties DEF V
      <4> QED  BY <4>3
    <3> QED  BY <3>1, <3>2
  <2> HIDE DEF S
  <2>3. \A n \in 0 .. N : n \in S
    BY <1>1, <2>1, <2>2, UpTo
  <2> QED  BY <2>3 DEF S
<1> QED  BY <1>1, <1>8, <1>9, <1>10, <1>11 DEF N, V

(* What is flattened consists of the elements of its parts. *)
LEMMA FlattenType ==
  ASSUME NEW T, NEW seqs \in Seq(Seq(T))
  PROVE  FlattenSeq(seqs) \in Seq(T)
<1>1. CASE seqs = <<>>
  BY <1>1, FlattenIs, EmptySeq
<1>2. CASE seqs # <<>>
  <2>1. PICK f : FlattenSeq(seqs) = f[Len(seqs)] /\ \A n \in 1 .. Len(seqs) : f[n] \in Seq(T)
    BY <1>2, FlattensExists, Zenon
  <2>2. Len(seqs) \in Nat \ {0}
    BY <1>2, FlattensExists
  <2> QED  BY <2>1, <2>2
<1> QED  BY <1>1, <1>2

-----------------------------------------------------------------------------
(***************************************************************************)
(* Loading a configuration. from_json checks every field of the document   *)
(* on its own; the environment may replace any of them, and only validate, *)
(* which sees the merged configuration, stands between such a value and    *)
(* the program.                                                            *)
(***************************************************************************)

(* A field of a document is absent, a number or a word. *)
LEMMA FieldIs ==
  ASSUME NEW v \in Fields
  PROVE  \/ v = Absent
         \/ v # Absent /\ v.is = "int" /\ v.int \in Int
         \/ v # Absent /\ v.is = "word" /\ v.word \in STRING
<1>1. CASE v = Absent
  BY <1>1
<1>2. CASE v \in Numbers
  <2>1. v.is = "int" /\ v.int \in Int
    BY <1>2 DEF Numbers
  <2>2. Absent.is = "absent"
    BY DEF Absent
  <2> QED  BY <2>1, <2>2
<1>3. CASE v \in Words
  <2>1. v.is = "word" /\ v.word \in STRING
    BY <1>3 DEF Words
  <2>2. Absent.is = "absent"
    BY DEF Absent
  <2> QED  BY <2>1, <2>2
<1> QED  BY <1>1, <1>2, <1>3 DEF Fields

(* What a number that is not refused yields. *)
LEMMA NumberIs ==
  ASSUME NEW v \in Fields, NEW fallback \in Int, ~BadNumber(v)
  PROVE  /\ GetInt(v, fallback) \in Int
         /\ v # Absent => v.int \in Int /\ GetInt(v, fallback) = v.int
BY FieldIs DEF BadNumber, GetInt

(* get_or of a number that was found in its range, or its default, is in the range. *)
LEMMA IntIs ==
  ASSUME NEW v \in Fields, NEW low \in Int, NEW high \in Int, NEW fallback \in Int,
         low <= fallback, fallback <= high, ~BadInt(v, low, high)
  PROVE  /\ GetInt(v, fallback) \in Int
         /\ low <= GetInt(v, fallback) /\ GetInt(v, fallback) <= high
BY SMT DEF BadInt, GetInt

(* get_or of a text is a text. *)
LEMMA StringIs ==
  ASSUME NEW v \in Fields, NEW fallback \in STRING, ~BadString(v)
  PROVE  GetString(v, fallback) \in STRING
BY FieldIs DEF BadString, IsWord, GetString

(* The largest values of the integer types, as the model caps them. *)
LEMMA LargestIs == /\ U16 \in Nat /\ U16 = 65535
                   /\ U32 \in Nat /\ U32 = 2147483646
                   /\ U64 \in Nat /\ U64 = 2147483647
BY SMT DEF U16, U32, U64

(* They are numbers. *)
LEMMA LargestType == U16 \in Nat /\ U32 \in Nat /\ U64 \in Nat
BY LargestIs, SMT

(* parse_or gives a number its type can hold. *)
LEMMA ParseOrIs ==
  ASSUME NEW v \in Fields, NEW largest \in Nat, NEW fallback \in Nat, fallback <= largest
  PROVE  ParseOr(v, fallback, largest) \in Nat /\ ParseOr(v, fallback, largest) <= largest
<1>1. v.is = "int" => v.int \in Int
  <2>1. Absent.is = "absent"
    BY DEF Absent
  <2> QED  BY FieldIs, <2>1
<1>2. v.is = "int" => Unsigned(v.int) \in Nat
  BY <1>1, LargestType DEF Unsigned
<1> QED  BY <1>2 DEF ParseOr

(* Detectors as they are read, and as they are by default. *)
AnyDetectors ==
  [type : STRING \cup {"zscore", "ewma"}, window : Fields, alpha : Fields, mean : Fields,
   stddev : Fields, slack : Fields, threshold : Fields]

(* A detector that from_json accepts has parameters its constructor can take. *)
LEMMA DetectorIsUsable ==
  ASSUME NEW d \in AnyDetectors, ~BadDetector(d)
  PROVE  UsableDetector(Detector(d))
<1>1. /\ d.window \in Fields /\ d.alpha \in Fields /\ d.mean \in Fields
      /\ d.stddev \in Fields /\ d.slack \in Fields /\ d.threshold \in Fields
  BY DEF AnyDetectors
<1>2. d.type = "zscore" => GetInt(d.window, 60) >= 2
  <2>1. d.type = "zscore" => ~BadInt(d.window, 2, 100000)
    BY SMT DEF BadDetector
  <2> QED  BY <1>1, <2>1, IntIs, SMT
<1>3. d.type = "ewma" => GetInt(d.alpha, 2) \in 1 .. 10
  BY DEF BadDetector
<1>4. d.type = "cusum" => d.stddev.int > 0 /\ GetInt(d.slack, 5) >= 0
  <2> HAVE d.type = "cusum"
  <2>1. /\ d.stddev # Absent /\ ~BadNumber(d.stddev) /\ ~BadNumber(d.slack)
        /\ ~(d.stddev.int <= 0) /\ ~(GetInt(d.slack, 5) < 0)
    BY SMT DEF BadDetector
  <2>2. d.stddev.int \in Int /\ GetInt(d.slack, 5) \in Int
    BY <1>1, <2>1, NumberIs
  <2> QED  BY <2>1, <2>2
<1>5. Threshold(d) > 0
  <2>1. ~BadNumber(d.threshold) /\ ~(Threshold(d) <= 0)
    BY SMT DEF BadDetector
  <2>2. Threshold(d) \in Int
    BY <1>1, <2>1, NumberIs DEF Threshold
  <2> QED  BY <2>1, <2>2
<1> DEFINE r == Detector(d)
<1>6. /\ r.window = (IF d.type = "zscore" THEN GetInt(d.window, 60) ELSE 60)
      /\ r.alpha = (IF d.type = "ewma" THEN GetInt(d.alpha, 2) ELSE 2)
      /\ r.stddev = (IF d.type = "cusum" THEN d.stddev.int ELSE 10)
      /\ r.slack = (IF d.type = "cusum" THEN GetInt(d.slack, 5) ELSE 5)
      /\ r.threshold = Threshold(d)
  BY DEF Detector
<1> HIDE DEF r
<1>7. /\ r.window >= 2 /\ r.alpha \in 1 .. 10
      /\ r.stddev > 0 /\ r.slack >= 0 /\ r.threshold > 0
  BY <1>2, <1>3, <1>4, <1>5, <1>6, SMT
<1> QED  BY <1>7, SMT DEF UsableDetector, r

(* The detectors of a sensor that names none are among them. *)
LEMMA PlainIs ==
  ASSUME NEW type \in {"zscore", "ewma"}
  PROVE  Plain(type) \in AnyDetectors /\ ~BadDetector(Plain(type))
<1> DEFINE p == Plain(type)
<1>1. /\ p.type = type /\ p.window = Absent /\ p.alpha = Absent /\ p.threshold = Absent
      /\ p \in AnyDetectors
  <2> HIDE DEF p
  <2>1. Absent \in Fields /\ type \in STRING \cup {"zscore", "ewma"}
    <3>1. Absent \in Fields
      BY DEF Fields
    <3> QED  BY <3>1
  <2>2. p = [type |-> type, window |-> Absent, alpha |-> Absent, mean |-> Absent,
             stddev |-> Absent, slack |-> Absent, threshold |-> Absent]
    BY DEF Plain, p
  <2> QED  BY <2>1, <2>2 DEF AnyDetectors
<1>2. ~BadInt(Absent, 2, 100000) /\ ~BadNumber(Absent) /\ GetInt(Absent, 2) = 2
      /\ GetInt(Absent, 30) = 30
  BY SMT DEF BadInt, BadNumber, GetInt
<1> HIDE DEF p
<1>3. Threshold(p) = 30
  BY <1>1, <1>2 DEF Threshold
<1>4. ~BadDetector(p)
  BY <1>1, <1>2, <1>3, SMT DEF BadDetector
<1> QED  BY <1>1, <1>4 DEF p

(* A field that is a list holds a sequence. *)
LEMMA ListIs ==
  ASSUME NEW T, NEW v \in Lists(T), v # Absent, v.is = "list"
  PROVE  v.list \in Seq(T)
<1>1. \A n \in Numbers : n.is = "int"
  BY DEF Numbers
<1> QED  BY <1>1 DEF Lists

(* The detectors that are built were each accepted. *)
LEMMA DetectorsIs ==
  ASSUME NEW d \in DetectionDocuments, ~BadDetection(d)
  PROVE  /\ Detectors(d) \in Seq(AnyDetectors)
         /\ \A i \in DOMAIN Detectors(d) : ~BadDetector(Detectors(d)[i])
<1>1. CASE d = Absent \/ d.detectors = Absent
  <2>1. Detectors(d) = <<Plain("zscore"), Plain("ewma")>>
    BY <1>1 DEF Detectors
  <2>2. \A i \in 1 .. 2 : /\ Detectors(d)[i] \in AnyDetectors
                          /\ ~BadDetector(Detectors(d)[i])
    BY <2>1, PlainIs
  <2>3. Detectors(d) \in Seq(AnyDetectors) /\ DOMAIN Detectors(d) = 1 .. 2
    BY <2>1, <2>2
  <2> QED  BY <2>2, <2>3
<1>2. CASE d # Absent /\ d.detectors # Absent
  <2>1. d.detectors \in Lists(DetectorDocuments)
    BY <1>2 DEF DetectionDocuments
  <2>2. d.detectors.is = "list" /\ \A i \in DOMAIN Detectors(d) : ~BadDetector(Detectors(d)[i])
    BY <1>2 DEF BadDetection
  <2>3. Detectors(d) = d.detectors.list
    BY <1>2 DEF Detectors
  <2>4. Detectors(d) \in Seq(DetectorDocuments)
    BY <1>2, <2>1, <2>2, <2>3, ListIs
  <2>5. DetectorDocuments \subseteq AnyDetectors
    BY DEF DetectorDocuments, AnyDetectors
  <2> QED  BY <2>2, <2>4, <2>5, SeqMonotonic
<1> QED  BY <1>1, <1>2

(* The quorum of an accepted detection can be reached by its detectors. *)
LEMMA DetectionIsUsable ==
  ASSUME NEW d \in DetectionDocuments, ~BadDetection(d)
  PROVE  LET detectors == Detection(d).detectors
             voters    == IF detectors = <<>> THEN 1 ELSE Len(detectors)
         IN  /\ Detection(d).votes_required \in 1 .. voters
             /\ \A i \in DOMAIN detectors : UsableDetector(detectors[i])
             /\ Detection(d).cooldown_seconds >= 0
<1> DEFINE s == Detectors(d)
           detectors == Detection(d).detectors
           voters == IF detectors = <<>> THEN 1 ELSE Len(detectors)
<1>1. s \in Seq(AnyDetectors) /\ \A i \in DOMAIN s : ~BadDetector(s[i])
  BY DetectorsIs
<1>2. Len(s) \in Nat /\ DOMAIN s = 1 .. Len(s) /\ \A i \in DOMAIN s : s[i] \in AnyDetectors
  BY <1>1, LenProperties, ElementOfSeq
<1>3. detectors = [i \in 1 .. Len(s) |-> Detector(s[i])]
  BY <1>2 DEF Detection
<1>4. \A i \in DOMAIN detectors : UsableDetector(detectors[i])
  BY <1>1, <1>2, <1>3, DetectorIsUsable
<1>5. detectors \in Seq({Detector(s[i]) : i \in DOMAIN s}) /\ Len(detectors) = Len(s)
  BY <1>2, <1>3
<1>6. voters = IF Len(s) = 0 THEN 1 ELSE Len(s)
  <2>1. detectors = <<>> <=> Len(detectors) = 0
    BY <1>5, EmptySeq
  <2> QED  BY <1>5, <2>1
<1>7. MaxVotes(s) = voters
  <2> HIDE DEF voters, s
  <2>0. Len(s) \in Nat
    BY <1>2
  <2>1. (voters = 1 /\ Len(s) <= 1) \/ (voters = Len(s) /\ Len(s) >= 1)
    <3>1. CASE Len(s) = 0
      BY <1>6, <3>1
    <3>2. CASE Len(s) # 0
      <4>1. voters = Len(s)
        BY <1>6, <3>2
      <4> QED  BY <2>0, <3>2, <4>1
    <3> QED  BY <3>1, <3>2
  <2>2. voters \in {1, Len(s)}
    BY <2>1
  <2>3. \A x \in {1, Len(s)} : (\A y \in {1, Len(s)} : x >= y) <=> x = voters
    BY <2>0, <2>1
  <2> QED  BY <2>1, <2>2, <2>3 DEF MaxVotes, Max
<1>8. voters \in Nat \ {0}
  BY <1>2, <1>6
<1> HIDE DEF voters, s
<1>9. CASE d = Absent
  <2>1. Detection(d).votes_required = 1 /\ Detection(d).cooldown_seconds = 30
    BY <1>9 DEF Detection
  <2> QED  BY <1>4, <1>8, <2>1 DEF voters
<1>10. CASE d # Absent
  <2>1. d.votes_required \in Fields /\ d.cooldown_seconds \in Fields
    BY <1>10 DEF DetectionDocuments
  <2>2. ~BadInt(d.votes_required, 1, voters) /\ ~BadInt(d.cooldown_seconds, 0, 86400)
    BY <1>7, <1>10, SMT DEF BadDetection, s
  <2>3. GetInt(d.votes_required, 1) \in 1 .. voters
    BY <1>8, <2>1, <2>2, IntIs, SMT
  <2>4. GetInt(d.cooldown_seconds, 30) >= 0
    BY <2>1, <2>2, IntIs, SMT
  <2>5. /\ Detection(d).votes_required = GetInt(d.votes_required, 1)
        /\ Detection(d).cooldown_seconds = GetInt(d.cooldown_seconds, 30)
    BY <1>10 DEF Detection
  <2> QED  BY <1>4, <2>3, <2>4, <2>5, SMT DEF voters
<1> QED  BY <1>9, <1>10

(* A sensor that from_json accepts lies within the registers and is usable. *)
LEMMA SensorIsUsable ==
  ASSUME NEW s \in SensorDocuments, ~BadSensor(s)
  PROVE  UsableSensor(Sensor(s))
<1> DEFINE r == Sensor(s)
<1>1. /\ s.address \in Fields /\ s.low \in Fields /\ s.high \in Fields
      /\ s.detection \in DetectionDocuments
  BY DEF SensorDocuments
<1>2. /\ r.address = GetInt(s.address, 0) /\ r.data_type = GetEnum(s.data_type, "uint16")
      /\ r.low = s.low /\ r.high = s.high /\ r.detection = Detection(s.detection)
  BY DEF Sensor
<1> HIDE DEF r
<1>3. /\ ~BadInt(s.address, 0, 65535) /\ ~BadNumber(s.low) /\ ~BadNumber(s.high)
      /\ ~BadDetection(s.detection)
      /\ ~(GetInt(s.address, 0) + RegisterCount(GetEnum(s.data_type, "uint16")) > 65536)
      /\ s.low # Absent /\ s.high # Absent => ~(s.low.int >= s.high.int)
  BY SMT DEF BadSensor
<1>4. r.address \in Int /\ r.address >= 0
  BY <1>1, <1>2, <1>3, IntIs, SMT
<1>5. r.address + RegisterCount(r.data_type) - 1 <= 65535
  <2>1. RegisterCount(r.data_type) \in Int
    BY DEF RegisterCount
  <2> QED  BY <1>2, <1>3, <1>4, <2>1, SMT
<1>6. r.low # Absent /\ r.high # Absent => r.low.int < r.high.int
  BY <1>1, <1>2, <1>3, NumberIs
<1>7. LET detectors == r.detection.detectors
          voters    == IF detectors = <<>> THEN 1 ELSE Len(detectors)
      IN  /\ r.detection.votes_required \in 1 .. voters
          /\ \A i \in DOMAIN detectors : UsableDetector(detectors[i])
          /\ r.detection.cooldown_seconds >= 0
  BY <1>1, <1>2, <1>3, DetectionIsUsable
<1> QED  BY <1>4, <1>5, <1>6, <1>7, SMT DEF UsableSensor, r

(* So is a sensor given by its name alone. *)
LEMMA ShorthandIsUsable ==
  ASSUME NEW id
  PROVE  UsableSensor(Sensor(Shorthand(id)))
<1> DEFINE r == Sensor(Shorthand(id))
<1>1. /\ r.address = GetInt(Absent, 0) /\ r.data_type = GetEnum(Absent, "uint16")
      /\ r.low = Absent /\ r.detection = Detection(Absent)
  BY DEF Sensor, Shorthand
<1>2. GetInt(Absent, 0) = 0 /\ GetEnum(Absent, "uint16") = "uint16"
  BY DEF GetInt, GetEnum
<1>3. RegisterCount("uint16") = 1
  BY DEF RegisterCount
<1>4. Absent \in DetectionDocuments /\ ~BadDetection(Absent)
  BY DEF DetectionDocuments, BadDetection
<1> HIDE DEF r
<1>5. /\ r.address >= 0 /\ r.address + RegisterCount(r.data_type) - 1 <= 65535
  BY <1>1, <1>2, <1>3, SMT
<1>6. LET detectors == r.detection.detectors
          voters    == IF detectors = <<>> THEN 1 ELSE Len(detectors)
      IN  /\ r.detection.votes_required \in 1 .. voters
          /\ \A i \in DOMAIN detectors : UsableDetector(detectors[i])
          /\ r.detection.cooldown_seconds >= 0
  BY <1>1, <1>4, DetectionIsUsable
<1> QED  BY <1>1, <1>5, <1>6, SMT DEF UsableSensor, r

(* A device that from_json accepts has sensors, all of them usable. *)
LEMMA DeviceSensors ==
  ASSUME NEW d \in DeviceDocuments, ~BadDevice(d)
  PROVE  /\ Device(d).sensors \in Seq(ToSet(Device(d).sensors))
         /\ Device(d).sensors # <<>>
         /\ \A s \in ToSet(Device(d).sensors) : UsableSensor(s)
<1> DEFINE list == IF d.sensors = Absent THEN <<Shorthand(d.id.word)>> ELSE d.sensors.list
           r == Device(d).sensors
<1>1. r = [i \in DOMAIN list |-> Sensor(list[i])]
  BY DEF Device
<1>2. /\ Len(list) \in Nat \ {0} /\ DOMAIN list = 1 .. Len(list)
      /\ \A i \in DOMAIN list : UsableSensor(Sensor(list[i]))
  <2>1. CASE d.sensors = Absent
    <3>1. list = <<Shorthand(d.id.word)>>
      BY <2>1
    <3> HIDE DEF list
    <3>2. Len(list) = 1 /\ DOMAIN list = 1 .. 1 /\ list[1] = Shorthand(d.id.word)
      BY <3>1
    <3> QED  BY <3>2, ShorthandIsUsable
  <2>2. CASE d.sensors # Absent
    <3>1. d.sensors \in Lists(SensorDocuments)
      BY DEF DeviceDocuments
    <3>2. /\ d.sensors.is = "list" /\ d.sensors.list # <<>>
          /\ \A i \in DOMAIN d.sensors.list : ~BadSensor(d.sensors.list[i])
      BY <2>2, SMT DEF BadDevice
    <3>3. list = d.sensors.list
      BY <2>2
    <3>4. list \in Seq(SensorDocuments)
      BY <2>2, <3>1, <3>2, <3>3, ListIs
    <3> HIDE DEF list
    <3>5. /\ Len(list) \in Nat \ {0} /\ DOMAIN list = 1 .. Len(list)
          /\ \A i \in DOMAIN list : list[i] \in SensorDocuments
      BY <3>2, <3>3, <3>4, LenProperties, EmptySeq, ElementOfSeq
    <3> QED  BY <3>2, <3>3, <3>5, SensorIsUsable
  <2> QED  BY <2>1, <2>2
<1> HIDE DEF list
<1>3. DOMAIN r = 1 .. Len(list) /\ \A i \in DOMAIN r : r[i] = Sensor(list[i])
  BY <1>1, <1>2
<1>4. \A s \in ToSet(r) : UsableSensor(s)
  BY <1>2, <1>3 DEF ToSet
<1> HIDE DEF r
<1>5. r \in Seq(ToSet(r))
  <2>1. \A i \in 1 .. Len(list) : r[i] \in ToSet(r)
    BY <1>3 DEF ToSet
  <2>2. r = [i \in 1 .. Len(list) |-> r[i]]
    BY <1>1, <1>2
  <2>3. r \in [1 .. Len(list) -> ToSet(r)]
    BY <2>1, <2>2
  <2> QED  BY <1>2, <2>3
<1>6. r # <<>>
  <2>1. 1 \in DOMAIN r
    BY <1>2, <1>3
  <2> QED  BY <2>1
<1> QED  BY <1>4, <1>5, <1>6 DEF r

(* The sensors of all devices, as validate goes through them. *)
AllSensors(devices) == FlattenSeq([i \in DOMAIN devices |-> devices[i].sensors])

(* The sensors of all devices are those of some device. *)
LEMMA AllSensorsAre ==
  ASSUME NEW T, NEW devices \in Seq(T),
         \A i \in DOMAIN devices : devices[i].sensors \in Seq(ToSet(devices[i].sensors))
  PROVE  /\ Len(AllSensors(devices)) \in Nat
         /\ DOMAIN AllSensors(devices) = 1 .. Len(AllSensors(devices))
         /\ \A k \in DOMAIN AllSensors(devices) : \E i \in DOMAIN devices :
                AllSensors(devices)[k] \in ToSet(devices[i].sensors)
<1> DEFINE S == UNION {ToSet(devices[i].sensors) : i \in DOMAIN devices}
           seqs == [i \in DOMAIN devices |-> devices[i].sensors]
<1>1. \A i \in DOMAIN devices : devices[i].sensors \in Seq(S)
  <2> TAKE i \in DOMAIN devices
  <2>1. ToSet(devices[i].sensors) \subseteq S
    OBVIOUS
  <2> HIDE DEF S
  <2> QED  BY <2>1, SeqMonotonic
<1>2. DOMAIN devices = 1 .. Len(devices) /\ Len(devices) \in Nat
  BY LenProperties
<1> HIDE DEF S
<1>3. seqs \in [1 .. Len(devices) -> Seq(S)]
  BY <1>1, <1>2
<1>4. seqs \in Seq(Seq(S))
  BY <1>2, <1>3
<1> HIDE DEF seqs
<1>5. FlattenSeq(seqs) \in Seq(S)
  BY <1>4, FlattenType
<1>6. AllSensors(devices) = FlattenSeq(seqs)
  BY DEF AllSensors, seqs
<1> QED  BY <1>5, <1>6, LenProperties, ElementOfSeq DEF S

(* As many ids as there are elements: no two share one (validate counts them in a set). *)
LEMMA NoRepeats ==
  ASSUME NEW s, Len(s) \in Nat, DOMAIN s = 1 .. Len(s),
         ~(Cardinality({s[i].id : i \in DOMAIN s}) < Len(s))
  PROVE  \A i, j \in DOMAIN s : s[i].id = s[j].id => i = j
<1> DEFINE D == 1 .. Len(s)
           R == {s[i].id : i \in DOMAIN s}
           f == [i \in D |-> s[i].id]
<1>1. f \in Surjection(D, R)
  BY DEF Surjection
<1>2. IsFiniteSet(D) /\ Cardinality(D) = Len(s)
  <2>1. 1 \in Int /\ Len(s) \in Int /\ Len(s) >= 0
    OBVIOUS
  <2>2. IsFiniteSet(1 .. Len(s))
        /\ Cardinality(1 .. Len(s)) = IF 1 > Len(s) THEN 0 ELSE Len(s) - 1 + 1
    BY <2>1, FS_Interval
  <2> QED  BY <2>1, <2>2
<1> HIDE DEF f
<1>3. /\ IsFiniteSet(R) /\ Cardinality(R) <= Cardinality(D)
      /\ Cardinality(R) = Cardinality(D) <=> f \in Injection(D, R)
  BY <1>1, <1>2, FS_Surjection
<1>4. Cardinality(R) \in Nat
  BY <1>3, FS_CardinalityType
<1>5. Cardinality(R) = Cardinality(D)
  BY <1>2, <1>3, <1>4
<1>6. f \in Injection(D, R)
  BY <1>3, <1>5
<1>7. \A i, j \in D : f[i] = f[j] => i = j
  BY <1>6, Zenon DEF Injection, IsInjective
<1> QED  BY <1>7 DEF f

(* What Only keeps is wanted. *)
CopiesOf(g, s, wanted) ==
  g = [i \in 0 .. Len(s) |-> IF i = 0 THEN <<>>
                             ELSE IF s[i] \in wanted THEN Append(g[i - 1], s[i])
                                                     ELSE g[i - 1]]

(* Only, unfolded. *)
LEMMA OnlyIs ==
  \A s, wanted : Only(s, wanted) = (CHOOSE g : CopiesOf(g, s, wanted))[Len(s)]
BY DEF Only, CopiesOf

(* What is left after std::erase_if is what was to be left. *)
LEMMA OnlyType ==
  ASSUME NEW T, NEW s \in Seq(T), NEW wanted
  PROVE  Only(s, wanted) \in Seq(wanted)
<1> DEFINE N == Len(s)
           V == Seq(wanted)
           step == [p \in (1 .. N) \X V |->
                       IF s[p[1]] \in wanted THEN Append(p[2], s[p[1]]) ELSE p[2]]
<1>1. N \in Nat
  BY LenProperties
<1>2. step \in [(1 .. N) \X V -> V]
  <2>1. \A p \in (1 .. N) \X V : s[p[1]] \in wanted => Append(p[2], s[p[1]]) \in V
    BY AppendProperties
  <2> QED  BY <2>1
<1>3. <<>> \in V
  BY EmptySeq
<1> HIDE DEF V, N
<1>4. PICK g : Recurs(g, N, V, <<>>, step)
  <2> HIDE DEF step
  <2> QED  BY <1>1, <1>2, <1>3, RecursionExists
<1>5. \A n \in 1 .. N : g[n] = IF s[n] \in wanted THEN Append(g[n - 1], s[n]) ELSE g[n - 1]
  <2> TAKE n \in 1 .. N
  <2>1. g[n - 1] \in V /\ g[n] \in V
    BY <1>1, <1>4 DEF Recurs
  <2>2. g[n] = step[<<n, g[n - 1]>>]
    BY <1>4 DEF Recurs
  <2>3. step[<<n, g[n - 1]>>] = IF s[n] \in wanted THEN Append(g[n - 1], s[n]) ELSE g[n - 1]
    BY <2>1
  <2> QED  BY <2>2, <2>3
<1>6. CopiesOf(g, s, wanted)
  <2>1. g \in [0 .. N -> V] /\ g[0] = <<>>
    BY <1>4 DEF Recurs
  <2>2. \A n \in 0 .. N :
            g[n] = IF n = 0 THEN <<>>
                   ELSE IF s[n] \in wanted THEN Append(g[n - 1], s[n]) ELSE g[n - 1]
    <3> TAKE n \in 0 .. N
    <3>1. CASE n = 0
      BY <2>1, <3>1
    <3>2. CASE n # 0
      <4>1. n \in 1 .. N
        BY <1>1, <3>2
      <4> QED  BY <1>5, <3>2, <4>1
    <3> QED  BY <3>1, <3>2
  <2> QED  BY <2>1, <2>2 DEF CopiesOf, N
<1> DEFINE f == CHOOSE f : CopiesOf(f, s, wanted)
<1>7. CopiesOf(f, s, wanted)
  BY <1>6
<1>8. Only(s, wanted) = f[N]
  BY OnlyIs DEF N
<1> HIDE DEF f
<1>9. \A n \in 0 .. N : f[n] \in V
  <2> DEFINE S == {n \in 0 .. N : f[n] \in V}
  <2>1. \A n \in 0 .. N :
            f[n] = IF n = 0 THEN <<>>
                   ELSE IF s[n] \in wanted THEN Append(f[n - 1], s[n]) ELSE f[n - 1]
    BY <1>7 DEF CopiesOf, N
  <2>2. 0 \in S
    BY <1>1, <1>3, <2>1
  <2>3. \A n \in 1 .. N : n - 1 \in S => n \in S
    <3> TAKE n \in 1 .. N
    <3> HAVE n - 1 \in S
    <3>1. f[n] = IF s[n] \in wanted THEN Append(f[n - 1], s[n]) ELSE f[n - 1]
      BY <2>1
    <3>2. s[n] \in wanted => Append(f[n - 1], s[n]) \in V
      BY AppendProperties DEF V
    <3>3. f[n] \in V
      BY <3>1, <3>2
    <3> QED  BY <3>3
  <2> HIDE DEF S
  <2>4. \A n \in 0 .. N : n \in S
    BY <1>1, <2>2, <2>3, UpTo
  <2> QED  BY <2>4 DEF S
<1> QED  BY <1>1, <1>8, <1>9 DEF V

(* The test for a power of two, over the capacities a queue may have. *)
LEMMA NoBitInCommon ==
  ASSUME NEW n \in Nat, NEW k \in 0 .. 30, NEW p \in Nat, p = 2^k, p < n, n < 2 * p,
         IsPowerOfTwo(n)
  PROVE  FALSE
<1>1. n \div p = 1 /\ (n - 1) \div p = 1
  OBVIOUS
<1>2. HasBit(n, k) /\ HasBit(n - 1, k)
  BY <1>1 DEF HasBit
<1> QED  BY <1>2 DEF IsPowerOfTwo

(* The capacities the queue of readings may have. *)
LEMMA PowersOfTwo ==
  /\ 2^4 = 16 /\ 2^5 = 32 /\ 2^6 = 64 /\ 2^7 = 128 /\ 2^8 = 256 /\ 2^9 = 512 /\ 2^10 = 1024
  /\ 2^11 = 2048 /\ 2^12 = 4096 /\ 2^13 = 8192 /\ 2^14 = 16384 /\ 2^15 = 32768
  /\ 2^16 = 65536 /\ 2^17 = 131072 /\ 2^18 = 262144 /\ 2^19 = 524288 /\ 2^20 = 1048576
  /\ 2^21 = 2097152 /\ 2^22 = 4194304 /\ 2^23 = 8388608 /\ 2^24 = 16777216
BY SMT

(* is_power_of_two within the accepted range finds one of them. *)
LEMMA CapacityIsAPower ==
  ASSUME NEW n \in Nat, 16 <= n, n <= 16777216, IsPowerOfTwo(n)
  PROVE  \E k \in 4 .. 24 : n = 2^k
<1> SUFFICES ASSUME \A k \in 4 .. 24 : n # 2^k PROVE FALSE
  BY SMT
<1>1. \A k \in 4 .. 23 : 2^k \in Nat => ~(2^k < n /\ n < 2 * 2^k)
  BY NoBitInCommon, SMT
<1> QED  BY <1>1, PowersOfTwo, SMT

(* The export section of an accepted document is in its ranges. *)
LEMMA ExportIs ==
  ASSUME NEW e \in ExportDocuments, ~BadExport(e)
  PROVE  LET x == Export(e)
         IN  /\ x.queue_capacity \in Nat /\ 16 <= x.queue_capacity
             /\ x.queue_capacity <= 16777216
             /\ x.batch_size \in Nat /\ 1 <= x.batch_size
             /\ x.segment_max_mb \in Nat /\ x.segment_max_mb <= 65536
             /\ x.max_total_mb \in Nat /\ x.max_total_mb <= 16777216
<1> DEFINE x == Export(e)
<1>1. /\ e.queue_capacity \in Fields /\ e.batch_size \in Fields
      /\ e.segment_max_mb \in Fields /\ e.max_total_mb \in Fields
  BY DEF ExportDocuments
<1>2. /\ ~BadInt(e.queue_capacity, 16, 16777216) /\ ~BadInt(e.batch_size, 1, 1048576)
      /\ ~BadInt(e.segment_max_mb, 1, 65536) /\ ~BadInt(e.max_total_mb, 0, 16777216)
  BY SMT DEF BadExport
<1>3. /\ x.queue_capacity = GetInt(e.queue_capacity, 65536)
      /\ x.batch_size = GetInt(e.batch_size, 1000)
      /\ x.segment_max_mb = GetInt(e.segment_max_mb, 64)
      /\ x.max_total_mb = GetInt(e.max_total_mb, 1024)
  BY SMT DEF Export
<1> HIDE DEF x
<1>4. x.queue_capacity \in Int /\ 16 <= x.queue_capacity /\ x.queue_capacity <= 16777216
  <2>1. /\ e.queue_capacity \in Fields /\ ~BadInt(e.queue_capacity, 16, 16777216)
        /\ x.queue_capacity = GetInt(e.queue_capacity, 65536)
    BY <1>1, <1>2, <1>3, SMT
  <2> QED  BY <2>1, IntIs, SMT
<1>41. x.batch_size \in Int /\ 1 <= x.batch_size
  BY <1>1, <1>2, <1>3, IntIs, SMT
<1>5. x.segment_max_mb \in Int /\ 1 <= x.segment_max_mb /\ x.segment_max_mb <= 65536
  BY <1>1, <1>2, <1>3, IntIs, SMT
<1>51. x.max_total_mb \in Int /\ 0 <= x.max_total_mb /\ x.max_total_mb <= 16777216
  BY <1>1, <1>2, <1>3, IntIs, SMT
<1>6. /\ x.queue_capacity \in Nat /\ x.batch_size \in Nat
      /\ x.segment_max_mb \in Nat /\ x.max_total_mb \in Nat
  BY <1>4, <1>41, <1>5, <1>51, SMT
<1> QED  BY <1>4, <1>41, <1>5, <1>51, <1>6, SMT DEF x

(* An accepted document gives a configuration in its ranges. *)
LEMMA ParsedIs ==
  ASSUME NEW j \in Documents, ~BadDocument(j)
  PROVE  LET cfg == Parsed(j)
         IN  /\ cfg.http_port \in Nat /\ cfg.http_port <= 65535
             /\ cfg.ws_port \in Nat /\ cfg.ws_port <= 65535
             /\ cfg.worker_threads \in Nat /\ cfg.worker_threads <= 256
             /\ cfg.retention_hours \in Nat /\ cfg.retention_hours <= 87600
             /\ ~BadExport(j.export) /\ j.export \in ExportDocuments
             /\ j.devices \in Seq(DeviceDocuments)
             /\ \A i \in DOMAIN j.devices : ~BadDevice(j.devices[i])
             /\ j.channels \in Seq(ChannelDocuments)
<1> DEFINE cfg == Parsed(j)
<1>1. /\ j.http_port \in Fields /\ j.ws_port \in Fields
      /\ j.worker_threads \in Fields /\ j.retention_hours \in Fields
      /\ j.export \in ExportDocuments /\ j.devices \in Seq(DeviceDocuments)
      /\ j.channels \in Seq(ChannelDocuments)
  BY DEF Documents
<1>2. /\ ~BadInt(j.http_port, 1, 65535) /\ ~BadInt(j.ws_port, 1, 65535)
      /\ ~BadInt(j.worker_threads, 1, 256) /\ ~BadInt(j.retention_hours, 1, 87600)
      /\ ~BadExport(j.export)
  BY SMT DEF BadDocument
<1>3. \A i \in DOMAIN j.devices : ~BadDevice(j.devices[i])
  BY SMT DEF BadDocument
<1>4. /\ cfg.http_port = GetInt(j.http_port, 8080) /\ cfg.ws_port = GetInt(j.ws_port, 8081)
      /\ cfg.worker_threads = GetInt(j.worker_threads, 4)
      /\ cfg.retention_hours = GetInt(j.retention_hours, 168)
  BY SMT DEF Parsed
<1> HIDE DEF cfg
<1>5. cfg.http_port \in Int /\ 1 <= cfg.http_port /\ cfg.http_port <= 65535
  <2>1. /\ j.http_port \in Fields /\ ~BadInt(j.http_port, 1, 65535)
        /\ cfg.http_port = GetInt(j.http_port, 8080)
    BY <1>1, <1>2, <1>4, SMT
  <2> QED  BY <2>1, IntIs, SMT
<1>51. cfg.ws_port \in Int /\ 1 <= cfg.ws_port /\ cfg.ws_port <= 65535
  <2>1. /\ j.ws_port \in Fields /\ ~BadInt(j.ws_port, 1, 65535)
        /\ cfg.ws_port = GetInt(j.ws_port, 8081)
    BY <1>1, <1>2, <1>4, SMT
  <2> QED  BY <2>1, IntIs, SMT
<1>6. cfg.worker_threads \in Int /\ 1 <= cfg.worker_threads /\ cfg.worker_threads <= 256
  <2>1. /\ j.worker_threads \in Fields /\ ~BadInt(j.worker_threads, 1, 256)
        /\ cfg.worker_threads = GetInt(j.worker_threads, 4)
    BY <1>1, <1>2, <1>4, SMT
  <2> QED  BY <2>1, IntIs, SMT
<1>61. cfg.retention_hours \in Int /\ 1 <= cfg.retention_hours /\ cfg.retention_hours <= 87600
  <2>1. /\ j.retention_hours \in Fields /\ ~BadInt(j.retention_hours, 1, 87600)
        /\ cfg.retention_hours = GetInt(j.retention_hours, 168)
    BY <1>1, <1>2, <1>4, SMT
  <2> QED  BY <2>1, IntIs, SMT
<1>7. /\ cfg.http_port \in Nat /\ cfg.ws_port \in Nat
      /\ cfg.worker_threads \in Nat /\ cfg.retention_hours \in Nat
  BY <1>5, <1>51, <1>6, <1>61, SMT
<1> QED  BY <1>1, <1>2, <1>3, <1>5, <1>51, <1>6, <1>61, <1>7, SMT DEF cfg

(* What the environment does to a configuration. *)
LEMMA ExportOverridesAre ==
  ASSUME NEW e, NEW env
  PROVE  LET x   == Export(e)
             new == ExportOverrides(x, env)
         IN  /\ new.queue_capacity = x.queue_capacity
             /\ new.batch_size = x.batch_size
             /\ new.enabled = IF env.export_enabled = Absent THEN x.enabled
                              ELSE IF env.export_enabled = Num(1) THEN 1 ELSE 0
             /\ new.directory = GetString(env.export_dir, x.directory)
             /\ new.max_total_mb = ParseOr(env.export_max_mb, x.max_total_mb, U32)
             /\ new.segment_max_mb = ParseOr(env.export_segment_mb, x.segment_max_mb, U32)
BY SMT DEF ExportOverrides, Export

(* apply_env_overrides replaces a setting by its variable and leaves the rest. *)
LEMMA OverridesAre ==
  ASSUME NEW j, NEW env
  PROVE  LET cfg == Parsed(j)
             new == ApplyEnvOverrides(cfg, env)
         IN  /\ new.http_port = ParseOr(env.http_port, cfg.http_port, U16)
             /\ new.ws_port = ParseOr(env.ws_port, cfg.ws_port, U16)
             /\ new.log_level = GetString(env.log_level, cfg.log_level)
             /\ new.worker_threads = ParseOr(env.worker_threads, cfg.worker_threads, U64)
             /\ new.retention_hours = ParseOr(env.retention_hours, cfg.retention_hours, U32)
             /\ new.language = GetString(env.language, cfg.language)
             /\ new.devices = cfg.devices
             /\ new.channels = cfg.channels \o Shortcut("telegram", env.bot_token, env.chat_id)
                                            \o Shortcut("slack", env.slack_url, Absent)
                                            \o Shortcut("webhook", env.webhook_url, Absent)
             /\ new.export = ExportOverrides(cfg.export, env)
             /\ cfg.devices = [i \in DOMAIN j.devices |-> Device(j.devices[i])]
             /\ cfg.channels = [i \in DOMAIN j.channels |-> Channel(j.channels[i])]
             /\ cfg.export = Export(j.export)
BY SMT DEF ApplyEnvOverrides, Parsed

(* The configuration validate is given, and what becomes of it. *)
Merged(document, env) == ApplyEnvOverrides(Parsed(document), env)

(* validate drops channels and changes nothing else. *)
LEMMA ValidatedIs ==
  ASSUME NEW j, NEW env
  PROVE  LET new == Merged(j, env)
             cfg == Validated(new)
         IN  /\ cfg.http_port = new.http_port /\ cfg.ws_port = new.ws_port
             /\ cfg.worker_threads = new.worker_threads
             /\ cfg.retention_hours = new.retention_hours
             /\ cfg.devices = new.devices /\ cfg.export = new.export
             /\ cfg.channels =
                    Only(new.channels, {c \in ToSet(new.channels) : IsComplete(c)})
<1> DEFINE new == Merged(j, env)
           kept == Only(new.channels, {c \in ToSet(new.channels) : IsComplete(c)})
<1>1. "channels" \in DOMAIN new
  <2>1. "channels" \in DOMAIN Parsed(j)
    BY SMT DEF Parsed
  <2>2. DOMAIN new = DOMAIN Parsed(j)
    BY Zenon DEF Merged, ApplyEnvOverrides
  <2> QED  BY <2>1, <2>2
<1>2. Validated(new) = [new EXCEPT !.channels = kept]
  BY DEF Validated
<1> HIDE DEF new, kept
<1>3. LET cfg == [new EXCEPT !.channels = kept]
      IN  /\ cfg.http_port = new.http_port /\ cfg.ws_port = new.ws_port
          /\ cfg.worker_threads = new.worker_threads
          /\ cfg.retention_hours = new.retention_hours
          /\ cfg.devices = new.devices /\ cfg.export = new.export
          /\ cfg.channels = kept
  BY <1>1, SMT
<1> QED  BY <1>2, <1>3 DEF new, kept

(* A channel given by environment variables is a list of one channel or none. *)
LEMMA ShortcutIs ==
  ASSUME NEW type, NEW variable, NEW chat
  PROVE  Shortcut(type, variable, chat) \in Seq(ToSet(Shortcut(type, variable, chat)))
<1> DEFINE s == Shortcut(type, variable, chat)
<1>1. CASE variable = Absent
  <2>1. s = <<>>
    BY <1>1 DEF Shortcut
  <2> QED  BY <2>1, EmptySeq
<1>2. CASE variable # Absent
  <2>1. PICK r : s = <<r>>
    BY <1>2 DEF Shortcut
  <2>2. {r} \subseteq ToSet(s)
    <3>1. 1 \in DOMAIN <<r>> /\ <<r>>[1] = r
      OBVIOUS
    <3>2. 1 \in DOMAIN s /\ s[1] = r
      BY <2>1, <3>1
    <3> HIDE DEF s
    <3> QED  BY <3>2 DEF ToSet
  <2>3. <<r>> \in Seq({r})
    OBVIOUS
  <2> HIDE DEF s
  <2>4. s \in Seq(ToSet(s))
    BY <2>1, <2>2, <2>3, SeqMonotonic
  <2> QED  BY <2>4 DEF s
<1> QED  BY <1>1, <1>2

(* The channels of the document and of the environment form one list. *)
LEMMA ChannelsAreSequence ==
  ASSUME NEW j \in Documents, NEW env
  PROVE  \E T : Merged(j, env).channels \in Seq(T)
<1> DEFINE a == Parsed(j).channels
           b == Shortcut("telegram", env.bot_token, env.chat_id)
           c == Shortcut("slack", env.slack_url, Absent)
           d == Shortcut("webhook", env.webhook_url, Absent)
           T == ToSet(a) \cup ToSet(b) \cup ToSet(c) \cup ToSet(d)
<1>1. a = [i \in DOMAIN j.channels |-> Channel(j.channels[i])]
  BY OverridesAre
<1>2. Merged(j, env).channels = ((a \o b) \o c) \o d
  BY OverridesAre DEF Merged
<1>3. j.channels \in Seq(ChannelDocuments)
  BY DEF Documents
<1>4. DOMAIN j.channels = 1 .. Len(j.channels) /\ Len(j.channels) \in Nat
  BY <1>3, LenProperties
<1> HIDE DEF a
<1>5. a \in Seq(ToSet(a))
  <2>1. \A i \in 1 .. Len(j.channels) : a[i] \in ToSet(a)
    BY <1>1, <1>4 DEF ToSet
  <2>2. a \in [1 .. Len(j.channels) -> ToSet(a)]
    BY <1>1, <1>4, <2>1
  <2> QED  BY <1>4, <2>2
<1>6. b \in Seq(ToSet(b)) /\ c \in Seq(ToSet(c)) /\ d \in Seq(ToSet(d))
  BY ShortcutIs
<1> HIDE DEF b, c, d
<1>7. a \in Seq(T) /\ b \in Seq(T) /\ c \in Seq(T) /\ d \in Seq(T)
  <2>1. ToSet(a) \subseteq T /\ ToSet(b) \subseteq T /\ ToSet(c) \subseteq T /\ ToSet(d) \subseteq T
    OBVIOUS
  <2> HIDE DEF T
  <2> QED  BY <1>5, <1>6, <2>1, SeqMonotonic
<1> HIDE DEF T
<1>8. a \o b \in Seq(T)
  BY <1>7, ConcatProperties
<1>9. (a \o b) \o c \in Seq(T)
  BY <1>7, <1>8, ConcatProperties
<1>10. ((a \o b) \o c) \o d \in Seq(T)
  BY <1>7, <1>9, ConcatProperties
<1> QED  BY <1>2, <1>10

(* Every channel left by validate has its credentials. *)
LEMMA AcceptedChannels ==
  ASSUME NEW j \in Documents, NEW env
  PROVE  LET channels == Validated(Merged(j, env)).channels
         IN  \A i \in DOMAIN channels : IsComplete(channels[i])
<1> DEFINE s == Merged(j, env).channels
           wanted == {c \in ToSet(s) : IsComplete(c)}
<1>1. PICK T : s \in Seq(T)
  BY ChannelsAreSequence
<1>2. Validated(Merged(j, env)).channels = Only(s, wanted)
  BY ValidatedIs
<1> HIDE DEF s
<1>3. Only(s, wanted) \in Seq(wanted)
  <2> HIDE DEF wanted
  <2> QED  BY <1>1, OnlyType
<1>4. \A i \in DOMAIN Only(s, wanted) : Only(s, wanted)[i] \in wanted
  <2> HIDE DEF wanted
  <2> QED  BY <1>3, LenProperties, ElementOfSeq
<1> QED  BY <1>2, <1>4

(* The export section that passes validate is usable, whatever the environment set. *)
LEMMA ExportIsUsable ==
  ASSUME NEW j \in Documents, NEW env \in Environments,
         ~BadDocument(j), ~Invalid(Merged(j, env))
  PROVE  UsableExport(Merged(j, env).export)
<1> DEFINE new == Merged(j, env)
           old == Export(j.export)
           e == new.export
<1>1. e = ExportOverrides(old, env)
  <2>1. new.export = ExportOverrides(Parsed(j).export, env)
    BY OverridesAre, Zenon DEF Merged
  <2>2. Parsed(j).export = old
    BY Zenon, OverridesAre
  <2> QED  BY <2>1, <2>2
<1>2. j.export \in ExportDocuments /\ ~BadExport(j.export)
  BY ParsedIs
<1>3. /\ old.queue_capacity \in Nat /\ 16 <= old.queue_capacity
      /\ old.queue_capacity <= 16777216
      /\ old.batch_size \in Nat /\ 1 <= old.batch_size
      /\ old.segment_max_mb \in Nat /\ old.segment_max_mb <= 65536
      /\ old.max_total_mb \in Nat /\ old.max_total_mb <= 16777216
  BY <1>2, ExportIs
<1>4. /\ e.queue_capacity = old.queue_capacity /\ e.batch_size = old.batch_size
      /\ e.max_total_mb = ParseOr(env.export_max_mb, old.max_total_mb, U32)
      /\ e.segment_max_mb = ParseOr(env.export_segment_mb, old.segment_max_mb, U32)
  BY <1>1, ExportOverridesAre
<1>5. /\ IsPowerOfTwo(e.queue_capacity) /\ ~(e.batch_size > e.queue_capacity)
      /\ ~(e.enabled = 1 /\ e.directory = NoText)
      /\ e.segment_max_mb # 0 /\ ~TotalTooSmall(e)
  BY SMT DEF Invalid
<1>6. env.export_max_mb \in Fields /\ env.export_segment_mb \in Fields
  BY DEF Environments
<1> HIDE DEF old, e
<1>7. e.max_total_mb \in Nat
  <2>1. old.max_total_mb <= U32
    BY <1>3, LargestIs, SMT
  <2>2. env.export_max_mb \in Fields /\ old.max_total_mb \in Nat /\ U32 \in Nat
    BY <1>3, <1>6, LargestType, SMT
  <2>3. ParseOr(env.export_max_mb, old.max_total_mb, U32) \in Nat
    BY <2>1, <2>2, ParseOrIs, Zenon
  <2> QED  BY <1>4, <2>3, SMT
<1>8. e.segment_max_mb \in Nat
  <2>1. old.segment_max_mb <= U32
    BY <1>3, LargestIs, SMT
  <2>2. env.export_segment_mb \in Fields /\ old.segment_max_mb \in Nat /\ U32 \in Nat
    BY <1>3, <1>6, LargestType, SMT
  <2>3. ParseOr(env.export_segment_mb, old.segment_max_mb, U32) \in Nat
    BY <2>1, <2>2, ParseOrIs, Zenon
  <2> QED  BY <1>4, <2>3, SMT
<1>9. \E k \in 4 .. 24 : e.queue_capacity = 2^k
  BY <1>3, <1>4, <1>5, CapacityIsAPower
<1>10. e.batch_size \in 1 .. e.queue_capacity
  BY <1>3, <1>4, <1>5, SMT
<1>11. e.max_total_mb = 0 \/ e.max_total_mb \div e.segment_max_mb >= 2
  <2> DEFINE t == e.max_total_mb
             s == e.segment_max_mb
  <2>1. t \in Nat /\ s \in Nat /\ s # 0 /\ (t = 0 \/ t >= 2 * s)
    BY <1>5, <1>7, <1>8 DEF TotalTooSmall
  <2> HIDE DEF t, s
  <2>2. t = 0 \/ t \div s >= 2
    BY <2>1
  <2> QED  BY <2>2 DEF t, s
<1>12. e.segment_max_mb >= 1 /\ (e.enabled = 1 => e.directory # NoText)
  BY <1>5, <1>8, SMT
<1>13. UsableExport(e)
  BY <1>9, <1>10, <1>11, <1>12, Zenon DEF UsableExport
<1> QED  BY <1>13 DEF e, new

(* So are the ports, the number of workers and the retention. *)
LEMMA ServersAreUsable ==
  ASSUME NEW j \in Documents, NEW env \in Environments,
         ~BadDocument(j), ~Invalid(Merged(j, env))
  PROVE  LET cfg == Merged(j, env)
         IN  /\ cfg.http_port \in 1 .. U16 /\ cfg.ws_port \in (1 .. U16) \ {cfg.http_port}
             /\ cfg.worker_threads \in 1 .. 256 /\ cfg.retention_hours >= 1
<1> DEFINE cfg == Merged(j, env)
           old == Parsed(j)
<1>1. /\ cfg.http_port = ParseOr(env.http_port, old.http_port, U16)
      /\ cfg.ws_port = ParseOr(env.ws_port, old.ws_port, U16)
      /\ cfg.retention_hours = ParseOr(env.retention_hours, old.retention_hours, U32)
  BY OverridesAre DEF Merged
<1>2. /\ old.http_port \in Nat /\ old.http_port <= 65535
      /\ old.ws_port \in Nat /\ old.ws_port <= 65535
      /\ old.retention_hours \in Nat /\ old.retention_hours <= 87600
  BY ParsedIs
<1>3. /\ cfg.http_port # 0 /\ cfg.ws_port # 0 /\ cfg.http_port # cfg.ws_port
      /\ cfg.worker_threads \in 1 .. 256 /\ cfg.retention_hours # 0
  BY SMT DEF Invalid
<1>4. /\ env.http_port \in Fields /\ env.ws_port \in Fields /\ env.retention_hours \in Fields
  BY DEF Environments
<1> HIDE DEF cfg, old
<1>5. /\ old.http_port <= U16 /\ old.ws_port <= U16 /\ old.retention_hours <= U32
  BY <1>2, LargestIs, SMT
<1>51. /\ old.http_port \in Nat /\ old.ws_port \in Nat /\ old.retention_hours \in Nat
       /\ U16 \in Nat /\ U32 \in Nat
  BY <1>2, LargestType, SMT
<1>61. cfg.http_port \in Nat /\ cfg.http_port <= U16
  <2>1. env.http_port \in Fields /\ old.http_port \in Nat /\ U16 \in Nat /\ old.http_port <= U16
    BY <1>4, <1>5, <1>51, Zenon
  <2>2. /\ ParseOr(env.http_port, old.http_port, U16) \in Nat
        /\ ParseOr(env.http_port, old.http_port, U16) <= U16
    BY <2>1, ParseOrIs, Zenon
  <2> QED  BY <1>1, <2>2, Zenon
<1>62. cfg.ws_port \in Nat /\ cfg.ws_port <= U16
  <2>1. env.ws_port \in Fields /\ old.ws_port \in Nat /\ U16 \in Nat /\ old.ws_port <= U16
    BY <1>4, <1>5, <1>51, Zenon
  <2>2. /\ ParseOr(env.ws_port, old.ws_port, U16) \in Nat
        /\ ParseOr(env.ws_port, old.ws_port, U16) <= U16
    BY <2>1, ParseOrIs, Zenon
  <2> QED  BY <1>1, <2>2, Zenon
<1>7. cfg.retention_hours \in Nat
  BY <1>1, <1>4, <1>5, <1>51, ParseOrIs, ZenonT(60)
<1>8. cfg.http_port \in 1 .. U16 /\ cfg.ws_port \in (1 .. U16) \ {cfg.http_port}
  BY <1>3, <1>61, <1>62, LargestType, SMT
<1>9. cfg.retention_hours >= 1
  BY <1>3, <1>7, SMT
<1> QED  BY <1>3, <1>8, <1>9, SMT DEF cfg

(* So are the devices: no id twice, and every sensor usable. *)
LEMMA DevicesAreUsable ==
  ASSUME NEW j \in Documents, NEW env \in Environments,
         ~BadDocument(j), ~Invalid(Merged(j, env))
  PROVE  UsableDevices(Merged(j, env).devices)
<1> DEFINE devices == Merged(j, env).devices
           sensors == AllSensors(devices)
<1>1. devices = [i \in DOMAIN j.devices |-> Device(j.devices[i])]
  BY OverridesAre DEF Merged
<1>2. /\ j.devices \in Seq(DeviceDocuments)
      /\ \A i \in DOMAIN j.devices : ~BadDevice(j.devices[i])
  BY ParsedIs
<1>3. /\ Len(j.devices) \in Nat /\ DOMAIN j.devices = 1 .. Len(j.devices)
      /\ \A i \in DOMAIN j.devices : j.devices[i] \in DeviceDocuments
  BY <1>2, LenProperties, ElementOfSeq
<1>4. ~DuplicateIds(devices)
  BY SMT DEF Invalid
<1> HIDE DEF devices
<1>5. \A i \in DOMAIN devices :
        /\ devices[i].sensors \in Seq(ToSet(devices[i].sensors))
        /\ devices[i].sensors # <<>>
        /\ \A s \in ToSet(devices[i].sensors) : UsableSensor(s)
  BY <1>1, <1>2, <1>3, DeviceSensors
<1>6. devices \in Seq(ToSet(devices)) /\ Len(devices) = Len(j.devices)
      /\ DOMAIN devices = 1 .. Len(j.devices)
  <2>1. \A i \in 1 .. Len(j.devices) : devices[i] \in ToSet(devices)
    BY <1>1, <1>3 DEF ToSet
  <2>2. devices \in [1 .. Len(j.devices) -> ToSet(devices)]
    BY <1>1, <1>3, <2>1
  <2> QED  BY <1>3, <2>2
<1>7. /\ Len(sensors) \in Nat /\ DOMAIN sensors = 1 .. Len(sensors)
      /\ \A k \in DOMAIN sensors : \E i \in DOMAIN devices :
             sensors[k] \in ToSet(devices[i].sensors)
  BY <1>5, <1>6, AllSensorsAre
<1> HIDE DEF sensors
<1>8. /\ ~(Cardinality({devices[i].id : i \in DOMAIN devices}) < Len(devices))
      /\ ~(Cardinality({sensors[i].id : i \in DOMAIN sensors}) < Len(sensors))
  BY <1>4, Zenon DEF DuplicateIds, sensors, AllSensors
<1>9. \A i, k \in DOMAIN devices : devices[i].id = devices[k].id => i = k
  BY <1>3, <1>6, <1>8, NoRepeats
<1>10. \A i, k \in DOMAIN sensors : sensors[i].id = sensors[k].id => i = k
  BY <1>7, <1>8, NoRepeats
<1>11. \A k \in DOMAIN sensors : UsableSensor(sensors[k])
  BY <1>5, <1>7
<1> QED  BY <1>5, <1>9, <1>10, <1>11, Zenon DEF UsableDevices, devices, sensors, AllSensors

(* Every configuration that is accepted is usable. *)
LEMMA AcceptedIsUsable ==
  ASSUME NEW j \in Documents, NEW env \in Environments,
         ~BadDocument(j), ~Invalid(Merged(j, env))
  PROVE  LET cfg == Validated(Merged(j, env))
         IN  /\ UsableExport(cfg.export)
             /\ cfg.http_port \in 1 .. U16 /\ cfg.ws_port \in (1 .. U16) \ {cfg.http_port}
             /\ cfg.worker_threads \in 1..256 /\ cfg.retention_hours >= 1
             /\ UsableDevices(cfg.devices)
             /\ \A i \in DOMAIN cfg.channels : UsableChannel(cfg.channels[i])
<1> DEFINE new == Merged(j, env)
           cfg == Validated(new)
<1>1. /\ cfg.http_port = new.http_port /\ cfg.ws_port = new.ws_port
      /\ cfg.worker_threads = new.worker_threads
      /\ cfg.retention_hours = new.retention_hours
      /\ cfg.devices = new.devices /\ cfg.export = new.export
  BY ValidatedIs
<1>2. UsableExport(new.export) /\ UsableDevices(new.devices)
  BY ExportIsUsable, DevicesAreUsable
<1>3. /\ new.http_port \in 1 .. U16 /\ new.ws_port \in (1 .. U16) \ {new.http_port}
      /\ new.worker_threads \in 1 .. 256 /\ new.retention_hours >= 1
  BY ServersAreUsable
<1>4. \A i \in DOMAIN cfg.channels : IsComplete(cfg.channels[i])
  BY AcceptedChannels
<1> HIDE DEF cfg, new
<1>5. \A i \in DOMAIN cfg.channels : UsableChannel(cfg.channels[i])
  BY <1>4 DEF IsComplete, UsableChannel
<1> QED  BY <1>1, <1>2, <1>3, <1>5, SMT DEF cfg, new

(* The default capacity is a power of two. *)
LEMMA DefaultIsAPower == IsPowerOfTwo(65536)
<1>1. \A k \in 0 .. 15 : ~HasBit(65536, k)
  <2> TAKE k \in 0 .. 15
  <2>1. /\ ~HasBit(65536, 0) /\ ~HasBit(65536, 1) /\ ~HasBit(65536, 2) /\ ~HasBit(65536, 3)
        /\ ~HasBit(65536, 4) /\ ~HasBit(65536, 5) /\ ~HasBit(65536, 6) /\ ~HasBit(65536, 7)
    BY SMT DEF HasBit
  <2>2. /\ ~HasBit(65536, 8) /\ ~HasBit(65536, 9) /\ ~HasBit(65536, 10) /\ ~HasBit(65536, 11)
        /\ ~HasBit(65536, 12) /\ ~HasBit(65536, 13) /\ ~HasBit(65536, 14) /\ ~HasBit(65536, 15)
    BY SMT DEF HasBit
  <2>3. \/ k = 0 \/ k = 1 \/ k = 2 \/ k = 3 \/ k = 4 \/ k = 5 \/ k = 6 \/ k = 7 \/ k = 8
        \/ k = 9 \/ k = 10 \/ k = 11 \/ k = 12 \/ k = 13 \/ k = 14 \/ k = 15
    OBVIOUS
  <2> QED  BY <2>1, <2>2, <2>3, SMT
<1>2. \A k \in 16 .. 30 : ~HasBit(65535, k)
  <2> TAKE k \in 16 .. 30
  <2>1. /\ ~HasBit(65535, 16) /\ ~HasBit(65535, 17) /\ ~HasBit(65535, 18) /\ ~HasBit(65535, 19)
        /\ ~HasBit(65535, 20) /\ ~HasBit(65535, 21) /\ ~HasBit(65535, 22) /\ ~HasBit(65535, 23)
    BY SMT DEF HasBit
  <2>2. /\ ~HasBit(65535, 24) /\ ~HasBit(65535, 25) /\ ~HasBit(65535, 26) /\ ~HasBit(65535, 27)
        /\ ~HasBit(65535, 28) /\ ~HasBit(65535, 29) /\ ~HasBit(65535, 30)
    BY SMT DEF HasBit
  <2>3. \/ k = 16 \/ k = 17 \/ k = 18 \/ k = 19 \/ k = 20 \/ k = 21 \/ k = 22 \/ k = 23
        \/ k = 24 \/ k = 25 \/ k = 26 \/ k = 27 \/ k = 28 \/ k = 29 \/ k = 30
    OBVIOUS
  <2> QED  BY <2>1, <2>2, <2>3, SMT
<1>3. 65536 - 1 = 65535 /\ \A k \in 0 .. 30 : k \in 0 .. 15 \/ k \in 16 .. 30
  BY SMT
<1> QED  BY <1>1, <1>2, <1>3, SMT DEF IsPowerOfTwo

(* What is absent is never wrong and takes its default. *)
LEMMA AbsentIs ==
  /\ \A low, high : ~BadInt(Absent, low, high)
  /\ ~BadString(Absent) /\ ~BadBool(Absent) /\ \A options : ~BadEnum(Absent, options)
  /\ \A x : GetInt(Absent, x) = x /\ GetString(Absent, x) = x /\ GetEnum(Absent, x) = x
  /\ \A x, y : ParseOr(Absent, x, y) = x
<1>1. Absent.is = "absent"
  BY DEF Absent
<1> QED  BY <1>1 DEF BadInt, BadString, BadBool, BadEnum, IsWord, GetInt, GetString, GetEnum, ParseOr

(* Where there is no device, no id occurs twice. *)
LEMMA NoDevicesNoDuplicates ==
  ASSUME NEW d, d = <<>>
  PROVE  ~DuplicateIds(d)
<1> DEFINE s == [i \in DOMAIN d |-> d[i].sensors]
           f == FlattenSeq(s)
<1>1. DOMAIN d = {} /\ Len(d) = 0
  OBVIOUS
<1>2. s = <<>>
  BY <1>1
<1> HIDE DEF s
<1>3. f = <<>>
  <2>1. Len(s) = 0
    BY <1>2
  <2> QED  BY <1>2, <2>1, FlattenIs
<1> HIDE DEF f
<1>4. ~(Cardinality({d[i].id : i \in DOMAIN d}) < Len(d))
  <2>1. {d[i].id : i \in DOMAIN d} = {}
    BY <1>1
  <2>2. ~(Cardinality({}) < 0)
    BY FS_EmptySet
  <2> QED  BY <1>1, <2>1, <2>2
<1>5. ~(Cardinality({f[i].id : i \in DOMAIN f}) < Len(f))
  <2>1. {f[i].id : i \in DOMAIN f} = {} /\ Len(f) = 0
    BY <1>3
  <2>2. ~(Cardinality({}) < 0)
    BY FS_EmptySet
  <2> QED  BY <2>1, <2>2
<1> QED  BY <1>4, <1>5, Zenon DEF DuplicateIds, s, f

(* The program starts with nothing but channels configured. *)
LEMMA EmptyIsAccepted ==
  ASSUME NEW j \in Documents, NEW env \in Environments,
         [j EXCEPT !.channels = <<>>] = EmptyDocument,
         \A i \in DOMAIN j.channels : ~BadChannel(j.channels[i]),
         [env EXCEPT !.bot_token = Absent, !.chat_id = Absent, !.slack_url = Absent]
             = EmptyEnvironment
  PROVE  ~BadDocument(j) /\ ~Invalid(Merged(j, env))
<1>1. /\ j.log_level = Absent /\ j.http_port = Absent /\ j.ws_port = Absent
      /\ j.worker_threads = Absent /\ j.retention_hours = Absent /\ j.devices = <<>>
      /\ j.language = Absent /\ j.min_severity = Absent /\ j.export = NoExport
  <2> DEFINE e == [j EXCEPT !.channels = <<>>]
  <2>1. /\ e.log_level = j.log_level /\ e.http_port = j.http_port /\ e.ws_port = j.ws_port
        /\ e.worker_threads = j.worker_threads /\ e.retention_hours = j.retention_hours
        /\ e.devices = j.devices /\ e.language = j.language
        /\ e.min_severity = j.min_severity /\ e.export = j.export
    BY SMT
  <2>2. e = EmptyDocument
    OBVIOUS
  <2> HIDE DEF e
  <2> QED  BY <2>1, <2>2, SMT DEF EmptyDocument
<1>2. /\ env.http_port = Absent /\ env.ws_port = Absent /\ env.worker_threads = Absent
      /\ env.retention_hours = Absent /\ env.log_level = Absent /\ env.language = Absent
      /\ env.export_dir = Absent /\ env.export_enabled = Absent
      /\ env.export_max_mb = Absent /\ env.export_segment_mb = Absent
  <2> DEFINE e == [env EXCEPT !.bot_token = Absent, !.chat_id = Absent, !.slack_url = Absent]
  <2>1. /\ e.http_port = env.http_port /\ e.ws_port = env.ws_port
        /\ e.worker_threads = env.worker_threads /\ e.retention_hours = env.retention_hours
        /\ e.log_level = env.log_level /\ e.language = env.language
        /\ e.export_dir = env.export_dir /\ e.export_enabled = env.export_enabled
        /\ e.export_max_mb = env.export_max_mb /\ e.export_segment_mb = env.export_segment_mb
    BY SMT
  <2>2. e = EmptyEnvironment
    OBVIOUS
  <2> HIDE DEF e
  <2> QED  BY <2>1, <2>2, SMT DEF EmptyEnvironment
<1>3. ~BadExport(NoExport)
  BY AbsentIs, SMT DEF NoExport, BadExport
<1>4. ~BadDocument(j)
  <2>1. \A i \in DOMAIN j.devices : FALSE
    BY <1>1
  <2> QED  BY <1>1, <1>3, <2>1, AbsentIs, SMT DEF BadDocument
<1> DEFINE cfg == Merged(j, env)
           old == Parsed(j)
<1>5. /\ old.http_port = 8080 /\ old.ws_port = 8081 /\ old.log_level = "info"
      /\ old.worker_threads = 4 /\ old.retention_hours = 168 /\ old.language = "ru"
      /\ old.export = Export(NoExport)
  BY <1>1, AbsentIs, SMT DEF Parsed
<1>6. cfg.devices = <<>>
  <2>1. cfg.devices = [i \in DOMAIN j.devices |-> Device(j.devices[i])]
    BY OverridesAre DEF Merged
  <2> QED  BY <1>1, <2>1
<1>7. /\ cfg.http_port = 8080 /\ cfg.ws_port = 8081 /\ cfg.log_level = "info"
      /\ cfg.worker_threads = 4 /\ cfg.retention_hours = 168 /\ cfg.language = "ru"
      /\ cfg.export = ExportOverrides(Export(NoExport), env)
  <2>1. /\ cfg.http_port = ParseOr(env.http_port, old.http_port, U16)
        /\ cfg.ws_port = ParseOr(env.ws_port, old.ws_port, U16)
        /\ cfg.log_level = GetString(env.log_level, old.log_level)
        /\ cfg.worker_threads = ParseOr(env.worker_threads, old.worker_threads, U64)
        /\ cfg.retention_hours = ParseOr(env.retention_hours, old.retention_hours, U32)
        /\ cfg.language = GetString(env.language, old.language)
        /\ cfg.export = ExportOverrides(old.export, env)
    BY OverridesAre, Zenon DEF Merged
  <2> HIDE DEF cfg, old
  <2> QED  BY <1>2, <1>5, <2>1, AbsentIs, SMT
<1> DEFINE x == Export(NoExport)
           e == ExportOverrides(x, env)
<1>8. /\ x.queue_capacity = 65536 /\ x.batch_size = 1000 /\ x.enabled = 0
      /\ x.segment_max_mb = 64 /\ x.max_total_mb = 1024
  BY AbsentIs, SMT DEF Export, NoExport
<1>9. /\ e.queue_capacity = 65536 /\ e.batch_size = 1000 /\ e.enabled = 0
      /\ e.segment_max_mb = 64 /\ e.max_total_mb = 1024
  <2>1. /\ e.queue_capacity = x.queue_capacity /\ e.batch_size = x.batch_size
        /\ e.enabled = IF env.export_enabled = Absent THEN x.enabled
                       ELSE IF env.export_enabled = Num(1) THEN 1 ELSE 0
        /\ e.max_total_mb = ParseOr(env.export_max_mb, x.max_total_mb, U32)
        /\ e.segment_max_mb = ParseOr(env.export_segment_mb, x.segment_max_mb, U32)
    BY ExportOverridesAre, Zenon
  <2> HIDE DEF e, x
  <2> QED  BY <1>2, <1>8, <2>1, AbsentIs, SMT
<1>10. ~TotalTooSmall(e)
  BY <1>9, SMT DEF TotalTooSmall
<1>11. ~DuplicateIds(cfg.devices)
  BY <1>6, NoDevicesNoDuplicates
<1> HIDE DEF e, x
<1>12. cfg.export = e
  BY <1>7 DEF e, x
<1> HIDE DEF cfg
<1>13. ~Invalid(cfg)
  BY <1>7, <1>9, <1>10, <1>11, <1>12, DefaultIsAPower, SMT DEF Invalid
<1> QED  BY <1>4, <1>13 DEF cfg

(* A configuration the program starts with is one it can run with. *)
LEMMA LoadedIsUsable ==
  ASSUME NEW document \in Documents, NEW env \in Environments,
         case = [run |-> "config", document |-> document, env |-> env],
         result = Parse(document, env)
  PROVE  AcceptedConfigIsUsable
<1>1. case.document = document /\ case.env = env
  OBVIOUS
<1>2. CASE BadDocument(document) \/ Invalid(Merged(document, env))
  <2>1. result = Refused
    BY <1>2 DEF Parse, Merged
  <2>2. ~result.accepted
    BY <2>1 DEF Refused
  <2>3. ~OnlyChannels
    <3> SUFFICES ASSUME OnlyChannels PROVE FALSE
      OBVIOUS
    <3> QED  BY <1>1, <1>2, EmptyIsAccepted DEF OnlyChannels
  <2> QED  BY <2>2, <2>3 DEF AcceptedConfigIsUsable
<1>3. CASE ~BadDocument(document) /\ ~Invalid(Merged(document, env))
  <2>1. result = [accepted |-> TRUE, config |-> Validated(Merged(document, env))]
    BY <1>3 DEF Parse, Merged
  <2>2. result.accepted /\ result.config = Validated(Merged(document, env))
    BY <2>1
  <2>3. LET cfg == result.config
        IN  /\ UsableExport(cfg.export)
            /\ cfg.http_port \in 1 .. U16 /\ cfg.ws_port \in (1 .. U16) \ {cfg.http_port}
            /\ cfg.worker_threads \in 1 .. 256 /\ cfg.retention_hours >= 1
            /\ UsableDevices(cfg.devices)
            /\ \A i \in DOMAIN cfg.channels : UsableChannel(cfg.channels[i])
    BY <1>3, <2>2, AcceptedIsUsable, ZenonT(60)
  <2> QED  BY <2>2, <2>3, Zenon DEF AcceptedConfigIsUsable
<1> QED  BY <1>2, <1>3

-----------------------------------------------------------------------------
(***************************************************************************)
(* Reading a segment. A case is a written segment in which at most one     *)
(* unit was overwritten and which was cut off somewhere. The loop of       *)
(* read_segment is followed from the last position to the first: from the  *)
(* positions past the damage everything that is whole is delivered         *)
(* (ReadsAll); where the damage is, the reader goes on behind the batch or *)
(* searches for the next header (PastDamage); before it, batch by batch    *)
(* (BeforeDamage).                                                         *)
(***************************************************************************)

(* The ends of the batches. *)
Ends(e, sizes) ==
  e = [n \in 0 .. Len(sizes) |->
         IF n = 0 THEN FirstBatch ELSE e[n - 1] + RequiredUnits(sizes[n])]

(* EndOf, unfolded. *)
LEMMA EndOfIs == \A sizes, b : EndOf(sizes, b) = (CHOOSE e : Ends(e, sizes))[b]
BY DEF EndOf, Ends

(* The first batch follows the segment header and the tag table. *)
LEMMA FirstBatchIs == FirstBatch = 5
BY DEF FirstBatch, HeaderUnits, TableUnits

(* Each batch takes its header and three units for each sample. *)
LEMMA EndOfProperties ==
  ASSUME NEW sizes \in Seq(Nat \ {0})
  PROVE  /\ Len(sizes) \in Nat /\ DOMAIN sizes = 1 .. Len(sizes)
         /\ \A b \in 1 .. Len(sizes) : sizes[b] \in Nat /\ sizes[b] >= 1
         /\ EndOf(sizes, 0) = 5
         /\ \A b \in 0 .. Len(sizes) : EndOf(sizes, b) \in Nat
         /\ \A b \in 1 .. Len(sizes) : EndOf(sizes, b) = EndOf(sizes, b - 1) + 2 + 3 * sizes[b]
<1> DEFINE N == Len(sizes)
           step == [p \in (1 .. N) \X Nat |-> p[2] + RequiredUnits(sizes[p[1]])]
<1>1. N \in Nat /\ DOMAIN sizes = 1 .. N /\ \A b \in 1 .. N : sizes[b] \in Nat /\ sizes[b] >= 1
  OBVIOUS
<1> HIDE DEF N
<1>2. \A b \in 1 .. N : RequiredUnits(sizes[b]) = 2 + 3 * sizes[b]
  BY <1>1 DEF RequiredUnits, BatchHeaderUnits, SampleUnits
<1>3. step \in [(1 .. N) \X Nat -> Nat]
  BY <1>1, <1>2
<1>4. PICK g : Recurs(g, N, Nat, 5, step)
  <2> HIDE DEF step
  <2> QED  BY <1>1, <1>3, RecursionExists
<1>5. \A b \in 1 .. N : g[b] = g[b - 1] + RequiredUnits(sizes[b]) /\ g[b - 1] \in Nat
  <2> TAKE b \in 1 .. N
  <2>1. g[b - 1] \in Nat
    <3>1. b - 1 \in 0 .. N
      BY <1>1
    <3> QED  BY <1>4, <3>1 DEF Recurs
  <2>2. g[b] = step[<<b, g[b - 1]>>]
    BY <1>4 DEF Recurs
  <2> QED  BY <2>1, <2>2
<1>6. Ends(g, sizes)
  <2>1. \A b \in 0 .. N : g[b] = IF b = 0 THEN FirstBatch ELSE g[b - 1] + RequiredUnits(sizes[b])
    <3> TAKE b \in 0 .. N
    <3>1. CASE b = 0
      BY <1>4, <3>1, FirstBatchIs DEF Recurs
    <3>2. CASE b # 0
      <4>1. b \in 1 .. N
        BY <1>1, <3>2
      <4> QED  BY <1>5, <3>2, <4>1
    <3> QED  BY <3>1, <3>2
  <2>2. g \in [0 .. N -> Nat]
    BY <1>4 DEF Recurs
  <2> QED  BY <2>1, <2>2 DEF Ends, N
<1> DEFINE e == CHOOSE e : Ends(e, sizes)
<1>7. Ends(e, sizes)
  BY <1>6
<1>8. \A b : EndOf(sizes, b) = e[b]
  BY EndOfIs
<1> HIDE DEF e
<1>9. e[0] = 5
  BY <1>1, <1>7, FirstBatchIs DEF Ends, N
<1>10. \A b \in 1 .. N : e[b] = e[b - 1] + RequiredUnits(sizes[b])
  <2> TAKE b \in 1 .. N
  <2>1. b \in 0 .. N /\ b # 0
    BY <1>1
  <2>2. \A n \in 0 .. N : e[n] = IF n = 0 THEN FirstBatch ELSE e[n - 1] + RequiredUnits(sizes[n])
    BY <1>7 DEF Ends, N
  <2> QED  BY <2>1, <2>2
<1>11. \A b \in 0 .. N : e[b] \in Nat
  <2> DEFINE S == {b \in 0 .. N : e[b] \in Nat}
  <2>1. 0 \in S
    BY <1>1, <1>9
  <2>2. \A b \in 1 .. N : b - 1 \in S => b \in S
    BY <1>1, <1>2, <1>10, SMTT(60)
  <2> HIDE DEF S
  <2>3. \A b \in 0 .. N : b \in S
    BY <1>1, <2>1, <2>2, UpTo
  <2> QED  BY <2>3 DEF S
<1>12. \A b \in 1 .. N : e[b] = e[b - 1] + 2 + 3 * sizes[b]
  <2> TAKE b \in 1 .. N
  <2>1. b - 1 \in 0 .. N
    BY <1>1
  <2> QED  BY <1>1, <1>2, <1>10, <1>11, <2>1
<1> QED  BY <1>1, <1>8, <1>9, <1>11, <1>12 DEF N

(* Later batches end later. *)
LEMMA EndsGrow ==
  ASSUME NEW sizes \in Seq(Nat \ {0}),
         NEW b \in 0 .. Len(sizes), NEW c \in 0 .. Len(sizes), b <= c
  PROVE  EndOf(sizes, b) <= EndOf(sizes, c) /\ (b < c => EndOf(sizes, b) < EndOf(sizes, c))
<1> DEFINE N == Len(sizes)
           E(x) == EndOf(sizes, x)
           S == {m \in 0 .. N : b <= m => E(b) <= E(m) /\ (b < m => E(b) < E(m))}
<1>1. /\ N \in Nat /\ \A x \in 0 .. N : E(x) \in Nat
      /\ \A x \in 1 .. N : E(x) = E(x - 1) + 2 + 3 * sizes[x] /\ sizes[x] \in Nat
  BY EndOfProperties
<1> HIDE DEF E, N
<1>2. 0 \in S
  BY <1>1 DEF N
<1>3. \A m \in 1 .. N : m - 1 \in S => m \in S
  <2> TAKE m \in 1 .. N
  <2> HAVE m - 1 \in S
  <2>1. b \in 0 .. N /\ m - 1 \in 0 .. N /\ m \in 0 .. N
    BY <1>1 DEF N
  <2>2. E(m) \in Nat /\ E(m - 1) \in Nat /\ E(b) \in Nat
    BY <1>1, <2>1
  <2>5. E(m) = E(m - 1) + 2 + 3 * sizes[m] /\ sizes[m] \in Nat
    BY <1>1
  <2>6. E(m) > E(m - 1)
    BY <2>2, <2>5
  <2>3. CASE b <= m - 1
    BY <2>1, <2>2, <2>3, <2>6
  <2>4. CASE b > m - 1
    BY <2>1, <2>2, <2>4, <2>6
  <2> QED  BY <2>1, <2>3, <2>4
<1> HIDE DEF S
<1>4. \A m \in 0 .. N : m \in S
  BY <1>1, <1>2, <1>3, UpTo
<1> QED  BY <1>4 DEF S, E, N

(* The payload of a batch and what the writer makes of it. *)
LEMMA PayloadIs ==
  ASSUME NEW sizes \in Seq(Nat \ {0}), NEW b \in 1 .. Len(sizes)
  PROVE  /\ Payloads(sizes)[b] = [k \in 1 .. 3 * sizes[b] |-> Data(10 * b + k)]
         /\ Len(Payloads(sizes)[b]) = 3 * sizes[b]
         /\ Serialize(Payloads(sizes)[b]) =
              <<Start(kVersion), CountAndSum(sizes[b], Payloads(sizes)[b])>> \o Payloads(sizes)[b]
<1> DEFINE p == Payloads(sizes)[b]
<1>1. sizes[b] \in Nat
  OBVIOUS
<1>2. p = [k \in 1 .. 3 * sizes[b] |-> Data(10 * b + k)]
  <2>1. b \in DOMAIN sizes
    OBVIOUS
  <2>2. p = [k \in 1 .. SampleUnits * sizes[b] |-> Data(10 * b + k)]
    BY <2>1, Zenon DEF Payloads
  <2> QED  BY <2>2 DEF SampleUnits
<1> HIDE DEF p
<1>3. Len(p) = 3 * sizes[b]
  BY <1>1, <1>2
<1>4. Len(p) \div SampleUnits = sizes[b]
  BY <1>1, <1>3 DEF SampleUnits
<1> QED  BY <1>2, <1>3, <1>4 DEF p, Serialize

(* Two sequences, one after the other. *)
LEMMA ConcatIs ==
  ASSUME NEW T, NEW p \in Seq(T), NEW q \in Seq(T)
  PROVE  /\ p \o q \in Seq(T) /\ Len(p) \in Nat /\ Len(q) \in Nat
         /\ Len(p \o q) = Len(p) + Len(q)
         /\ \A i \in 1 .. Len(p) : (p \o q)[i] = p[i]
         /\ \A k \in 1 .. Len(q) : (p \o q)[Len(p) + k] = q[k]
<1>1. Len(p) \in Nat /\ Len(q) \in Nat
  BY LenProperties
<1>2. p \o q \in Seq(T) /\ Len(p \o q) = Len(p) + Len(q)
  BY ConcatProperties
<1>3. \A i \in 1 .. Len(p) + Len(q) :
        (p \o q)[i] = IF i <= Len(p) THEN p[i] ELSE q[i - Len(p)]
  BY ConcatProperties
<1> DEFINE r == p \o q
<1> HIDE DEF r
<1>4. \A i \in 1 .. Len(p) : r[i] = p[i]
  BY <1>1, <1>3 DEF r
<1>5. \A k \in 1 .. Len(q) : r[Len(p) + k] = q[k]
  <2> TAKE k \in 1 .. Len(q)
  <2>1. Len(p) + k \in 1 .. Len(p) + Len(q) /\ ~(Len(p) + k <= Len(p)) /\ Len(p) + k - Len(p) = k
    BY <1>1
  <2>2. r[Len(p) + k] = q[Len(p) + k - Len(p)]
    BY <1>3, <2>1 DEF r
  <2> QED  BY <2>1, <2>2
<1> QED  BY <1>1, <1>2, <1>4, <1>5 DEF r

(* Where FlattenSeq puts what each sequence holds. *)
LEMMA FlattenLayout ==
  ASSUME NEW T, NEW seqs \in Seq(Seq(T)), NEW E \in [0 .. Len(seqs) -> Nat],
         E[0] = 0, \A b \in 1 .. Len(seqs) : E[b] = E[b - 1] + Len(seqs[b])
  PROVE  /\ FlattenSeq(seqs) \in Seq(T)
         /\ Len(FlattenSeq(seqs)) = E[Len(seqs)]
         /\ \A b \in 1 .. Len(seqs) : \A k \in 1 .. Len(seqs[b]) :
              /\ FlattenSeq(seqs)[E[b - 1] + k] = seqs[b][k]
              /\ E[b - 1] + k \in 1 .. E[Len(seqs)]
<1>1. CASE seqs = <<>>
  <2>1. FlattenSeq(seqs) = <<>> /\ Len(seqs) = 0
    BY <1>1, FlattenIs
  <2> QED  BY <2>1, EmptySeq
<1>2. CASE seqs # <<>>
  <2> DEFINE N == Len(seqs)
  <2>1. N \in Nat \ {0} /\ \A b \in 1 .. N : seqs[b] \in Seq(T)
    BY <1>2, EmptySeq, LenProperties, ElementOfSeq
  <2>2. PICK f : /\ FlattenSeq(seqs) = f[N]
                 /\ f[1] = seqs[1]
                 /\ \A n \in 2 .. N : f[n] = f[n - 1] \o seqs[n]
                 /\ \A n \in 1 .. N : f[n] \in Seq(T)
    BY <1>2, FlattensExists, Zenon
  <2> HIDE DEF N
  <2> DEFINE Joined(n) == /\ Len(f[n]) = E[n]
                        /\ \A b \in 1 .. n : \A k \in 1 .. Len(seqs[b]) :
                             f[n][E[b - 1] + k] = seqs[b][k] /\ E[b - 1] + k \in 1 .. E[n]
             S == {n \in 0 .. N : n = 0 \/ Joined(n)}
  <2>3. \A b \in 1 .. N : /\ E[b] \in Nat /\ E[b - 1] \in Nat /\ Len(seqs[b]) \in Nat
                          /\ E[b] = E[b - 1] + Len(seqs[b])
    <3> TAKE b \in 1 .. N
    <3>1. b \in 0 .. N /\ b - 1 \in 0 .. N
      BY <2>1
    <3>2. E[b] \in Nat /\ E[b - 1] \in Nat
      BY <3>1 DEF N
    <3>3. Len(seqs[b]) \in Nat
      BY <2>1, LenProperties
    <3> QED  BY <3>2, <3>3 DEF N
  <2>4. 0 \in S
    BY <2>1
  <2>5. \A n \in 1 .. N : n - 1 \in S => n \in S
    <3> TAKE n \in 1 .. N
    <3> HAVE n - 1 \in S
    <3>1. CASE n = 1
      <4>1. Len(f[1]) = E[1]
        <5>1. 1 \in 1 .. N /\ E[1] = E[0] + Len(seqs[1])
          BY <2>1, <2>3
        <5> QED  BY <2>2, <2>3, <5>1
      <4>2. \A k \in 1 .. Len(seqs[1]) : f[1][E[0] + k] = seqs[1][k] /\ E[0] + k \in 1 .. E[1]
        <5>1. 1 \in 1 .. N /\ E[1] = Len(seqs[1])
          BY <2>1, <2>3
        <5>2. Len(seqs[1]) \in Nat
          BY <2>3, <5>1
        <5> QED  BY <2>2, <5>1, <5>2
      <4>3. Joined(1)
        <5>1. \A b \in 1 .. 1 : b = 1 /\ b - 1 = 0
          OBVIOUS
        <5> QED  BY <4>1, <4>2, <5>1
      <4> QED  BY <3>1, <4>3
    <3>2. CASE n # 1
      <4>1. n \in 2 .. N /\ n - 1 \in 1 .. N /\ Joined(n - 1)
        BY <2>1, <3>2
      <4>2. f[n] = f[n - 1] \o seqs[n] /\ f[n - 1] \in Seq(T) /\ seqs[n] \in Seq(T)
        BY <2>1, <2>2, <4>1
      <4>3. Len(f[n - 1]) = E[n - 1]
        BY <4>1
      <4>7. /\ E[n] \in Nat /\ E[n - 1] \in Nat /\ Len(seqs[n]) \in Nat
            /\ E[n] = E[n - 1] + Len(seqs[n])
        BY <2>3
      <4>8. \A b \in 1 .. n - 1 : \A k \in 1 .. Len(seqs[b]) :
              f[n - 1][E[b - 1] + k] = seqs[b][k] /\ E[b - 1] + k \in 1 .. E[n - 1]
        BY <4>1
      <4> HIDE DEF Joined
      <4> DEFINE p == f[n - 1]
                 q == seqs[n]
      <4>9. p \in Seq(T) /\ q \in Seq(T) /\ f[n] = p \o q
        BY <4>2
      <4>10. Len(p) = E[n - 1] /\ Len(q) = Len(seqs[n])
        BY <4>3
      <4>11. \A b \in 1 .. n - 1 : \A k \in 1 .. Len(seqs[b]) :
              p[E[b - 1] + k] = seqs[b][k] /\ E[b - 1] + k \in 1 .. E[n - 1]
        BY <4>8
      <4>12. \A k \in 1 .. Len(q) : q[k] = seqs[n][k]
        OBVIOUS
      <4> HIDE DEF p, q
      <4>13. /\ Len(p \o q) = Len(p) + Len(q)
             /\ \A i \in 1 .. Len(p) : (p \o q)[i] = p[i]
             /\ \A k \in 1 .. Len(q) : (p \o q)[Len(p) + k] = q[k]
        BY <4>9, ConcatIs
      <4>4. Len(f[n]) = E[n]
        BY <4>7, <4>9, <4>10, <4>13
      <4>5. \A b \in 1 .. n : \A k \in 1 .. Len(seqs[b]) :
              f[n][E[b - 1] + k] = seqs[b][k] /\ E[b - 1] + k \in 1 .. E[n]
        <5> TAKE b \in 1 .. n
        <5> TAKE k \in 1 .. Len(seqs[b])
        <5>1. CASE b = n
          <6>1. k \in 1 .. Len(q)
            BY <4>10, <5>1
          <6>2. (p \o q)[Len(p) + k] = q[k]
            BY <4>13, <6>1
          <6>3. f[n][E[n - 1] + k] = seqs[n][k]
            BY <4>9, <4>10, <4>12, <6>1, <6>2
          <6>4. E[n - 1] + k \in 1 .. E[n]
            <7>1. k \in 1 .. Len(seqs[n])
              BY <5>1
            <7> HIDE DEF S
            <7> QED  BY <4>7, <7>1
          <6> QED  BY <5>1, <6>3, <6>4
        <5>2. CASE b # n
          <6>1. b \in 1 .. n - 1
            BY <5>2
          <6>2. p[E[b - 1] + k] = seqs[b][k] /\ E[b - 1] + k \in 1 .. E[n - 1]
            BY <4>11, <6>1
          <6>3. (p \o q)[E[b - 1] + k] = p[E[b - 1] + k]
            BY <4>10, <4>13, <6>2
          <6>4. E[b - 1] + k \in 1 .. E[n]
            BY <4>7, <6>2, SMTT(60)
          <6> QED  BY <4>9, <6>2, <6>3, <6>4
        <5> QED  BY <5>1, <5>2
      <4> HIDE DEF Joined
      <4>6. Joined(n)
        BY <4>4, <4>5 DEF Joined
      <4> QED  BY <4>6
    <3> QED  BY <3>1, <3>2
  <2> HIDE DEF S
  <2>6. \A n \in 0 .. N : n \in S
    BY <2>1, <2>4, <2>5, UpTo
  <2>7. Joined(N)
    <3> HIDE DEF Joined
    <3> QED  BY <2>1, <2>6 DEF S
  <2> QED  BY <2>1, <2>2, <2>7 DEF N
<1> QED  BY <1>1, <1>2

(* Every unit after the tag table belongs to one batch. *)
LEMMA Located ==
  ASSUME NEW sizes \in Seq(Nat \ {0}), NEW u \in Nat, u > 5, u <= EndOf(sizes, Len(sizes))
  PROVE  \E b \in 1 .. Len(sizes) : EndOf(sizes, b - 1) < u /\ u <= EndOf(sizes, b)
<1> DEFINE N == Len(sizes)
           E(x) == EndOf(sizes, x)
           D == {m \in 0 .. N : u <= E(m)}
<1>1. N \in Nat /\ E(0) = 5 /\ \A x \in 0 .. N : E(x) \in Nat
  BY EndOfProperties
<1> HIDE DEF E, N
<1>2. N \in D /\ D \subseteq Nat
  BY <1>1 DEF E, N
<1>3. PICK b \in D : \A m \in D : b <= m
  <2> HIDE DEF D
  <2> QED  BY <1>2, LeastOf
<1>4. b # 0
  BY <1>1, <1>3
<1>5. b \in 1 .. N /\ b - 1 \in 0 .. N /\ b - 1 \notin D
  BY <1>1, <1>3, <1>4
<1>6. E(b - 1) < u
  BY <1>1, <1>5
<1> QED  BY <1>3, <1>5, <1>6 DEF E, N

(* What is written, unit by unit. *)
Laid(sizes, w) ==
  /\ Len(w) = EndOf(sizes, Len(sizes)) /\ DOMAIN w = 1 .. Len(w)
  /\ \A b \in 1 .. Len(sizes) :
       /\ w[EndOf(sizes, b - 1) + 1] = Start(kVersion)
       /\ w[EndOf(sizes, b - 1) + 2] = CountAndSum(sizes[b], Payloads(sizes)[b])
       /\ \A k \in 1 .. 3 * sizes[b] :
            w[EndOf(sizes, b - 1) + 2 + k] = Payloads(sizes)[b][k]

(* A batch as it is written: its start, its count and checksum, its samples. *)
LEMMA SerializedIs ==
  ASSUME NEW sizes \in Seq(Nat \ {0}), NEW b \in 1 .. Len(sizes), NEW s,
         s = Serialize(Payloads(sizes)[b])
  PROVE  /\ DOMAIN s = 1 .. 2 + 3 * sizes[b] /\ Len(s) = 2 + 3 * sizes[b]
         /\ s[1] = Start(kVersion) /\ s[2] = CountAndSum(sizes[b], Payloads(sizes)[b])
         /\ \A k \in 1 .. 3 * sizes[b] : s[2 + k] = Payloads(sizes)[b][k]
<1> DEFINE m == 3 * sizes[b]
           p == Payloads(sizes)[b]
           h == <<Start(kVersion), CountAndSum(sizes[b], p)>>
           T0 == {Start(kVersion), CountAndSum(sizes[b], p)} \union {p[k] : k \in 1 .. m}
<1>1. m \in Nat /\ 2 + 3 * sizes[b] = 2 + m
  OBVIOUS
<1>2. Len(p) = m /\ s = h \o p
  BY PayloadIs
<1>3. p = [k \in 1 .. m |-> p[k]]
  <2>1. p = [k \in 1 .. m |-> Data(10 * b + k)]
    BY PayloadIs
  <2> HIDE DEF p
  <2> QED  BY <2>1
<1>4. h[1] = Start(kVersion) /\ h[2] = CountAndSum(sizes[b], p) /\ Len(h) = 2
  OBVIOUS
<1>5. h \in Seq(T0)
  BY DEF h
<1> HIDE DEF p, m
<1>6. p \in Seq(T0)
  <2>1. \A k \in 1 .. m : p[k] \in T0
    OBVIOUS
  <2> HIDE DEF T0
  <2>2. p \in [1 .. m -> T0]
    BY <1>3, <2>1
  <2> QED  BY <1>1, <2>2
<1> HIDE DEF h, T0
<1>7. /\ h \o p \in Seq(T0) /\ Len(h \o p) = Len(h) + Len(p)
      /\ \A i \in 1 .. Len(h) : (h \o p)[i] = h[i]
      /\ \A k \in 1 .. Len(p) : (h \o p)[Len(h) + k] = p[k]
  BY <1>5, <1>6, ConcatIs
<1>8. s \in Seq(T0) /\ Len(s) = 2 + m /\ \A i \in 1 .. 2 : s[i] = h[i]
  BY <1>1, <1>2, <1>4, <1>7
<1>12. \A k \in 1 .. m : s[2 + k] = p[k]
  BY <1>1, <1>2, <1>4, <1>7
<1>9. s[1] = Start(kVersion) /\ s[2] = CountAndSum(sizes[b], p)
  BY <1>4, <1>8
<1>10. DOMAIN s = 1 .. 2 + m /\ s \in [1 .. 2 + m -> T0]
  BY <1>8
<1> QED  BY <1>8, <1>9, <1>10, <1>12 DEF p, m

(* It is a sequence of units. *)
LEMMA SerializedType ==
  ASSUME NEW sizes \in Seq(Nat \ {0}), NEW b \in 1 .. Len(sizes), NEW s,
         s = Serialize(Payloads(sizes)[b]),
         NEW T, \A k \in 1 .. 2 + 3 * sizes[b] : s[k] \in T
  PROVE  s \in Seq(T)
<1> DEFINE m == 2 + 3 * sizes[b]
<1>1. m \in Nat
  OBVIOUS
<1>2. DOMAIN s = 1 .. m /\ Len(s) = m
  BY SerializedIs
<1>3. s = [k \in 1 .. m |-> s[k]]
  <2>1. Len(s) = m /\ s = <<Start(kVersion), CountAndSum(sizes[b], Payloads(sizes)[b])>> \o Payloads(sizes)[b]
    BY <1>2, PayloadIs
  <2> HIDE DEF m
  <2> QED  BY <1>1, <2>1
<1> HIDE DEF m
<1>4. s \in [1 .. m -> T]
  BY <1>3 DEF m
<1> QED  BY <1>1, <1>4

(* A written segment has each batch where EndOf says. *)
LEMMA WrittenIsLaid ==
  ASSUME NEW sizes \in Seq(Nat \ {0})
  PROVE  /\ Laid(sizes, Written(sizes))
         /\ \A u \in 1 .. 5 : Written(sizes)[u] = Data(0)
<1> DEFINE N == Len(sizes)
           P == Payloads(sizes)
           seqs == [b \in DOMAIN sizes |-> Serialize(P[b])]
           E == [b \in 0 .. N |-> EndOf(sizes, b) - 5]
           T == {Data(0)} \union {seqs[b][k] : b \in 1 .. N, k \in Nat}
           h == [u \in 1 .. FirstBatch |-> Data(0)]
           F == FlattenSeq(seqs)
<1>1. /\ N \in Nat /\ DOMAIN sizes = 1 .. N /\ \A b \in 1 .. N : sizes[b] \in Nat
      /\ EndOf(sizes, 0) = 5
      /\ \A b \in 0 .. N : EndOf(sizes, b) \in Nat
      /\ \A b \in 1 .. N : EndOf(sizes, b) = EndOf(sizes, b - 1) + 2 + 3 * sizes[b]
  BY EndOfProperties
<1>14. DOMAIN seqs = 1 .. N /\ \A b \in 1 .. N : seqs[b] = Serialize(P[b])
  BY <1>1
<1>15. seqs = [b \in 1 .. N |-> seqs[b]]
  BY <1>1
<1>16. \A b \in 1 .. N :
        /\ Len(seqs[b]) = 2 + 3 * sizes[b]
        /\ seqs[b][1] = Start(kVersion) /\ seqs[b][2] = CountAndSum(sizes[b], P[b])
        /\ \A k \in 1 .. 3 * sizes[b] : seqs[b][2 + k] = P[b][k]
  <2> SUFFICES ASSUME NEW b \in 1 .. N
               PROVE  /\ Len(seqs[b]) = 2 + 3 * sizes[b]
                      /\ seqs[b][1] = Start(kVersion) /\ seqs[b][2] = CountAndSum(sizes[b], P[b])
                      /\ \A k \in 1 .. 3 * sizes[b] : seqs[b][2 + k] = P[b][k]
    BY Zenon
  <2> DEFINE s == seqs[b]
  <2>1. s = Serialize(Payloads(sizes)[b]) /\ b \in 1 .. Len(sizes)
    BY <1>14
  <2> HIDE DEF s
  <2>2. /\ Len(s) = 2 + 3 * sizes[b]
        /\ s[1] = Start(kVersion) /\ s[2] = CountAndSum(sizes[b], Payloads(sizes)[b])
        /\ \A k \in 1 .. 3 * sizes[b] : s[2 + k] = Payloads(sizes)[b][k]
    <3> HIDE DEF N
    <3> QED  BY <2>1, SerializedIs, SMTT(60)
  <2> QED  BY <2>2 DEF s
<1> HIDE DEF N, seqs, P
<1>2. \A b \in 1 .. N : seqs[b] \in Seq(T)
  <2> SUFFICES ASSUME NEW b \in 1 .. N PROVE seqs[b] \in Seq(T)
    OBVIOUS
  <2>2. \A k \in 1 .. 2 + 3 * sizes[b] : seqs[b][k] \in T
    OBVIOUS
  <2>3. seqs[b] = Serialize(Payloads(sizes)[b]) /\ b \in 1 .. Len(sizes)
    BY <1>14 DEF N, P
  <2>4. \A k \in 1 .. 2 + 3 * sizes[b] : seqs[b][k] \in T
    BY <2>2
  <2> HIDE DEF T
  <2> QED  BY <2>3, <2>4, SerializedType
<1>3. Len(seqs) = N /\ seqs \in Seq(Seq(T))
  <2> HIDE DEF T
  <2>1. seqs \in [1 .. N -> Seq(T)]
    BY <1>15, <1>2
  <2>2. seqs \in Seq(Seq(T))
    BY <1>1, <2>1
  <2> QED  BY <1>1, <2>1, <2>2
<1>4. /\ E \in [0 .. N -> Nat] /\ E[0] = 0
      /\ \A b \in 0 .. N : EndOf(sizes, b) = 5 + E[b]
  <2>1. \A b \in 0 .. N : EndOf(sizes, b) >= 5
    <3> TAKE b \in 0 .. N
    <3>1. 0 \in 0 .. Len(sizes) /\ 0 <= b /\ b \in 0 .. Len(sizes)
      BY <1>1 DEF N
    <3>2. EndOf(sizes, 0) <= EndOf(sizes, b)
      BY <3>1, EndsGrow
    <3> QED  BY <1>1, <3>2
  <2> QED  BY <1>1, <2>1
<1> HIDE DEF E, T
<1>5. \A b \in 1 .. N : E[b] = E[b - 1] + Len(seqs[b])
  <2> SUFFICES ASSUME NEW b \in 1 .. N PROVE E[b] = E[b - 1] + Len(seqs[b])
    OBVIOUS
  <2>1. b \in 0 .. N /\ b - 1 \in 0 .. N
    BY <1>1
  <2>2. Len(seqs[b]) = 2 + 3 * sizes[b] /\ sizes[b] \in Nat
    BY <1>1, <1>16
  <2>3. EndOf(sizes, b) = EndOf(sizes, b - 1) + 2 + 3 * sizes[b]
    BY <1>1
  <2>4. EndOf(sizes, b) = 5 + E[b] /\ EndOf(sizes, b - 1) = 5 + E[b - 1] /\ E[b] \in Nat /\ E[b - 1] \in Nat
    BY <1>4, <2>1
  <2> DEFINE e == E[b] d == E[b - 1] l == Len(seqs[b]) z == sizes[b]
             x == EndOf(sizes, b) y == EndOf(sizes, b - 1)
  <2>5. l = 2 + 3 * z /\ z \in Nat /\ x = y + 2 + 3 * z /\ x = 5 + e /\ y = 5 + d /\ e \in Nat /\ d \in Nat
    BY <2>2, <2>3, <2>4
  <2> HIDE DEF e, d, l, z, x, y
  <2>6. e = d + l
    BY <2>5
  <2> QED  BY <2>6 DEF e, d, l
<1>6. /\ F \in Seq(T) /\ Len(F) = E[N]
      /\ \A b \in 1 .. N : \A k \in 1 .. Len(seqs[b]) :
           F[E[b - 1] + k] = seqs[b][k] /\ E[b - 1] + k \in 1 .. E[N]
  <2> HIDE DEF F
  <2>1. E \in [0 .. Len(seqs) -> Nat] /\ E[0] = 0
    BY <1>3, <1>4
  <2>2. \A b \in 1 .. Len(seqs) : E[b] = E[b - 1] + Len(seqs[b])
    BY <1>3, <1>5
  <2>3. /\ FlattenSeq(seqs) \in Seq(T)
        /\ Len(FlattenSeq(seqs)) = E[Len(seqs)]
        /\ \A b \in 1 .. Len(seqs) : \A k \in 1 .. Len(seqs[b]) :
              /\ FlattenSeq(seqs)[E[b - 1] + k] = seqs[b][k]
              /\ E[b - 1] + k \in 1 .. E[Len(seqs)]
    BY <1>3, <2>1, <2>2, FlattenLayout
  <2> QED  BY <1>3, <2>3 DEF F
<1>7. h \in Seq(T) /\ Len(h) = 5 /\ \A u \in 1 .. 5 : h[u] = Data(0)
  <2>1. Data(0) \in T
    BY DEF T
  <2> QED  BY <2>1, FirstBatchIs
<1>8. Written(sizes) = h \o F
  BY Zenon DEF Written, seqs, P
<1> DEFINE w == h \o F
<1> HIDE DEF F, h
<1>9. /\ w \in Seq(T) /\ Len(w) = 5 + Len(F)
      /\ \A k \in 1 .. Len(F) : w[5 + k] = F[k]
      /\ \A u \in 1 .. 5 : w[u] = Data(0)
  <2>1. /\ h \o F \in Seq(T) /\ Len(h \o F) = Len(h) + Len(F)
        /\ \A u \in 1 .. Len(h) : (h \o F)[u] = h[u]
        /\ \A k \in 1 .. Len(F) : (h \o F)[Len(h) + k] = F[k]
    <3>1. h \in Seq(T) /\ F \in Seq(T)
      BY <1>6, <1>7
    <3> HIDE DEF T
    <3> QED  BY <3>1, ConcatIs
  <2> QED  BY <1>7, <2>1 DEF w
<1> HIDE DEF w
<1>10. Len(w) = EndOf(sizes, N)
  BY <1>1, <1>4, <1>6, <1>9
<1>11. \A b \in 1 .. N : \A k \in 1 .. 2 + 3 * sizes[b] : w[EndOf(sizes, b - 1) + k] = seqs[b][k]
  <2> TAKE b \in 1 .. N
  <2> TAKE k \in 1 .. 2 + 3 * sizes[b]
  <2>1. EndOf(sizes, b - 1) = 5 + E[b - 1] /\ E[b - 1] \in Nat
    <3>1. b - 1 \in 0 .. N
      BY <1>1
    <3> QED  BY <1>4, <3>1
  <2>2. k \in 1 .. Len(seqs[b])
    BY <1>16
  <2>3. F[E[b - 1] + k] = seqs[b][k] /\ E[b - 1] + k \in 1 .. Len(F)
    BY <1>6, <2>2
  <2>4. w[5 + (E[b - 1] + k)] = seqs[b][k]
    BY <1>9, <2>3
  <2>5. 5 + (E[b - 1] + k) = EndOf(sizes, b - 1) + k
    BY <2>1
  <2> QED  BY <2>4, <2>5
<1>12. \A b \in 1 .. N :
        /\ w[EndOf(sizes, b - 1) + 1] = Start(kVersion)
        /\ w[EndOf(sizes, b - 1) + 2] = CountAndSum(sizes[b], P[b])
        /\ \A k \in 1 .. 3 * sizes[b] : w[EndOf(sizes, b - 1) + 2 + k] = P[b][k]
  <2> TAKE b \in 1 .. N
  <2>1. /\ sizes[b] \in Nat /\ EndOf(sizes, b - 1) \in Nat
        /\ 1 \in 1 .. 2 + 3 * sizes[b] /\ 2 \in 1 .. 2 + 3 * sizes[b]
        /\ \A k \in 1 .. 3 * sizes[b] : 2 + k \in 1 .. 2 + 3 * sizes[b]
    <3>1. sizes[b] \in Nat /\ b - 1 \in 0 .. N
      BY <1>1
    <3>2. EndOf(sizes, b - 1) \in Nat
      BY <1>1, <3>1
    <3> QED  BY <3>1, <3>2
  <2>2. w[EndOf(sizes, b - 1) + 1] = seqs[b][1] /\ w[EndOf(sizes, b - 1) + 2] = seqs[b][2]
    BY <1>11, <2>1
  <2>3. \A k \in 1 .. 3 * sizes[b] : w[EndOf(sizes, b - 1) + (2 + k)] = seqs[b][2 + k]
    BY <1>11, <2>1
  <2>4. \A k \in 1 .. 3 * sizes[b] : EndOf(sizes, b - 1) + (2 + k) = EndOf(sizes, b - 1) + 2 + k
    BY <2>1
  <2> QED  BY <1>16, <2>2, <2>3, <2>4
<1>13. DOMAIN w = 1 .. Len(w)
  BY <1>9
<1> QED  BY <1>8, <1>9, <1>10, <1>12, <1>13 DEF Laid, N, P, w

(* A file of whole units, the last of which may be cut off. *)
WellFormed(file) ==
  /\ Len(file.units) \in Nat /\ file.bytes \in Nat
  /\ file.bytes <= UnitBytes * Len(file.units)
  /\ \A u \in 1 .. Len(file.units) : file.units[u].count \in Nat

(* The units of a file that was cut off are those that are whole. *)
LEMMA WholeUnitsIs ==
  ASSUME NEW file, WellFormed(file)
  PROVE  /\ WholeUnits(file) \in Nat /\ WholeUnits(file) <= Len(file.units)
         /\ 8 * WholeUnits(file) <= file.bytes /\ file.bytes < 8 * WholeUnits(file) + 8
         /\ \A n \in Nat : n <= WholeUnits(file) <=> 8 * n <= file.bytes
<1> DEFINE m == file.bytes
           w == WholeUnits(file)
           l == Len(file.units)
<1>1. m \in Nat /\ l \in Nat /\ m <= 8 * l /\ w = m \div 8
  BY DEF WellFormed, WholeUnits, UnitBytes
<1> HIDE DEF m, w, l
<1>2. w \in Nat /\ 8 * w <= m /\ m < 8 * w + 8
  BY <1>1
<1>3. w <= l
  BY <1>1, <1>2
<1>4. \A n \in Nat : n <= w <=> 8 * n <= m
  BY <1>1, <1>2
<1> QED  BY <1>2, <1>3, <1>4 DEF m, w, l

(* The search for the next batch header moves on and passes over none. *)
LEMMA NextHeaderIs ==
  ASSUME NEW file, WellFormed(file), NEW pos \in Nat,
         pos + BatchHeaderUnits <= WholeUnits(file)
  PROVE  LET next == NextHeader(file, pos)
         IN  /\ next \in Nat /\ next > pos /\ next <= WholeUnits(file) + 1
             /\ \A p \in Nat : p > pos /\ p < next =>
                  ~At(file, p).magic /\ p + BatchHeaderUnits <= WholeUnits(file)
<1> DEFINE w == WholeUnits(file)
           S == {p \in pos + 1 .. w + 1 : p + BatchHeaderUnits > w \/ At(file, p).magic}
           next == NextHeader(file, pos)
<1>1. w \in Nat /\ BatchHeaderUnits = 2
  BY WholeUnitsIs DEF BatchHeaderUnits
<1>2. next = CHOOSE x \in S : \A y \in S : x <= y
  BY DEF NextHeader, Min
<1> HIDE DEF w, next
<1>3. w \in S /\ S \subseteq Nat
  <2>1. w \in pos + 1 .. w + 1 /\ w + 2 > w
    BY <1>1 DEF w
  <2> QED  BY <1>1, <2>1
<1>4. \E x \in S : \A y \in S : x <= y
  <2> HIDE DEF S
  <2> QED  BY <1>3, LeastOf
<1>5. next \in S /\ \A y \in S : next <= y
  <2> HIDE DEF S
  <2> QED  BY <1>2, <1>4
<1>6. next \in Nat /\ next > pos /\ next <= w + 1
  BY <1>1, <1>5
<1>7. ASSUME NEW p \in Nat, p > pos, p < next
      PROVE  ~At(file, p).magic /\ p + BatchHeaderUnits <= w
  <2>1. p \in pos + 1 .. w + 1 /\ p \notin S
    BY <1>1, <1>5, <1>6, <1>7
  <2> QED  BY <1>1, <2>1
<1> QED  BY <1>6, <1>7 DEF next, w

(* One step of read_segment's loop, given what it returns from later positions. *)
Body(file, from, pos) ==
  LET header == At(file, pos + 1)
      batch  == RequiredUnits(header.count)
      sample == Payload(file, pos, header.count)
  IN  IF EndsAt(file, pos)
      THEN Nothing
      ELSE IF pos + BatchHeaderUnits > WholeUnits(file)
      THEN [Nothing EXCEPT !.truncated = TRUE]
      ELSE IF ~Recognised(file, pos)
      THEN LET rest == from[NextHeader(file, pos)]
           IN  [rest EXCEPT !.corrupt = @ + 1]
      ELSE IF pos + batch > WholeUnits(file)
      THEN [Nothing EXCEPT !.truncated = TRUE]
      ELSE LET rest == from[pos + batch]
           IN  IF sample = header.sum
               THEN [rest EXCEPT !.delivered = <<sample>> \o @]
               ELSE [rest EXCEPT !.corrupt = @ + 1]

(* The function that ReadBatches chooses. *)
ReadsFrom(file, first, from) ==
  from = [pos \in first .. Len(file.units) + 1 |-> Body(file, from, pos)]

(* ReadBatches, unfolded. *)
LEMMA ReadBatchesIs ==
  \A file, first : ReadBatches(file, first) = (CHOOSE from : ReadsFrom(file, first, from))[first]
BY Zenon DEF ReadBatches, ReadsFrom, Body

(* A step of the loop of read_segment depends on what follows its position alone. *)
LEMMA BodyLooksAhead ==
  ASSUME NEW file, WellFormed(file), NEW f, NEW g, NEW pos \in Nat,
         pos <= Len(file.units) + 1,
         \A p \in Nat : p > pos /\ p <= Len(file.units) + 1 => f[p] = g[p]
  PROVE  Body(file, f, pos) = Body(file, g, pos)
<1>1. /\ WholeUnits(file) \in Nat /\ WholeUnits(file) <= Len(file.units) /\ Len(file.units) \in Nat
      /\ BatchHeaderUnits = 2
  BY WholeUnitsIs DEF WellFormed, BatchHeaderUnits
<1>2. CASE EndsAt(file, pos) \/ pos + BatchHeaderUnits > WholeUnits(file)
  BY <1>2, Zenon DEF Body
<1>3. CASE ~EndsAt(file, pos) /\ ~(pos + BatchHeaderUnits > WholeUnits(file))
  <2>1. pos + 2 <= WholeUnits(file)
    BY <1>1, <1>3
  <2>2. f[NextHeader(file, pos)] = g[NextHeader(file, pos)]
    <3> DEFINE next == NextHeader(file, pos)
    <3>1. next \in Nat /\ next > pos /\ next <= WholeUnits(file) + 1
      BY <1>1, <2>1, NextHeaderIs
    <3> HIDE DEF next
    <3>2. next <= Len(file.units) + 1
      BY <1>1, <3>1
    <3> QED  BY <3>1, <3>2 DEF next
  <2> DEFINE batch == RequiredUnits(At(file, pos + 1).count)
  <2>3. ~(pos + batch > WholeUnits(file)) => f[pos + batch] = g[pos + batch]
    <3>1. pos + 2 \in 1 .. Len(file.units)
      BY <1>1, <2>1
    <3>2. At(file, pos + 1).count \in Nat
      <4>1. (pos + 1) + 1 = pos + 2
        OBVIOUS
      <4> QED  BY <3>1, <4>1 DEF At, WellFormed
    <3>3. batch \in Nat /\ batch > 0
      BY <3>2 DEF RequiredUnits, BatchHeaderUnits, SampleUnits
    <3> HIDE DEF batch
    <3> QED  BY <1>1, <3>3
  <2> QED  BY <1>3, <2>2, <2>3, Zenon DEF Body
<1> QED  BY <1>2, <1>3

(* The loop of read_segment ends: the function of the model is defined. *)
LEMMA ReadingExists ==
  ASSUME NEW file, WellFormed(file), NEW first \in Nat, first <= Len(file.units) + 1
  PROVE  \E from : ReadsFrom(file, first, from)
<1> DEFINE L == Len(file.units) + 1
           S == {n \in 0 .. L : \E from : ReadsFrom(file, n, from)}
<1>1. L \in Nat
  BY DEF WellFormed
<1> HIDE DEF L
<1>2. L \in S
  <2> DEFINE f == [pos \in L .. L |-> Body(file, <<>>, pos)]
  <2>1. \A pos \in L .. L : Body(file, <<>>, pos) = Body(file, f, pos)
    <3> TAKE pos \in L .. L
    <3>1. \A p \in Nat : p > pos /\ p <= Len(file.units) + 1 => <<>>[p] = f[p]
      BY <1>1 DEF L
    <3>2. pos \in Nat /\ pos <= Len(file.units) + 1
      BY <1>1 DEF L
    <3> HIDE DEF f
    <3> QED  BY <3>1, <3>2, BodyLooksAhead
  <2>2. f = [pos \in L .. L |-> Body(file, f, pos)]
    <3> DEFINE h == f
    <3>1. \A pos \in L .. L : Body(file, h, pos) = Body(file, <<>>, pos)
      BY <2>1
    <3>2. h = [pos \in L .. L |-> Body(file, <<>>, pos)]
      OBVIOUS
    <3> HIDE DEF h, f
    <3>3. h = [pos \in L .. L |-> Body(file, h, pos)]
      BY <3>1, <3>2, Zenon
    <3> QED  BY <3>3 DEF h
  <2> HIDE DEF f
  <2>3. ReadsFrom(file, L, f)
    BY <2>2, Zenon DEF ReadsFrom, L
  <2>4. L \in 0 .. L
    BY <1>1
  <2> QED  BY <2>3, <2>4
<1>3. \A n \in 1 .. L : n \in S => n - 1 \in S
  <2> SUFFICES ASSUME NEW n \in 1 .. L, n \in S PROVE n - 1 \in S
    OBVIOUS
  <2>1. PICK f : ReadsFrom(file, n, f)
    OBVIOUS
  <2> DEFINE m == n - 1
             g == [pos \in m .. L |-> IF pos = m THEN Body(file, f, m) ELSE f[pos]]
  <2>2. m \in Nat /\ m <= L /\ \A p \in Nat : p > m => p >= n
    BY <1>1
  <2>3. \A pos \in m .. L : g[pos] = Body(file, g, pos)
    <3> SUFFICES ASSUME NEW pos \in m .. L PROVE g[pos] = Body(file, g, pos)
      BY Zenon
    <3>1. \A p \in Nat : p > m /\ p <= L => g[p] = f[p]
      BY <2>2
    <3>2. pos \in Nat /\ pos >= m /\ pos <= L
      BY <2>2
    <3>3. Body(file, f, pos) = Body(file, g, pos)
      <4>1. \A p \in Nat : p > pos /\ p <= Len(file.units) + 1 => f[p] = g[p]
        BY <2>2, <3>1, <3>2 DEF L
      <4>2. pos <= Len(file.units) + 1
        BY <3>2 DEF L
      <4> HIDE DEF g, m
      <4> QED  BY <3>2, <4>1, <4>2, BodyLooksAhead
    <3>4. g[pos] = Body(file, f, pos)
      <4>1. CASE pos = m
        <5>1. g[m] = Body(file, f, m)
          BY <2>2
        <5> QED  BY <4>1, <5>1
      <4>2. CASE pos # m
        <5>1. pos \in n .. L /\ g[pos] = f[pos]
          BY <1>1, <3>2, <4>2
        <5>2. f[pos] = Body(file, f, pos)
          <6>1. f = [p \in n .. L |-> Body(file, f, p)]
            BY <2>1 DEF ReadsFrom, L
          <6> QED  BY <5>1, <6>1
        <5> QED  BY <5>1, <5>2
      <4> QED  BY <4>1, <4>2
    <3> QED  BY <3>3, <3>4, Zenon
  <2>4. ReadsFrom(file, m, g)
    <3> DEFINE h == g
    <3>1. h = [pos \in m .. L |-> h[pos]]
      OBVIOUS
    <3>2. \A pos \in m .. L : h[pos] = Body(file, h, pos)
      BY <2>3
    <3> HIDE DEF h, g, m
    <3>3. h = [pos \in m .. L |-> Body(file, h, pos)]
      BY <3>1, <3>2, Zenon
    <3> QED  BY <3>3, Zenon DEF ReadsFrom, L, h
  <2>5. m \in 0 .. L
    BY <1>1
  <2> HIDE DEF g
  <2> QED  BY <2>4, <2>5
<1> HIDE DEF S
<1>4. \A n \in 0 .. L : n \in S
  BY <1>1, <1>2, <1>3, DownTo
<1>5. first \in 0 .. L
  BY <1>1 DEF L
<1> QED  BY <1>4, <1>5 DEF S

(* What the loop returns from each position on. *)
LEMMA ReadingIs ==
  ASSUME NEW file, WellFormed(file), NEW first \in Nat, first <= Len(file.units) + 1
  PROVE  \E from : /\ ReadBatches(file, first) = from[first]
                   /\ \A pos \in first .. Len(file.units) + 1 : from[pos] = Body(file, from, pos)
<1> DEFINE from == CHOOSE from : ReadsFrom(file, first, from)
<1>1. ReadsFrom(file, first, from)
  BY ReadingExists
<1>2. ReadBatches(file, first) = from[first]
  BY ReadBatchesIs, Zenon
<1> HIDE DEF from
<1>3. \A pos \in first .. Len(file.units) + 1 : from[pos] = Body(file, from, pos)
  <2>1. from = [pos \in first .. Len(file.units) + 1 |-> Body(file, from, pos)]
    BY <1>1, Zenon DEF ReadsFrom
  <2> QED  BY <2>1, Zenon
<1> QED  BY <1>2, <1>3

(* What reading a segment of these batches may give. *)
Results(sizes) ==
  [delivered : Seq({Payloads(sizes)[b] : b \in 1 .. Len(sizes)}), corrupt : Nat, truncated : BOOLEAN]

(* A result that delivers these batches, each once and in order. *)
InOrder(sizes, delivered, order, kept) ==
  /\ order \in [1 .. Len(delivered) -> 1 .. Len(sizes)]
  /\ \A i, j \in 1 .. Len(delivered) : i < j => order[i] < order[j]
  /\ \A i \in 1 .. Len(delivered) : delivered[i] = Payloads(sizes)[order[i]]
  /\ kept = {order[i] : i \in 1 .. Len(delivered)}

(* The batches of a set are delivered, as they were written and in order. *)
Delivers(sizes, r, kept) ==
  r \in Results(sizes) /\ \E order : InOrder(sizes, r.delivered, order, kept)

(* Reading nothing delivers nothing. *)
LEMMA NothingDelivers ==
  ASSUME NEW sizes \in Seq(Nat \ {0})
  PROVE  /\ Delivers(sizes, Nothing, {}) /\ Delivers(sizes, [Nothing EXCEPT !.truncated = TRUE], {})
         /\ [Nothing EXCEPT !.truncated = TRUE].truncated
<1> DEFINE cut == [Nothing EXCEPT !.truncated = TRUE]
<1>1. Nothing \in Results(sizes) /\ cut \in Results(sizes)
  BY EmptySeq DEF Nothing, Results
<1>2. Nothing.delivered = <<>> /\ cut.delivered = <<>> /\ cut.truncated
  BY DEF Nothing
<1>3. \E order : InOrder(sizes, <<>>, order, {})
  <2> DEFINE none == [i \in 1 .. 0 |-> 1]
  <2>1. InOrder(sizes, <<>>, none, {})
    BY DEF InOrder
  <2> QED  BY <2>1
<1> HIDE DEF cut
<1>4. Delivers(sizes, Nothing, {}) /\ Delivers(sizes, cut, {})
  BY <1>1, <1>2, <1>3 DEF Delivers
<1> QED  BY <1>2, <1>4 DEF cut

(* Counting a corrupt batch leaves what is delivered. *)
LEMMA CorruptDelivers ==
  ASSUME NEW sizes \in Seq(Nat \ {0}), NEW r, NEW kept, Delivers(sizes, r, kept)
  PROVE  LET worse == [r EXCEPT !.corrupt = @ + 1]
         IN  Delivers(sizes, worse, kept) /\ worse.corrupt > 0
<1> DEFINE worse == [r EXCEPT !.corrupt = @ + 1]
           T == {Payloads(sizes)[b] : b \in 1 .. Len(sizes)}
<1>1. r \in [delivered : Seq(T), corrupt : Nat, truncated : BOOLEAN]
  BY Zenon DEF Delivers, Results
<1> HIDE DEF T
<1>2. /\ worse \in [delivered : Seq(T), corrupt : Nat, truncated : BOOLEAN]
      /\ worse.delivered = r.delivered /\ worse.corrupt > 0
  BY <1>1
<1> HIDE DEF worse
<1>3. worse \in Results(sizes)
  BY <1>2 DEF Results, T
<1>4. Delivers(sizes, worse, kept)
  BY <1>2, <1>3 DEF Delivers
<1> QED  BY <1>2, <1>4 DEF worse

(* The result of the rest of the file, after one more batch. *)
After(payload, rest) == [rest EXCEPT !.delivered = <<payload>> \o @]

(* Delivering a batch before others keeps the order. *)
LEMMA NextDelivers ==
  ASSUME NEW sizes \in Seq(Nat \ {0}), NEW r, NEW kept, Delivers(sizes, r, kept),
         NEW b \in 1 .. Len(sizes), \A c \in kept : b < c
  PROVE  LET more == After(Payloads(sizes)[b], r)
         IN  /\ Delivers(sizes, more, {b} \union kept)
             /\ more.corrupt = r.corrupt /\ more.truncated = r.truncated
<1> DEFINE T == {Payloads(sizes)[c] : c \in 1 .. Len(sizes)}
           p == Payloads(sizes)[b]
           one == <<p>>
           d == r.delivered
           more == [r EXCEPT !.delivered = one \o @]
           D == one \o d
<1>1. r \in [delivered : Seq(T), corrupt : Nat, truncated : BOOLEAN]
  BY Zenon DEF Delivers, Results
<1>2. p \in T
  OBVIOUS
<1>3. PICK order : InOrder(sizes, d, order, kept)
  BY DEF Delivers
<1> HIDE DEF T, p
<1>4. one \in Seq(T) /\ d \in Seq(T) /\ Len(one) = 1 /\ one[1] = p
  BY <1>1, <1>2
<1>5. /\ D \in Seq(T) /\ Len(D) = 1 + Len(d) /\ Len(d) \in Nat
      /\ D[1] = p /\ \A k \in 1 .. Len(d) : D[1 + k] = d[k]
  <2>1. /\ one \o d \in Seq(T) /\ Len(d) \in Nat
        /\ Len(one \o d) = Len(one) + Len(d)
        /\ \A i \in 1 .. Len(one) : (one \o d)[i] = one[i]
        /\ \A k \in 1 .. Len(d) : (one \o d)[Len(one) + k] = d[k]
    <3> HIDE DEF one, d
    <3>1. one \in Seq(T) /\ d \in Seq(T)
      BY <1>4
    <3> QED  BY <3>1, ConcatIs
  <2> HIDE DEF one, d
  <2> QED  BY <1>4, <2>1
<1>6. /\ more \in [delivered : Seq(T), corrupt : Nat, truncated : BOOLEAN]
      /\ more.delivered = D /\ more.corrupt = r.corrupt /\ more.truncated = r.truncated
  <2> HIDE DEF one
  <2>1. one \o r.delivered \in Seq(T)
    BY <1>5
  <2> QED  BY <1>1, <2>1
<1> HIDE DEF more, D, one, d
<1> DEFINE m == Len(d)
           new == [i \in 1 .. 1 + m |-> IF i = 1 THEN b ELSE order[i - 1]]
<1>7. /\ m \in Nat /\ order \in [1 .. m -> 1 .. Len(sizes)]
      /\ \A i, j \in 1 .. m : i < j => order[i] < order[j]
      /\ \A i \in 1 .. m : d[i] = Payloads(sizes)[order[i]]
      /\ kept = {order[i] : i \in 1 .. m}
  BY <1>3, <1>5 DEF InOrder
<1>8. \A i \in 1 .. 1 + m : i # 1 => i - 1 \in 1 .. m /\ 1 + (i - 1) = i
  BY <1>7
<1> HIDE DEF m
<1>9. /\ 1 \in 1 .. 1 + m /\ new[1] = b
      /\ \A i \in 1 .. 1 + m : i # 1 => new[i] = order[i - 1]
      /\ \A i \in 1 .. m : 1 + i \in 1 .. 1 + m /\ new[1 + i] = order[i]
  BY <1>7
<1>10. new \in [1 .. 1 + m -> 1 .. Len(sizes)]
  <2>1. \A i \in 1 .. 1 + m : new[i] \in 1 .. Len(sizes)
    <3> HIDE DEF new
    <3> QED  BY <1>7, <1>8, <1>9
  <2> QED  BY <2>1
<1> HIDE DEF new
<1>11. \A i, j \in 1 .. 1 + m : i < j => new[i] < new[j]
  <2> SUFFICES ASSUME NEW i \in 1 .. 1 + m, NEW j \in 1 .. 1 + m, i < j PROVE new[i] < new[j]
    OBVIOUS
  <2>1. j # 1 /\ j - 1 \in 1 .. m /\ new[j] = order[j - 1]
    BY <1>7, <1>8, <1>9
  <2>2. order[j - 1] \in kept
    BY <1>7, <2>1
  <2>3. CASE i = 1
    BY <1>9, <2>1, <2>2, <2>3
  <2>4. CASE i # 1
    <3>1. i - 1 \in 1 .. m /\ new[i] = order[i - 1] /\ i - 1 < j - 1
      BY <1>7, <1>8, <1>9, <2>4
    <3> QED  BY <1>7, <2>1, <3>1
  <2> QED  BY <2>3, <2>4
<1>12. \A i \in 1 .. 1 + m : D[i] = Payloads(sizes)[new[i]]
  <2> SUFFICES ASSUME NEW i \in 1 .. 1 + m PROVE D[i] = Payloads(sizes)[new[i]]
    OBVIOUS
  <2>1. CASE i = 1
    BY <1>5, <1>9, <2>1 DEF p
  <2>2. CASE i # 1
    <3>1. i - 1 \in 1 .. m /\ 1 + (i - 1) = i /\ new[i] = order[i - 1]
      BY <1>8, <1>9, <2>2
    <3>2. D[1 + (i - 1)] = d[i - 1]
      BY <1>5, <3>1 DEF m
    <3> QED  BY <1>7, <3>1, <3>2
  <2> QED  BY <2>1, <2>2
<1>13. {b} \union kept = {new[i] : i \in 1 .. 1 + m}
  <2>1. ASSUME NEW x \in {b} \union kept PROVE x \in {new[i] : i \in 1 .. 1 + m}
    <3>1. CASE x = b
      BY <1>9, <3>1
    <3>2. CASE x \in kept
      <4>1. PICK i \in 1 .. m : x = order[i]
        BY <1>7, <3>2
      <4> QED  BY <1>9, <4>1
    <3> QED  BY <3>1, <3>2
  <2>2. ASSUME NEW i \in 1 .. 1 + m PROVE new[i] \in {b} \union kept
    <3>1. CASE i = 1
      BY <1>9, <3>1
    <3>2. CASE i # 1
      BY <1>7, <1>8, <1>9, <3>2
    <3> QED  BY <3>1, <3>2
  <2> QED  BY <2>1, <2>2
<1>14. InOrder(sizes, D, new, {b} \union kept)
  <2>1. Len(D) = 1 + m
    BY <1>5 DEF m
  <2> QED  BY <1>10, <1>11, <1>12, <1>13, <2>1, Zenon DEF InOrder
<1>15. Delivers(sizes, more, {b} \union kept)
  <2>1. more \in Results(sizes)
    BY <1>6, Zenon DEF Results, T
  <2> QED  BY <1>6, <1>14, <2>1, Zenon DEF Delivers
<1>16. After(Payloads(sizes)[b], r) = more
  BY Zenon DEF After, more, one, p
<1> QED  BY <1>6, <1>15, <1>16

(* A segment of which at most the unit numbered at is not as it was written. *)
Segment(sizes, file, at) ==
  /\ sizes \in Seq(Nat \ {0}) /\ WellFormed(file)
  /\ Laid(sizes, Written(sizes)) /\ Len(file.units) = Len(Written(sizes))
  /\ at \in Nat
  /\ \A u \in 1 .. Len(file.units) : u # at => file.units[u] = Written(sizes)[u]

(* The kinds of units are told apart as the reader tells them apart. *)
LEMMA UnitKinds ==
  /\ \A v : Start(v).magic /\ Start(v).version = v /\ Start(v).count = Huge /\ Start(v).sum = <<>>
  /\ \A c, s : ~CountAndSum(c, s).magic /\ CountAndSum(c, s).count = c /\ CountAndSum(c, s).sum = s
  /\ \A i : ~Data(i).magic /\ Data(i).count = Huge /\ Data(i).sum = <<i>>
BY DEF Start, CountAndSum, Data

(* The units of a batch. *)
LEMMA BatchIs ==
  ASSUME NEW sizes, NEW file, NEW at, Segment(sizes, file, at), NEW b \in 1 .. Len(sizes)
  PROVE  LET start == EndOf(sizes, b - 1)
             end   == EndOf(sizes, b)
         IN  /\ start \in Nat /\ start >= 5 /\ sizes[b] \in Nat /\ sizes[b] >= 1
             /\ end = start + 2 + 3 * sizes[b] /\ end <= Len(file.units)
             /\ start + 1 # at => Recognised(file, start)
             /\ start + 2 # at => /\ At(file, start + 1).count = sizes[b]
                                  /\ At(file, start + 1).sum = Payloads(sizes)[b]
                                  /\ ~At(file, start + 1).magic
             /\ \A k \in 1 .. 3 * sizes[b] : start + 2 + k # at =>
                   /\ file.units[start + 2 + k] = Data(10 * b + k)
                   /\ ~At(file, start + 1 + k).magic
<1> DEFINE w == Written(sizes)
           u == file.units
           P == Payloads(sizes)
           start == EndOf(sizes, b - 1)
           end == EndOf(sizes, b)
           z == sizes[b]
           n == Len(u)
<1>1. /\ sizes \in Seq(Nat \ {0}) /\ n \in Nat /\ n = EndOf(sizes, Len(sizes))
      /\ \A i \in 1 .. n : i # at => u[i] = w[i]
      /\ w[start + 1] = Start(kVersion) /\ w[start + 2] = CountAndSum(z, P[b])
      /\ \A k \in 1 .. 3 * z : w[start + 2 + k] = P[b][k]
  BY DEF Segment, Laid, WellFormed
<1>2. z \in Nat /\ z >= 1 /\ start \in Nat /\ end = start + 2 + 3 * z
  <2>1. b - 1 \in 0 .. Len(sizes)
    BY <1>1, EndOfProperties
  <2> QED  BY <1>1, <2>1, EndOfProperties
<1>3. start >= 5
  <2>1. 0 \in 0 .. Len(sizes) /\ b - 1 \in 0 .. Len(sizes) /\ 0 <= b - 1
    BY <1>1, EndOfProperties, SMTT(60)
  <2>2. EndOf(sizes, 0) <= EndOf(sizes, b - 1)
    BY <1>1, <2>1, EndsGrow
  <2>3. EndOf(sizes, 0) = 5
    BY <1>1, EndOfProperties
  <2> QED  BY <2>2, <2>3
<1>4. end <= n
  <2>1. b \in 0 .. Len(sizes) /\ Len(sizes) \in 0 .. Len(sizes) /\ b <= Len(sizes)
    BY <1>1, EndOfProperties
  <2> QED  BY <1>1, <2>1, EndsGrow
<1> HIDE DEF start, end, z, n, u, w
<1>5. /\ start + 1 \in 1 .. n /\ start + 2 \in 1 .. n
      /\ \A k \in 1 .. 3 * z : start + 2 + k \in 1 .. n
  BY <1>1, <1>2, <1>3, <1>4
<1>6. start + 1 # at => Recognised(file, start)
  <2> SUFFICES ASSUME start + 1 # at PROVE Recognised(file, start)
    OBVIOUS
  <2>1. u[start + 1] = Start(kVersion)
    BY <1>1, <1>5
  <2> QED  BY <2>1, UnitKinds DEF Recognised, At, u
<1>7. start + 2 # at => /\ At(file, start + 1).count = z
                        /\ At(file, start + 1).sum = P[b] /\ ~At(file, start + 1).magic
  <2> SUFFICES ASSUME start + 2 # at
               PROVE  /\ At(file, start + 1).count = z
                      /\ At(file, start + 1).sum = P[b] /\ ~At(file, start + 1).magic
    BY Zenon
  <2>1. u[start + 2] = CountAndSum(z, P[b])
    BY <1>1, <1>5
  <2>2. (start + 1) + 1 = start + 2
    BY <1>2
  <2>3. At(file, start + 1) = CountAndSum(z, P[b])
    BY <2>1, <2>2 DEF At, u
  <2>4. \A c, s : ~CountAndSum(c, s).magic /\ CountAndSum(c, s).count = c /\ CountAndSum(c, s).sum = s
    BY UnitKinds
  <2> HIDE DEF P
  <2> QED  BY <2>3, <2>4
<1>8. \A k \in 1 .. 3 * z : start + 2 + k # at =>
           u[start + 2 + k] = Data(10 * b + k) /\ ~At(file, start + 1 + k).magic
  <2> SUFFICES ASSUME NEW k \in 1 .. 3 * z, start + 2 + k # at
               PROVE  u[start + 2 + k] = Data(10 * b + k) /\ ~At(file, start + 1 + k).magic
    OBVIOUS
  <2>1. u[start + 2 + k] = P[b][k]
    BY <1>1, <1>5
  <2>2. P[b][k] = Data(10 * b + k)
    <3>1. P[b] = [i \in 1 .. 3 * z |-> Data(10 * b + i)]
      BY <1>1, PayloadIs DEF z
    <3> HIDE DEF P
    <3> QED  BY <3>1
  <2>3. (start + 1 + k) + 1 = start + 2 + k
    BY <1>2
  <2>4. At(file, start + 1 + k) = Data(10 * b + k)
    BY <2>1, <2>2, <2>3 DEF At, u
  <2> QED  BY <2>1, <2>2, <2>4, UnitKinds
<1> QED  BY <1>2, <1>3, <1>4, <1>6, <1>7, <1>8 DEF start, end, z, n, u, P

(* Only where a batch starts is there a magic, unless the unit was damaged. *)
LEMMA MagicStartsBatch ==
  ASSUME NEW sizes, NEW file, NEW at, Segment(sizes, file, at),
         NEW pos \in Nat, pos >= 5, pos < Len(file.units), pos + 1 # at, At(file, pos).magic
  PROVE  \E b \in 1 .. Len(sizes) : pos = EndOf(sizes, b - 1)
<1>1. sizes \in Seq(Nat \ {0}) /\ Len(file.units) = EndOf(sizes, Len(sizes)) /\ Len(file.units) \in Nat
  BY DEF Segment, Laid, WellFormed
<1>2. PICK b \in 1 .. Len(sizes) : EndOf(sizes, b - 1) < pos + 1 /\ pos + 1 <= EndOf(sizes, b)
  BY <1>1, Located
<1> DEFINE start == EndOf(sizes, b - 1)
           end == EndOf(sizes, b)
           z == sizes[b]
<1>3. /\ start \in Nat /\ z \in Nat /\ end = start + 2 + 3 * z
      /\ start + 2 # at => ~At(file, start + 1).magic
      /\ \A k \in 1 .. 3 * z : start + 2 + k # at => ~At(file, start + 1 + k).magic
  BY BatchIs
<1> HIDE DEF start, end, z
<1>4. start < pos + 1 /\ pos + 1 <= end
  BY <1>2 DEF start, end
<1>5. pos # start + 1
  BY <1>3
<1>6. ASSUME pos > start + 1 PROVE FALSE
  <2>1. pos - (start + 1) \in 1 .. 3 * z
    BY <1>3, <1>4, <1>6
  <2>2. start + 2 + (pos - (start + 1)) = pos + 1 /\ start + 1 + (pos - (start + 1)) = pos
    BY <1>3
  <2> QED  BY <1>3, <2>1, <2>2
<1>7. pos = start
  BY <1>3, <1>4, <1>5, <1>6
<1> QED  BY <1>7 DEF start

(* What the checksum of an undamaged batch is compared with. *)
LEMMA PayloadRead ==
  ASSUME NEW sizes, NEW file, NEW at, Segment(sizes, file, at), NEW b \in 1 .. Len(sizes)
  PROVE  LET start == EndOf(sizes, b - 1)
             end   == EndOf(sizes, b)
         IN  /\ at <= start + 2 \/ at > end =>
                    Payload(file, start, sizes[b]) = Payloads(sizes)[b]
             /\ (\E k \in 1 .. 3 * sizes[b] : at = start + 2 + k /\ file.units[at] # Data(10 * b + k))
                    => Payload(file, start, sizes[b]) # Payloads(sizes)[b]
             /\ \A c \in Nat : c # sizes[b] => Payload(file, start, c) # Payloads(sizes)[b]
             /\ Payload(file, start, sizes[b]) # <<>>
<1> DEFINE start == EndOf(sizes, b - 1)
           end == EndOf(sizes, b)
           z == sizes[b]
           read(c) == Payload(file, start, c)
           p == Payloads(sizes)[b]
           u == file.units
<1>1. /\ start \in Nat /\ start >= 5 /\ z \in Nat /\ z >= 1 /\ end = start + 2 + 3 * z
      /\ \A k \in 1 .. 3 * z : start + 2 + k # at => u[start + 2 + k] = Data(10 * b + k)
  BY BatchIs
<1>2. p = [k \in 1 .. 3 * z |-> Data(10 * b + k)]
  BY PayloadIs DEF Segment
<1> HIDE DEF p, start, end, z, u
<1>3. \A c \in Nat : read(c) = [k \in 1 .. 3 * c |-> u[start + 2 + k]]
  <2> SUFFICES ASSUME NEW c \in Nat PROVE read(c) = [k \in 1 .. 3 * c |-> u[start + 2 + k]]
    OBVIOUS
  <2>1. read(c) = SubSeq(u, start + 3, start + 2 + 3 * c)
    <3>1. start + BatchHeaderUnits + 1 = start + 3 /\ start + RequiredUnits(c) = start + 2 + 3 * c
      BY <1>1 DEF BatchHeaderUnits, RequiredUnits, SampleUnits
    <3> QED  BY <3>1 DEF Payload, u
  <2> DEFINE m == start + 3
             n == start + 2 + 3 * c
             T == {u[i] : i \in m .. n}
             q == SubSeq(u, m, n)
  <2>2. m \in Int /\ n \in Int /\ n - m + 1 = 3 * c /\ 3 * c \in Nat
        /\ \A k \in 1 .. 3 * c : m + k - 1 = start + 2 + k
    BY <1>1
  <2>3. \A i \in m .. n : u[i] \in T
    OBVIOUS
  <2> HIDE DEF m, n, T
  <2>4. /\ q \in Seq(T) /\ Len(q) = (IF m <= n THEN n - m + 1 ELSE 0)
        /\ \A k \in 1 .. n - m + 1 : q[k] = u[m + k - 1]
    BY <2>2, <2>3, SubSeqProperties
  <2>5. q = [k \in 1 .. 3 * c |-> q[k]]
    <3>1. Len(q) = 3 * c
      BY <2>2, <2>4
    <3> HIDE DEF q
    <3> QED  BY <2>4, <3>1
  <2>6. \A k \in 1 .. 3 * c : q[k] = u[start + 2 + k]
    BY <2>2, <2>4
  <2>7. read(c) = q
    BY <2>1 DEF m, n
  <2> HIDE DEF q
  <2>8. q = [k \in 1 .. 3 * c |-> u[start + 2 + k]]
    BY <2>5, <2>6
  <2> QED  BY <2>7, <2>8
<1> HIDE DEF read
<1>4. at <= start + 2 \/ at > end => read(z) = p
  <2> SUFFICES ASSUME at <= start + 2 \/ at > end PROVE read(z) = p
    OBVIOUS
  <2>0. at \in Nat
    BY DEF Segment
  <2>1. \A k \in 1 .. 3 * z : u[start + 2 + k] = Data(10 * b + k)
    <3> SUFFICES ASSUME NEW k \in 1 .. 3 * z PROVE u[start + 2 + k] = Data(10 * b + k)
      OBVIOUS
    <3>1. start + 2 + k # at
      BY <1>1, <2>0
    <3> QED  BY <1>1, <3>1
  <2> QED  BY <1>1, <1>2, <1>3, <2>1
<1>5. ASSUME NEW k \in 1 .. 3 * z, at = start + 2 + k, u[at] # Data(10 * b + k) PROVE read(z) # p
  <2>1. read(z)[k] = u[at] /\ p[k] = Data(10 * b + k)
    BY <1>1, <1>2, <1>3, <1>5
  <2> QED  BY <1>5, <2>1
<1>6. ASSUME NEW c \in Nat, c # z PROVE read(c) # p
  <2>1. DOMAIN read(c) = 1 .. 3 * c /\ DOMAIN p = 1 .. 3 * z
    BY <1>2, <1>3
  <2>2. 1 .. 3 * c # 1 .. 3 * z
    <3>1. 3 * c \in Nat /\ 3 * z \in Nat /\ 3 * c # 3 * z
      BY <1>1, <1>6
    <3>2. 3 * c \in 1 .. 3 * c <=> 3 * c > 0
      BY <3>1
    <3>3. 3 * z \in 1 .. 3 * z <=> 3 * z > 0
      BY <3>1
    <3> QED  BY <3>1, <3>2, <3>3
  <2> QED  BY <2>1, <2>2, Zenon
<1>7. read(z) # <<>>
  <2>1. DOMAIN read(z) = 1 .. 3 * z /\ 1 \in 1 .. 3 * z
    BY <1>1, <1>3
  <2>2. DOMAIN <<>> = {}
    OBVIOUS
  <2>3. 1 \notin {}
    OBVIOUS
  <2> QED  BY <2>1, <2>2, <2>3, Zenon
<1> QED  BY <1>4, <1>5, <1>6, <1>7 DEF start, end, z, read, p, u

(* Where the reader stops at the end of a file. *)
LEMMA EndIs ==
  ASSUME NEW file, WellFormed(file), NEW pos \in Nat
  PROVE  /\ EndsAt(file, pos) <=> 8 * pos >= file.bytes
         /\ pos + 2 <= WholeUnits(file) =>
              ~EndsAt(file, pos) /\ ~(pos + BatchHeaderUnits > WholeUnits(file))
<1>1. EndsAt(file, pos) <=> 8 * pos >= file.bytes
  BY DEF EndsAt, UnitBytes, WellFormed
<1>2. WholeUnits(file) \in Nat /\ 8 * WholeUnits(file) <= file.bytes /\ file.bytes \in Nat
  BY WholeUnitsIs DEF WellFormed
<1> QED  BY <1>1, <1>2 DEF BatchHeaderUnits

(* At the end of the file nothing more is read. *)
LEMMA BodyEnds ==
  ASSUME NEW file, WellFormed(file), NEW from, NEW pos \in Nat, 8 * pos >= file.bytes
  PROVE  Body(file, from, pos) = Nothing
<1>1. EndsAt(file, pos)
  BY EndIs
<1> QED  BY <1>1, Zenon DEF Body

(* A header that is cut off is reported as a truncation. *)
LEMMA BodyCut ==
  ASSUME NEW file, WellFormed(file), NEW from, NEW pos \in Nat,
         ~(8 * pos >= file.bytes), pos + 2 > WholeUnits(file)
  PROVE  Body(file, from, pos) = [Nothing EXCEPT !.truncated = TRUE]
<1>1. ~EndsAt(file, pos) /\ pos + BatchHeaderUnits > WholeUnits(file)
  BY EndIs DEF BatchHeaderUnits
<1> QED  BY <1>1, Zenon DEF Body

(* What is not a header is counted as corrupt and passed over. *)
LEMMA BodySkips ==
  ASSUME NEW file, WellFormed(file), NEW from, NEW pos \in Nat,
         pos + 2 <= WholeUnits(file), ~Recognised(file, pos)
  PROVE  Body(file, from, pos) = [from[NextHeader(file, pos)] EXCEPT !.corrupt = @ + 1]
<1>1. ~EndsAt(file, pos) /\ ~(pos + BatchHeaderUnits > WholeUnits(file))
  BY EndIs
<1> QED  BY <1>1, Zenon DEF Body

(* A batch longer than the file is reported as a truncation. *)
LEMMA BodyTooLong ==
  ASSUME NEW file, WellFormed(file), NEW from, NEW pos \in Nat,
         pos + 2 <= WholeUnits(file), Recognised(file, pos),
         pos + RequiredUnits(At(file, pos + 1).count) > WholeUnits(file)
  PROVE  Body(file, from, pos) = [Nothing EXCEPT !.truncated = TRUE]
<1>1. ~EndsAt(file, pos) /\ ~(pos + BatchHeaderUnits > WholeUnits(file))
  BY EndIs
<1> QED  BY <1>1, Zenon DEF Body

(* A batch whose checksum matches is delivered. *)
LEMMA BodyDelivers ==
  ASSUME NEW file, WellFormed(file), NEW from, NEW pos \in Nat,
         pos + 2 <= WholeUnits(file), Recognised(file, pos),
         ~(pos + RequiredUnits(At(file, pos + 1).count) > WholeUnits(file)),
         Payload(file, pos, At(file, pos + 1).count) = At(file, pos + 1).sum
  PROVE  Body(file, from, pos) =
           After(At(file, pos + 1).sum, from[pos + RequiredUnits(At(file, pos + 1).count)])
<1>1. ~EndsAt(file, pos) /\ ~(pos + BatchHeaderUnits > WholeUnits(file))
  BY EndIs
<1> QED  BY <1>1, Zenon DEF Body, After

(* A batch whose checksum does not match is counted as corrupt and skipped. *)
LEMMA BodyCorrupt ==
  ASSUME NEW file, WellFormed(file), NEW from, NEW pos \in Nat,
         pos + 2 <= WholeUnits(file), Recognised(file, pos),
         ~(pos + RequiredUnits(At(file, pos + 1).count) > WholeUnits(file)),
         Payload(file, pos, At(file, pos + 1).count) # At(file, pos + 1).sum
  PROVE  Body(file, from, pos) =
           [from[pos + RequiredUnits(At(file, pos + 1).count)] EXCEPT !.corrupt = @ + 1]
<1>1. ~EndsAt(file, pos) /\ ~(pos + BatchHeaderUnits > WholeUnits(file))
  BY EndIs
<1> QED  BY <1>1, Zenon DEF Body

(* The step at the start of a batch that is not damaged. *)
LEMMA BodyOfBatch ==
  ASSUME NEW sizes, NEW file, NEW at, Segment(sizes, file, at), NEW from,
         NEW b \in 1 .. Len(sizes),
         at <= EndOf(sizes, b - 1) \/ at > EndOf(sizes, b),
         EndOf(sizes, b) <= WholeUnits(file)
  PROVE  Body(file, from, EndOf(sizes, b - 1)) =
           After(Payloads(sizes)[b], from[EndOf(sizes, b)])
<1>1. WellFormed(file) /\ at \in Nat
  BY DEF Segment
<1>2. PICK x : x = EndOf(sizes, b - 1)
  OBVIOUS
<1>3. PICK z : z = sizes[b]
  OBVIOUS
<1>4. /\ x \in Nat /\ z \in Nat /\ z >= 1 /\ EndOf(sizes, b) = x + 2 + 3 * z
      /\ x + 1 # at => Recognised(file, x)
      /\ x + 2 # at => At(file, x + 1).count = z /\ At(file, x + 1).sum = Payloads(sizes)[b]
  BY <1>2, <1>3, BatchIs
<1>5. RequiredUnits(z) = 2 + z * 3
  BY DEF RequiredUnits, BatchHeaderUnits, SampleUnits
<1>6. x + RequiredUnits(z) = EndOf(sizes, b)
  BY <1>4, <1>5
<1>7. x + 1 # at /\ x + 2 # at /\ (at <= x + 2 \/ at > EndOf(sizes, b))
  BY <1>1, <1>2, <1>4
<1>8. Payload(file, x, z) = Payloads(sizes)[b]
  BY <1>2, <1>3, <1>7, PayloadRead
<1>9. WholeUnits(file) \in Nat
  BY <1>1, WholeUnitsIs
<1>10. /\ x + 2 <= WholeUnits(file) /\ ~(x + RequiredUnits(z) > WholeUnits(file))
       /\ Recognised(file, x) /\ At(file, x + 1).count = z
       /\ At(file, x + 1).sum = Payloads(sizes)[b]
  <2>1. x + 2 <= EndOf(sizes, b)
    BY <1>4
  <2> QED  BY <1>4, <1>6, <1>7, <1>9, <2>1
<1>11. Body(file, from, x) =
           After(At(file, x + 1).sum, from[x + RequiredUnits(At(file, x + 1).count)])
  BY <1>1, <1>4, <1>8, <1>10, BodyDelivers
<1>12. from[x + RequiredUnits(At(file, x + 1).count)] = from[EndOf(sizes, b)]
  BY <1>6, <1>10
<1> QED  BY <1>2, <1>10, <1>11, <1>12

(* The whole batches that start at a position or after it. *)
WholeFrom(sizes, file, pos) ==
  {b \in 1 .. Len(sizes) : EndOf(sizes, b - 1) >= pos /\ 8 * EndOf(sizes, b) <= file.bytes}

(* The batches from a position on that are in the file only in part. *)
CutFrom(sizes, file, pos) ==
  \E b \in 1 .. Len(sizes) : /\ EndOf(sizes, b - 1) >= pos
                             /\ 8 * EndOf(sizes, b - 1) < file.bytes
                             /\ 8 * EndOf(sizes, b) > file.bytes

(* From a position on everything that is whole is delivered. *)
ReadsAll(sizes, file, pos, r) ==
  /\ Delivers(sizes, r, WholeFrom(sizes, file, pos))
  /\ CutFrom(sizes, file, pos) => r.corrupt > 0 \/ r.truncated

(* Between two positions without a magic no batch starts. *)
LEMMA SkipsNoBatch ==
  ASSUME NEW sizes, NEW file, NEW at, Segment(sizes, file, at),
         NEW pos \in Nat, pos >= 5, pos + 2 <= WholeUnits(file),
         NEW b \in 1 .. Len(sizes), EndOf(sizes, b - 1) > pos, EndOf(sizes, b - 1) + 1 # at
  PROVE  EndOf(sizes, b - 1) >= NextHeader(file, pos)
<1>1. WellFormed(file) /\ BatchHeaderUnits = 2
  BY DEF Segment, BatchHeaderUnits
<1>2. /\ NextHeader(file, pos) \in Nat
      /\ \A p \in Nat : p > pos /\ p < NextHeader(file, pos) => ~At(file, p).magic
  BY <1>1, NextHeaderIs
<1>3. EndOf(sizes, b - 1) \in Nat /\ Recognised(file, EndOf(sizes, b - 1))
  BY BatchIs
<1>4. At(file, EndOf(sizes, b - 1)).magic
  BY <1>3 DEF Recognised
<1> QED  BY <1>2, <1>3, <1>4

(* Once the damage is passed, every whole batch is delivered. *)
LEMMA AfterDamage ==
  ASSUME NEW sizes, NEW file, NEW at, Segment(sizes, file, at), NEW from,
         \A p \in 5 .. Len(file.units) + 1 : from[p] = Body(file, from, p),
         NEW q \in Nat, q >= 5, q >= at, q <= Len(file.units) + 1
  PROVE  ReadsAll(sizes, file, q, from[q])
<1> DEFINE L == Len(file.units) + 1
           E(b) == EndOf(sizes, b)
           n == Len(sizes)
           W == WholeUnits(file)
           m == file.bytes
           S == {p \in 0 .. L : \A x \in Nat : x >= p /\ x >= 5 /\ x >= at /\ x <= L =>
                                                ReadsAll(sizes, file, x, from[x])}
<1>1. /\ WellFormed(file) /\ sizes \in Seq(Nat \ {0}) /\ at \in Nat
  BY DEF Segment
<1>2. /\ W \in Nat /\ W <= Len(file.units) /\ Len(file.units) \in Nat /\ m \in Nat
      /\ 8 * W <= m /\ m < 8 * W + 8 /\ m <= 8 * Len(file.units)
      /\ \A k \in Nat : k <= W <=> 8 * k <= m
  BY <1>1, WholeUnitsIs DEF WellFormed, UnitBytes
<1>3. \A b \in 1 .. n : /\ E(b) \in Nat /\ E(b - 1) \in Nat /\ E(b - 1) >= 5
                        /\ E(b) >= E(b - 1) + 5
  <2> SUFFICES ASSUME NEW b \in 1 .. n
               PROVE  E(b) \in Nat /\ E(b - 1) \in Nat /\ E(b - 1) >= 5 /\ E(b) >= E(b - 1) + 5
    OBVIOUS
  <2>1. /\ E(b - 1) \in Nat /\ E(b - 1) >= 5 /\ sizes[b] \in Nat /\ sizes[b] >= 1
        /\ E(b) = E(b - 1) + 2 + 3 * sizes[b]
    BY BatchIs
  <2> DEFINE x == E(b) y == E(b - 1) z == sizes[b]
  <2>2. y \in Nat /\ y >= 5 /\ z \in Nat /\ z >= 1 /\ x = y + 2 + 3 * z
    BY <2>1
  <2> HIDE DEF x, y, z
  <2>3. x \in Nat /\ y \in Nat /\ y >= 5 /\ x >= y + 5
    BY <2>2
  <2> QED  BY <2>3 DEF x, y
<1>4. \A b, c \in 1 .. n : b < c => E(b) <= E(c - 1)
  <2> SUFFICES ASSUME NEW b \in 1 .. n, NEW c \in 1 .. n, b < c PROVE E(b) <= E(c - 1)
    OBVIOUS
  <2>1. b \in 0 .. Len(sizes) /\ c - 1 \in 0 .. Len(sizes) /\ b <= c - 1
    BY <1>1, EndOfProperties
  <2> QED  BY <1>1, <2>1, EndsGrow
<1> HIDE DEF L, E, n, W, m
<1>5. ASSUME NEW x \in Nat, x >= 5, x >= at, x <= L,
             \A y \in Nat : y > x /\ y <= L => ReadsAll(sizes, file, y, from[y])
      PROVE  ReadsAll(sizes, file, x, from[x])
  <2>1. from[x] = Body(file, from, x)
    BY <1>2, <1>5 DEF L
  <2>2. CASE 8 * x >= m
    <3>1. from[x] = Nothing
      BY <1>1, <2>1, <2>2, BodyEnds DEF m
    <3>2. WholeFrom(sizes, file, x) = {}
      <4>1. \A b \in 1 .. n : ~(E(b - 1) >= x /\ 8 * E(b) <= m)
        BY <1>2, <1>3, <2>2
      <4> QED  BY <4>1 DEF WholeFrom, E, n, m
    <3>3. ~CutFrom(sizes, file, x)
      <4>1. \A b \in 1 .. n : ~(E(b - 1) >= x /\ 8 * E(b - 1) < m)
        BY <1>2, <1>3, <2>2
      <4> QED  BY <4>1 DEF CutFrom, E, n, m
    <3> QED  BY <1>1, <3>1, <3>2, <3>3, NothingDelivers DEF ReadsAll
  <2>3. CASE ~(8 * x >= m) /\ x + 2 > W
    <3>1. from[x] = [Nothing EXCEPT !.truncated = TRUE]
      BY <1>1, <2>1, <2>3, BodyCut DEF m, W
    <3>2. WholeFrom(sizes, file, x) = {}
      <4>1. \A b \in 1 .. n : ~(E(b - 1) >= x /\ 8 * E(b) <= m)
        BY <1>2, <1>3, <2>3
      <4> QED  BY <4>1 DEF WholeFrom, E, n, m
    <3> QED  BY <1>1, <3>1, <3>2, NothingDelivers DEF ReadsAll
  <2>4. CASE x + 2 <= W /\ ~Recognised(file, x)
    <3> DEFINE next == NextHeader(file, x)
    <3>1. from[x] = [from[next] EXCEPT !.corrupt = @ + 1]
      BY <1>1, <2>1, <2>4, BodySkips DEF m, W
    <3>2. next \in Nat /\ next > x /\ next <= L
      <4>1. next \in Nat /\ next > x /\ next <= W + 1
        BY <1>1, <2>4, NextHeaderIs DEF BatchHeaderUnits, W
      <4> HIDE DEF next
      <4> QED  BY <1>2, <4>1 DEF L
    <3>3. ReadsAll(sizes, file, next, from[next])
      BY <1>5, <3>2
    <3>4. \A b \in 1 .. n : E(b - 1) >= x <=> E(b - 1) >= next
      <4> SUFFICES ASSUME NEW b \in 1 .. n PROVE E(b - 1) >= x <=> E(b - 1) >= next
        OBVIOUS
      <4>1. E(b - 1) \in Nat /\ (E(b - 1) + 1 # at => Recognised(file, E(b - 1)))
        BY BatchIs DEF E, n
      <4>2. E(b - 1) >= x => E(b - 1) + 1 # at
        BY <1>1, <1>5, <4>1
      <4>3. E(b - 1) >= x => E(b - 1) > x
        BY <2>4, <4>1, <4>2
      <4>4. E(b - 1) > x => E(b - 1) >= next
        BY <1>5, <2>4, <4>1, <4>2, SkipsNoBatch DEF E, n, W
      <4> QED  BY <3>2, <4>1, <4>3, <4>4
    <3>5. WholeFrom(sizes, file, x) = WholeFrom(sizes, file, next)
      BY <3>4, Zenon DEF WholeFrom, E, n
    <3>6. Delivers(sizes, from[next], WholeFrom(sizes, file, x))
      BY <3>3, <3>5, Zenon DEF ReadsAll
    <3>7. Delivers(sizes, from[x], WholeFrom(sizes, file, x)) /\ from[x].corrupt > 0
      BY <1>1, <3>1, <3>6, CorruptDelivers
    <3> QED  BY <3>7, Zenon DEF ReadsAll
  <2>5. CASE x + 2 <= W /\ Recognised(file, x)
    <3>1. PICK b \in 1 .. n : x = E(b - 1)
      <4>1. x < Len(file.units) /\ x + 1 # at
        BY <1>1, <1>2, <1>5, <2>5
      <4>2. At(file, x).magic
        BY <2>5 DEF Recognised
      <4> QED  BY <1>5, <4>1, <4>2, MagicStartsBatch DEF E, n
    <3>2. /\ sizes[b] \in Nat /\ E(b) = x + 2 + 3 * sizes[b] /\ E(b) <= Len(file.units)
          /\ At(file, x + 1).count = sizes[b] /\ At(file, x + 1).sum = Payloads(sizes)[b]
      <4>1. x + 2 # at
        BY <1>1, <1>5
      <4> QED  BY <3>1, <4>1, BatchIs DEF E, n
    <3>3. x + RequiredUnits(sizes[b]) = E(b)
      <4> DEFINE z == sizes[b] y == E(b)
      <4>1. z \in Nat /\ y = x + 2 + 3 * z
        BY <3>2
      <4>2. RequiredUnits(z) = 2 + z * 3
        BY DEF RequiredUnits, BatchHeaderUnits, SampleUnits
      <4> HIDE DEF z, y
      <4>3. x + RequiredUnits(z) = y
        BY <4>1, <4>2
      <4> QED  BY <4>3 DEF z, y
    <3>4. Payload(file, x, sizes[b]) = Payloads(sizes)[b]
      <4>1. at <= x + 2
        BY <1>1, <1>5
      <4> QED  BY <3>1, <4>1, PayloadRead DEF E, n
    <3>5. \A c \in 1 .. n : c # b /\ E(c - 1) >= x => c > b
      <4> SUFFICES ASSUME NEW c \in 1 .. n, c < b PROVE ~(E(c - 1) >= x)
        <5>1. \A c \in 1 .. n : c # b => c < b \/ c > b
          OBVIOUS
        <5> QED  BY <5>1
      <4> QED  BY <1>3, <1>4, <3>1
    <3>6. CASE E(b) > W
      <4>1. from[x] = [Nothing EXCEPT !.truncated = TRUE]
        <5>1. x + RequiredUnits(At(file, x + 1).count) > W
          BY <3>2, <3>3, <3>6
        <5> QED  BY <1>1, <2>1, <2>5, <5>1, BodyTooLong DEF W
      <4>2. WholeFrom(sizes, file, x) = {}
        <5> SUFFICES ASSUME NEW c \in 1 .. n, E(c - 1) >= x, 8 * E(c) <= m PROVE FALSE
          BY DEF WholeFrom, E, n, m
        <5>1. E(c) <= W
          BY <1>2, <1>3
        <5>2. c # b
          BY <1>2, <1>3, <3>6, <5>1
        <5>3. E(b) <= E(c - 1) /\ E(c - 1) <= E(c)
          BY <1>3, <1>4, <3>5, <5>2
        <5> QED  BY <1>2, <1>3, <3>6, <5>1, <5>3
      <4> QED  BY <1>1, <4>1, <4>2, NothingDelivers DEF ReadsAll
    <3>7. CASE E(b) <= W
      <4> DEFINE rest == from[E(b)]
      <4>1. from[x] = After(Payloads(sizes)[b], rest)
        <5>1. at <= EndOf(sizes, b - 1) /\ EndOf(sizes, b) <= WholeUnits(file) /\ b \in 1 .. Len(sizes)
          BY <1>5, <3>1, <3>7 DEF E, W, n
        <5>2. Body(file, from, EndOf(sizes, b - 1)) =
                After(Payloads(sizes)[b], from[EndOf(sizes, b)])
          BY <5>1, BodyOfBatch
        <5> QED  BY <2>1, <3>1, <5>2 DEF E
      <4>2. ReadsAll(sizes, file, E(b), rest)
        <5>2. E(b) \in Nat /\ E(b) >= E(b - 1) + 5 /\ E(b) <= Len(file.units)
          BY <1>3, <3>2
        <5>1. E(b) \in Nat /\ E(b) > x /\ E(b) <= L
          BY <1>2, <3>1, <5>2 DEF L
        <5> QED  BY <1>5, <5>1
      <4>3. \A c \in 1 .. n : E(c - 1) >= E(b) => c > b
        <5> SUFFICES ASSUME NEW c \in 1 .. n, E(c - 1) >= E(b) PROVE c > b
          OBVIOUS
        <5>1. c # b
          BY <1>3
        <5>2. E(c - 1) >= x
          BY <1>3, <3>1
        <5> QED  BY <3>5, <5>1, <5>2
      <4>4. \A c \in WholeFrom(sizes, file, E(b)) : b < c
        BY <4>3 DEF WholeFrom, E, n
      <4>5. WholeFrom(sizes, file, x) = {b} \union WholeFrom(sizes, file, E(b))
        <5>1. \A c \in 1 .. n : E(c - 1) >= x <=> c = b \/ E(c - 1) >= E(b)
          <6> SUFFICES ASSUME NEW c \in 1 .. n PROVE E(c - 1) >= x <=> c = b \/ E(c - 1) >= E(b)
            OBVIOUS
          <6>1. E(c - 1) >= x => c = b \/ E(c - 1) >= E(b)
            BY <1>3, <1>4, <3>5
          <6>2. c = b \/ E(c - 1) >= E(b) => E(c - 1) >= x
            BY <1>3, <3>1
          <6> QED  BY <6>1, <6>2
        <5>2. 8 * E(b) <= m
          BY <1>2, <1>3, <3>7
        <5> QED  BY <5>1, <5>2, Zenon DEF WholeFrom, E, n, m
      <4>6. Delivers(sizes, rest, WholeFrom(sizes, file, E(b)))
            /\ (CutFrom(sizes, file, E(b)) => rest.corrupt > 0 \/ rest.truncated)
        BY <4>2, Zenon DEF ReadsAll
      <4> HIDE DEF rest
      <4>7. /\ Delivers(sizes, from[x], WholeFrom(sizes, file, x))
            /\ from[x].corrupt = rest.corrupt /\ from[x].truncated = rest.truncated
        <5>1. b \in 1 .. Len(sizes)
          BY DEF n
        <5> DEFINE more == After(Payloads(sizes)[b], rest)
                   K == WholeFrom(sizes, file, E(b))
        <5>2. Delivers(sizes, rest, K) /\ \A c \in K : b < c
          BY <4>4, <4>6
        <5> HIDE DEF K
        <5>3. /\ Delivers(sizes, more, {b} \union K)
              /\ more.corrupt = rest.corrupt /\ more.truncated = rest.truncated
          BY <1>1, <5>1, <5>2, NextDelivers
        <5>4. from[x] = more
          BY <4>1
        <5> HIDE DEF more
        <5> QED  BY <4>5, <5>3, <5>4, Zenon DEF K
      <4>8. CutFrom(sizes, file, x) => CutFrom(sizes, file, E(b))
        <5> SUFFICES ASSUME NEW c \in 1 .. n, E(c - 1) >= x, 8 * E(c - 1) < m, 8 * E(c) > m
                     PROVE  E(c - 1) >= E(b)
          BY DEF CutFrom, E, n, m
        <5>1. c # b
          BY <1>2, <1>3, <3>7
        <5> QED  BY <1>4, <3>5, <5>1
      <4> QED  BY <4>6, <4>7, <4>8, Zenon DEF ReadsAll
    <3> QED  BY <1>2, <1>3, <3>6, <3>7
  <2> QED  BY <1>2, <2>2, <2>3, <2>4, <2>5
<1>6. L \in S
  <2> SUFFICES ASSUME NEW x \in Nat, x >= L, x >= 5, x >= at, x <= L PROVE ReadsAll(sizes, file, x, from[x])
    BY <1>2 DEF L
  <2>1. \A y \in Nat : ~(y > x /\ y <= L)
    BY <1>2 DEF L
  <2> QED  BY <1>5, <2>1
<1>7. \A p \in 1 .. L : p \in S => p - 1 \in S
  <2> SUFFICES ASSUME NEW p \in 1 .. L, p \in S PROVE p - 1 \in S
    OBVIOUS
  <2>1. p - 1 \in 0 .. L
    BY <1>2 DEF L
  <2>2. ASSUME NEW x \in Nat, x >= p - 1, x >= 5, x >= at, x <= L PROVE ReadsAll(sizes, file, x, from[x])
    <3>1. \A y \in Nat : y > x /\ y <= L => y >= p /\ y >= 5 /\ y >= at
      BY <1>1, <2>2
    <3>2. \A y \in Nat : y > x /\ y <= L => ReadsAll(sizes, file, y, from[y])
      BY <3>1
    <3> QED  BY <1>5, <2>2, <3>2
  <2> QED  BY <2>1, <2>2
<1> HIDE DEF S
<1>8. \A p \in 0 .. L : p \in S
  BY <1>2, <1>6, <1>7, DownTo DEF L
<1>9. 0 \in 0 .. L
  BY <1>2 DEF L
<1> QED  BY <1>8, <1>9 DEF S, L

(* The unit numbered at is a damaged one of batch d. *)
DamagedAt(sizes, file, at, d) ==
  /\ d \in 1 .. Len(sizes) /\ EndOf(sizes, d - 1) < at /\ at <= EndOf(sizes, d)
  /\ file.units[at] \in Damaged(Written(sizes)[at])

(* The damage is to the count of the batch. *)
CountLost(sizes, file, at, d) ==
  at = EndOf(sizes, d - 1) + 2 /\ file.units[at].count # sizes[d]

(* What damage leaves of a batch. *)
LEMMA DamageIs ==
  ASSUME NEW sizes, NEW file, NEW at, Segment(sizes, file, at), NEW d,
         DamagedAt(sizes, file, at, d), Len(Written(sizes)) < Huge, Huge \in Nat
  PROVE  LET start == EndOf(sizes, d - 1)
         IN  \/ at = start + 1 /\ ~Recognised(file, start)
             \/ /\ at = start + 2 /\ file.units[at].count # sizes[d]
                /\ file.units[at].count = Huge \/ file.units[at].sum = Payloads(sizes)[d]
             \/ at = start + 2 /\ file.units[at].count = sizes[d] /\ file.units[at].sum = <<>>
             \/ \E k \in 1 .. 3 * sizes[d] : at = start + 2 + k /\ file.units[at] # Data(10 * d + k)
<1> DEFINE w == Written(sizes)
           start == EndOf(sizes, d - 1)
           z == sizes[d]
           P == Payloads(sizes)[d]
           unit == file.units[at]
<1>1. d \in 1 .. Len(sizes) /\ start < at /\ at <= EndOf(sizes, d) /\ unit \in Damaged(w[at])
  BY DEF DamagedAt
<1>2. /\ start \in Nat /\ z \in Nat /\ z >= 1 /\ EndOf(sizes, d) = start + 2 + 3 * z
      /\ EndOf(sizes, d) <= Len(file.units)
  BY <1>1, BatchIs
<1>3. /\ w[start + 1] = Start(kVersion) /\ w[start + 2] = CountAndSum(z, P)
      /\ \A k \in 1 .. 3 * z : w[start + 2 + k] = P[k]
      /\ at \in Nat /\ Len(file.units) = Len(w) /\ Len(file.units) \in Nat
  BY <1>1 DEF Segment, Laid, WellFormed
<1>4. \A k \in 1 .. 3 * z : P[k] = Data(10 * d + k)
  <2>1. P = [k \in 1 .. 3 * z |-> Data(10 * d + k)]
    BY <1>1, PayloadIs DEF Segment
  <2> HIDE DEF P
  <2> QED  BY <2>1
<1>5. \A x : unit \in Damaged(x) => 
        /\ unit # x
        /\ \/ unit = Data(0) \/ (x.magic /\ unit = Start(1))
           \/ x.count # Huge /\ \/ \E c \in Counts : unit = CountAndSum(c, x.sum)
                                \/ unit = CountAndSum(x.count, <<>>)
  <2> HIDE DEF unit
  <2> SUFFICES ASSUME NEW x, unit \in Damaged(x)
               PROVE  /\ unit # x
                      /\ \/ unit = Data(0) \/ (x.magic /\ unit = Start(1))
                         \/ x.count # Huge /\ \/ \E c \in Counts : unit = CountAndSum(c, x.sum)
                                              \/ unit = CountAndSum(x.count, <<>>)
    BY Zenon
  <2> DEFINE A == IF x.magic THEN {Start(1)} ELSE {}
             B == IF x.count # Huge
                  THEN {CountAndSum(c, x.sum) : c \in Counts} \union {CountAndSum(x.count, <<>>)}
                  ELSE {}
  <2>1. unit # x /\ (unit = Data(0) \/ unit \in A \/ unit \in B)
    BY Zenon DEF Damaged
  <2>2. unit \in A => x.magic /\ unit = Start(1)
    BY Zenon
  <2>3. unit \in B => x.count # Huge /\ \/ \E c \in Counts : unit = CountAndSum(c, x.sum)
                                        \/ unit = CountAndSum(x.count, <<>>)
    <3>1. CASE x.count # Huge
      <4>1. B = {CountAndSum(c, x.sum) : c \in Counts} \union {CountAndSum(x.count, <<>>)}
        BY <3>1, Zenon
      <4> HIDE DEF B
      <4> QED  BY <3>1, <4>1, Zenon
    <3>2. CASE ~(x.count # Huge)
      <4>1. B = {}
        BY <3>2, Zenon
      <4> HIDE DEF B
      <4> QED  BY <4>1, Zenon
    <3> QED  BY <3>1, <3>2
  <2> HIDE DEF A, B
  <2> QED  BY <2>1, <2>2, <2>3
<1> HIDE DEF w, start, z, P, unit
<1>6. CASE at = start + 1
  <2>1. unit = Data(0) \/ unit = Start(1)
    BY <1>1, <1>3, <1>5, <1>6, UnitKinds
  <2>2. ~(unit.magic /\ unit.version = kVersion)
    BY <2>1, UnitKinds DEF kVersion
  <2>3. At(file, start) = unit
    BY <1>6 DEF At, unit
  <2> QED  BY <1>6, <2>2, <2>3 DEF Recognised, start
<1>7. CASE at = start + 2
  <2>1. /\ unit # CountAndSum(z, P)
        /\ \/ unit = Data(0) \/ \E c \in Counts : unit = CountAndSum(c, P)
           \/ unit = CountAndSum(z, <<>>)
    <3>1. unit \in Damaged(CountAndSum(z, P))
      BY <1>1, <1>3, <1>7
    <3> QED  BY <1>5, <3>1, UnitKinds
  <2>2. z # Huge
    <3>1. Len(file.units) < Huge
      BY <1>3 DEF w
    <3> QED  BY <1>2, <1>3, <3>1
  <2>3. CASE unit = Data(0)
    <3>1. unit.count = Huge
      BY <2>3, UnitKinds
    <3> QED  BY <1>7, <2>2, <3>1 DEF unit, start, z
  <2>4. CASE \E c \in Counts : unit = CountAndSum(c, P)
    <3>1. unit.count # z /\ unit.sum = P
      BY <2>1, <2>4, UnitKinds
    <3> QED  BY <1>7, <3>1 DEF unit, start, z, P
  <2>5. CASE unit = CountAndSum(z, <<>>)
    <3>1. unit.count = z /\ unit.sum = <<>>
      BY <2>5, UnitKinds
    <3> QED  BY <1>7, <3>1 DEF unit, start, z
  <2> QED  BY <2>1, <2>3, <2>4, <2>5
<1>8. CASE at # start + 1 /\ at # start + 2
  <2>1. PICK k \in 1 .. 3 * z : at = start + 2 + k
    <3>1. at - (start + 2) \in 1 .. 3 * z /\ at = start + 2 + (at - (start + 2))
      BY <1>1, <1>2, <1>3, <1>8
    <3> QED  BY <3>1
  <2>2. unit # Data(10 * d + k)
    BY <1>1, <1>3, <1>4, <1>5, <2>1
  <2> QED  BY <2>1, <2>2 DEF unit, start, z
<1> QED  BY <1>6, <1>7, <1>8

(* What the loop makes of the damaged batch and all after it. *)
ReadsPast(sizes, file, at, d, r, kept) ==
  LET start == EndOf(sizes, d - 1)
      whole == WholeFrom(sizes, file, start) \ {d}
  IN  /\ Delivers(sizes, r, kept)
      /\ kept \subseteq whole
      /\ ~CountLost(sizes, file, at, d) => kept = whole
      /\ 8 * start < file.bytes => r.corrupt > 0 \/ r.truncated

(* Where the damaged batch is read, the loop delivers what DamageIsContained asks for. *)
LEMMA PastDamage ==
  ASSUME NEW sizes, NEW file, NEW at, Segment(sizes, file, at), NEW d,
         DamagedAt(sizes, file, at, d), Len(Written(sizes)) < Huge, Huge \in Nat,
         NEW from, \A p \in 5 .. Len(file.units) + 1 : from[p] = Body(file, from, p)
  PROVE  \E kept : ReadsPast(sizes, file, at, d, from[EndOf(sizes, d - 1)], kept)
<1> DEFINE E(b) == EndOf(sizes, b)
           n == Len(sizes)
           W == WholeUnits(file)
           m == file.bytes
           s == E(d - 1)
           z == sizes[d]
           r == from[s]
           Whole(p) == WholeFrom(sizes, file, p)
<1>1. WellFormed(file) /\ sizes \in Seq(Nat \ {0}) /\ at \in Nat
  BY DEF Segment
<1>2. /\ W \in Nat /\ W <= Len(file.units) /\ Len(file.units) \in Nat /\ m \in Nat
      /\ 8 * W <= m /\ m < 8 * W + 8
      /\ \A k \in Nat : k <= W <=> 8 * k <= m
  BY <1>1, WholeUnitsIs DEF WellFormed
<1>3. /\ d \in 1 .. n /\ s < at /\ at <= E(d) /\ s \in Nat /\ s >= 5 /\ z \in Nat /\ z >= 1
      /\ E(d) = s + 2 + 3 * z /\ E(d) <= Len(file.units)
      /\ s + 1 # at => Recognised(file, s)
      /\ s + 2 # at => At(file, s + 1).count = z /\ At(file, s + 1).sum = Payloads(sizes)[d]
  BY BatchIs DEF DamagedAt
<1>4. \A b \in 1 .. n : E(b - 1) \in Nat /\ E(b) \in Nat /\ E(b) > E(b - 1)
  <2> SUFFICES ASSUME NEW b \in 1 .. n PROVE E(b - 1) \in Nat /\ E(b) \in Nat /\ E(b) > E(b - 1)
    OBVIOUS
  <2>1. E(b - 1) \in Nat /\ sizes[b] \in Nat /\ E(b) = E(b - 1) + 2 + 3 * sizes[b]
    BY BatchIs
  <2> DEFINE x == E(b) y == E(b - 1) l == sizes[b]
  <2>2. y \in Nat /\ l \in Nat /\ x = y + 2 + 3 * l
    BY <2>1
  <2> HIDE DEF x, y, l
  <2>3. y \in Nat /\ x \in Nat /\ x > y
    BY <2>2
  <2> QED  BY <2>3 DEF x, y
<1>5. \A b, c \in 1 .. n : b < c => E(b) <= E(c - 1)
  <2> SUFFICES ASSUME NEW b \in 1 .. n, NEW c \in 1 .. n, b < c PROVE E(b) <= E(c - 1)
    OBVIOUS
  <2>1. b \in 0 .. Len(sizes) /\ c - 1 \in 0 .. Len(sizes) /\ b <= c - 1
    BY <1>1, EndOfProperties
  <2> QED  BY <1>1, <2>1, EndsGrow
<1>6. r = Body(file, from, s)
  <2> HIDE DEF E, W, m, s, z
  <2>1. s \in 5 .. Len(file.units) + 1
    BY <1>2, <1>3
  <2> QED  BY <2>1
<1>15. n \in Nat
  BY <1>1, EndOfProperties
<1> HIDE DEF E, n, W, m, s, z, r
(* Nothing that starts with the damaged batch or after it but that batch is before its end. *)
<1>7. \A b \in 1 .. n : E(b - 1) >= s <=> b = d \/ E(b - 1) >= E(d)
  <2> SUFFICES ASSUME NEW b \in 1 .. n PROVE E(b - 1) >= s <=> b = d \/ E(b - 1) >= E(d)
    OBVIOUS
  <2>1. CASE b = d
    BY <1>3, <2>1 DEF s
  <2>2. CASE b > d
    BY <1>3, <1>4, <1>5, <2>2 DEF s
  <2>3. CASE b < d
    <3>1. E(b) <= s /\ E(b - 1) < E(b) /\ E(b - 1) \in Nat /\ E(b) \in Nat /\ E(d) > s
      BY <1>3, <1>4, <1>5, <2>3 DEF s
    <3> QED  BY <1>3, <2>3, <3>1
  <2> QED  BY <1>3, <1>15, <2>1, <2>2, <2>3
<1>8. Whole(s) \ {d} = Whole(E(d))
  <2>1. \A b \in 1 .. n : b \in Whole(s) \ {d} <=> b \in Whole(E(d))
    <3> SUFFICES ASSUME NEW b \in 1 .. n PROVE b \in Whole(s) \ {d} <=> b \in Whole(E(d))
      OBVIOUS
    <3>1. b \in Whole(s) <=> E(b - 1) >= s /\ 8 * E(b) <= m
      BY DEF WholeFrom, E, n, m
    <3>2. b \in Whole(E(d)) <=> E(b - 1) >= E(d) /\ 8 * E(b) <= m
      BY DEF WholeFrom, E, n, m
    <3>3. E(d - 1) < E(d) /\ ~(E(d - 1) >= E(d))
      BY <1>3, <1>4
    <3> HIDE DEF Whole
    <3> QED  BY <1>7, <3>1, <3>2, <3>3
  <2>2. Whole(s) \subseteq 1 .. n /\ Whole(E(d)) \subseteq 1 .. n
    BY DEF WholeFrom, n
  <2> HIDE DEF Whole
  <2> QED  BY <2>1, <2>2
<1>9. E(d) > W => Whole(E(d)) = {}
  <2> SUFFICES ASSUME E(d) > W, NEW b \in 1 .. n, E(b - 1) >= E(d), 8 * E(b) <= m PROVE FALSE
    BY DEF WholeFrom, E, n, m
  <2>1. E(b) <= W /\ E(b) > E(b - 1) /\ E(d) \in Nat /\ E(b) \in Nat /\ E(b - 1) \in Nat
    BY <1>2, <1>3, <1>4
  <2> QED  BY <1>2, <2>1
<1>10. ASSUME NEW q \in Nat, q >= 5, q >= at, q <= Len(file.units) + 1
       PROVE  Delivers(sizes, from[q], Whole(q))
  BY <1>1, <1>10, AfterDamage DEF ReadsAll
(* The three ways the step may go. *)
<1>11. ASSUME r = Nothing, 8 * s >= m PROVE ReadsPast(sizes, file, at, d, r, {})
  <2>1. E(d) > W
    BY <1>2, <1>3, <1>11
  <2>2. Whole(s) \ {d} = {}
    BY <1>8, <1>9, <2>1
  <2>3. Delivers(sizes, r, {})
    BY <1>1, <1>11, NothingDelivers
  <2>4. ~(8 * s < m)
    BY <1>2, <1>3, <1>11
  <2> QED  BY <2>2, <2>3, <2>4, Zenon DEF ReadsPast, s, m, E
<1>12. ASSUME r = [Nothing EXCEPT !.truncated = TRUE],
              E(d) > W \/ CountLost(sizes, file, at, d)
       PROVE ReadsPast(sizes, file, at, d, r, {})
  <2>1. E(d) > W => Whole(s) \ {d} = {}
    BY <1>8, <1>9
  <2>3. Delivers(sizes, r, {}) /\ r.truncated
    BY <1>1, <1>12, NothingDelivers
  <2> QED  BY <1>12, <2>1, <2>3, Zenon DEF ReadsPast, s, E
<1>13. ASSUME NEW q \in Nat, q >= at, q >= 5, q <= Len(file.units) + 1,
              r = [from[q] EXCEPT !.corrupt = @ + 1],
              Whole(q) \subseteq Whole(s) \ {d},
              CountLost(sizes, file, at, d) \/ Whole(q) = Whole(s) \ {d}
       PROVE  ReadsPast(sizes, file, at, d, r, Whole(q))
  <2>1. Delivers(sizes, from[q], Whole(q))
    BY <1>10, <1>13
  <2>2. Delivers(sizes, r, Whole(q)) /\ r.corrupt > 0
    <3> HIDE DEF Whole
    <3> QED  BY <1>1, <1>13, <2>1, CorruptDelivers
  <2>3. Whole(q) \subseteq Whole(s) \ {d} /\ (CountLost(sizes, file, at, d) \/ Whole(q) = Whole(s) \ {d})
    BY <1>13
  <2> QED  BY <2>2, <2>3, Zenon DEF ReadsPast, s, E
<1>14. \E kept : ReadsPast(sizes, file, at, d, r, kept)
  <2>1. CASE 8 * s >= m
    <3>1. r = Nothing
      BY <1>1, <1>3, <1>6, <2>1, BodyEnds DEF m
    <3> QED  BY <1>11, <2>1, <3>1
  <2>2. CASE ~(8 * s >= m) /\ s + 2 > W
    <3>1. r = [Nothing EXCEPT !.truncated = TRUE]
      BY <1>1, <1>3, <1>6, <2>2, BodyCut DEF m, W
    <3>2. E(d) > W
      BY <1>2, <1>3, <2>2
    <3> QED  BY <1>12, <3>1, <3>2
  <2>3. CASE s + 2 <= W /\ at = s + 1 /\ ~Recognised(file, s)
    <3> DEFINE next == NextHeader(file, s)
    <3>1. r = [from[next] EXCEPT !.corrupt = @ + 1]
      BY <1>1, <1>3, <1>6, <2>3, BodySkips DEF W
    <3>2. next \in Nat /\ next > s /\ next <= W + 1
      BY <1>1, <1>3, <2>3, NextHeaderIs DEF BatchHeaderUnits, W
    <3>3. \A b \in 1 .. n : E(b - 1) >= next <=> b # d /\ E(b - 1) >= s
      <4> SUFFICES ASSUME NEW b \in 1 .. n PROVE E(b - 1) >= next <=> b # d /\ E(b - 1) >= s
        OBVIOUS
      <4>1. E(b - 1) \in Nat
        BY <1>4
      <4>2. b # d /\ E(b - 1) >= s => E(b - 1) > s
        BY <1>3, <1>4, <1>7
      <4>3. E(b - 1) > s => E(b - 1) >= next
        <5>1. E(b - 1) > s => E(b - 1) + 1 # at
          BY <1>3, <2>3, <4>1
        <5>2. s + 2 <= WholeUnits(file) /\ b \in 1 .. Len(sizes)
          BY <2>3 DEF W, n
        <5> QED  BY <1>3, <5>1, <5>2, SkipsNoBatch DEF E
      <4>4. E(b - 1) >= next => E(b - 1) > s /\ b # d
        <5>1. E(b - 1) >= next => E(b - 1) > s
          BY <1>3, <3>2, <4>1
        <5>2. b = d => E(b - 1) = s
          BY DEF s
        <5> QED  BY <1>3, <4>1, <5>1, <5>2
      <4> HIDE DEF next
      <4> QED  BY <1>3, <4>1, <4>2, <4>3, <4>4
    <3>4. Whole(next) = Whole(s) \ {d}
      <4>1. \A b \in 1 .. n : b \in Whole(next) <=> b \in Whole(s) \ {d}
        <5> HIDE DEF next
        <5> QED  BY <3>3, Zenon DEF WholeFrom, E, n
      <4>2. Whole(s) \subseteq 1 .. n /\ Whole(next) \subseteq 1 .. n
        BY DEF WholeFrom, n
      <4> HIDE DEF Whole
      <4> QED  BY <4>1, <4>2
    <3>5. next >= at /\ next >= 5 /\ next <= Len(file.units) + 1
      BY <1>2, <1>3, <2>3, <3>2
    <3> HIDE DEF next, Whole
    <3> QED  BY <1>13, <3>1, <3>2, <3>4, <3>5
  <2>4. CASE s + 2 <= W /\ s + 1 # at
    <3> DEFINE c == At(file, s + 1).count
               q == s + RequiredUnits(c)
    <3>1. Recognised(file, s)
      BY <1>3, <2>4
    <3>2. c \in Nat
      <4>1. s + 1 + 1 \in 1 .. Len(file.units)
        BY <1>2, <1>3, <2>4
      <4> QED  BY <1>1, <4>1 DEF WellFormed, At
    <3>3. RequiredUnits(c) = 2 + 3 * c
      BY <3>2 DEF RequiredUnits, BatchHeaderUnits, SampleUnits
    <3>4. \/ /\ at = s + 2 /\ c # z /\ CountLost(sizes, file, at, d)
             /\ c = Huge \/ At(file, s + 1).sum = Payloads(sizes)[d]
          \/ at = s + 2 /\ c = z /\ At(file, s + 1).sum = <<>>
          \/ /\ c = z /\ At(file, s + 1).sum = Payloads(sizes)[d]
             /\ \E k \in 1 .. 3 * z : at = s + 2 + k /\ file.units[at] # Data(10 * d + k)
      <4>1. at = s + 2 => At(file, s + 1) = file.units[at]
        BY <1>3 DEF At
      <4>2. CASE at = s + 2
        <5>1. \/ /\ file.units[at].count # z
                 /\ file.units[at].count = Huge \/ file.units[at].sum = Payloads(sizes)[d]
              \/ file.units[at].count = z /\ file.units[at].sum = <<>>
          <6>1. \A k \in 1 .. 3 * z : at # s + 2 + k
            BY <1>3, <4>2
          <6>2. at # s + 1
            BY <2>4
          <6> QED  BY <6>1, <6>2, DamageIs DEF s, E, z
        <5> QED  BY <4>1, <4>2, <5>1, Zenon DEF CountLost, s, E, z
      <4>3. CASE at # s + 2
        <5>1. \E k \in 1 .. 3 * z : at = s + 2 + k /\ file.units[at] # Data(10 * d + k)
          BY <2>4, <4>3, DamageIs DEF s, E, z
        <5> QED  BY <1>3, <4>3, <5>1
      <4> QED  BY <4>2, <4>3
    <3>5. Payload(file, s, c) # At(file, s + 1).sum \/ c = Huge
      <4>1. d \in 1 .. Len(sizes)
        BY <1>3 DEF n
      <4>2. CASE c # z /\ At(file, s + 1).sum = Payloads(sizes)[d]
        BY <3>2, <4>1, <4>2, PayloadRead DEF s, E, z
      <4>3. CASE c = z /\ At(file, s + 1).sum = <<>>
        BY <4>1, <4>3, PayloadRead DEF s, E, z
      <4>4. CASE /\ c = z /\ At(file, s + 1).sum = Payloads(sizes)[d]
                 /\ \E k \in 1 .. 3 * z : at = s + 2 + k /\ file.units[at] # Data(10 * d + k)
        <5>1. Payload(file, s, z) # Payloads(sizes)[d]
          BY <4>1, <4>4, PayloadRead DEF s, E, z
        <5> HIDE DEF c
        <5> QED  BY <4>4, <5>1
      <4> QED  BY <3>4, <4>2, <4>3, <4>4
    <3>6. q = s + 2 + 3 * c /\ q \in Nat
      BY <1>3, <3>2, <3>3, SMTT(60)
    <3>7. c = z \/ CountLost(sizes, file, at, d)
      BY <3>4
    <3>8. CASE q > W
      <4>1. r = [Nothing EXCEPT !.truncated = TRUE]
        BY <1>1, <1>3, <1>6, <2>4, <3>1, <3>8, BodyTooLong DEF W
      <4>2. c = z => E(d) > W
        BY <1>3, <3>6, <3>8
      <4> QED  BY <1>12, <3>7, <4>1, <4>2
    <3>9. CASE ~(q > W)
      <4>1. c # Huge
        <5>1. Len(file.units) = Len(Written(sizes))
          BY DEF Segment
        <5> HIDE DEF c, q
        <5> QED  BY <1>2, <1>3, <3>2, <3>6, <3>9, <5>1
      <4>2. r = [from[q] EXCEPT !.corrupt = @ + 1]
        <5>1. s \in Nat /\ WellFormed(file) /\ s + 2 <= WholeUnits(file) /\ Recognised(file, s)
          BY <1>1, <1>3, <2>4, <3>1 DEF W
        <5>2. ~(s + RequiredUnits(At(file, s + 1).count) > WholeUnits(file))
          BY <3>9 DEF W
        <5>3. Payload(file, s, At(file, s + 1).count) # At(file, s + 1).sum
          BY <3>5, <4>1
        <5>4. Body(file, from, s) =
                [from[s + RequiredUnits(At(file, s + 1).count)] EXCEPT !.corrupt = @ + 1]
          <6> HIDE DEF c, q
          <6> QED  BY <5>1, <5>2, <5>3, BodyCorrupt
        <5> QED  BY <1>6, <5>4
      <4>3. q >= at /\ q >= 5 /\ q <= Len(file.units) + 1
        <5>1. CASE c = z
          <6> HIDE DEF c, q
          <6> QED  BY <1>2, <1>3, <3>6, <3>9, <5>1
        <5>2. CASE c # z
          <6>1. at = s + 2
            BY <3>4, <5>2
          <6> HIDE DEF c, q
          <6> QED  BY <1>2, <1>3, <3>2, <3>6, <3>9, <6>1
        <5> QED  BY <5>1, <5>2
      <4>4. c = z => q = E(d)
        BY <1>3, <3>6
      <4>5. Whole(q) \subseteq Whole(s) \ {d}
        <5> SUFFICES ASSUME NEW b \in 1 .. n, E(b - 1) >= q PROVE E(b - 1) >= s /\ b # d
          BY DEF WholeFrom, E, n
        <5>1. E(b - 1) \in Nat /\ q > s
          <6> HIDE DEF c, q
          <6> QED  BY <1>3, <1>4, <3>2, <3>6
        <5>2. b = d => E(b - 1) = s
          BY DEF s
        <5> HIDE DEF c, q
        <5> QED  BY <1>3, <3>6, <5>1, <5>2
      <4>6. CountLost(sizes, file, at, d) \/ Whole(q) = Whole(s) \ {d}
        <5> HIDE DEF Whole, c, q
        <5> QED  BY <1>8, <3>7, <4>4
      <4> HIDE DEF q, Whole
      <4> QED  BY <1>13, <3>6, <4>2, <4>3, <4>5, <4>6
    <3> QED  BY <3>8, <3>9
  <2>5. CASE s + 2 <= W /\ s + 1 = at
    <3>1. ~Recognised(file, s)
      <4>1. at = s + 1 /\ at # s + 2 /\ \A k \in 1 .. 3 * z : at # s + 2 + k
        BY <1>3, <2>5
      <4> QED  BY <4>1, DamageIs DEF s, E, z
    <3> QED  BY <2>3, <2>5, <3>1
  <2> QED  BY <1>2, <1>3, <2>1, <2>2, <2>4, <2>5
<1> QED  BY <1>14 DEF r, s, E

(* What the loop makes of all from batch b on, the damaged one not before it. *)
ReadsOver(sizes, file, at, d, b, r, kept) ==
  LET whole == WholeFrom(sizes, file, EndOf(sizes, b - 1)) \ {d}
  IN  /\ Delivers(sizes, r, kept)
      /\ kept \subseteq whole
      /\ ~CountLost(sizes, file, at, d) => kept = whole
      /\ \A c \in whole : c < d => c \in kept
      /\ \A c \in 1 .. Len(sizes) : c >= b /\ c \notin kept /\ 8 * EndOf(sizes, c - 1) < file.bytes
            => r.corrupt > 0 \/ r.truncated

(* So it does from any batch before it. *)
LEMMA BeforeDamage ==
  ASSUME NEW sizes, NEW file, NEW at, Segment(sizes, file, at), NEW d,
         DamagedAt(sizes, file, at, d), Len(Written(sizes)) < Huge, Huge \in Nat,
         NEW from, \A p \in 5 .. Len(file.units) + 1 : from[p] = Body(file, from, p),
         NEW b \in 1 .. Len(sizes), b <= d
  PROVE  \E kept : ReadsOver(sizes, file, at, d, b, from[EndOf(sizes, b - 1)], kept)
<1> DEFINE E(x) == EndOf(sizes, x)
           n == Len(sizes)
           W == WholeUnits(file)
           m == file.bytes
           Whole(p) == WholeFrom(sizes, file, p)
           S == {x \in 0 .. d : x >= 1 => \E kept : ReadsOver(sizes, file, at, d, x, from[E(x - 1)], kept)}
<1>1. WellFormed(file) /\ sizes \in Seq(Nat \ {0}) /\ at \in Nat
  BY DEF Segment
<1>2. /\ W \in Nat /\ W <= Len(file.units) /\ Len(file.units) \in Nat /\ m \in Nat
      /\ 8 * W <= m /\ m < 8 * W + 8
      /\ \A k \in Nat : k <= W <=> 8 * k <= m
  BY <1>1, WholeUnitsIs DEF WellFormed
<1>3. d \in 1 .. n /\ E(d - 1) < at /\ at <= E(d)
  BY DEF DamagedAt
<1>4. \A x \in 1 .. n : /\ E(x - 1) \in Nat /\ E(x) \in Nat /\ E(x) >= E(x - 1) + 5 /\ E(x - 1) >= 5
                        /\ E(x) <= Len(file.units)
  <2> SUFFICES ASSUME NEW x \in 1 .. n
               PROVE /\ E(x - 1) \in Nat /\ E(x) \in Nat /\ E(x) >= E(x - 1) + 5 /\ E(x - 1) >= 5
                     /\ E(x) <= Len(file.units)
    BY Zenon
  <2>1. /\ E(x - 1) \in Nat /\ sizes[x] \in Nat /\ sizes[x] >= 1 /\ E(x) = E(x - 1) + 2 + 3 * sizes[x]
        /\ E(x - 1) >= 5 /\ E(x) <= Len(file.units)
    BY BatchIs
  <2> DEFINE e == E(x) s == E(x - 1) z == sizes[x] l == Len(file.units)
  <2>2. s \in Nat /\ z \in Nat /\ z >= 1 /\ e = s + 2 + 3 * z /\ s >= 5 /\ e <= l
    BY <2>1
  <2> HIDE DEF e, s, z, l
  <2>3. s \in Nat /\ e \in Nat /\ e >= s + 5 /\ s >= 5 /\ e <= l
    BY <2>2
  <2> QED  BY <2>3 DEF e, s, l
<1>5. \A x, y \in 1 .. n : x < y => E(x) <= E(y - 1)
  <2> SUFFICES ASSUME NEW x \in 1 .. n, NEW y \in 1 .. n, x < y PROVE E(x) <= E(y - 1)
    OBVIOUS
  <2>1. x \in 0 .. Len(sizes) /\ y - 1 \in 0 .. Len(sizes) /\ x <= y - 1
    BY <1>1, EndOfProperties
  <2> QED  BY <1>1, <2>1, EndsGrow
<1>6. n \in Nat
  BY <1>1, EndOfProperties
<1>14. \A x \in 1 .. n : /\ E(x - 1) + 1 # at => Recognised(file, E(x - 1))
                         /\ E(x - 1) + 2 # at => At(file, E(x - 1) + 1).count = sizes[x]
                         /\ sizes[x] \in Nat /\ E(x) = E(x - 1) + 2 + 3 * sizes[x]
  BY BatchIs, SMTT(60)
<1> HIDE DEF E, n, W, m
<1>7. \A x, y \in 1 .. n : E(y - 1) >= E(x - 1) <=> y >= x
  <2> SUFFICES ASSUME NEW x \in 1 .. n, NEW y \in 1 .. n PROVE E(y - 1) >= E(x - 1) <=> y >= x
    OBVIOUS
  <2>1. CASE y < x
    <3>1. E(y) <= E(x - 1) /\ E(y) > E(y - 1) /\ E(y) \in Nat /\ E(x - 1) \in Nat /\ E(y - 1) \in Nat
      BY <1>4, <1>5, <2>1
    <3> QED  BY <2>1, <3>1
  <2>2. CASE y = x
    BY <1>4, <2>2
  <2>3. CASE y > x
    <3>1. E(x) <= E(y - 1) /\ E(x) > E(x - 1) /\ E(x) \in Nat /\ E(x - 1) \in Nat /\ E(y - 1) \in Nat
      BY <1>4, <1>5, <2>3
    <3> QED  BY <2>3, <3>1
  <2> QED  BY <2>1, <2>2, <2>3
<1>8. \A x, c \in 1 .. n : c \in Whole(E(x - 1)) <=> c >= x /\ 8 * E(c) <= m
  <2> SUFFICES ASSUME NEW x \in 1 .. n, NEW c \in 1 .. n
               PROVE c \in Whole(E(x - 1)) <=> c >= x /\ 8 * E(c) <= m
    OBVIOUS
  <2>1. c \in Whole(E(x - 1)) <=> E(c - 1) >= E(x - 1) /\ 8 * E(c) <= m
    BY DEF WholeFrom, E, n, m
  <2> HIDE DEF Whole
  <2> QED  BY <1>7, <2>1
<1>9. \A p : Whole(p) \subseteq 1 .. n
  BY DEF WholeFrom, n
<1> HIDE DEF Whole
<1>10. d \in S
  <2>1. PICK kept : ReadsPast(sizes, file, at, d, from[E(d - 1)], kept)
    BY PastDamage DEF E
  <2> DEFINE r == from[E(d - 1)]
             whole == Whole(E(d - 1)) \ {d}
  <2>2. /\ Delivers(sizes, r, kept) /\ kept \subseteq whole
        /\ ~CountLost(sizes, file, at, d) => kept = whole
        /\ 8 * E(d - 1) < m => r.corrupt > 0 \/ r.truncated
    BY <2>1, Zenon DEF ReadsPast, E, m, Whole
  <2> HIDE DEF r
  <2>3. \A c \in whole : ~(c < d)
    BY <1>3, <1>8, <1>9
  <2>4. \A c \in 1 .. n : c >= d /\ 8 * E(c - 1) < m => r.corrupt > 0 \/ r.truncated
    <3> SUFFICES ASSUME NEW c \in 1 .. n, c >= d, 8 * E(c - 1) < m PROVE r.corrupt > 0 \/ r.truncated
      OBVIOUS
    <3>1. E(c - 1) >= E(d - 1) /\ E(c - 1) \in Nat /\ E(d - 1) \in Nat
      BY <1>3, <1>4, <1>7
    <3>2. 8 * E(d - 1) < m
      BY <1>2, <3>1
    <3> QED  BY <2>2, <3>2
  <2>5. ReadsOver(sizes, file, at, d, d, r, kept)
    <3>1. /\ Delivers(sizes, r, kept) /\ kept \subseteq whole
          /\ ~CountLost(sizes, file, at, d) => kept = whole
          /\ \A c \in whole : c < d => c \in kept
          /\ \A c \in 1 .. n : c >= d /\ c \notin kept /\ 8 * E(c - 1) < m => r.corrupt > 0 \/ r.truncated
      BY <2>2, <2>3, <2>4
    <3> QED  BY <3>1, Zenon DEF ReadsOver, E, n, m, Whole
  <2>6. d \in 0 .. d
    BY <1>3
  <2> QED  BY <2>5, <2>6 DEF r
<1>11. \A x \in 1 .. d : x \in S => x - 1 \in S
  <2>0. 0 \in S
    BY <1>3
  <2> SUFFICES ASSUME NEW x \in 1 .. d, x \in S, x # 1 PROVE x - 1 \in S
    <3> HIDE DEF S
    <3>1. \A x \in 1 .. d : x = 1 => x - 1 = 0
      OBVIOUS
    <3> QED  BY <2>0, <3>1
  <2>17. PICK y : y = x - 1
    OBVIOUS
  <2> DEFINE s == E(y - 1)
             r == from[s]
             rest == from[E(y)]
             whole == Whole(s) \ {d}
             later == Whole(E(y)) \ {d}
  <2>1. y \in 1 .. n /\ y < d /\ x \in 1 .. n /\ x - 1 = y
    BY <1>3, <1>6, <2>17
  <2>2. PICK kept : ReadsOver(sizes, file, at, d, x, rest, kept)
    <3>1. x >= 1
      OBVIOUS
    <3>2. \E kept : ReadsOver(sizes, file, at, d, x, from[E(x - 1)], kept)
      BY <3>1
    <3>3. x - 1 = y
      BY <2>17
    <3> HIDE DEF S
    <3>4. from[E(x - 1)] = rest
      BY <3>3
    <3> QED  BY <3>2, <3>4
  <2>3. /\ Delivers(sizes, rest, kept) /\ kept \subseteq later
        /\ ~CountLost(sizes, file, at, d) => kept = later
        /\ \A c \in later : c < d => c \in kept
        /\ \A c \in 1 .. n : c >= x /\ c \notin kept /\ 8 * E(c - 1) < m
             => rest.corrupt > 0 \/ rest.truncated
    BY <2>1, <2>2, Zenon DEF ReadsOver, E, n, m, Whole
  <2>4. /\ s \in Nat /\ s >= 5 /\ E(y) \in Nat /\ E(y) >= s + 5 /\ E(y) <= Len(file.units)
        /\ at > E(y)
    <3>1. E(y) <= E(d - 1) /\ E(d - 1) \in Nat /\ E(y) \in Nat
      BY <1>3, <1>4, <1>5, <2>1
    <3>2. at > E(y)
      BY <1>1, <1>3, <3>1
    <3> QED  BY <1>4, <2>1, <3>2
  <2>5. r = Body(file, from, s)
    <3> HIDE DEF s
    <3>1. s \in 5 .. Len(file.units) + 1
      BY <1>2, <2>4
    <3> QED  BY <3>1
  <2>6. /\ s + 1 # at => Recognised(file, s)
        /\ s + 2 # at => At(file, s + 1).count = sizes[y]
        /\ sizes[y] \in Nat /\ E(y) = s + 2 + 3 * sizes[y]
    <3> HIDE DEF S
    <3> QED  BY <1>14, <2>1
  <2>16. s + 1 # at /\ s + 2 # at
    <3> HIDE DEF s
    <3> QED  BY <1>1, <2>4
  <2> HIDE DEF r
  <2>7. \A c \in 1 .. n : c \in whole <=> c >= y /\ 8 * E(c) <= m /\ c # d
    BY <1>8, <2>1
  <2>8. \A c \in 1 .. n : c \in later <=> c > y /\ 8 * E(c) <= m /\ c # d
    <3>1. E(y) = E(x - 1)
      BY <2>1
    <3>2. \A c \in 1 .. n : c \in Whole(E(x - 1)) <=> c >= x /\ 8 * E(c) <= m
      BY <1>8, <2>1
    <3>3. \A c \in 1 .. n : c >= x <=> c > y
      BY <2>1
    <3> QED  BY <3>1, <3>2, <3>3
  <2>9. \A c \in 1 .. n : c >= y => E(c) >= E(y)
    <3> SUFFICES ASSUME NEW c \in 1 .. n, c >= y PROVE E(c) >= E(y)
      OBVIOUS
    <3>1. CASE c = y
      BY <1>4, <3>1
    <3>2. CASE c # y
      <4>1. E(y) <= E(c - 1) /\ E(c - 1) \in Nat /\ E(c) >= E(c - 1) + 5 /\ E(c) \in Nat /\ E(y) \in Nat
        BY <1>4, <1>5, <2>1, <3>2
      <4> QED  BY <4>1
    <3> QED  BY <3>1, <3>2
  <2>10. whole \subseteq 1 .. n /\ later \subseteq 1 .. n
    BY <1>9
  <2> HIDE DEF whole, later
  <2>11. E(y) > W => whole = {}
    <3> SUFFICES ASSUME E(y) > W, NEW c \in 1 .. n, c \in whole PROVE FALSE
      BY <2>10
    <3>1. c >= y /\ 8 * E(c) <= m /\ E(c) \in Nat
      BY <1>4, <2>7
    <3>2. E(c) <= W /\ E(c) >= E(y)
      BY <1>2, <2>9, <3>1
    <3> QED  BY <1>2, <2>4, <3>1, <3>2
  (* It is enough to say what the step gives. *)
  <2>12. ASSUME NEW K, Delivers(sizes, r, K), K \subseteq whole,
                ~CountLost(sizes, file, at, d) => K = whole,
                \A c \in whole : c < d => c \in K,
                \A c \in 1 .. n : c >= y /\ c \notin K /\ 8 * E(c - 1) < m => r.corrupt > 0 \/ r.truncated
         PROVE  y \in S
    <3>1. ReadsOver(sizes, file, at, d, y, r, K)
      BY <2>12, Zenon DEF ReadsOver, E, n, m, Whole, whole, s
    <3>2. y \in 0 .. d
      BY <1>3, <1>6, <2>1
    <3> QED  BY <3>1, <3>2 DEF r, s
  <2>13. CASE 8 * s >= m
    <3>1. r = Nothing
      BY <1>1, <2>4, <2>5, <2>13, BodyEnds DEF m
    <3>2. Delivers(sizes, r, {})
      BY <1>1, <3>1, NothingDelivers
    <3>3. whole = {}
      <4>1. E(y) > W
        BY <1>2, <2>4, <2>13
      <4> QED  BY <2>11, <4>1
    <3>4. \A c \in 1 .. n : ~(c >= y /\ 8 * E(c - 1) < m)
      <4> SUFFICES ASSUME NEW c \in 1 .. n, c >= y, 8 * E(c - 1) < m PROVE FALSE
        OBVIOUS
      <4>1. E(c - 1) >= s /\ E(c - 1) \in Nat
        BY <1>4, <1>7, <2>1
      <4> HIDE DEF s
      <4> QED  BY <1>2, <2>4, <2>13, <4>1
    <3> QED  BY <2>1, <2>12, <3>2, <3>3, <3>4
  <2>14. CASE ~(8 * s >= m) /\ (s + 2 > W \/ E(y) > W)
    <3>1. r = [Nothing EXCEPT !.truncated = TRUE]
      <4>1. CASE s + 2 > W
        BY <1>1, <2>4, <2>5, <2>14, <4>1, BodyCut DEF m, W
      <4>2. CASE s + 2 <= W /\ E(y) > W
        <5>1. Recognised(file, s) /\ At(file, s + 1).count = sizes[y]
          BY <2>6, <2>16
        <5>2. RequiredUnits(sizes[y]) = 2 + sizes[y] * 3
          BY DEF RequiredUnits, BatchHeaderUnits, SampleUnits
        <5>3. s + RequiredUnits(sizes[y]) = E(y)
          <6> DEFINE e == E(y) z == sizes[y]
          <6>1. z \in Nat /\ e = s + 2 + 3 * z /\ RequiredUnits(z) = 2 + z * 3 /\ s \in Nat
            BY <2>4, <2>6, <5>2
          <6> HIDE DEF e, z, s
          <6>2. s + RequiredUnits(z) = e
            BY <6>1
          <6> QED  BY <6>2 DEF e, z
        <5>4. s + RequiredUnits(At(file, s + 1).count) > WholeUnits(file)
          BY <4>2, <5>1, <5>3 DEF W
        <5>5. s \in Nat /\ s + 2 <= WholeUnits(file)
          BY <2>4, <4>2 DEF W
        <5>6. Body(file, from, s) = [Nothing EXCEPT !.truncated = TRUE]
          <6> HIDE DEF s
          <6> QED  BY <1>1, <5>1, <5>4, <5>5, BodyTooLong, SMTT(60)
        <5> QED  BY <2>5, <5>6
      <4>3. s + 2 > W \/ s + 2 <= W
        <5> HIDE DEF s
        <5> QED  BY <1>2, <2>4
      <4> QED  BY <2>14, <4>1, <4>2, <4>3
    <3>2. Delivers(sizes, r, {}) /\ r.truncated
      BY <1>1, <3>1, NothingDelivers
    <3>3. whole = {}
      <4>1. E(y) > W
        BY <1>2, <2>4, <2>14
      <4> QED  BY <2>11, <4>1
    <3> QED  BY <2>1, <2>12, <3>2, <3>3
  <2>15. CASE E(y) <= W
    <3> DEFINE p == Payloads(sizes)[y]
               more == After(p, rest)
               K == {y} \union kept
    <3>1. r = more
      <4>1. y \in 1 .. Len(sizes) /\ at > EndOf(sizes, y) /\ EndOf(sizes, y) <= WholeUnits(file)
        BY <2>1, <2>4, <2>15 DEF n, E, W
      <4>2. Body(file, from, EndOf(sizes, y - 1)) = After(Payloads(sizes)[y], from[EndOf(sizes, y)])
        BY <4>1, BodyOfBatch
      <4> QED  BY <2>5, <4>2 DEF s, E
    <3>2. \A c \in kept : y < c
      BY <2>3, <2>8, <2>10
    <3>3. /\ Delivers(sizes, more, K)
          /\ more.corrupt = rest.corrupt /\ more.truncated = rest.truncated
      <4> HIDE DEF rest
      <4>1. y \in 1 .. Len(sizes) /\ Delivers(sizes, rest, kept)
        BY <2>1, <2>3 DEF n
      <4> QED  BY <1>1, <3>2, <4>1, NextDelivers
    <3> HIDE DEF more, rest, p
    <3>4. 8 * E(y) <= m /\ y # d
      BY <1>2, <2>1, <2>4, <2>15
    <3>5. \A c \in 1 .. n : c \in whole <=> c = y \/ c \in later
      <4>1. \A c \in 1 .. n : c >= y <=> c = y \/ c > y
        BY <2>1
      <4> QED  BY <2>7, <2>8, <3>4, <4>1
    <3>6. K \subseteq whole /\ (~CountLost(sizes, file, at, d) => K = whole)
      BY <2>1, <2>3, <2>10, <3>5
    <3>7. \A c \in whole : c < d => c \in K
      BY <2>3, <2>10, <3>5
    <3>8. \A c \in 1 .. n : c >= y /\ c \notin K /\ 8 * E(c - 1) < m => r.corrupt > 0 \/ r.truncated
      <4> SUFFICES ASSUME NEW c \in 1 .. n, c >= y, c \notin K, 8 * E(c - 1) < m
                   PROVE  r.corrupt > 0 \/ r.truncated
        OBVIOUS
      <4>1. c >= x /\ c \notin kept
        BY <2>1
      <4> QED  BY <2>3, <3>1, <3>3, <4>1
    <3>9. Delivers(sizes, r, K)
      BY <3>1, <3>3
    <3> HIDE DEF K
    <3> QED  BY <2>1, <2>12, <3>6, <3>7, <3>8, <3>9
  <2> QED  BY <1>2, <2>4, <2>13, <2>14, <2>15
<1> HIDE DEF S
<1>12. \A x \in 0 .. d : x \in S
  BY <1>3, <1>10, <1>11, DownTo
<1>13. b \in 0 .. d /\ b >= 1
  BY <1>3, <1>6
<1> QED  BY <1>12, <1>13 DEF S, E

(* The file of a case. *)
FileOf(sizes, bytes, header, at, unit) ==
  [header |-> header, bytes |-> bytes,
   units |-> IF at = 0 THEN Written(sizes) ELSE [Written(sizes) EXCEPT ![at] = unit]]

(* Every unit that is written, and every unit that stands in its place, has a count. *)
LEMMA CountsOfWritten ==
  ASSUME NEW sizes \in Seq(Nat \ {0}), Huge \in Nat
  PROVE  \A u \in 1 .. Len(Written(sizes)) : Written(sizes)[u].count \in Nat
<1> DEFINE w == Written(sizes)
           N == Len(sizes)
<1>1. /\ Laid(sizes, w) /\ \A u \in 1 .. 5 : w[u] = Data(0)
  BY WrittenIsLaid
<1>2. /\ N \in Nat /\ \A b \in 1 .. N : sizes[b] \in Nat /\ sizes[b] >= 1
      /\ \A b \in 0 .. N : EndOf(sizes, b) \in Nat
      /\ \A b \in 1 .. N : EndOf(sizes, b) = EndOf(sizes, b - 1) + 2 + 3 * sizes[b]
  BY EndOfProperties
<1> SUFFICES ASSUME NEW u \in 1 .. Len(w) PROVE w[u].count \in Nat
  OBVIOUS
<1>3. Len(w) = EndOf(sizes, N) /\ Len(w) \in Nat
  BY <1>1, <1>2 DEF Laid
<1> HIDE DEF w
<1>4. CASE u <= 5
  <2>1. w[u] = Data(0)
    BY <1>1, <1>3, <1>4
  <2> QED  BY <2>1, UnitKinds
<1>5. CASE u > 5
  <2>1. PICK b \in 1 .. N : EndOf(sizes, b - 1) < u /\ u <= EndOf(sizes, b)
    BY <1>3, <1>5, Located
  <2> DEFINE s == EndOf(sizes, b - 1)
             z == sizes[b]
  <2>2. /\ w[s + 1] = Start(kVersion) /\ w[s + 2] = CountAndSum(z, Payloads(sizes)[b])
        /\ \A k \in 1 .. 3 * z : w[s + 2 + k] = Payloads(sizes)[b][k]
    BY <1>1 DEF Laid
  <2>3. /\ s \in Nat /\ z \in Nat /\ s < u /\ u <= s + 2 + 3 * z
    <3>1. b - 1 \in 0 .. N
      BY <1>2
    <3> QED  BY <1>2, <2>1, <3>1
  <2>4. \A k \in 1 .. 3 * z : Payloads(sizes)[b][k] = Data(10 * b + k)
    BY PayloadIs
  <2> HIDE DEF s, z, N
  <2>5. CASE u = s + 1
    BY <1>1, <2>2, <2>5, UnitKinds
  <2>6. CASE u = s + 2
    BY <2>2, <2>3, <2>6, UnitKinds
  <2>7. CASE u > s + 2
    <3>1. PICK k \in 1 .. 3 * z : u = s + 2 + k
      <4>1. u - (s + 2) \in 1 .. 3 * z /\ u = s + 2 + (u - (s + 2))
        BY <1>3, <2>3, <2>7
      <4> QED  BY <4>1
    <3>2. w[u] = Data(10 * b + k)
      BY <2>2, <2>4, <3>1
    <3> QED  BY <3>2, UnitKinds
  <2> QED  BY <1>3, <2>3, <2>5, <2>6, <2>7
<1> QED  BY <1>3, <1>4, <1>5

(* A damaged unit still reads as some count. *)
LEMMA CountsOfDamaged ==
  ASSUME NEW x, x.count \in Nat, Huge \in Nat, Counts \subseteq Nat, NEW unit \in Damaged(x)
  PROVE  unit.count \in Nat
<1> DEFINE A == {CountAndSum(c, x.sum) : c \in Counts}
<1>1. \/ unit = Data(0) \/ unit = Start(1) \/ unit \in A \/ unit = CountAndSum(x.count, <<>>)
  BY Zenon DEF Damaged
<1>2. CASE unit \in A
  <2>1. PICK c \in Counts : unit = CountAndSum(c, x.sum)
    BY <1>2
  <2> QED  BY <2>1, UnitKinds
<1> QED  BY <1>1, <1>2, UnitKinds

(* The file of a case is a written segment with at most one unit overwritten. *)
LEMMA FileIsSegment ==
  ASSUME NEW sizes \in BatchSizes, NEW bytes \in Lengths, NEW header,
         NEW at \in {0} \union FirstBatch + 1 .. Len(Written(sizes)),
         NEW unit \in IF at = 0 THEN {Data(0)} ELSE Damaged(Written(sizes)[at]),
         bytes <= UnitBytes * Len(Written(sizes)),
         NEW file, file = FileOf(sizes, bytes, header, at, unit)
  PROVE  /\ Segment(sizes, file, at) /\ file.bytes = bytes /\ file.header = header
         /\ Len(Written(sizes)) < Huge /\ Huge \in Nat
         /\ at # 0 => /\ at \in 6 .. EndOf(sizes, Len(sizes))
                      /\ file.units[at] \in Damaged(Written(sizes)[at])
<1> DEFINE w == Written(sizes)
           v == IF at = 0 THEN w ELSE [w EXCEPT ![at] = unit]
<1>1. /\ sizes \in Seq(Nat \ {0}) /\ Len(w) < Huge /\ Huge \in Nat
      /\ Counts \subseteq Nat /\ bytes \in Nat
  BY SegmentAssumption
<1>2. /\ Laid(sizes, w) /\ Len(w) = EndOf(sizes, Len(sizes)) /\ DOMAIN w = 1 .. Len(w)
  BY <1>1, WrittenIsLaid DEF Laid
<1>3. Len(w) \in Nat
  BY <1>1, <1>2, EndOfProperties
<1>4. \A u \in 1 .. Len(w) : w[u].count \in Nat
  BY <1>1, CountsOfWritten
<1>5. /\ file.units = v /\ file.bytes = bytes /\ file.header = header
  BY Zenon DEF FileOf
<1>6. at # 0 => at \in 6 .. Len(w) /\ unit \in Damaged(w[at])
  BY FirstBatchIs
<1>7. /\ DOMAIN v = 1 .. Len(w) /\ \A u \in 1 .. Len(w) : v[u] = IF u = at THEN unit ELSE w[u]
  <2> HIDE DEF w
  <2>1. CASE at = 0
    BY <1>2, <1>3, <2>1
  <2>2. CASE at # 0
    BY <1>2, <1>3, <2>2
  <2> QED  BY <2>1, <2>2
<1> HIDE DEF w, v
<1>8. Len(v) = Len(w)
  BY <1>3, <1>7
<1>9. at \in Nat
  BY <1>6
<1>10. \A u \in 1 .. Len(w) : v[u].count \in Nat
  <2> SUFFICES ASSUME NEW u \in 1 .. Len(w) PROVE v[u].count \in Nat
    OBVIOUS
  <2>1. CASE u = at
    <3>1. unit \in Damaged(w[at]) /\ w[at].count \in Nat
      BY <1>3, <1>4, <1>6, <2>1
    <3>2. unit.count \in Nat
      BY <1>1, <3>1, CountsOfDamaged
    <3> QED  BY <1>7, <2>1, <3>2
  <2>2. CASE u # at
    BY <1>4, <1>7, <2>2
  <2> QED  BY <2>1, <2>2
<1>11. WellFormed(file)
  BY <1>1, <1>3, <1>5, <1>8, <1>10 DEF WellFormed, w
<1>12. Segment(sizes, file, at)
  BY <1>1, <1>2, <1>5, <1>7, <1>8, <1>9, <1>11 DEF Segment, w
<1>13. at # 0 => file.units[at] \in Damaged(w[at])
  BY <1>5, <1>6, <1>7
<1> QED  BY <1>1, <1>2, <1>5, <1>6, <1>12, <1>13 DEF w

(* The parts of the property, for a file instead of the case of a state. *)
DamagedIn(sizes, at) ==
  {b \in DOMAIN sizes : at \in StartOf(sizes, b) + 1 .. EndOf(sizes, b)}

(* Intact, of a case that is given. *)
IntactIn(sizes, file, at) ==
  {b \in DOMAIN sizes \ DamagedIn(sizes, at) : UnitBytes * EndOf(sizes, b) <= file.bytes}

(* LengthIsLost, of a case that is given. *)
LengthIsLostIn(sizes, file, at) ==
  \E b \in DamagedIn(sizes, at) : /\ at = StartOf(sizes, b) + 2
                                  /\ file.units[at].count # sizes[b]

(* What DamageIsContained asks of the result of a case. *)
Contained(sizes, file, at, r, kept) ==
  /\ Delivers(sizes, r, kept)
  /\ kept \subseteq IntactIn(sizes, file, at)
  /\ ~LengthIsLostIn(sizes, file, at) => kept = IntactIn(sizes, file, at)
  /\ \A b \in IntactIn(sizes, file, at) : b \in kept \/ \E d \in DamagedIn(sizes, at) : d < b
  /\ \A c \in 1 .. Len(sizes) : c \notin kept /\ 8 * EndOf(sizes, c - 1) < file.bytes
       => r.corrupt > 0 \/ r.truncated

(* The batches read from it are those DamageIsContained asks for. *)
LEMMA ReadBatchesIsContained ==
  ASSUME NEW sizes, NEW file, NEW at, Segment(sizes, file, at),
         Len(Written(sizes)) < Huge, Huge \in Nat,
         at # 0 => at \in 6 .. EndOf(sizes, Len(sizes)) /\ file.units[at] \in Damaged(Written(sizes)[at])
  PROVE  \E kept : Contained(sizes, file, at, ReadBatches(file, 5), kept)
<1> DEFINE n == Len(sizes)
           E(x) == EndOf(sizes, x)
           r == ReadBatches(file, 5)
           whole == WholeFrom(sizes, file, 5)
           Whole == IntactIn(sizes, file, at)
           Dam == DamagedIn(sizes, at)
           m == file.bytes
<1>1. /\ WellFormed(file) /\ sizes \in Seq(Nat \ {0}) /\ at \in Nat /\ m \in Nat
      /\ Len(file.units) = E(n) /\ Len(file.units) \in Nat
  BY DEF Segment, WellFormed, Laid
<1>2. /\ n \in Nat /\ DOMAIN sizes = 1 .. n /\ E(0) = 5
      /\ \A b \in 0 .. n : E(b) \in Nat
      /\ \A b \in 1 .. n : E(b) = E(b - 1) + 2 + 3 * sizes[b] /\ sizes[b] \in Nat
  BY <1>1, EndOfProperties
<1>3. \A b, c \in 0 .. n : b <= c => E(b) <= E(c)
  BY <1>1, EndsGrow
<1> HIDE DEF n, E, m
<1>4. 5 <= E(n)
  BY <1>2, <1>3
<1>5. PICK from : r = from[5] /\ \A p \in 5 .. Len(file.units) + 1 : from[p] = Body(file, from, p)
  BY <1>1, <1>4, ReadingIs
<1>6. \A b \in 1 .. n : E(b - 1) >= 5 /\ E(b - 1) \in Nat /\ E(b) \in Nat
  <2> SUFFICES ASSUME NEW b \in 1 .. n PROVE E(b - 1) >= 5 /\ E(b - 1) \in Nat /\ E(b) \in Nat
    OBVIOUS
  <2>1. b - 1 \in 0 .. n /\ 0 \in 0 .. n /\ 0 <= b - 1 /\ b \in 0 .. n
    BY <1>2
  <2> QED  BY <1>2, <1>3, <2>1
<1>7. \A b : b \in whole <=> b \in 1 .. n /\ 8 * E(b) <= m
  BY <1>6 DEF WholeFrom, E, m, n
<1>8. \A b : b \in Dam <=> b \in 1 .. n /\ E(b - 1) < at /\ at <= E(b)
  <2>1. \A b \in 1 .. n : at \in E(b - 1) + 1 .. E(b) <=> E(b - 1) < at /\ at <= E(b)
    BY <1>1, <1>6
  <2> QED  BY <1>2, <2>1 DEF DamagedIn, StartOf, E
<1>9. \A b : b \in Whole <=> b \in whole /\ b \notin Dam
  BY <1>2, <1>7 DEF IntactIn, UnitBytes, E, m
<1> HIDE DEF r, whole, Whole, Dam
<1>10. \A b \in 1 .. n : 8 * E(b) > m => b \notin Whole
  <2> SUFFICES ASSUME NEW b \in 1 .. n, 8 * E(b) > m PROVE b \notin Whole
    OBVIOUS
  <2>1. E(b) \in Nat
    BY <1>6
  <2> QED  BY <1>1, <1>7, <1>9, <2>1
<1>11. CASE at = 0
  <2>1. ReadsAll(sizes, file, 5, r)
    BY <1>1, <1>4, <1>5, <1>11, AfterDamage
  <2>2. Delivers(sizes, r, whole) /\ (CutFrom(sizes, file, 5) => r.corrupt > 0 \/ r.truncated)
    BY <2>1 DEF ReadsAll, whole
  <2>3. Dam = {}
    BY <1>6, <1>8, <1>11
  <2>4. Whole = whole
    BY <1>9, <2>3
  <2>5. \A c \in 1 .. n : c \notin whole /\ 8 * E(c - 1) < m => r.corrupt > 0 \/ r.truncated
    <3> SUFFICES ASSUME NEW c \in 1 .. n, c \notin whole, 8 * E(c - 1) < m
                 PROVE  r.corrupt > 0 \/ r.truncated
      OBVIOUS
    <3>1. 8 * E(c) > m /\ E(c - 1) >= 5
      <4>1. ~(8 * E(c) <= m)
        BY <1>7
      <4>2. E(c) \in Nat /\ E(c - 1) >= 5
        BY <1>6
      <4> QED  BY <1>1, <4>1, <4>2
    <3>2. CutFrom(sizes, file, 5)
      BY <3>1 DEF CutFrom, E, m, n
    <3> QED  BY <2>2, <3>2
  <2>6. Contained(sizes, file, at, r, whole)
    BY <2>2, <2>4, <2>5, Zenon DEF Contained, Whole, n, E, m
  <2> QED  BY <2>6 DEF r
<1>12. CASE at # 0
  <2>1. at \in 6 .. E(n) /\ file.units[at] \in Damaged(Written(sizes)[at])
    BY <1>12 DEF E, n
  <2>2. PICK d \in 1 .. n : E(d - 1) < at /\ at <= E(d)
    <3>1. at \in Nat /\ at > 5 /\ at <= EndOf(sizes, Len(sizes))
      BY <1>1, <1>2, <2>1 DEF E, n
    <3> QED  BY <1>1, <3>1, Located DEF E, n
  <2>3. DamagedAt(sizes, file, at, d)
    BY <2>1, <2>2 DEF DamagedAt, E, n
  <2>4. 1 \in 1 .. n /\ 1 <= d
    BY <1>2
  <2>5. PICK kept : ReadsOver(sizes, file, at, d, 1, from[EndOf(sizes, 1 - 1)], kept)
    BY <1>5, <2>3, <2>4, BeforeDamage DEF n
  <2>6. EndOf(sizes, 1 - 1) = 5
    BY <1>2 DEF E
  <2>7. ReadsOver(sizes, file, at, d, 1, r, kept)
    BY <1>5, <2>5, <2>6
  <2>8. WholeFrom(sizes, file, EndOf(sizes, 1 - 1)) = whole
    BY <2>6 DEF whole
  <2>9. /\ Delivers(sizes, r, kept)
        /\ kept \subseteq whole \ {d}
        /\ ~CountLost(sizes, file, at, d) => kept = whole \ {d}
        /\ \A c \in whole \ {d} : c < d => c \in kept
        /\ \A c \in 1 .. n : c >= 1 /\ c \notin kept /\ 8 * E(c - 1) < m => r.corrupt > 0 \/ r.truncated
    BY <2>7, <2>8 DEF ReadsOver, n, E, m
  <2>10. Dam = {d}
    <3> SUFFICES ASSUME NEW b \in Dam, b # d PROVE FALSE
      BY <1>8, <2>2
    <3>1. b \in 1 .. n /\ E(b - 1) < at /\ at <= E(b)
      BY <1>8
    <3>2. CASE b < d
      <4>1. b \in 0 .. n /\ d - 1 \in 0 .. n /\ b <= d - 1
        BY <1>2, <3>1, <3>2
      <4>2. E(b) <= E(d - 1) /\ E(b) \in Nat /\ E(d - 1) \in Nat
        BY <1>2, <1>3, <4>1
      <4> QED  BY <1>1, <2>2, <3>1, <4>2
    <3>3. CASE d < b
      <4>1. d \in 0 .. n /\ b - 1 \in 0 .. n /\ d <= b - 1
        BY <1>2, <3>1, <3>3
      <4>2. E(d) <= E(b - 1) /\ E(d) \in Nat /\ E(b - 1) \in Nat
        BY <1>2, <1>3, <4>1
      <4> QED  BY <1>1, <2>2, <3>1, <4>2
    <3> QED  BY <3>1, <3>2, <3>3
  <2>11. Whole = whole \ {d}
    BY <1>9, <2>10
  <2>12. LengthIsLostIn(sizes, file, at) <=> CountLost(sizes, file, at, d)
    BY <2>10 DEF LengthIsLostIn, CountLost, StartOf, Dam
  <2>13. \A b \in Whole : b \in kept \/ \E x \in Dam : x < b
    <3> SUFFICES ASSUME NEW b \in Whole PROVE b \in kept \/ d < b
      BY <2>10
    <3>1. b \in whole \ {d} /\ b \in 1 .. n
      BY <1>7, <2>11
    <3>2. b < d \/ d < b
      BY <3>1
    <3> QED  BY <2>9, <3>1, <3>2
  <2>14. Contained(sizes, file, at, r, kept)
    <3>1. \A c \in 1 .. n : c \notin kept /\ 8 * E(c - 1) < m => r.corrupt > 0 \/ r.truncated
      BY <2>9
    <3> QED  BY <2>9, <2>11, <2>12, <2>13, <3>1 DEF Contained, Whole, Dam, n, E, m
  <2> QED  BY <2>14 DEF r
<1> QED  BY <1>11, <1>12

(* What read_segment makes of a file, its header whole or not. *)
LEMMA ErrorsAreErrors ==
  /\ "too short" # NoError /\ "bad magic" # NoError /\ "unsupported version" # NoError
  /\ "tag table cut off" # NoError /\ "tag table damaged" # NoError
BY Zenon DEF NoError

(* The segment headers of the cases, whole or damaged. *)
LEMMA HeadersAre ==
  /\ IntactHeader.magic /\ IntactHeader.version /\ IntactHeader.tableIntact
  /\ IntactHeader.tableUnits = 1
  /\ \A header \in Headers : header # IntactHeader =>
       ~header.magic \/ ~header.version \/ header.tableUnits = Huge \/ ~header.tableIntact
BY DEF Headers, IntactHeader, TableUnits

(* read_segment refuses a damaged segment header and reads the batches of an intact one. *)
LEMMA ReadSegmentIs ==
  ASSUME NEW sizes, NEW file, NEW at, Segment(sizes, file, at),
         Len(Written(sizes)) < Huge, Huge \in Nat, file.header \in Headers
  PROVE  IF file.header = IntactHeader /\ file.bytes >= UnitBytes * FirstBatch
         THEN ReadSegment(file) = [error |-> NoError, result |-> ReadBatches(file, 5)]
         ELSE ReadSegment(file).error # NoError /\ ReadSegment(file).result = Nothing
<1> DEFINE h == file.header
           W == WholeUnits(file)
           m == file.bytes
<1>1. WellFormed(file) /\ Len(file.units) = Len(Written(sizes))
  BY DEF Segment
<1>2. /\ W \in Nat /\ W <= Len(file.units) /\ m \in Nat
      /\ \A n \in Nat : n <= W <=> 8 * n <= m
  BY <1>1, WholeUnitsIs DEF WellFormed
<1>3. W < Huge
  <2>1. Len(file.units) < Huge /\ Len(file.units) \in Nat
    BY <1>1 DEF WellFormed
  <2> HIDE DEF W
  <2> QED  BY <1>2, <2>1
<1>4. UnitBytes * FirstBatch = 40 /\ HeaderUnits = 4
  BY FirstBatchIs DEF UnitBytes, HeaderUnits
<1> HIDE DEF W, m
<1>5. (W < 4 <=> 8 * 4 > m) /\ (W < 5 <=> 8 * 5 > m)
  <2>1. (4 <= W <=> 8 * 4 <= m) /\ (5 <= W <=> 8 * 5 <= m)
    BY <1>2
  <2> QED  BY <1>2, <2>1
<1> DEFINE failed(why) == [error |-> why, result |-> Nothing]
<1>6. ReadSegment(file) =
        IF W < 4 THEN failed("too short")
        ELSE IF ~h.magic THEN failed("bad magic")
        ELSE IF ~h.version THEN failed("unsupported version")
        ELSE IF 4 + h.tableUnits > W THEN failed("tag table cut off")
        ELSE IF ~h.tableIntact THEN failed("tag table damaged")
        ELSE [error |-> NoError, result |-> ReadBatches(file, 4 + h.tableUnits)]
  BY <1>4, Zenon DEF ReadSegment, W
<1>7. \A why : failed(why).error = why /\ failed(why).result = Nothing
  OBVIOUS
<1> HIDE DEF failed
<1>8. CASE h = IntactHeader /\ m >= 40
  <2>1. h.magic /\ h.version /\ h.tableIntact /\ h.tableUnits = 1
    BY <1>8, HeadersAre
  <2>2. ~(W < 4) /\ ~(W < 5)
    BY <1>2, <1>5, <1>8
  <2>3. 4 + h.tableUnits = 5 /\ ~(4 + h.tableUnits > W)
    BY <1>2, <2>1, <2>2
  <2>4. ReadSegment(file) = [error |-> NoError, result |-> ReadBatches(file, 5)]
    BY <1>6, <2>1, <2>2, <2>3, Zenon
  <2> QED  BY <1>4, <1>8, <2>4, Zenon DEF m
<1>9. CASE ~(h = IntactHeader /\ m >= 40)
  <2>1. \/ W < 4 \/ ~h.magic \/ ~h.version \/ 4 + h.tableUnits > W \/ ~h.tableIntact
    <3>1. CASE h = IntactHeader
      <4>1. W < 5
        BY <1>2, <1>5, <1>9, <3>1
      <4>2. h.tableUnits = 1
        BY <3>1, HeadersAre
      <4> QED  BY <1>2, <4>1, <4>2
    <3>2. CASE h # IntactHeader
      <4>1. ~h.magic \/ ~h.version \/ h.tableUnits = Huge \/ ~h.tableIntact
        BY <3>2, HeadersAre
      <4>2. h.tableUnits = Huge => 4 + h.tableUnits > W
        BY <1>2, <1>3
      <4> QED  BY <4>1, <4>2
    <3> QED  BY <3>1, <3>2
  <2>2. \/ ReadSegment(file) = failed("too short")
        \/ ReadSegment(file) = failed("bad magic")
        \/ ReadSegment(file) = failed("unsupported version")
        \/ ReadSegment(file) = failed("tag table cut off")
        \/ ReadSegment(file) = failed("tag table damaged")
    BY <1>6, <2>1, Zenon
  <2>3. ReadSegment(file).error # NoError /\ ReadSegment(file).result = Nothing
    BY <1>7, <2>2, ErrorsAreErrors, Zenon
  <2> QED  BY <1>4, <1>9, <2>3, Zenon DEF m
<1> QED  BY <1>8, <1>9

(* The state that holds the case of a segment. *)
Read(sizes, bytes, header, at, unit) ==
  /\ header # IntactHeader => at = 0
  /\ bytes <= UnitBytes * Len(Written(sizes))
  /\ case = [run |-> "segment", sizes |-> sizes, at |-> at,
             file |-> FileOf(sizes, bytes, header, at, unit)]
  /\ result = ReadSegment(FileOf(sizes, bytes, header, at, unit))

(* Reading a damaged segment keeps the damage where it is. *)
LEMMA ReadIsContained ==
  ASSUME NEW sizes \in BatchSizes, NEW bytes \in Lengths, NEW header \in Headers,
         NEW at \in {0} \union FirstBatch + 1 .. Len(Written(sizes)),
         NEW unit \in IF at = 0 THEN {Data(0)} ELSE Damaged(Written(sizes)[at]),
         Read(sizes, bytes, header, at, unit)
  PROVE  DamageIsContained
<1>1. PICK file : file = FileOf(sizes, bytes, header, at, unit)
  OBVIOUS
<1>2. /\ case.sizes = sizes /\ case.at = at /\ case.file = file
      /\ bytes <= UnitBytes * Len(Written(sizes)) /\ result = ReadSegment(file)
  BY <1>1 DEF Read
<1>3. /\ Segment(sizes, file, at) /\ file.bytes = bytes /\ file.header = header
      /\ Len(Written(sizes)) < Huge /\ Huge \in Nat
      /\ at # 0 => /\ at \in 6 .. EndOf(sizes, Len(sizes))
                   /\ file.units[at] \in Damaged(Written(sizes)[at])
  BY <1>1, <1>2, FileIsSegment
<1> DEFINE readable == file.header = IntactHeader /\ file.bytes >= UnitBytes * FirstBatch
           r == ReadBatches(file, 5)
<1>4. IF readable THEN ReadSegment(file) = [error |-> NoError, result |-> r]
      ELSE ReadSegment(file).error # NoError /\ ReadSegment(file).result = Nothing
  BY <1>3, ReadSegmentIs
<1>5. PICK kept : Contained(sizes, file, at, r, kept)
  BY <1>3, ReadBatchesIsContained
<1> HIDE DEF r, readable
<1>6. /\ DamagedBatches = DamagedIn(sizes, at) /\ Intact = IntactIn(sizes, file, at)
      /\ LengthIsLost <=> LengthIsLostIn(sizes, file, at)
  BY <1>2, Zenon DEF DamagedBatches, DamagedIn, Intact, IntactIn, LengthIsLost, LengthIsLostIn
<1>7. CASE ~readable
  BY <1>2, <1>4, <1>7, Zenon DEF DamageIsContained, readable
<1>8. CASE readable
  <2>1. result.error = NoError /\ result.result = r
    BY <1>2, <1>4, <1>8
  <2>2. PICK order : InOrder(sizes, r.delivered, order, kept)
    BY <1>5 DEF Contained, Delivers
  <2> DEFINE D == r.delivered
             lost == {b \in DOMAIN sizes \ kept : UnitBytes * StartOf(sizes, b) < file.bytes}
  <2>3. DOMAIN D = 1 .. Len(D)
    <3>1. r \in Results(sizes)
      BY <1>5 DEF Contained, Delivers
    <3> DEFINE T == {Payloads(sizes)[b] : b \in 1 .. Len(sizes)}
    <3>2. D \in Seq(T)
      <4>1. r \in [delivered : Seq(T), corrupt : Nat, truncated : BOOLEAN]
        BY <3>1, Zenon DEF Results
      <4> HIDE DEF T
      <4> QED  BY <4>1
    <3> HIDE DEF D, T
    <3> QED  BY <3>2
  <2>4. sizes \in Seq(Nat \ {0}) /\ DOMAIN sizes = 1 .. Len(sizes)
    BY <1>3 DEF Segment
  <2> HIDE DEF D
  <2>5. /\ order \in [DOMAIN D -> DOMAIN sizes]
        /\ \A i, j \in DOMAIN D : i < j => order[i] < order[j]
        /\ \A i \in DOMAIN D : D[i] = Payloads(sizes)[order[i]]
        /\ kept = {order[i] : i \in DOMAIN order}
    <3>1. /\ order \in [1 .. Len(D) -> 1 .. Len(sizes)]
          /\ \A i, j \in 1 .. Len(D) : i < j => order[i] < order[j]
          /\ \A i \in 1 .. Len(D) : D[i] = Payloads(sizes)[order[i]]
          /\ kept = {order[i] : i \in 1 .. Len(D)}
      BY <2>2, Zenon DEF InOrder, D
    <3>2. DOMAIN order = 1 .. Len(D)
      BY <3>1
    <3> QED  BY <2>3, <2>4, <3>1, <3>2, Zenon
  <2>6. DOMAIN order = DOMAIN D
    BY <2>5
  <2>7. /\ kept \subseteq Intact
        /\ ~LengthIsLost => kept = Intact
        /\ \A b \in Intact : b \in kept \/ \E d \in DamagedBatches : d < b
        /\ \A c \in 1 .. Len(sizes) : c \notin kept /\ 8 * EndOf(sizes, c - 1) < file.bytes
             => r.corrupt > 0 \/ r.truncated
    BY <1>5, <1>6, Zenon DEF Contained
  <2>8. lost # {} => r.corrupt > 0 \/ r.truncated
    BY <2>4, <2>7 DEF UnitBytes, StartOf
  <2>9. /\ \A i, j \in DOMAIN order : i < j => order[i] < order[j]
        /\ \A i \in DOMAIN order : D[i] = Payloads(sizes)[order[i]]
    BY <2>5, <2>6, Zenon
  <2> HIDE DEF lost
  <2>10. /\ \A i, j \in DOMAIN order : i < j => order[i] < order[j]
         /\ \A i \in DOMAIN order : r.delivered[i] = Payloads(sizes)[order[i]]
         /\ {order[i] : i \in DOMAIN order} \subseteq Intact
         /\ ~LengthIsLost => {order[i] : i \in DOMAIN order} = Intact
         /\ \A b \in Intact : b \in {order[i] : i \in DOMAIN order} \/ \E d \in DamagedBatches : d < b
         /\ {b \in DOMAIN sizes \ {order[i] : i \in DOMAIN order} :
                UnitBytes * StartOf(sizes, b) < file.bytes} # {} => r.corrupt > 0 \/ r.truncated
    <3>1. {order[i] : i \in DOMAIN order} = kept
      BY <2>5
    <3> QED  BY <3>1, <2>7, <2>8, <2>9, Zenon DEF lost, D
  <2>11. order \in [DOMAIN r.delivered -> DOMAIN sizes]
    BY <2>5 DEF D
  <2> QED  BY <1>2, <1>8, <2>1, <2>10, <2>11, ZenonT(60) DEF DamageIsContained, readable
<1> QED  BY <1>7, <1>8

-----------------------------------------------------------------------------
(***************************************************************************)
(* Planning the requests. The sensors of a type in their order are spans   *)
(* with ascending starts; one pass puts them in groups, the blocks. The    *)
(* loop invariant (Planned) says which block each sensor is in and that    *)
(* each block was opened by a sensor that could not be read with the one   *)
(* that opened the block before. Those sensors cannot share a request with *)
(* each other (Apart), so no plan makes do with fewer (PlanIsFewest).      *)
(***************************************************************************)

(* The greater of two numbers. *)
Larger(a, b) == IF a >= b THEN a ELSE b

(* std::max, which merging a block uses. *)
LEMMA MaxOfTwo == ASSUME NEW a \in Nat, NEW b \in Nat PROVE Max({a, b}) = Larger(a, b)
<1> DEFINE c == Larger(a, b)
           S == {a, b}
           m == Max(S)
<1>1. c \in S /\ \A y \in S : c >= y
  BY DEF Larger
<1>2. m = CHOOSE x \in S : \A y \in S : x >= y
  BY DEF Max
<1>3. m \in S /\ \A y \in S : m >= y
  <2> HIDE DEF m, c
  <2> QED  BY <1>1, <1>2
<1> QED  BY <1>1, <1>3

(***************************************************************************)
(* The registers of n sensors, the m-th of which has those from f[m] up to  *)
(* e[m], in l groups: sensor m is in group P[m], which has the registers    *)
(* from S[b] up to T[b].                                                     *)
(***************************************************************************)
Spans(n, f, e) ==
  /\ n \in Nat /\ f \in [1 .. n -> Nat] /\ e \in [1 .. n -> Nat]
  /\ \A m \in 1 .. n : f[m] < e[m] /\ e[m] <= f[m] + 2
  /\ \A m, k \in 1 .. n : m < k => f[m] <= f[k]

(* Sensor m does not fit into a group. *)
Far(start, end, f, e, m, q, g) ==
  f[m] - end > g \/ Larger(end, e[m]) - start > q

(* Spans are put in groups of neighbours: P tells the group of each. *)
Groups(n, l, S, T, P) ==
  /\ n \in Nat /\ l \in Nat /\ S \in [1 .. l -> Nat] /\ T \in [1 .. l -> Nat]
  /\ P \in [1 .. n -> 1 .. l]
  /\ n = 0 => l = 0
  /\ n > 0 => P[n] = l
  /\ \A m, k \in 1 .. n : m < k => P[m] <= P[k]

(* Each group reaches from its first sensor to the last end of any. *)
Reaches(n, l, S, T, P, f, e, q) ==
  /\ \A b \in 1 .. l : T[b] - S[b] \in 1 .. q
  /\ \A m \in 1 .. n : S[P[m]] <= f[m] /\ e[m] <= T[P[m]]
  /\ \A b \in 1 .. l : \E m \in 1 .. n : P[m] = b /\ e[m] = T[b]

(* No sensor is too far from those before it. *)
Close(n, S, P, f, e, g) ==
  \A m \in 1 .. n : f[m] = S[P[m]] \/ \E k \in 1 .. m - 1 : P[k] = P[m] /\ f[m] - e[k] <= g

(* The first sensor of a group did not fit into the one before. *)
Opens(m, b, n, S, T, P, f, e, q, g) ==
  /\ P[m] = b /\ f[m] = S[b]
  /\ \A k \in 1 .. n : P[k] = b => m <= k
  /\ b > 1 => Far(S[b - 1], T[b - 1], f, e, m, q, g)

(* Every group was opened by a span the one before could not take. *)
Opened(n, l, S, T, P, f, e, q, g) ==
  \A b \in 1 .. l : \E m \in 1 .. n : Opens(m, b, n, S, T, P, f, e, q, g)

(* What plan_reads makes of the spans of the sensors. *)
Grouping(n, l, S, T, P, f, e, q, g) ==
  /\ Groups(n, l, S, T, P)
  /\ Reaches(n, l, S, T, P, f, e, q)
  /\ Close(n, S, P, f, e, g)
  /\ Opened(n, l, S, T, P, f, e, q, g)

(* Before the first sensor there are no blocks. *)
LEMMA NoGroups ==
  ASSUME NEW f, NEW e, NEW q, NEW g
  PROVE  Grouping(0, 0, [b \in 1 .. 0 |-> 0], [b \in 1 .. 0 |-> 0], [b \in 1 .. 0 |-> 0], f, e, q, g)
BY DEF Grouping, Groups, Reaches, Close, Opened

(* A function over one more number. *)
With(f, n, x) == [m \in 1 .. n + 1 |-> IF m = n + 1 THEN x ELSE f[m]]

(* One more sensor goes into the last group. *)
LEMMA GroupTakes ==
  ASSUME NEW N, NEW f, NEW e, Spans(N, f, e), NEW q \in Nat, NEW g \in Nat,
         NEW n \in Nat, n < N, NEW l, NEW S, NEW T, NEW P,
         Grouping(n, l, S, T, P, f, e, q, g), l > 0,
         ~Far(S[l], T[l], f, e, n + 1, q, g)
  PROVE  Grouping(n + 1, l, S, [T EXCEPT ![l] = Larger(T[l], e[n + 1])], With(P, n, l), f, e, q, g)
<1> DEFINE x == n + 1
           U == [T EXCEPT ![l] = Larger(T[l], e[x])]
           R == With(P, n, l)
<1>1. /\ l \in Nat /\ S \in [1 .. l -> Nat] /\ T \in [1 .. l -> Nat] /\ P \in [1 .. n -> 1 .. l]
      /\ n > 0 => P[n] = l
      /\ n = 0 => l = 0
      /\ \A m, k \in 1 .. n : m < k => P[m] <= P[k]
  BY DEF Grouping, Groups
<1>2. n > 0 /\ l \in 1 .. l
  BY <1>1
<1>3. x \in 1 .. N /\ f[x] \in Nat /\ e[x] \in Nat /\ f[x] < e[x] /\ \A m \in 1 .. n : m \in 1 .. N
  BY DEF Spans
<1>4. \A m \in 1 .. n : f[m] \in Nat /\ e[m] \in Nat /\ f[m] <= f[x]
  <2> SUFFICES ASSUME NEW m \in 1 .. n PROVE f[m] \in Nat /\ e[m] \in Nat /\ f[m] <= f[x]
    OBVIOUS
  <2>1. m \in 1 .. N /\ m < x
    BY <1>3
  <2> HIDE DEF x
  <2> QED  BY <1>3, <2>1 DEF Spans
<1>5. /\ f[x] - T[l] <= g /\ Larger(T[l], e[x]) - S[l] <= q
      /\ Larger(T[l], e[x]) \in Nat /\ Larger(T[l], e[x]) >= T[l] /\ Larger(T[l], e[x]) >= e[x]
      /\ Larger(T[l], e[x]) = T[l] \/ Larger(T[l], e[x]) = e[x]
  <2>1. S[l] \in Nat /\ T[l] \in Nat
    BY <1>1, <1>2
  <2> QED  BY <1>3, <2>1 DEF Far, Larger
<1>6. /\ U \in [1 .. l -> Nat] /\ U[l] = Larger(T[l], e[x])
      /\ \A b \in 1 .. l : b # l => U[b] = T[b]
  BY <1>1, <1>2, <1>5
<1>7. /\ R \in [1 .. x -> 1 .. l] /\ R[x] = l /\ \A m \in 1 .. n : R[m] = P[m]
  BY <1>1, <1>2 DEF With
<1>8. /\ x \in Nat /\ x > n /\ \A m \in 1 .. x : m = x \/ m \in 1 .. n
      /\ \A m \in 1 .. n : m \in 1 .. x /\ m < x /\ m # x
  OBVIOUS
<1> HIDE DEF x, U, R
<1>9. Groups(x, l, S, U, R)
  <2>1. \A m, k \in 1 .. x : m < k => R[m] <= R[k]
    <3> SUFFICES ASSUME NEW m \in 1 .. x, NEW k \in 1 .. x, m < k PROVE R[m] <= R[k]
      OBVIOUS
    <3>1. m \in 1 .. n /\ R[m] = P[m] /\ P[m] <= l
      <4>1. m # x /\ m \in 1 .. n
        BY <1>8
      <4>2. R[m] = P[m] /\ P[m] \in 1 .. l
        BY <1>1, <1>7, <4>1
      <4> QED  BY <1>1, <4>1, <4>2
    <3>2. CASE k = x
      BY <1>7, <3>1, <3>2
    <3>3. CASE k \in 1 .. n
      BY <1>1, <1>7, <3>1, <3>3
    <3> QED  BY <1>8, <3>2, <3>3
  <2> QED  BY <1>1, <1>6, <1>7, <1>8, <2>1, SMTT(60) DEF Groups
<1>10. Reaches(x, l, S, U, R, f, e, q)
  <2>1. \A b \in 1 .. l : T[b] - S[b] \in 1 .. q
    BY DEF Grouping, Reaches
  <2>2. \A b \in 1 .. l : U[b] - S[b] \in 1 .. q
    <3> SUFFICES ASSUME NEW b \in 1 .. l PROVE U[b] - S[b] \in 1 .. q
      OBVIOUS
    <3>1. CASE b = l
      <4>1. T[l] - S[l] >= 1 /\ S[l] \in Nat /\ T[l] \in Nat
        BY <1>1, <1>2, <2>1
      <4> QED  BY <1>5, <1>6, <3>1, <4>1
    <3>2. CASE b # l
      BY <1>6, <2>1, <3>2
    <3> QED  BY <3>1, <3>2
  <2>3. \A b \in 1 .. l : U[b] >= T[b] /\ U[b] \in Nat /\ T[b] \in Nat
    <3> SUFFICES ASSUME NEW b \in 1 .. l PROVE U[b] >= T[b] /\ U[b] \in Nat /\ T[b] \in Nat
      OBVIOUS
    <3>1. U[b] \in Nat /\ T[b] \in Nat
      BY <1>1, <1>6
    <3>2. CASE b = l
      BY <1>5, <1>6, <3>1, <3>2
    <3>3. CASE b # l
      BY <1>6, <3>1, <3>3
    <3> QED  BY <3>2, <3>3
  <2>4. \A m \in 1 .. x : S[R[m]] <= f[m] /\ e[m] <= U[R[m]]
    <3> SUFFICES ASSUME NEW m \in 1 .. x PROVE S[R[m]] <= f[m] /\ e[m] <= U[R[m]]
      OBVIOUS
    <3>1. CASE m \in 1 .. n
      <4>1. S[P[m]] <= f[m] /\ e[m] <= T[P[m]] /\ P[m] \in 1 .. l /\ e[m] \in Nat
        BY <1>1, <1>4, <3>1 DEF Grouping, Reaches
      <4> QED  BY <1>7, <2>3, <3>1, <4>1
    <3>2. CASE m = x
      <4>1. S[P[n]] <= f[n] /\ P[n] = l /\ f[n] <= f[x] /\ f[n] \in Nat /\ S[l] \in Nat
        BY <1>1, <1>2, <1>4 DEF Grouping, Reaches
      <4> QED  BY <1>3, <1>5, <1>6, <1>7, <3>2, <4>1 DEF x
    <3> QED  BY <1>8, <3>1, <3>2
  <2>5. \A b \in 1 .. l : \E m \in 1 .. x : R[m] = b /\ e[m] = U[b]
    <3> SUFFICES ASSUME NEW b \in 1 .. l PROVE \E m \in 1 .. x : R[m] = b /\ e[m] = U[b]
      OBVIOUS
    <3>1. PICK m \in 1 .. n : P[m] = b /\ e[m] = T[b]
      BY DEF Grouping, Reaches
    <3>2. CASE U[b] = T[b]
      BY <1>7, <1>8, <3>1, <3>2
    <3>3. CASE b = l /\ U[b] = e[x]
      <4>1. x \in 1 .. x
        BY <1>8
      <4> QED  BY <1>7, <3>3, <4>1
    <3> QED  BY <1>5, <1>6, <3>2, <3>3
  <2> QED  BY <2>2, <2>4, <2>5 DEF Reaches
<1>11. Close(x, S, R, f, e, g)
  <2> SUFFICES ASSUME NEW m \in 1 .. x
               PROVE  f[m] = S[R[m]] \/ \E k \in 1 .. m - 1 : R[k] = R[m] /\ f[m] - e[k] <= g
    BY DEF Close
  <2>1. CASE m \in 1 .. n
    <3>1. f[m] = S[P[m]] \/ \E k \in 1 .. m - 1 : P[k] = P[m] /\ f[m] - e[k] <= g
      BY <2>1 DEF Grouping, Close
    <3>2. \A k \in 1 .. m - 1 : k \in 1 .. n
      BY <2>1
    <3> QED  BY <1>7, <2>1, <3>1, <3>2
  <2>2. CASE m = x
    <3>1. PICK k \in 1 .. n : P[k] = l /\ e[k] = T[l]
      BY <1>2 DEF Grouping, Reaches
    <3>2. k \in 1 .. m - 1
      BY <2>2 DEF x
    <3> QED  BY <1>5, <1>7, <2>2, <3>1, <3>2
  <2> QED  BY <1>8, <2>1, <2>2
<1>12. Opened(x, l, S, U, R, f, e, q, g)
  <2> SUFFICES ASSUME NEW b \in 1 .. l
               PROVE  \E m \in 1 .. x : Opens(m, b, x, S, U, R, f, e, q, g)
    BY DEF Opened
  <2>1. PICK m \in 1 .. n : Opens(m, b, n, S, T, P, f, e, q, g)
    BY DEF Grouping, Opened
  <2>2. b > 1 => U[b - 1] = T[b - 1]
    <3>1. b > 1 => b - 1 \in 1 .. l /\ b - 1 # l
      BY <1>1
    <3> QED  BY <1>6, <3>1
  <2>3. \A k \in 1 .. x : R[k] = b => m <= k
    BY <1>7, <1>8, <2>1 DEF Opens
  <2>4. Opens(m, b, x, S, U, R, f, e, q, g)
    BY <1>7, <2>1, <2>2, <2>3 DEF Opens
  <2> QED  BY <1>8, <2>4
<1> QED  BY <1>9, <1>10, <1>11, <1>12 DEF Grouping, x, U, R

(* One more sensor opens a group of its own. *)
LEMMA GroupOpens ==
  ASSUME NEW N, NEW f, NEW e, Spans(N, f, e), NEW q \in Nat, q >= 2, NEW g \in Nat,
         NEW n \in Nat, n < N, NEW l, NEW S, NEW T, NEW P,
         Grouping(n, l, S, T, P, f, e, q, g),
         l > 0 => Far(S[l], T[l], f, e, n + 1, q, g)
  PROVE  Grouping(n + 1, l + 1, With(S, l, f[n + 1]), With(T, l, e[n + 1]),
                  With(P, n, l + 1), f, e, q, g)
<1> DEFINE x == n + 1
           y == l + 1
           V == With(S, l, f[x])
           U == With(T, l, e[x])
           R == With(P, n, y)
<1>1. /\ l \in Nat /\ S \in [1 .. l -> Nat] /\ T \in [1 .. l -> Nat] /\ P \in [1 .. n -> 1 .. l]
      /\ n = 0 => l = 0
      /\ \A m, k \in 1 .. n : m < k => P[m] <= P[k]
  BY DEF Grouping, Groups
<1>3. /\ x \in 1 .. N /\ f[x] \in Nat /\ e[x] \in Nat /\ f[x] < e[x] /\ e[x] <= f[x] + 2
      /\ \A m \in 1 .. n : m \in 1 .. N
  BY DEF Spans
<1>4. \A m \in 1 .. n : f[m] \in Nat /\ e[m] \in Nat
  BY <1>3 DEF Spans
<1>6. /\ V \in [1 .. y -> Nat] /\ V[y] = f[x] /\ \A b \in 1 .. l : V[b] = S[b]
      /\ U \in [1 .. y -> Nat] /\ U[y] = e[x] /\ \A b \in 1 .. l : U[b] = T[b]
  <2>1. f[x] \in Nat /\ e[x] \in Nat
    BY <1>3
  <2>2. V \in [1 .. y -> Nat] /\ V[y] = f[x] /\ \A b \in 1 .. l : V[b] = S[b]
    <3>1. PICK a \in Nat : a = f[x]
      BY <2>1
    <3>2. /\ With(S, l, a) \in [1 .. l + 1 -> Nat] /\ With(S, l, a)[l + 1] = a
          /\ \A b \in 1 .. l : With(S, l, a)[b] = S[b]
      BY <1>1, <3>1, SMTT(60) DEF With
    <3> QED  BY <3>1, <3>2
  <2>3. U \in [1 .. y -> Nat] /\ U[y] = e[x] /\ \A b \in 1 .. l : U[b] = T[b]
    <3>1. PICK a \in Nat : a = e[x]
      BY <2>1
    <3>2. /\ With(T, l, a) \in [1 .. l + 1 -> Nat] /\ With(T, l, a)[l + 1] = a
          /\ \A b \in 1 .. l : With(T, l, a)[b] = T[b]
      BY <1>1, <3>1, SMTT(60) DEF With
    <3> QED  BY <3>1, <3>2
  <2> QED  BY <2>2, <2>3
<1>7. /\ R \in [1 .. x -> 1 .. y] /\ R[x] = y /\ \A m \in 1 .. n : R[m] = P[m]
  <2>1. P \in [1 .. n -> 1 .. y] /\ y \in 1 .. y
    BY <1>1, SMTT(60)
  <2> QED  BY <2>1 DEF With
<1>8. /\ x \in Nat /\ x > n /\ \A m \in 1 .. x : m = x \/ m \in 1 .. n
      /\ \A m \in 1 .. n : m \in 1 .. x /\ m < x /\ m # x
      /\ x \in 1 .. x
  OBVIOUS
<1>9. /\ y \in Nat /\ y > l /\ \A b \in 1 .. y : b = y \/ b \in 1 .. l
      /\ \A b \in 1 .. l : b \in 1 .. y /\ b < y /\ b # y
      /\ y \in 1 .. y /\ y - 1 = l
  BY <1>1
<1> HIDE DEF x, y, V, U, R
<1>10. Groups(x, y, V, U, R)
  <2>1. \A m, k \in 1 .. x : m < k => R[m] <= R[k]
    <3> SUFFICES ASSUME NEW m \in 1 .. x, NEW k \in 1 .. x, m < k PROVE R[m] <= R[k]
      OBVIOUS
    <3>1. m \in 1 .. n /\ R[m] = P[m] /\ R[m] <= y /\ R[m] \in Nat
      <4>1. m # x /\ m \in 1 .. n
        BY <1>8
      <4>2. R[m] = P[m] /\ R[m] \in 1 .. y
        BY <1>1, <1>7, <4>1
      <4> QED  BY <1>9, <4>1, <4>2
    <3>2. CASE k = x
      BY <1>7, <3>1, <3>2
    <3>3. CASE k \in 1 .. n
      BY <1>1, <1>7, <3>1, <3>3
    <3> QED  BY <1>8, <3>2, <3>3
  <2> QED  BY <1>6, <1>7, <1>8, <1>9, <2>1, SMTT(60) DEF Groups
<1>11. Reaches(x, y, V, U, R, f, e, q)
  <2>1. \A b \in 1 .. l : T[b] - S[b] \in 1 .. q
    BY DEF Grouping, Reaches
  <2>2. \A b \in 1 .. y : U[b] - V[b] \in 1 .. q
    <3>1. U[y] - V[y] \in 1 .. q
      BY <1>3, <1>6
    <3>2. \A b \in 1 .. l : U[b] - V[b] \in 1 .. q
      BY <1>6, <2>1
    <3> QED  BY <1>9, <3>1, <3>2
  <2>3. \A m \in 1 .. x : V[R[m]] <= f[m] /\ e[m] <= U[R[m]]
    <3> SUFFICES ASSUME NEW m \in 1 .. x PROVE V[R[m]] <= f[m] /\ e[m] <= U[R[m]]
      OBVIOUS
    <3>1. CASE m \in 1 .. n
      <4>1. S[P[m]] <= f[m] /\ e[m] <= T[P[m]] /\ P[m] \in 1 .. l
        BY <1>1, <3>1 DEF Grouping, Reaches
      <4> QED  BY <1>6, <1>7, <3>1, <4>1
    <3>2. CASE m = x
      BY <1>3, <1>6, <1>7, <3>2
    <3> QED  BY <1>8, <3>1, <3>2
  <2>4. \A b \in 1 .. y : \E m \in 1 .. x : R[m] = b /\ e[m] = U[b]
    <3> SUFFICES ASSUME NEW b \in 1 .. y PROVE \E m \in 1 .. x : R[m] = b /\ e[m] = U[b]
      OBVIOUS
    <3>1. CASE b = y
      BY <1>6, <1>7, <1>8, <3>1
    <3>2. CASE b \in 1 .. l
      <4>1. PICK m \in 1 .. n : P[m] = b /\ e[m] = T[b]
        BY <3>2 DEF Grouping, Reaches
      <4> QED  BY <1>6, <1>7, <1>8, <3>2, <4>1
    <3> QED  BY <1>9, <3>1, <3>2
  <2> QED  BY <2>2, <2>3, <2>4 DEF Reaches
<1>12. Close(x, V, R, f, e, g)
  <2> SUFFICES ASSUME NEW m \in 1 .. x
               PROVE  f[m] = V[R[m]] \/ \E k \in 1 .. m - 1 : R[k] = R[m] /\ f[m] - e[k] <= g
    BY DEF Close
  <2>1. CASE m \in 1 .. n
    <3>1. f[m] = S[P[m]] \/ \E k \in 1 .. m - 1 : P[k] = P[m] /\ f[m] - e[k] <= g
      BY <2>1 DEF Grouping, Close
    <3>2. \A k \in 1 .. m - 1 : k \in 1 .. n
      BY <2>1
    <3>3. V[R[m]] = S[P[m]]
      BY <1>1, <1>6, <1>7, <2>1
    <3> QED  BY <1>7, <2>1, <3>1, <3>2, <3>3
  <2>2. CASE m = x
    BY <1>6, <1>7, <2>2
  <2> QED  BY <1>8, <2>1, <2>2
<1>13. Opened(x, y, V, U, R, f, e, q, g)
  <2> SUFFICES ASSUME NEW b \in 1 .. y
               PROVE  \E m \in 1 .. x : Opens(m, b, x, V, U, R, f, e, q, g)
    BY DEF Opened
  <2>1. CASE b \in 1 .. l
    <3>1. PICK m \in 1 .. n : Opens(m, b, n, S, T, P, f, e, q, g)
      BY <2>1 DEF Grouping, Opened
    <3>2. b > 1 => V[b - 1] = S[b - 1] /\ U[b - 1] = T[b - 1]
      <4>1. b > 1 => b - 1 \in 1 .. l
        BY <1>1, <2>1
      <4> QED  BY <1>6, <4>1
    <3>3. \A k \in 1 .. x : R[k] = b => m <= k
      BY <1>7, <1>8, <1>9, <2>1, <3>1 DEF Opens
    <3>4. Opens(m, b, x, V, U, R, f, e, q, g)
      BY <1>6, <1>7, <2>1, <3>1, <3>2, <3>3 DEF Opens
    <3> QED  BY <1>8, <3>4
  <2>2. CASE b = y
    <3>1. \A k \in 1 .. x : R[k] = y => x <= k
      <4> SUFFICES ASSUME NEW k \in 1 .. x, R[k] = y PROVE x <= k
        OBVIOUS
      <4>1. k \notin 1 .. n
        BY <1>1, <1>7, <1>9
      <4> QED  BY <1>8, <4>1
    <3>2. y > 1 => Far(V[y - 1], U[y - 1], f, e, x, q, g)
      <4>1. y > 1 => y - 1 = l /\ l > 0 /\ l \in 1 .. l
        BY <1>1, <1>9
      <4> QED  BY <1>6, <4>1 DEF x
    <3>3. Opens(x, y, x, V, U, R, f, e, q, g)
      BY <1>6, <1>7, <3>1, <3>2 DEF Opens
    <3> QED  BY <1>8, <2>2, <3>3
  <2> QED  BY <1>9, <2>1, <2>2
<1> QED  BY <1>10, <1>11, <1>12, <1>13 DEF Grouping, x, y, U, V, R

(* The blocks a plan of these sensors may have. *)
Blocks(sensors) ==
  [register_type : RegisterTypes, start : Nat, quantity : Nat, indices : Seq(DOMAIN sensors)]

(* The first register after a block. *)
Stop(block) == block.start + block.quantity

(* A sensor has one register or two. *)
LEMMA SensorIs ==
  ASSUME NEW sensors \in Seq(SensorSettings), NEW i \in DOMAIN sensors
  PROVE  /\ First(sensors[i]) \in Nat /\ End(sensors[i]) \in Nat
         /\ First(sensors[i]) < End(sensors[i]) /\ End(sensors[i]) <= First(sensors[i]) + 2
         /\ sensors[i].register_type \in RegisterTypes
<1>1. sensors[i] \in SensorSettings
  BY ElementOfSeq
<1> DEFINE s == sensors[i]
<1>2. s.address \in Nat /\ s.register_type \in RegisterTypes
  BY <1>1 DEF SensorSettings
<1> HIDE DEF s
<1>3. RegisterCount(s.data_type) \in {1, 2}
  BY DEF RegisterCount
<1>4. /\ First(s) \in Nat /\ End(s) \in Nat /\ First(s) < End(s) /\ End(s) <= First(s) + 2
  BY <1>2, <1>3 DEF First, End
<1> QED  BY <1>2, <1>4 DEF s

(* The last block takes a sensor. *)
Taken(open, sensors, i) ==
  [open EXCEPT !.quantity = MergedEnd(open, sensors[i]) - open.start, !.indices = Append(@, i)]

(* A block that took a sensor. *)
LEMMA TakenIs ==
  ASSUME NEW sensors \in Seq(SensorSettings), NEW i \in DOMAIN sensors, NEW open \in Blocks(sensors)
  PROVE  /\ Taken(open, sensors, i) \in Blocks(sensors)
         /\ Taken(open, sensors, i).register_type = open.register_type
         /\ Taken(open, sensors, i).start = open.start
         /\ Taken(open, sensors, i).indices = Append(open.indices, i)
         /\ MergedEnd(open, sensors[i]) = Larger(Stop(open), End(sensors[i]))
         /\ Stop(Taken(open, sensors, i)) = Larger(Stop(open), End(sensors[i]))
<1>1. /\ open.start \in Nat /\ open.quantity \in Nat /\ open.indices \in Seq(DOMAIN sensors)
      /\ open.register_type \in RegisterTypes
  BY DEF Blocks
<1>2. MergedEnd(open, sensors[i]) = Larger(Stop(open), End(sensors[i]))
  <2>1. Stop(open) \in Nat /\ End(sensors[i]) \in Nat
    BY <1>1, SensorIs DEF Stop
  <2>2. Max({Stop(open), End(sensors[i])}) = Larger(Stop(open), End(sensors[i]))
    BY <2>1, MaxOfTwo
  <2> QED  BY <2>2 DEF MergedEnd, Stop
<1> DEFINE z == MergedEnd(open, sensors[i]) - open.start
<1>3. z \in Nat /\ open.start + z = Larger(Stop(open), End(sensors[i]))
  <2>1. Stop(open) \in Nat /\ Stop(open) >= open.start /\ End(sensors[i]) \in Nat
    BY <1>1, SensorIs DEF Stop
  <2> QED  BY <1>1, <1>2, <2>1 DEF Larger
<1> DEFINE more == Append(open.indices, i)
<1>4. more \in Seq(DOMAIN sensors)
  BY <1>1, AppendProperties
<1> HIDE DEF z, more
<1> DEFINE new == [open EXCEPT !.quantity = z, !.indices = more]
<1>5. /\ new \in Blocks(sensors) /\ new.register_type = open.register_type /\ new.start = open.start
      /\ new.quantity = z /\ new.indices = more
  BY <1>1, <1>3, <1>4 DEF Blocks
<1>6. Taken(open, sensors, i) = new
  BY Zenon DEF Taken, z, more
<1> HIDE DEF new
<1> QED  BY <1>2, <1>3, <1>5, <1>6 DEF Stop, more

(* A block opened by a sensor. *)
LEMMA OpenBlockIs ==
  ASSUME NEW sensors \in Seq(SensorSettings), NEW i \in DOMAIN sensors
  PROVE  /\ OpenBlock(sensors, i) \in Blocks(sensors)
         /\ OpenBlock(sensors, i).register_type = sensors[i].register_type
         /\ OpenBlock(sensors, i).start = First(sensors[i])
         /\ OpenBlock(sensors, i).indices = <<i>>
         /\ Stop(OpenBlock(sensors, i)) = End(sensors[i])
<1> DEFINE b == OpenBlock(sensors, i)
           z == End(sensors[i]) - First(sensors[i])
           a == First(sensors[i])
           type == sensors[i].register_type
<1>1. a \in Nat /\ z \in Nat /\ a + z = End(sensors[i]) /\ type \in RegisterTypes
  BY SensorIs
<1>2. b = [register_type |-> type, start |-> a, quantity |-> z, indices |-> <<i>>]
  BY DEF OpenBlock
<1>3. <<i>> \in Seq(DOMAIN sensors)
  OBVIOUS
<1> HIDE DEF b, z, a, type
<1>4. /\ b \in Blocks(sensors) /\ b.register_type = type /\ b.start = a /\ b.indices = <<i>>
      /\ b.quantity = z
  BY <1>1, <1>2, <1>3 DEF Blocks
<1> QED  BY <1>1, <1>4 DEF Stop, b, a, type

(* The last block takes the sensor. *)
Takes(plan, sensors, i, q, g) ==
  LET open == plan[Len(plan)]
  IN  /\ Len(plan) > 0
      /\ ~(First(sensors[i]) - Stop(open) > g)
      /\ ~(Larger(Stop(open), End(sensors[i])) - open.start > q)

(* The blocks after one more sensor, as the loop body of plan_reads leaves them. *)
LEMMA ExtendedIs ==
  ASSUME NEW sensors \in Seq(SensorSettings), NEW plan \in Seq(Blocks(sensors)),
         NEW i \in DOMAIN sensors, NEW q \in Nat, NEW g \in Nat, NEW new,
         new = Extended(plan, sensors, i, q, g)
  PROVE  /\ new \in Seq(Blocks(sensors)) /\ Len(plan) \in Nat
         /\ Takes(plan, sensors, i, q, g) =>
              /\ Len(plan) > 0 /\ Len(new) = Len(plan)
              /\ \A b \in 1 .. Len(plan) : b # Len(plan) => new[b] = plan[b]
              /\ new[Len(plan)] = Taken(plan[Len(plan)], sensors, i)
         /\ ~Takes(plan, sensors, i, q, g) =>
              /\ Len(new) = Len(plan) + 1
              /\ \A b \in 1 .. Len(plan) : new[b] = plan[b]
              /\ new[Len(plan) + 1] = OpenBlock(sensors, i)
<1> DEFINE l == Len(plan)
           open == plan[l]
           taken == Taken(open, sensors, i)
           alone == OpenBlock(sensors, i)
           B == Blocks(sensors)
           fits == Fits(open, sensors[i], q, g)
<1>1. l \in Nat /\ (plan # <<>> <=> l > 0) /\ (l > 0 => open \in B)
  BY EmptySeq, LenProperties, ElementOfSeq
<1>2. new = IF plan # <<>> /\ fits THEN [plan EXCEPT ![l] = taken] ELSE Append(plan, alone)
  BY Zenon DEF Extended, Taken
<1>3. Takes(plan, sensors, i, q, g) <=> plan # <<>> /\ fits
  <2>1. CASE l > 0
    <3> DEFINE s == Stop(open)
               f == First(sensors[i])
               e == Larger(Stop(open), End(sensors[i]))
               a == open.start
    <3>1. open \in B
      BY <1>1, <2>1
    <3>2. MergedEnd(open, sensors[i]) = e
      BY <3>1, TakenIs
    <3>3. s \in Nat /\ a \in Nat /\ f \in Nat /\ End(sensors[i]) \in Nat
      <4>1. open.start \in Nat /\ open.quantity \in Nat
        BY <3>1 DEF Blocks
      <4>2. f \in Nat /\ End(sensors[i]) \in Nat
        BY SensorIs
      <4>3. \A x, y \in Nat : x + y \in Nat
        OBVIOUS
      <4>4. s \in Nat
        BY <4>1, <4>3 DEF Stop
      <4> QED  BY <4>1, <4>2, <4>4
    <3>4. e \in Nat
      BY <3>3 DEF Larger
    <3>5. fits <=> f - s <= g /\ e - a <= q
      BY <3>2 DEF Fits, Stop
    <3>6. Takes(plan, sensors, i, q, g) <=> l > 0 /\ ~(f - s > g) /\ ~(e - a > q)
      BY Zenon DEF Takes
    <3> HIDE DEF s, f, e, a
    <3> QED  BY <1>1, <2>1, <3>3, <3>4, <3>5, <3>6
  <2>2. CASE ~(l > 0)
    BY <1>1, <2>2 DEF Takes
  <2> QED  BY <2>1, <2>2
<1>4. alone \in B
  BY OpenBlockIs
<1>5. l > 0 => taken \in B
  BY <1>1, TakenIs
<1> HIDE DEF taken, alone, B, fits
<1>6. CASE Takes(plan, sensors, i, q, g)
  <2>1. new = [plan EXCEPT ![l] = taken] /\ l > 0 /\ taken \in B /\ l \in 1 .. l
    BY <1>1, <1>2, <1>3, <1>5, <1>6
  <2>2. plan \in Seq(B)
    BY DEF B
  <2>3. /\ new \in Seq(B) /\ Len(new) = l
        /\ \A b \in 1 .. l : b # l => new[b] = plan[b]
        /\ new[l] = taken
    BY <2>1, <2>2
  <2> QED  BY <1>1, <1>6, <2>1, <2>3 DEF taken, B
<1>7. CASE ~Takes(plan, sensors, i, q, g)
  <2>1. new = Append(plan, alone)
    BY <1>2, <1>3, <1>7
  <2>2. plan \in Seq(B)
    BY DEF B
  <2>3. /\ new \in Seq(B) /\ Len(new) = l + 1
        /\ \A b \in 1 .. l : new[b] = plan[b]
        /\ new[l + 1] = alone
    BY <1>4, <2>1, <2>2, AppendProperties
  <2> QED  BY <1>1, <1>7, <2>3 DEF alone, B
<1> QED  BY <1>6, <1>7

(* The sensors of one type in a sorted order, each once. *)
IsOrder(sensors, type, order) ==
  /\ order \in Seq(DOMAIN sensors)
  /\ \A m \in 1 .. Len(order) : sensors[order[m]].register_type = type
  /\ \A m, k \in 1 .. Len(order) : m # k => order[m] # order[k]
  /\ \A m, k \in 1 .. Len(order) : m < k => First(sensors[order[m]]) <= First(sensors[order[k]])
  /\ \A i \in DOMAIN sensors : sensors[i].register_type = type => \E m \in 1 .. Len(order) : order[m] = i

(* std::sort leaves every sensor of the type, each once, in ascending order. *)
LEMMA SortedByIs ==
  ASSUME NEW sensors \in Seq(SensorSettings), NEW type, NEW order \in SortedBy(sensors, type)
  PROVE  IsOrder(sensors, type, order)
<1> DEFINE M == {i \in DOMAIN sensors : sensors[i].register_type = type}
           c == Cardinality(M)
<1>1. /\ order \in SetToSeqs(M)
      /\ \A i, j \in DOMAIN order : i < j => First(sensors[order[i]]) <= First(sensors[order[j]])
  BY Zenon DEF SortedBy
<1>2. IsFiniteSet(M) /\ c \in Nat
  <2>1. DOMAIN sensors = 1 .. Len(sensors) /\ Len(sensors) \in Nat
    BY LenProperties
  <2>2. IsFiniteSet(DOMAIN sensors)
    BY <2>1, FS_Interval
  <2>3. M \in SUBSET DOMAIN sensors
    OBVIOUS
  <2> HIDE DEF M
  <2>4. IsFiniteSet(M)
    BY <2>2, <2>3, FS_Subset
  <2> QED  BY <2>4, FS_CardinalityType
<1> HIDE DEF c
<1>3. order \in [1 .. c -> M] /\ \A i, j \in 1 .. c : i # j => order[i] # order[j]
  BY <1>1, Zenon DEF SetToSeqs, c
<1>4. Len(order) = c /\ DOMAIN order = 1 .. c /\ order \in Seq(DOMAIN sensors)
  BY <1>2, <1>3
<1>5. order \in Injection(1 .. c, M)
  BY <1>3 DEF Injection, IsInjective
<1>6. order \in Surjection(1 .. c, M)
  <2>1. IsFiniteSet(1 .. c) /\ Cardinality(1 .. c) = c
    BY <1>2, FS_Interval
  <2> HIDE DEF M
  <2> QED  BY <1>2, <1>5, <2>1, FS_Injection DEF c
<1>7. \A i \in M : \E m \in 1 .. c : order[m] = i
  BY <1>6 DEF Surjection
<1> QED  BY <1>1, <1>3, <1>4, <1>7 DEF IsOrder

(* The spans of the sensors in an order, and those of the blocks. *)
Firsts(sensors, order) == [m \in 1 .. Len(order) |-> First(sensors[order[m]])]
EndsIn(sensors, order) == [m \in 1 .. Len(order) |-> End(sensors[order[m]])]
Starts(plan) == [b \in 1 .. Len(plan) |-> plan[b].start]
Stops(plan) == [b \in 1 .. Len(plan) |-> Stop(plan[b])]

(* In that order the registers of the sensors are spans with ascending starts. *)
LEMMA OrderSpans ==
  ASSUME NEW sensors \in Seq(SensorSettings), NEW type, NEW order, IsOrder(sensors, type, order)
  PROVE  /\ Spans(Len(order), Firsts(sensors, order), EndsIn(sensors, order))
         /\ Len(order) \in Nat
         /\ \A m \in 1 .. Len(order) : /\ order[m] \in DOMAIN sensors
                                       /\ Firsts(sensors, order)[m] = First(sensors[order[m]])
                                       /\ EndsIn(sensors, order)[m] = End(sensors[order[m]])
<1> DEFINE n == Len(order)
           f == Firsts(sensors, order)
           e == EndsIn(sensors, order)
<1>1. n \in Nat /\ \A m \in 1 .. n : order[m] \in DOMAIN sensors
  <2>1. order \in Seq(DOMAIN sensors)
    BY DEF IsOrder
  <2> QED  BY <2>1, LenProperties, ElementOfSeq
<1>2. \A m \in 1 .. n : f[m] = First(sensors[order[m]]) /\ e[m] = End(sensors[order[m]])
  BY DEF Firsts, EndsIn
<1>3. \A m \in 1 .. n : f[m] \in Nat /\ e[m] \in Nat /\ f[m] < e[m] /\ e[m] <= f[m] + 2
  BY <1>1, <1>2, SensorIs
<1>4. DOMAIN f = 1 .. n /\ DOMAIN e = 1 .. n /\ f = [m \in 1 .. n |-> f[m]] /\ e = [m \in 1 .. n |-> e[m]]
  BY DEF Firsts, EndsIn
<1> HIDE DEF f, e
<1>5. f \in [1 .. n -> Nat] /\ e \in [1 .. n -> Nat]
  BY <1>3, <1>4
<1>6. \A m, k \in 1 .. n : m < k => f[m] <= f[k]
  BY <1>2 DEF IsOrder
<1> QED  BY <1>1, <1>2, <1>3, <1>5, <1>6 DEF Spans, f, e

(* Where the sensors of the first n in an order are: in block P[m], at K[m]. *)
Held(order, n, plan, P, K) ==
  /\ K \in [1 .. n -> Nat]
  /\ \A m \in 1 .. n : /\ K[m] \in 1 .. Len(plan[P[m]].indices)
                       /\ plan[P[m]].indices[K[m]] = order[m]
  /\ \A b \in 1 .. Len(plan) : \A k \in 1 .. Len(plan[b].indices) :
        \E m \in 1 .. n : P[m] = b /\ K[m] = k

(* After n sensors of the order the plan is a grouping of them, and holds each once. *)
Planned(sensors, type, order, n, plan, q, g, P, K) ==
  /\ plan \in Seq(Blocks(sensors))
  /\ \A b \in 1 .. Len(plan) : plan[b].register_type = type
  /\ Held(order, n, plan, P, K)
  /\ Grouping(n, Len(plan), Starts(plan), Stops(plan), P,
              Firsts(sensors, order), EndsIn(sensors, order), q, g)

(* Before the first sensor nothing is planned. *)
LEMMA NothingPlanned ==
  ASSUME NEW sensors, NEW type, NEW order, NEW q, NEW g
  PROVE  \E P, K : Planned(sensors, type, order, 0, <<>>, q, g, P, K)
<1> DEFINE Z == [b \in 1 .. 0 |-> 0]
           plan == <<>>
<1>1. Starts(plan) = Z /\ Stops(plan) = Z /\ Len(plan) = 0 /\ plan \in Seq(Blocks(sensors))
  BY EmptySeq DEF Starts, Stops
<1>2. Held(order, 0, plan, Z, Z)
  BY DEF Held
<1>3. Grouping(0, 0, Z, Z, Z, Firsts(sensors, order), EndsIn(sensors, order), q, g)
  BY NoGroups
<1>4. \A b \in 1 .. Len(plan) : plan[b].register_type = type
  BY <1>1
<1> HIDE DEF Z
<1>5. Planned(sensors, type, order, 0, plan, q, g, Z, Z)
  BY <1>1, <1>2, <1>3, <1>4 DEF Planned
<1> QED  BY <1>5

(* The last block takes one more sensor. *)
LEMMA HeldTakes ==
  ASSUME NEW sensors, NEW order, NEW n \in Nat, NEW plan \in Seq(Blocks(sensors)),
         NEW P \in [1 .. n -> 1 .. Len(plan)], NEW K, Held(order, n, plan, P, K),
         NEW l, l = Len(plan), l \in Nat, l > 0, NEW new, Len(new) = l,
         \A b \in 1 .. l : b # l => new[b] = plan[b],
         order[n + 1] \in DOMAIN sensors,
         new[l].indices = Append(plan[l].indices, order[n + 1])
  PROVE  Held(order, n + 1, new, With(P, n, l), With(K, n, Len(plan[l].indices) + 1))
<1> DEFINE x == n + 1
           d == Len(plan[l].indices)
           R == With(P, n, l)
           J == With(K, n, d + 1)
<1>1. /\ \A b \in 1 .. l : plan[b] \in Blocks(sensors)
      /\ \A b \in 1 .. l : plan[b].indices \in Seq(DOMAIN sensors) /\ Len(plan[b].indices) \in Nat
  <2>1. \A b \in 1 .. l : plan[b] \in Blocks(sensors)
    BY ElementOfSeq
  <2>2. \A b \in 1 .. l : plan[b].indices \in Seq(DOMAIN sensors)
    BY <2>1 DEF Blocks
  <2> QED  BY <2>1, <2>2, LenProperties
<1>2. l \in 1 .. l /\ d \in Nat
  BY <1>1
<1>3. /\ Len(new[l].indices) = d + 1 /\ new[l].indices[d + 1] = order[x]
      /\ \A k \in 1 .. d : new[l].indices[k] = plan[l].indices[k]
  <2> DEFINE old == plan[l].indices
  <2>1. old \in Seq(DOMAIN sensors)
    BY <1>1, <1>2
  <2> HIDE DEF old
  <2>2. /\ Len(Append(old, order[x])) = Len(old) + 1
        /\ Append(old, order[x])[Len(old) + 1] = order[x]
        /\ \A k \in 1 .. Len(old) : Append(old, order[x])[k] = old[k]
    BY <2>1, AppendProperties
  <2>3. new[l].indices = Append(old, order[x]) /\ d = Len(old)
    BY DEF old
  <2> QED  BY <2>2, <2>3 DEF old
<1> HIDE DEF d
<1>4. /\ R[x] = l /\ \A m \in 1 .. n : R[m] = P[m]
      /\ J \in [1 .. x -> Nat] /\ J[x] = d + 1 /\ \A m \in 1 .. n : J[m] = K[m]
  <2>1. K \in [1 .. n -> Nat]
    BY DEF Held
  <2>2. R[x] = l /\ \A m \in 1 .. n : R[m] = P[m]
    BY DEF With
  <2>3. J \in [1 .. x -> Nat] /\ J[x] = d + 1 /\ \A m \in 1 .. n : J[m] = K[m]
    BY <1>2, <2>1 DEF With
  <2> QED  BY <2>2, <2>3
<1>5. /\ x \in 1 .. x /\ \A m \in 1 .. x : m = x \/ m \in 1 .. n
      /\ \A m \in 1 .. n : m \in 1 .. x
  OBVIOUS
<1> HIDE DEF x, R, J
<1>6. \A b \in 1 .. l : /\ Len(plan[b].indices) \in Nat
                        /\ \A k \in 1 .. Len(plan[b].indices) :
                             k \in 1 .. Len(new[b].indices) /\ new[b].indices[k] = plan[b].indices[k]
  <2> SUFFICES ASSUME NEW b \in 1 .. l, NEW k \in 1 .. Len(plan[b].indices)
               PROVE  k \in 1 .. Len(new[b].indices) /\ new[b].indices[k] = plan[b].indices[k]
    BY <1>1
  <2>1. CASE b = l
    <3>1. k \in 1 .. d
      BY <2>1 DEF d
    <3>2. k \in 1 .. d + 1
      BY <1>2, <3>1
    <3>3. k \in 1 .. Len(new[l].indices) /\ new[l].indices[k] = plan[l].indices[k]
      BY <1>3, <3>1, <3>2
    <3> QED  BY <2>1, <3>3
  <2>2. CASE b # l
    BY <2>2
  <2> QED  BY <2>1, <2>2
<1>7. \A m \in 1 .. x : J[m] \in 1 .. Len(new[R[m]].indices) /\ new[R[m]].indices[J[m]] = order[m]
  <2> SUFFICES ASSUME NEW m \in 1 .. x
               PROVE  J[m] \in 1 .. Len(new[R[m]].indices) /\ new[R[m]].indices[J[m]] = order[m]
    OBVIOUS
  <2>1. CASE m = x
    <3>1. d + 1 \in 1 .. Len(new[l].indices)
      BY <1>2, <1>3
    <3> QED  BY <1>3, <1>4, <2>1, <3>1
  <2>2. CASE m \in 1 .. n
    <3>1. /\ K[m] \in 1 .. Len(plan[P[m]].indices) /\ plan[P[m]].indices[K[m]] = order[m]
          /\ P[m] \in 1 .. l
      BY <2>2 DEF Held
    <3>2. J[m] = K[m] /\ R[m] = P[m]
      BY <1>4, <2>2
    <3> QED  BY <1>6, <3>1, <3>2
  <2> QED  BY <1>5, <2>1, <2>2
<1>8. \A b \in 1 .. Len(new) : \A k \in 1 .. Len(new[b].indices) : \E m \in 1 .. x : R[m] = b /\ J[m] = k
  <2> SUFFICES ASSUME NEW b \in 1 .. l, NEW k \in 1 .. Len(new[b].indices)
               PROVE  \E m \in 1 .. x : R[m] = b /\ J[m] = k
    OBVIOUS
  <2>1. CASE b = l /\ k = d + 1
    BY <1>4, <1>5, <2>1
  <2>2. CASE ~(b = l /\ k = d + 1)
    <3>1. k \in 1 .. Len(plan[b].indices)
      <4>1. CASE b = l
        BY <1>2, <1>3, <2>2, <4>1 DEF d
      <4>2. CASE b # l
        BY <4>2
      <4> QED  BY <4>1, <4>2
    <3>2. PICK m \in 1 .. n : P[m] = b /\ K[m] = k
      BY <3>1 DEF Held
    <3> QED  BY <1>4, <1>5, <3>2
  <2> QED  BY <2>1, <2>2
<1> QED  BY <1>4, <1>7, <1>8 DEF Held, x, R, J, d

(* One more sensor opens a block. *)
LEMMA HeldOpens ==
  ASSUME NEW sensors, NEW order, NEW n \in Nat, NEW plan,
         NEW l, l = Len(plan), l \in Nat,
         NEW P \in [1 .. n -> 1 .. l], NEW K, Held(order, n, plan, P, K),
         NEW new, Len(new) = l + 1,
         \A b \in 1 .. l : new[b] = plan[b],
         new[l + 1].indices = <<order[n + 1]>>
  PROVE  Held(order, n + 1, new, With(P, n, l + 1), With(K, n, 1))
<1> DEFINE x == n + 1
           y == l + 1
           R == With(P, n, y)
           J == With(K, n, 1)
<1>3. Len(new[y].indices) = 1 /\ new[y].indices[1] = order[x]
  OBVIOUS
<1>4. /\ R[x] = y /\ \A m \in 1 .. n : R[m] = P[m]
      /\ J \in [1 .. x -> Nat] /\ J[x] = 1 /\ \A m \in 1 .. n : J[m] = K[m]
  <2>1. K \in [1 .. n -> Nat]
    BY DEF Held
  <2>2. R[x] = y /\ \A m \in 1 .. n : R[m] = P[m]
    BY DEF With
  <2>3. J \in [1 .. x -> Nat] /\ J[x] = 1 /\ \A m \in 1 .. n : J[m] = K[m]
    BY <2>1 DEF With
  <2> QED  BY <2>2, <2>3
<1>5. /\ x \in 1 .. x /\ \A m \in 1 .. x : m = x \/ m \in 1 .. n
      /\ \A m \in 1 .. n : m \in 1 .. x
      /\ \A b \in 1 .. y : b = y \/ b \in 1 .. l
      /\ Len(new) = y
  OBVIOUS
<1> HIDE DEF x, y, R, J
<1>7. \A m \in 1 .. x : J[m] \in 1 .. Len(new[R[m]].indices) /\ new[R[m]].indices[J[m]] = order[m]
  <2> SUFFICES ASSUME NEW m \in 1 .. x
               PROVE  J[m] \in 1 .. Len(new[R[m]].indices) /\ new[R[m]].indices[J[m]] = order[m]
    OBVIOUS
  <2>1. CASE m = x
    BY <1>3, <1>4, <2>1
  <2>2. CASE m \in 1 .. n
    <3>1. /\ K[m] \in 1 .. Len(plan[P[m]].indices) /\ plan[P[m]].indices[K[m]] = order[m]
          /\ P[m] \in 1 .. l
      BY <2>2 DEF Held
    <3>2. J[m] = K[m] /\ R[m] = P[m]
      BY <1>4, <2>2
    <3> QED  BY <3>1, <3>2
  <2> QED  BY <1>5, <2>1, <2>2
<1>8. \A b \in 1 .. Len(new) : \A k \in 1 .. Len(new[b].indices) : \E m \in 1 .. x : R[m] = b /\ J[m] = k
  <2> SUFFICES ASSUME NEW b \in 1 .. y, NEW k \in 1 .. Len(new[b].indices)
               PROVE  \E m \in 1 .. x : R[m] = b /\ J[m] = k
    BY <1>5
  <2>1. CASE b = y
    <3>1. k = 1
      <4>1. Len(new[b].indices) = 1
        BY <1>3, <2>1
      <4>2. k \in 1 .. 1
        BY <4>1
      <4> QED  BY <4>2
    <3> QED  BY <1>4, <1>5, <2>1, <3>1
  <2>2. CASE b \in 1 .. l
    <3>1. k \in 1 .. Len(plan[b].indices)
      BY <2>2
    <3>2. PICK m \in 1 .. n : P[m] = b /\ K[m] = k
      BY <2>2, <3>1 DEF Held
    <3> QED  BY <1>4, <1>5, <3>2
  <2> QED  BY <1>5, <2>1, <2>2
<1> QED  BY <1>4, <1>7, <1>8 DEF Held, x, y, R, J

(* A plan is a sequence of blocks. *)
LEMMA PlanOfBlocks ==
  ASSUME NEW sensors, NEW plan \in Seq(Blocks(sensors))
  PROVE  /\ Len(plan) \in Nat /\ DOMAIN plan = 1 .. Len(plan)
         /\ \A b \in 1 .. Len(plan) :
              /\ plan[b] \in Blocks(sensors) /\ plan[b].start \in Nat /\ plan[b].quantity \in Nat
              /\ Stop(plan[b]) \in Nat
              /\ Starts(plan)[b] = plan[b].start /\ Stops(plan)[b] = Stop(plan[b])
<1>1. Len(plan) \in Nat /\ DOMAIN plan = 1 .. Len(plan) /\ \A b \in 1 .. Len(plan) : plan[b] \in Blocks(sensors)
  BY LenProperties, ElementOfSeq
<1>2. \A b \in 1 .. Len(plan) : plan[b].start \in Nat /\ plan[b].quantity \in Nat
  BY <1>1 DEF Blocks
<1>3. \A b \in 1 .. Len(plan) : Stop(plan[b]) \in Nat
  BY <1>2 DEF Stop
<1> QED  BY <1>1, <1>2, <1>3 DEF Starts, Stops

(* The invariant of the loop of plan_reads. *)
LEMMA PlanGrows ==
  ASSUME NEW sensors \in Seq(SensorSettings), NEW type, NEW order, IsOrder(sensors, type, order),
         NEW n \in Nat, n < Len(order), NEW plan, NEW q \in Nat, q >= 2, NEW g \in Nat,
         NEW P, NEW K, Planned(sensors, type, order, n, plan, q, g, P, K)
  PROVE  \E R, J : Planned(sensors, type, order, n + 1,
                           Extended(plan, sensors, order[n + 1], q, g), q, g, R, J)
<1> DEFINE l == Len(plan)
           x == n + 1
           i == order[x]
           new == Extended(plan, sensors, i, q, g)
           f == Firsts(sensors, order)
           e == EndsIn(sensors, order)
           S == Starts(plan)
           T == Stops(plan)
           N == Len(order)
<1>1. /\ plan \in Seq(Blocks(sensors)) /\ \A b \in 1 .. l : plan[b].register_type = type
      /\ Held(order, n, plan, P, K) /\ Grouping(n, l, S, T, P, f, e, q, g)
  BY DEF Planned
<1>2. Spans(N, f, e) /\ N \in Nat
  BY OrderSpans
<1>3. x \in 1 .. N /\ i \in DOMAIN sensors
  <2>1. x \in 1 .. N
    BY <1>2
  <2> QED  BY <2>1, OrderSpans
<1>4. /\ f[x] = First(sensors[i]) /\ e[x] = End(sensors[i]) /\ sensors[i].register_type = type
  <2>1. \A m \in 1 .. N : f[m] = First(sensors[order[m]]) /\ e[m] = End(sensors[order[m]])
    BY OrderSpans
  <2>2. sensors[i].register_type = type
    BY <1>3 DEF IsOrder
  <2> HIDE DEF f, e
  <2> QED  BY <1>3, <2>1, <2>2
<1>5. /\ l \in Nat
      /\ \A b \in 1 .. l :
           /\ plan[b] \in Blocks(sensors) /\ plan[b].start \in Nat /\ Stop(plan[b]) \in Nat
           /\ S[b] = plan[b].start /\ T[b] = Stop(plan[b])
  BY <1>1, PlanOfBlocks
<1>6. P \in [1 .. n -> 1 .. l] /\ S \in [1 .. l -> Nat] /\ T \in [1 .. l -> Nat]
  BY <1>1 DEF Grouping, Groups
<1>7. /\ new \in Seq(Blocks(sensors))
      /\ Takes(plan, sensors, i, q, g) =>
              /\ l > 0 /\ Len(new) = l
              /\ \A b \in 1 .. l : b # l => new[b] = plan[b]
              /\ new[l] = Taken(plan[l], sensors, i)
      /\ ~Takes(plan, sensors, i, q, g) =>
              /\ Len(new) = l + 1
              /\ \A b \in 1 .. l : new[b] = plan[b]
              /\ new[l + 1] = OpenBlock(sensors, i)
  BY <1>1, <1>3, ExtendedIs
<1>8. \A b \in 1 .. Len(new) : Starts(new)[b] = new[b].start /\ Stops(new)[b] = Stop(new[b])
  BY <1>7, PlanOfBlocks
<1>9. /\ Starts(new) = [b \in 1 .. Len(new) |-> new[b].start]
      /\ Stops(new) = [b \in 1 .. Len(new) |-> Stop(new[b])]
  BY DEF Starts, Stops
<1>10. l > 0 => (Takes(plan, sensors, i, q, g) <=> ~Far(S[l], T[l], f, e, x, q, g))
  <2> SUFFICES ASSUME l > 0
               PROVE  Takes(plan, sensors, i, q, g) <=> ~Far(S[l], T[l], f, e, x, q, g)
    OBVIOUS
  <2>1. S[l] = plan[l].start /\ T[l] = Stop(plan[l])
    BY <1>5
  <2>2. Takes(plan, sensors, i, q, g) <=>
          /\ ~(First(sensors[i]) - Stop(plan[l]) > g)
          /\ ~(Larger(Stop(plan[l]), End(sensors[i])) - plan[l].start > q)
    BY DEF Takes
  <2> QED  BY <1>4, <2>1, <2>2, Zenon DEF Far
<1> HIDE DEF l, x, i, new, f, e, S, T, N
<1>11. CASE Takes(plan, sensors, i, q, g)
  <2>1. /\ l > 0 /\ Len(new) = l /\ l \in 1 .. l /\ plan[l] \in Blocks(sensors)
        /\ \A b \in 1 .. l : b # l => new[b] = plan[b]
        /\ new[l] = Taken(plan[l], sensors, i)
    BY <1>5, <1>7, <1>11
  <2>2. /\ new[l].register_type = plan[l].register_type /\ new[l].start = plan[l].start
        /\ new[l].indices = Append(plan[l].indices, i)
        /\ Stop(new[l]) = Larger(T[l], e[x])
    <3>1. T[l] = Stop(plan[l])
      BY <1>5, <2>1
    <3>2. PICK open \in Blocks(sensors) : open = plan[l]
      BY <2>1
    <3>3. /\ Taken(open, sensors, i).register_type = open.register_type
          /\ Taken(open, sensors, i).start = open.start
          /\ Taken(open, sensors, i).indices = Append(open.indices, i)
          /\ Stop(Taken(open, sensors, i)) = Larger(Stop(open), End(sensors[i]))
      BY <1>3, TakenIs
    <3> QED  BY <1>4, <2>1, <3>1, <3>2, <3>3
  <2>3. Starts(new) = S
    <3>1. \A b \in 1 .. l : new[b].start = S[b]
      BY <1>5, <2>1, <2>2
    <3> QED  BY <1>6, <1>9, <2>1, <3>1
  <2>4. Stops(new) = [T EXCEPT ![l] = Larger(T[l], e[x])]
    <3> DEFINE z == Larger(T[l], e[x])
    <3>1. \A b \in 1 .. l : Stop(new[b]) = IF b = l THEN z ELSE T[b]
      BY <1>5, <2>1, <2>2
    <3> HIDE DEF z
    <3>2. Stops(new) = [T EXCEPT ![l] = z]
      BY <1>6, <1>9, <2>1, <3>1
    <3> QED  BY <3>2 DEF z
  <2>5. Grouping(x, l, S, [T EXCEPT ![l] = Larger(T[l], e[x])], With(P, n, l), f, e, q, g)
    BY <1>1, <1>2, <1>10, <1>11, <2>1, GroupTakes DEF x, N
  <2>6. Held(order, x, new, With(P, n, l), With(K, n, Len(plan[l].indices) + 1))
    BY <1>1, <1>3, <1>5, <1>6, <2>1, <2>2, HeldTakes DEF x, i, l
  <2>7. \A b \in 1 .. Len(new) : new[b].register_type = type
    BY <1>1, <2>1, <2>2
  <2>8. Planned(sensors, type, order, x, new, q, g, With(P, n, l),
                With(K, n, Len(plan[l].indices) + 1))
    BY <1>7, <2>1, <2>3, <2>4, <2>5, <2>6, <2>7 DEF Planned, f, e
  <2> QED  BY <2>8 DEF x, new, i
<1>12. CASE ~Takes(plan, sensors, i, q, g)
  <2>1. /\ Len(new) = l + 1 /\ \A b \in 1 .. l : new[b] = plan[b]
        /\ new[l + 1] = OpenBlock(sensors, i)
    BY <1>7, <1>12
  <2>2. /\ new[l + 1].register_type = type /\ new[l + 1].start = f[x]
        /\ new[l + 1].indices = <<i>> /\ Stop(new[l + 1]) = e[x]
    BY <1>3, <1>4, <2>1, OpenBlockIs
  <2>9. \A b \in 1 .. l + 1 : b = l + 1 \/ b \in 1 .. l
    BY <1>5
  <2>3. Starts(new) = With(S, l, f[x])
    <3>1. \A b \in 1 .. l + 1 : new[b].start = IF b = l + 1 THEN f[x] ELSE S[b]
      BY <1>5, <2>1, <2>2, <2>9
    <3> QED  BY <1>9, <2>1, <3>1 DEF With
  <2>4. Stops(new) = With(T, l, e[x])
    <3>1. \A b \in 1 .. l + 1 : Stop(new[b]) = IF b = l + 1 THEN e[x] ELSE T[b]
      BY <1>5, <2>1, <2>2, <2>9
    <3> QED  BY <1>9, <2>1, <3>1 DEF With
  <2>5. Grouping(x, l + 1, With(S, l, f[x]), With(T, l, e[x]), With(P, n, l + 1), f, e, q, g)
    <3>1. l > 0 => Far(S[l], T[l], f, e, x, q, g)
      BY <1>10, <1>12
    <3> QED  BY <1>1, <1>2, <3>1, GroupOpens DEF x, N
  <2>6. Held(order, x, new, With(P, n, l + 1), With(K, n, 1))
    BY <1>1, <1>5, <1>6, <2>1, <2>2, HeldOpens DEF x, i, l
  <2>7. \A b \in 1 .. Len(new) : new[b].register_type = type
    BY <1>1, <2>1, <2>2, <2>9
  <2>8. Planned(sensors, type, order, x, new, q, g, With(P, n, l + 1), With(K, n, 1))
    BY <1>7, <2>1, <2>3, <2>4, <2>5, <2>6, <2>7 DEF Planned, f, e
  <2> QED  BY <2>8 DEF x, new, i
<1> QED  BY <1>11, <1>12

(* The plan after so many of the sensors. *)
PlansFrom(sensors, order, q, g, after) ==
  after = [n \in 0 .. Len(order) |->
             IF n = 0 THEN <<>> ELSE Extended(after[n - 1], sensors, order[n], q, g)]

(* BlocksOf, unfolded. *)
LEMMA BlocksOfIs ==
  \A sensors, order, q, g :
    BlocksOf(sensors, order, q, g) = (CHOOSE after : PlansFrom(sensors, order, q, g, after))[Len(order)]
BY Zenon DEF BlocksOf, PlansFrom

(* It holds after the last sensor. *)
LEMMA BlocksOfIsPlanned ==
  ASSUME NEW sensors \in Seq(SensorSettings), NEW type, NEW order, IsOrder(sensors, type, order),
         NEW q \in Nat, q >= 2, NEW g \in Nat
  PROVE  \E P, K : Planned(sensors, type, order, Len(order), BlocksOf(sensors, order, q, g), q, g, P, K)
<1> DEFINE N == Len(order)
           V == Seq(Blocks(sensors))
           step == [p \in (1 .. N) \X V |-> Extended(p[2], sensors, order[p[1]], q, g)]
<1>1. N \in Nat /\ \A m \in 1 .. N : order[m] \in DOMAIN sensors
  BY OrderSpans
<1> HIDE DEF N
<1>2. step \in [(1 .. N) \X V -> V]
  <2>1. ASSUME NEW m \in 1 .. N, NEW plan \in V PROVE Extended(plan, sensors, order[m], q, g) \in V
    <3>1. order[m] \in DOMAIN sensors /\ plan \in Seq(Blocks(sensors))
      BY <1>1
    <3>2. PICK new : new = Extended(plan, sensors, order[m], q, g)
      OBVIOUS
    <3>3. new \in Seq(Blocks(sensors))
      BY <3>1, <3>2, ExtendedIs
    <3> QED  BY <3>2, <3>3
  <2> HIDE DEF V
  <2> QED  BY <2>1
<1>3. <<>> \in V
  BY EmptySeq
<1> HIDE DEF V
<1>4. PICK h : Recurs(h, N, V, <<>>, step)
  <2> HIDE DEF step
  <2> QED  BY <1>1, <1>2, <1>3, RecursionExists
<1>5. \A n \in 1 .. N : h[n] = Extended(h[n - 1], sensors, order[n], q, g)
  <2> TAKE n \in 1 .. N
  <2>1. h[n - 1] \in V
    <3>1. n - 1 \in 0 .. N
      BY <1>1
    <3> QED  BY <1>4, <3>1 DEF Recurs
  <2>2. h[n] = step[<<n, h[n - 1]>>]
    BY <1>4 DEF Recurs
  <2> QED  BY <2>1, <2>2
<1>6. PlansFrom(sensors, order, q, g, h)
  <2>1. \A n \in 0 .. N : h[n] = IF n = 0 THEN <<>> ELSE Extended(h[n - 1], sensors, order[n], q, g)
    <3> TAKE n \in 0 .. N
    <3>1. CASE n = 0
      BY <1>4, <3>1 DEF Recurs
    <3>2. CASE n # 0
      <4>1. n \in 1 .. N
        BY <1>1, <3>2
      <4> QED  BY <1>5, <3>2, <4>1
    <3> QED  BY <3>1, <3>2
  <2>2. h \in [0 .. N -> V]
    BY <1>4 DEF Recurs
  <2> QED  BY <2>1, <2>2 DEF PlansFrom, N
<1> DEFINE after == CHOOSE after : PlansFrom(sensors, order, q, g, after)
<1>7. PlansFrom(sensors, order, q, g, after)
  BY <1>6
<1>8. BlocksOf(sensors, order, q, g) = after[N]
  BY BlocksOfIs, Zenon DEF N
<1> HIDE DEF after
<1>9. \A n \in 0 .. N : after[n] = IF n = 0 THEN <<>> ELSE Extended(after[n - 1], sensors, order[n], q, g)
  BY <1>7 DEF PlansFrom, N
<1> DEFINE I == {n \in 0 .. N : \E P, K : Planned(sensors, type, order, n, after[n], q, g, P, K)}
<1>10. 0 \in I
  <2>1. after[0] = <<>> /\ 0 \in 0 .. N
    BY <1>1, <1>9
  <2> QED  BY <2>1, NothingPlanned
<1>11. \A n \in 1 .. N : n - 1 \in I => n \in I
  <2> SUFFICES ASSUME NEW n \in 1 .. N, n - 1 \in I PROVE n \in I
    OBVIOUS
  <2>1. PICK P, K : Planned(sensors, type, order, n - 1, after[n - 1], q, g, P, K)
    OBVIOUS
  <2>2. PICK m \in Nat : m = n - 1 /\ m < N /\ n = m + 1
    <3>1. n - 1 \in Nat /\ n - 1 < N /\ n = n - 1 + 1
      BY <1>1
    <3> QED  BY <3>1
  <2>3. after[n] = Extended(after[m], sensors, order[m + 1], q, g)
    BY <1>1, <1>9, <2>2
  <2>4. Planned(sensors, type, order, m, after[m], q, g, P, K)
    BY <2>1, <2>2
  <2>5. \E R, J : Planned(sensors, type, order, m + 1,
                          Extended(after[m], sensors, order[m + 1], q, g), q, g, R, J)
    BY <2>2, <2>4, PlanGrows DEF N
  <2>6. \E R, J : Planned(sensors, type, order, n, after[n], q, g, R, J)
    BY <2>2, <2>3, <2>5
  <2> QED  BY <1>1, <2>6
<1> HIDE DEF I
<1>12. N \in I
  <2>1. \A n \in 0 .. N : n \in I
    BY <1>1, <1>10, <1>11, UpTo
  <2> QED  BY <1>1, <2>1
<1> QED  BY <1>8, <1>12 DEF I, N

(* The least element of a set of numbers. *)
LEMMA MinIs ==
  ASSUME NEW D, D \subseteq Nat, D # {}
  PROVE  Min(D) \in D /\ \A y \in D : Min(D) <= y
<1> DEFINE m == Min(D)
<1>1. m = CHOOSE x \in D : \A y \in D : x <= y
  BY DEF Min
<1>2. \E x \in D : \A y \in D : x <= y
  BY LeastOf
<1> HIDE DEF m
<1> QED  BY <1>1, <1>2 DEF m

(* The greatest element of a bounded set of numbers. *)
LEMMA MaxIs ==
  ASSUME NEW D, D \subseteq Nat, D # {}, NEW M \in Nat, \A y \in D : y <= M
  PROVE  Max(D) \in D /\ \A y \in D : Max(D) >= y
<1> DEFINE C == {c \in Nat : \E y \in D : c = M - y}
           m == Max(D)
<1>1. PICK c \in C : \A k \in C : c <= k
  <2>1. C # {} /\ C \subseteq Nat
    <3>1. PICK y \in D : TRUE
      OBVIOUS
    <3>2. M - y \in C
      BY <3>1
    <3> QED  BY <3>2
  <2> HIDE DEF C
  <2> QED  BY <2>1, LeastOf
<1>2. PICK x \in D : c = M - x
  BY <1>1
<1>3. \A y \in D : x >= y
  <2> SUFFICES ASSUME NEW y \in D PROVE x >= y
    OBVIOUS
  <2>1. M - y \in C
    OBVIOUS
  <2>2. c <= M - y
    BY <1>1, <2>1
  <2>3. x \in Nat /\ y \in Nat
    OBVIOUS
  <2> QED  BY <1>2, <2>2, <2>3
<1>4. m = CHOOSE z \in D : \A y \in D : z >= y
  BY DEF Max
<1> HIDE DEF m
<1> QED  BY <1>3, <1>4 DEF m

(* What increases from each index to the next increases throughout. *)
LEMMA Increases ==
  ASSUME NEW l \in Nat, NEW T \in [1 .. l -> Nat], \A b \in 2 .. l : T[b - 1] < T[b]
  PROVE  \A b, c \in 1 .. l : b < c => T[b] < T[c]
<1> DEFINE D == {c \in 0 .. l : \A b \in 1 .. l : b < c => T[b] < T[c]}
<1>1. 0 \in D
  OBVIOUS
<1>2. \A c \in 1 .. l : c - 1 \in D => c \in D
  <2> SUFFICES ASSUME NEW c \in 1 .. l, c - 1 \in D PROVE c \in D
    OBVIOUS
  <2> SUFFICES ASSUME NEW b \in 1 .. l, b < c PROVE T[b] < T[c]
    OBVIOUS
  <2>1. c \in 2 .. l /\ c - 1 \in 1 .. l
    OBVIOUS
  <2>2. T[c - 1] < T[c] /\ T[b] \in Nat /\ T[c] \in Nat /\ T[c - 1] \in Nat
    BY <2>1
  <2>3. CASE b = c - 1
    BY <2>2, <2>3
  <2>4. CASE b < c - 1
    <3>1. T[b] < T[c - 1]
      BY <2>4
    <3> QED  BY <2>2, <3>1
  <2>5. b = c - 1 \/ b < c - 1
    OBVIOUS
  <2> QED  BY <2>3, <2>4, <2>5
<1> HIDE DEF D
<1>3. \A c \in 0 .. l : c \in D
  BY <1>1, <1>2, UpTo
<1> QED  BY <1>3 DEF D

(* Later groups start later and end later. *)
LEMMA GroupsInOrder ==
  ASSUME NEW n, NEW f, NEW e, Spans(n, f, e), NEW q \in Nat, NEW g \in Nat,
         NEW l, NEW S, NEW T, NEW P, Grouping(n, l, S, T, P, f, e, q, g)
  PROVE  /\ \A b, c \in 1 .. l : b < c => T[b] < T[c]
         /\ \A m, k \in 1 .. n : P[m] < P[k] => m < k
         /\ \A b, c \in 1 .. l : b <= c => S[b] <= S[c]
<1>1. /\ n \in Nat /\ l \in Nat /\ S \in [1 .. l -> Nat] /\ T \in [1 .. l -> Nat] /\ P \in [1 .. n -> 1 .. l]
      /\ \A m, k \in 1 .. n : m < k => P[m] <= P[k]
  BY DEF Grouping, Groups
<1>2. \A m \in 1 .. n : f[m] \in Nat /\ e[m] \in Nat /\ f[m] < e[m]
  BY DEF Spans
<1>3. \A b \in 1 .. l : S[b] \in Nat /\ T[b] \in Nat /\ T[b] - S[b] <= q
  BY <1>1 DEF Grouping, Reaches
<1>4. \A b \in 2 .. l : T[b - 1] < T[b]
  <2> SUFFICES ASSUME NEW b \in 2 .. l PROVE T[b - 1] < T[b]
    OBVIOUS
  <2>1. b \in 1 .. l /\ b - 1 \in 1 .. l /\ b > 1
    BY <1>1
  <2>2. PICK m \in 1 .. n : Opens(m, b, n, S, T, P, f, e, q, g)
    BY <2>1 DEF Grouping, Opened
  <2>3. P[m] = b /\ Far(S[b - 1], T[b - 1], f, e, m, q, g)
    BY <2>1, <2>2 DEF Opens
  <2>4. e[m] <= T[b]
    BY <2>3 DEF Grouping, Reaches
  <2>5. PICK s \in Nat : s = S[b - 1]
    BY <1>3, <2>1
  <2>6. PICK t \in Nat : t = T[b - 1] /\ t - s <= q
    BY <1>3, <2>1, <2>5
  <2>7. f[m] - t > g \/ Larger(t, e[m]) - s > q
    BY <2>3, <2>5, <2>6 DEF Far
  <2>8. e[m] > t
    <3>1. f[m] \in Nat /\ e[m] \in Nat /\ f[m] < e[m]
      BY <1>2
    <3> QED  BY <2>6, <2>7, <3>1 DEF Larger
  <2>9. T[b] \in Nat /\ e[m] \in Nat
    BY <1>2, <1>3, <2>1
  <2> QED  BY <2>4, <2>6, <2>8, <2>9
<1>5. \A b, c \in 1 .. l : b < c => T[b] < T[c]
  BY <1>1, <1>4, Increases
<1>6. \A m, k \in 1 .. n : P[m] < P[k] => m < k
  <2> SUFFICES ASSUME NEW m \in 1 .. n, NEW k \in 1 .. n, P[m] < P[k], ~(m < k) PROVE FALSE
    OBVIOUS
  <2>1. k < m \/ k = m
    OBVIOUS
  <2>2. P[k] <= P[m] \/ P[k] = P[m]
    BY <1>1, <2>1
  <2>3. P[k] \in 1 .. l /\ P[m] \in 1 .. l
    BY <1>1
  <2>4. P[k] \in Nat /\ P[m] \in Nat
    <3>1. \A a \in 1 .. l : a \in Nat
      OBVIOUS
    <3> QED  BY <2>3, <3>1
  <2> QED  BY <2>2, <2>4
<1>7. \A b, c \in 1 .. l : b <= c => S[b] <= S[c]
  <2> SUFFICES ASSUME NEW b \in 1 .. l, NEW c \in 1 .. l, b <= c PROVE S[b] <= S[c]
    OBVIOUS
  <2>1. CASE b = c
    BY <1>3, <2>1
  <2>2. CASE b # c
    <3>1. PICK m \in 1 .. n : P[m] = b /\ f[m] = S[b]
      BY DEF Grouping, Opened, Opens
    <3>2. PICK k \in 1 .. n : P[k] = c /\ f[k] = S[c]
      BY DEF Grouping, Opened, Opens
    <3>3. m < k
      BY <1>6, <2>2, <3>1, <3>2
    <3>4. f[m] <= f[k]
      BY <3>3 DEF Spans
    <3> QED  BY <3>1, <3>2, <3>4
  <2> QED  BY <2>1, <2>2
<1> QED  BY <1>5, <1>6, <1>7

(* One request reaches from x to y only if it is too long or passes over a gap. *)
Parted(n, f, e, q, g, x, y) ==
  \/ e[y] - f[x] > q
  \/ \E t, u \in Nat : /\ u - t > g /\ e[x] <= t /\ f[y] >= u
                       /\ \A m \in 1 .. n : e[m] <= t \/ f[m] >= u

(* No request reads the first sensors of two groups. *)
LEMMA Apart ==
  ASSUME NEW n, NEW f, NEW e, Spans(n, f, e), NEW q \in Nat, NEW g \in Nat,
         NEW l, NEW S, NEW T, NEW P, Grouping(n, l, S, T, P, f, e, q, g),
         NEW b \in 1 .. l, NEW c \in 1 .. l, b < c,
         NEW x \in 1 .. n, Opens(x, b, n, S, T, P, f, e, q, g),
         NEW y \in 1 .. n, Opens(y, c, n, S, T, P, f, e, q, g)
  PROVE  Parted(n, f, e, q, g, x, y)
<1>1. /\ n \in Nat /\ l \in Nat /\ S \in [1 .. l -> Nat] /\ T \in [1 .. l -> Nat] /\ P \in [1 .. n -> 1 .. l]
  BY DEF Grouping, Groups
<1>2. \A m \in 1 .. n : f[m] \in Nat /\ e[m] \in Nat /\ f[m] < e[m] /\ e[m] <= T[P[m]]
  BY DEF Spans, Grouping, Reaches
<1>3. \A a \in 1 .. l : S[a] \in Nat /\ T[a] \in Nat /\ T[a] - S[a] <= q
  <2>1. \A a \in 1 .. l : T[a] - S[a] \in 1 .. q
    BY DEF Grouping, Reaches
  <2>2. \A a \in 1 .. l : S[a] \in Nat /\ T[a] \in Nat
    BY <1>1
  <2> QED  BY <2>1, <2>2
<1>4. /\ \A a, d \in 1 .. l : a < d => T[a] < T[d]
      /\ \A m, k \in 1 .. n : P[m] < P[k] => m < k
      /\ \A a, d \in 1 .. l : a <= d => S[a] <= S[d]
  BY GroupsInOrder
<1>5. PICK d \in 2 .. l : d = b + 1 /\ d <= c
  BY <1>1
<1>6. d \in 1 .. l /\ d - 1 = b /\ d > 1
  BY <1>1, <1>5
<1>7. PICK z \in 1 .. n : Opens(z, d, n, S, T, P, f, e, q, g)
  BY <1>6 DEF Grouping, Opened
<1>8. /\ P[z] = d /\ f[z] = S[d] /\ Far(S[b], T[b], f, e, z, q, g)
      /\ P[x] = b /\ f[x] = S[b] /\ P[y] = c /\ f[y] = S[c]
  BY <1>6, <1>7 DEF Opens
<1>9. e[y] >= e[z]
  <2>1. CASE d = c
    <3>1. \A k \in 1 .. n : P[k] = c => y <= k /\ z <= k
      BY <1>7, <2>1 DEF Opens
    <3>2. y = z
      BY <1>8, <2>1, <3>1
    <3> QED  BY <1>2, <3>2
  <2>2. CASE d # c
    <3>1. c - 1 \in 1 .. l /\ c > 1 /\ d <= c - 1 /\ c - 1 < c
      BY <1>1, <1>5, <2>2
    <3>2. Far(S[c - 1], T[c - 1], f, e, y, q, g)
      BY <3>1 DEF Opens
    <3>3. PICK s \in Nat : s = S[c - 1]
      BY <1>3, <3>1
    <3>4. PICK t \in Nat : t = T[c - 1] /\ t - s <= q
      BY <1>3, <3>1, <3>3
    <3>5. f[y] - t > g \/ Larger(t, e[y]) - s > q
      BY <3>2, <3>3, <3>4 DEF Far
    <3>6. e[y] > t
      <4>1. f[y] \in Nat /\ e[y] \in Nat /\ f[y] < e[y]
        BY <1>2
      <4> QED  BY <3>4, <3>5, <4>1 DEF Larger
    <3>7. T[d] <= t /\ T[d] \in Nat
      <4>1. d = c - 1 \/ d < c - 1
        BY <3>1
      <4>2. T[d] = T[c - 1] \/ T[d] < T[c - 1]
        BY <1>4, <1>6, <3>1, <4>1
      <4> QED  BY <1>3, <1>6, <3>4, <4>2
    <3>8. e[z] <= T[d] /\ e[z] \in Nat /\ e[y] \in Nat
      BY <1>2, <1>8
    <3> QED  BY <3>6, <3>7, <3>8
  <2> QED  BY <2>1, <2>2
<1>10. PICK s \in Nat : s = S[b]
  BY <1>3
<1>11. PICK t \in Nat : t = T[b] /\ t - s <= q
  BY <1>3, <1>10
<1>12. PICK u \in Nat : u = S[d]
  BY <1>3, <1>6
<1>13. u - t > g \/ Larger(t, e[z]) - s > q
  BY <1>8, <1>10, <1>11, <1>12 DEF Far
<1>14. f[y] >= u /\ e[x] <= t
  <2>1. S[d] <= S[c]
    BY <1>4, <1>5, <1>6
  <2>2. S[c] \in Nat
    BY <1>3
  <2>3. e[x] <= T[b]
    BY <1>2, <1>8
  <2> QED  BY <1>8, <1>11, <1>12, <2>1, <2>2, <2>3
<1> USE DEF Parted
<1>15. CASE Larger(t, e[z]) - s > q
  <2>1. e[z] \in Nat /\ e[y] \in Nat
    BY <1>2
  <2>2. e[z] - s > q
    BY <1>11, <1>15, <2>1 DEF Larger
  <2> QED  BY <1>8, <1>9, <1>10, <2>1, <2>2
<1>16. CASE u - t > g
  <2>1. \A m \in 1 .. n : e[m] <= t \/ f[m] >= u
    <3> SUFFICES ASSUME NEW m \in 1 .. n, ~(f[m] >= u) PROVE e[m] <= t
      OBVIOUS
    <3>1. P[m] \in 1 .. l /\ f[m] >= S[P[m]] /\ e[m] <= T[P[m]] /\ f[m] \in Nat /\ e[m] \in Nat
      BY <1>1, <1>2 DEF Grouping, Reaches
    <3>2. S[P[m]] \in Nat /\ T[P[m]] \in Nat
      BY <1>3, <3>1
    <3>3. ~(d <= P[m])
      <4>1. d <= P[m] => S[d] <= S[P[m]]
        BY <1>4, <1>6, <3>1
      <4> QED  BY <1>12, <3>1, <3>2, <4>1
    <3>4. P[m] = b \/ P[m] < b
      BY <1>5, <3>1, <3>3
    <3>5. T[P[m]] <= T[b]
      <4>1. P[m] < b => T[P[m]] < T[b]
        BY <1>4, <3>1
      <4>2. PICK v \in Nat : v = T[P[m]]
        BY <3>2
      <4> QED  BY <1>11, <3>4, <4>1, <4>2
    <3> QED  BY <1>11, <3>1, <3>2, <3>5
  <2> QED  BY <1>14, <1>16, <2>1
<1> QED  BY <1>13, <1>15, <1>16 DEF Parted

(* The registers a group of sensors has. *)
CoveredBy(sensors, group) == UNION {Covered(sensors[i]) : i \in group}

(* The sensors of a device, whose registers end at M. *)
Listed(sensors, M) ==
  /\ sensors \in Seq(SensorSettings) /\ M \in Nat
  /\ \A i \in DOMAIN sensors : End(sensors[i]) <= M

(* The registers of a group of sensors. *)
LEMMA CoveredIs ==
  ASSUME NEW sensors, NEW M, Listed(sensors, M), NEW group, group \subseteq DOMAIN sensors
  PROVE  /\ CoveredBy(sensors, group) \subseteq Nat
         /\ \A a \in CoveredBy(sensors, group) : a < M
         /\ \A a : a \in CoveredBy(sensors, group) <=>
              a \in Nat /\ \E i \in group : First(sensors[i]) <= a /\ a < End(sensors[i])
<1> DEFINE D == CoveredBy(sensors, group)
<1>1. sensors \in Seq(SensorSettings) /\ M \in Nat
  BY DEF Listed
<1>2. \A i \in group : /\ First(sensors[i]) \in Nat /\ End(sensors[i]) \in Nat
                       /\ End(sensors[i]) <= M
  BY <1>1, SensorIs DEF Listed
<1>3. \A i \in group : \A a : a \in Covered(sensors[i]) <=>
          a \in Nat /\ First(sensors[i]) <= a /\ a < End(sensors[i])
  <2> SUFFICES ASSUME NEW i \in group, NEW a
               PROVE  a \in Covered(sensors[i]) <=>
                        a \in Nat /\ First(sensors[i]) <= a /\ a < End(sensors[i])
    OBVIOUS
  <2>1. PICK s \in Nat : s = First(sensors[i])
    BY <1>2
  <2>2. PICK t \in Nat : t = End(sensors[i])
    BY <1>2
  <2>3. Covered(sensors[i]) = s .. t - 1
    BY <2>1, <2>2 DEF Covered
  <2>4. a \in s .. t - 1 <=> a \in Nat /\ s <= a /\ a < t
    OBVIOUS
  <2> QED  BY <2>1, <2>2, <2>3, <2>4
<1>4. \A a : a \in D <=> \E i \in group : a \in Covered(sensors[i])
  BY DEF CoveredBy
<1> HIDE DEF D
<1>5. \A a : a \in D <=> a \in Nat /\ \E i \in group : First(sensors[i]) <= a /\ a < End(sensors[i])
  BY <1>3, <1>4
<1>6. \A a \in D : a < M
  BY <1>1, <1>2, <1>5
<1> QED  BY <1>5, <1>6 DEF D

(* The bounds of what a group covers. *)
LEMMA CoveredBounds ==
  ASSUME NEW sensors, NEW M, Listed(sensors, M), NEW group, group \subseteq DOMAIN sensors,
         group # {}
  PROVE  LET covered == CoveredBy(sensors, group)
         IN  /\ Min(covered) \in covered /\ Max(covered) \in covered
             /\ \A a \in covered : Min(covered) <= a /\ a <= Max(covered)
             /\ \A i \in group : First(sensors[i]) \in covered /\ End(sensors[i]) - 1 \in covered
<1> DEFINE D == CoveredBy(sensors, group)
<1>1. sensors \in Seq(SensorSettings) /\ M \in Nat
  BY DEF Listed
<1>2. /\ D \subseteq Nat /\ \A a \in D : a < M
      /\ \A a : a \in D <=>
              a \in Nat /\ \E i \in group : First(sensors[i]) <= a /\ a < End(sensors[i])
  BY CoveredIs
<1>3. \A i \in group : First(sensors[i]) \in D /\ End(sensors[i]) - 1 \in D
  <2> SUFFICES ASSUME NEW i \in group PROVE First(sensors[i]) \in D /\ End(sensors[i]) - 1 \in D
    OBVIOUS
  <2>1. PICK s \in Nat : s = First(sensors[i])
    BY <1>1, SensorIs
  <2>2. PICK t \in Nat : t = End(sensors[i]) /\ s < t
    BY <1>1, <2>1, SensorIs
  <2>3. s <= s /\ s < t /\ t - 1 \in Nat /\ s <= t - 1 /\ t - 1 < t
    BY <2>2
  <2> HIDE DEF D
  <2> QED  BY <1>2, <2>1, <2>2, <2>3
<1>4. D # {}
  <2> HIDE DEF D
  <2> QED  BY <1>3
<1> HIDE DEF D
<1>5. Min(D) \in D /\ \A a \in D : Min(D) <= a
  BY <1>2, <1>4, MinIs
<1>6. Max(D) \in D /\ \A a \in D : Max(D) >= a
  <2>1. \A a \in D : a <= M
    BY <1>1, <1>2
  <2> QED  BY <1>1, <1>2, <1>4, <2>1, MaxIs
<1>7. \A a \in D : Min(D) <= a /\ a <= Max(D)
  BY <1>2, <1>5, <1>6
<1> QED  BY <1>3, <1>5, <1>6, <1>7 DEF D

(* What one request may read. *)
LEMMA OneRequestBounds ==
  ASSUME NEW sensors, NEW M, Listed(sensors, M), NEW group, group \subseteq DOMAIN sensors,
         NEW limits \in [quantity : Nat, gap : Nat], OneRequest(sensors, group, limits),
         NEW i \in group, NEW j \in group
  PROVE  /\ sensors[i].register_type = sensors[j].register_type
         /\ End(sensors[j]) - First(sensors[i]) <= limits.quantity
         /\ ~ \E t, u \in Nat : /\ u - t > limits.gap
                                /\ End(sensors[i]) <= t /\ First(sensors[j]) >= u
                                /\ \A k \in group : End(sensors[k]) <= t \/ First(sensors[k]) >= u
<1> DEFINE D == CoveredBy(sensors, group)
           q == limits.quantity
           g == limits.gap
           mn == Min(D)
           mx == Max(D)
<1>1. sensors \in Seq(SensorSettings) /\ M \in Nat /\ q \in Nat /\ g \in Nat
  BY DEF Listed
<1>2. /\ D \subseteq Nat
      /\ \A a : a \in D <=>
              a \in Nat /\ \E k \in group : First(sensors[k]) <= a /\ a < End(sensors[k])
      /\ \A a \in D : a < M
  BY CoveredIs
<1>3. /\ mn \in D /\ mx \in D /\ \A a \in D : mn <= a /\ a <= mx
      /\ \A k \in group : First(sensors[k]) \in D /\ End(sensors[k]) - 1 \in D
  BY CoveredBounds
<1>4. /\ \A k, c \in group : sensors[k].register_type = sensors[c].register_type
      /\ Cardinality(mn .. mx) <= q
      /\ \A a \in D : a = mx \/ a + g + 1 >= Min({b \in D : b > a})
  BY Zenon DEF OneRequest, CoveredBy
<1>5. \A k \in group : /\ First(sensors[k]) \in Nat /\ End(sensors[k]) \in Nat
                       /\ First(sensors[k]) < End(sensors[k])
  BY <1>1, SensorIs
<1> HIDE DEF D, q, g, mn, mx
<1>6. mn \in Nat /\ mx \in Nat /\ mn <= mx
  BY <1>2, <1>3
<1>7. mx - mn + 1 <= q
  BY <1>4, <1>6, FS_Interval
<1>8. End(sensors[j]) - First(sensors[i]) <= q
  <2>1. PICK s \in Nat : s = First(sensors[i])
    BY <1>5
  <2>2. PICK t \in Nat : t = End(sensors[j])
    BY <1>5
  <2>3. s \in D /\ t - 1 \in D
    BY <1>3, <2>1, <2>2
  <2>4. mn <= s /\ t - 1 <= mx
    BY <1>3, <2>3
  <2> QED  BY <1>1, <1>6, <1>7, <2>1, <2>2, <2>4
<1>9. ASSUME NEW t \in Nat, NEW u \in Nat, u - t > g,
             End(sensors[i]) <= t, First(sensors[j]) >= u,
             \A k \in group : End(sensors[k]) <= t \/ First(sensors[k]) >= u
      PROVE  FALSE
  <2> DEFINE B == {a \in D : a < t}
             a == Max(B)
             A == {b \in D : b > a}
             z == Min(A)
  <2>1. B \subseteq Nat /\ (\A y \in B : y <= M) /\ B # {}
    <3>1. PICK s \in D : s = First(sensors[i])
      BY <1>3
    <3>2. s < t
      BY <1>5, <1>9, <3>1
    <3> QED  BY <1>1, <1>2, <3>1, <3>2
  <2> HIDE DEF B
  <2>2. a \in B /\ \A y \in B : a >= y
    BY <1>1, <2>1, MaxIs
  <2>3. a \in D /\ a < t /\ a \in Nat
    BY <1>2, <2>2 DEF B
  <2> HIDE DEF a
  <2>4. PICK v \in D : v = First(sensors[j])
    BY <1>3
  <2>5. v \in Nat /\ v >= u /\ v > a
    BY <1>1, <1>2, <1>9, <2>3, <2>4
  <2>6. a # mx
    BY <1>3, <1>6, <2>3, <2>5
  <2>7. A # {} /\ A \subseteq Nat
    BY <1>2, <2>5
  <2> HIDE DEF A
  <2>8. z \in A
    BY <2>7, MinIs
  <2>9. z \in D /\ z > a /\ z \in Nat
    BY <1>2, <2>8 DEF A
  <2>10. a + g + 1 >= z
    BY <1>4, <2>3, <2>6 DEF A
  <2> HIDE DEF z
  <2>11. z >= t
    <3> SUFFICES ASSUME z < t PROVE FALSE
      BY <2>9
    <3>1. z \in B
      BY <2>9 DEF B
    <3>2. a >= z
      BY <2>2, <3>1
    <3> QED  BY <2>3, <2>9, <3>2
  <2>12. PICK k \in group : First(sensors[k]) <= z /\ z < End(sensors[k])
    BY <1>2, <2>9
  <2>13. First(sensors[k]) >= u
    <3>1. ~(End(sensors[k]) <= t)
      BY <1>5, <2>9, <2>11, <2>12
    <3> QED  BY <1>9, <3>1
  <2>14. z >= u
    BY <1>5, <2>9, <2>12, <2>13
  <2> QED  BY <1>1, <1>9, <2>3, <2>9, <2>10, <2>14
<1> QED  BY <1>4, <1>8, <1>9 DEF q, g

(* The sensors of one block. *)
GroupOf(order, n, P, b) == {order[m] : m \in {k \in 1 .. n : P[k] = b}}

(* The sensors of a block can be read by one request. *)
LEMMA BlockIsOneRequest ==
  ASSUME NEW sensors, NEW M, Listed(sensors, M),
         NEW type, NEW order, IsOrder(sensors, type, order),
         NEW plan, NEW P, NEW K, NEW limits \in [quantity : Nat, gap : Nat],
         Planned(sensors, type, order, Len(order), plan, limits.quantity, limits.gap, P, K),
         NEW b \in 1 .. Len(plan)
  PROVE  /\ OneRequest(sensors, GroupOf(order, Len(order), P, b), limits)
         /\ GroupOf(order, Len(order), P, b) # {}
         /\ plan[b].quantity \in 1 .. limits.quantity
<1> DEFINE q == limits.quantity
           g == limits.gap
           n == Len(order)
           f == Firsts(sensors, order)
           e == EndsIn(sensors, order)
           S == Starts(plan)
           T == Stops(plan)
           l == Len(plan)
           group == GroupOf(order, n, P, b)
           D == CoveredBy(sensors, group)
           mn == Min(D)
           mx == Max(D)
<1>1. sensors \in Seq(SensorSettings) /\ M \in Nat /\ q \in Nat /\ g \in Nat
  BY DEF Listed
<1>2. /\ Spans(n, f, e) /\ n \in Nat
      /\ \A m \in 1 .. n : /\ order[m] \in DOMAIN sensors
                           /\ f[m] = First(sensors[order[m]]) /\ e[m] = End(sensors[order[m]])
  BY <1>1, OrderSpans
<1>3. plan \in Seq(Blocks(sensors)) /\ Grouping(n, l, S, T, P, f, e, q, g)
  BY DEF Planned
<1>4. /\ l \in Nat /\ plan[b].start \in Nat /\ plan[b].quantity \in Nat
      /\ S[b] = plan[b].start /\ T[b] = plan[b].start + plan[b].quantity
  BY <1>3, PlanOfBlocks DEF Stop
<1>5. \A i : i \in group <=> \E m \in 1 .. n : P[m] = b /\ order[m] = i
  BY DEF GroupOf
<1>6. group \subseteq DOMAIN sensors
  BY <1>2, <1>5
<1>7. \A i \in group : sensors[i].register_type = type
  BY <1>5 DEF IsOrder
<1> HIDE DEF q, g, n, f, e, S, T, l, group, mn, mx, D
<1> DEFINE s == S[b]
           t == T[b]
<1>8. /\ t - s \in 1 .. q /\ s \in Nat /\ t \in Nat
      /\ \A m \in 1 .. n : P[m] = b => s <= f[m] /\ e[m] <= t
      /\ \E m \in 1 .. n : P[m] = b /\ e[m] = t
      /\ \E m \in 1 .. n : P[m] = b /\ f[m] = s
  <2>1. b \in 1 .. l
    BY DEF l
  <2>2. t - s \in 1 .. q
    BY <1>3, <2>1 DEF Grouping, Reaches
  <2>3. \A m \in 1 .. n : P[m] = b => s <= f[m] /\ e[m] <= t
    BY <1>3 DEF Grouping, Reaches
  <2>4. \E m \in 1 .. n : P[m] = b /\ e[m] = t
    BY <1>3, <2>1 DEF Grouping, Reaches
  <2>5. \E m \in 1 .. n : P[m] = b /\ f[m] = s
    BY <1>3, <2>1 DEF Grouping, Opened, Opens
  <2>6. s \in Nat /\ t \in Nat
    BY <1>4
  <2> QED  BY <2>2, <2>3, <2>4, <2>5, <2>6
<1> HIDE DEF s, t
<1>9. group # {}
  BY <1>5, <1>8
<1>10. /\ D \subseteq Nat
       /\ \A a : a \in D <=>
              a \in Nat /\ \E i \in group : First(sensors[i]) <= a /\ a < End(sensors[i])
  BY <1>6, CoveredIs DEF D
<1>11. /\ mn \in D /\ mx \in D /\ \A a \in D : mn <= a /\ a <= mx
       /\ \A i \in group : First(sensors[i]) \in D /\ End(sensors[i]) - 1 \in D
  BY <1>6, <1>9, CoveredBounds DEF D, mn, mx
<1>12. \A m \in 1 .. n : f[m] \in Nat /\ e[m] \in Nat /\ f[m] < e[m]
  BY <1>2 DEF Spans
<1>13. \A a : a \in D <=> a \in Nat /\ \E m \in 1 .. n : P[m] = b /\ f[m] <= a /\ a < e[m]
  BY <1>2, <1>5, <1>10
<1>14. s \in D /\ t - 1 \in D
  <2>1. PICK m \in 1 .. n : P[m] = b /\ f[m] = s
    BY <1>8
  <2>2. s \in D
    BY <1>8, <1>12, <1>13, <2>1
  <2>3. PICK k \in 1 .. n : P[k] = b /\ e[k] = t
    BY <1>8
  <2>4. f[k] \in Nat /\ f[k] < t
    BY <1>12, <2>3
  <2>5. t - 1 \in Nat /\ f[k] <= t - 1 /\ t - 1 < e[k]
    BY <1>8, <2>3, <2>4
  <2>6. t - 1 \in D
    BY <1>13, <2>3, <2>5
  <2> QED  BY <2>2, <2>6
<1>15. \A a \in D : a \in Nat /\ s <= a /\ a <= t - 1
  <2> SUFFICES ASSUME NEW a \in D PROVE a \in Nat /\ s <= a /\ a <= t - 1
    OBVIOUS
  <2>1. PICK m \in 1 .. n : P[m] = b /\ f[m] <= a /\ a < e[m]
    BY <1>13
  <2>2. a \in Nat /\ s <= f[m] /\ e[m] <= t /\ f[m] \in Nat /\ e[m] \in Nat
    BY <1>8, <1>12, <1>13, <2>1
  <2> QED  BY <1>8, <2>1, <2>2, SMTT(60)
<1>16. mn = s /\ mx = t - 1
  <2>1. mn <= s /\ t - 1 <= mx /\ s <= mn /\ mx <= t - 1 /\ mn \in Nat /\ mx \in Nat
    BY <1>11, <1>14, <1>15
  <2> QED  BY <1>8, <2>1
<1>17. Cardinality(mn .. mx) <= q
  <2>1. mn \in Int /\ mx \in Int /\ ~(mn > mx) /\ mx - mn + 1 = t - s
    BY <1>8, <1>16
  <2>2. Cardinality(mn .. mx) = t - s
    BY <2>1, FS_Interval
  <2> QED  BY <1>1, <1>8, <2>2
<1>18. \A a \in D : a = mx \/ a + g + 1 >= Min({c \in D : c > a})
  <2> SUFFICES ASSUME NEW a \in D, a # mx PROVE a + g + 1 >= Min({c \in D : c > a})
    OBVIOUS
  <2> DEFINE A == {c \in D : c > a}
             B == {m \in 1 .. n : P[m] = b /\ e[m] > a + 1}
  <2>1. a \in Nat /\ s <= a /\ a < t - 1
    BY <1>8, <1>15, <1>16
  <2>2. B # {} /\ B \subseteq Nat
    <3>1. PICK m \in 1 .. n : P[m] = b /\ e[m] = t
      BY <1>8
    <3>2. t > a + 1
      BY <1>8, <2>1
    <3> QED  BY <3>1, <3>2
  <2> HIDE DEF B
  <2>3. PICK m \in B : \A k \in B : m <= k
    BY <2>2, LeastOf
  <2>4. m \in 1 .. n /\ P[m] = b /\ e[m] > a + 1 /\ f[m] \in Nat /\ e[m] \in Nat
    BY <1>12, <2>3 DEF B
  <2>5. \E c \in A : a + g + 1 >= c
    <3>1. CASE f[m] <= a + 1
      <4>1. a + 1 \in D
        BY <1>13, <2>1, <2>4, <3>1
      <4> QED  BY <1>1, <2>1, <4>1
    <3>2. CASE f[m] > a + 1
      <4>1. f[m] \in D
        BY <1>12, <1>13, <2>4
      <4>2. f[m] # s
        BY <1>8, <2>1, <2>4, <3>2
      <4>3. f[m] = S[P[m]] \/ \E k \in 1 .. m - 1 : P[k] = P[m] /\ f[m] - e[k] <= g
        BY <1>3, <2>4 DEF Grouping, Close
      <4>4. PICK k \in 1 .. m - 1 : P[k] = b /\ f[m] - e[k] <= g
        BY <2>4, <4>2, <4>3 DEF s
      <4>5. k \in 1 .. n /\ k < m
        BY <1>2, <2>4
      <4>6. e[k] \in Nat /\ ~(e[k] > a + 1)
        <5>1. k \notin B
          BY <2>3, <2>4, <4>5
        <5> QED  BY <1>12, <4>4, <4>5, <5>1 DEF B
      <4>7. a + g + 1 >= f[m]
        BY <1>1, <2>1, <2>4, <4>4, <4>6, SMTT(60)
      <4> QED  BY <2>1, <2>4, <3>2, <4>1, <4>7
    <3> QED  BY <2>1, <2>4, <3>1, <3>2
  <2>6. A \subseteq Nat /\ A # {}
    BY <1>15, <2>5
  <2> HIDE DEF A
  <2>7. Min(A) \in A /\ \A c \in A : Min(A) <= c
    BY <2>6, MinIs
  <2>8. PICK c \in A : a + g + 1 >= c
    BY <2>5
  <2>9. Min(A) <= c /\ Min(A) \in Nat /\ c \in Nat
    BY <2>6, <2>7
  <2>10. a + g + 1 >= Min(A)
    BY <1>1, <2>1, <2>8, <2>9
  <2> QED  BY <2>10 DEF A
<1>19. \A i, j \in group : sensors[i].register_type = sensors[j].register_type
  BY <1>7
<1>20. OneRequest(sensors, group, limits)
  BY <1>17, <1>18, <1>19, Zenon DEF OneRequest, CoveredBy, D, mn, mx, q, g
<1>21. plan[b].quantity \in 1 .. q
  <2> DEFINE z == plan[b].quantity a == plan[b].start
  <2>1. a \in Nat /\ z \in Nat /\ s = a /\ t = a + z
    BY <1>4 DEF s, t
  <2> HIDE DEF z, a
  <2>2. z \in 1 .. q
    BY <1>8, <2>1
  <2> QED  BY <2>2 DEF z
<1> QED  BY <1>9, <1>20, <1>21 DEF group, q, n

(***************************************************************************)
(* A plan for the sensors of a set: sensor i is in block B[i], at K[i];     *)
(* block b is opened by sensor O[b].                                         *)
(***************************************************************************)
Places(M, plan, B, K) ==
  /\ B \in [M -> 1 .. Len(plan)] /\ K \in [M -> Nat]
  /\ \A i \in M : K[i] \in 1 .. Len(plan[B[i]].indices) /\ plan[B[i]].indices[K[i]] = i
  /\ \A b \in 1 .. Len(plan) : \A k \in 1 .. Len(plan[b].indices) :
        plan[b].indices[k] \in M /\ B[plan[b].indices[k]] = b /\ K[plan[b].indices[k]] = k

(* A block reads the registers of its sensors and none beyond the last. *)
Inside(sensors, M, plan, B) ==
  /\ \A i \in M : /\ plan[B[i]].register_type = sensors[i].register_type
                  /\ plan[B[i]].start <= First(sensors[i]) /\ End(sensors[i]) <= Stop(plan[B[i]])
  /\ \A b \in 1 .. Len(plan) : \E i \in M : B[i] = b /\ End(sensors[i]) = Stop(plan[b])

(* The sensors of a block. *)
InBlock(M, B, b) == {i \in M : B[i] = b}

(* Every block is one request within the limits. *)
Requests(sensors, limits, M, plan, B) ==
  \A b \in 1 .. Len(plan) : /\ plan[b].quantity \in 1 .. limits.quantity
                            /\ OneRequest(sensors, InBlock(M, B, b), limits)

(* No request can read two of these. *)
Separate(sensors, limits, x, y) ==
  \A group \in SUBSET DOMAIN sensors : OneRequest(sensors, group, limits) => ~(x \in group /\ y \in group)

(* Every block was opened by a sensor no other block could take along. *)
Openers(sensors, limits, M, plan, B, O) ==
  /\ O \in [1 .. Len(plan) -> M]
  /\ \A b \in 1 .. Len(plan) : B[O[b]] = b
  /\ \A b, c \in 1 .. Len(plan) : b < c => Separate(sensors, limits, O[b], O[c])

(* All that a plan is for the sensors of a set. *)
PlanFor(sensors, limits, M, plan, B, K, O) ==
  /\ plan \in Seq(Blocks(sensors))
  /\ Places(M, plan, B, K)
  /\ Inside(sensors, M, plan, B)
  /\ Requests(sensors, limits, M, plan, B)
  /\ Openers(sensors, limits, M, plan, B, O)

(* The sensors of one type. *)
OfType(sensors, type) == {i \in DOMAIN sensors : sensors[i].register_type = type}

(* The first sensors of two blocks are not read by one request. *)
LEMMA OpenersAreSeparate ==
  ASSUME NEW sensors, NEW M, Listed(sensors, M),
         NEW type, NEW order, IsOrder(sensors, type, order),
         NEW plan, NEW P, NEW K, NEW limits \in [quantity : Nat, gap : Nat],
         Planned(sensors, type, order, Len(order), plan, limits.quantity, limits.gap, P, K),
         NEW b \in 1 .. Len(plan), NEW c \in 1 .. Len(plan), b < c,
         NEW x \in 1 .. Len(order), NEW y \in 1 .. Len(order),
         Opens(x, b, Len(order), Starts(plan), Stops(plan), P, Firsts(sensors, order),
               EndsIn(sensors, order), limits.quantity, limits.gap),
         Opens(y, c, Len(order), Starts(plan), Stops(plan), P, Firsts(sensors, order),
               EndsIn(sensors, order), limits.quantity, limits.gap)
  PROVE  Separate(sensors, limits, order[x], order[y])
<1> DEFINE q == limits.quantity
           g == limits.gap
           n == Len(order)
           f == Firsts(sensors, order)
           e == EndsIn(sensors, order)
           S == Starts(plan)
           T == Stops(plan)
           l == Len(plan)
<1>1. sensors \in Seq(SensorSettings) /\ M \in Nat /\ q \in Nat /\ g \in Nat
  BY DEF Listed
<1>2. /\ Spans(n, f, e) /\ n \in Nat
      /\ \A m \in 1 .. n : /\ order[m] \in DOMAIN sensors
                           /\ f[m] = First(sensors[order[m]]) /\ e[m] = End(sensors[order[m]])
  BY <1>1, OrderSpans
<1>3. Grouping(n, l, S, T, P, f, e, q, g)
  BY DEF Planned
<1>4. Parted(n, f, e, q, g, x, y)
  <2> HIDE DEF q, g, n, f, e, S, T, l
  <2>1. /\ b \in 1 .. l /\ c \in 1 .. l /\ x \in 1 .. n /\ y \in 1 .. n
        /\ Opens(x, b, n, S, T, P, f, e, q, g) /\ Opens(y, c, n, S, T, P, f, e, q, g)
    BY DEF q, g, n, f, e, S, T, l
  <2>2. Spans(n, f, e)
    BY <1>2
  <2>3. b < c
    OBVIOUS
  <2> QED  BY <1>1, <1>3, <2>1, <2>2, <2>3, Apart
<1> SUFFICES ASSUME NEW group \in SUBSET DOMAIN sensors, OneRequest(sensors, group, limits),
                    order[x] \in group, order[y] \in group
             PROVE  FALSE
  BY DEF Separate
<1>5. /\ \A k \in group : sensors[order[x]].register_type = sensors[k].register_type
      /\ End(sensors[order[y]]) - First(sensors[order[x]]) <= q
      /\ ~ \E t, u \in Nat : /\ u - t > g
                             /\ End(sensors[order[x]]) <= t /\ First(sensors[order[y]]) >= u
                             /\ \A k \in group : End(sensors[k]) <= t \/ First(sensors[k]) >= u
  <2> SUFFICES ASSUME NEW k \in group
               PROVE  /\ sensors[order[x]].register_type = sensors[k].register_type
                      /\ End(sensors[order[y]]) - First(sensors[order[x]]) <= q
                      /\ ~ \E t, u \in Nat : /\ u - t > g
                             /\ End(sensors[order[x]]) <= t /\ First(sensors[order[y]]) >= u
                             /\ \A z \in group : End(sensors[z]) <= t \/ First(sensors[z]) >= u
    OBVIOUS
  <2>1. group \subseteq DOMAIN sensors
    OBVIOUS
  <2>2. sensors[order[x]].register_type = sensors[k].register_type
    BY <2>1, OneRequestBounds
  <2>3. /\ End(sensors[order[y]]) - First(sensors[order[x]]) <= q
        /\ ~ \E t, u \in Nat : /\ u - t > g
                             /\ End(sensors[order[x]]) <= t /\ First(sensors[order[y]]) >= u
                             /\ \A z \in group : End(sensors[z]) <= t \/ First(sensors[z]) >= u
    BY <2>1, OneRequestBounds, Zenon
  <2> QED  BY <2>2, <2>3
<1>6. \A k \in group : \E m \in 1 .. n : order[m] = k
  <2> SUFFICES ASSUME NEW k \in group PROVE \E m \in 1 .. n : order[m] = k
    OBVIOUS
  <2>1. sensors[order[x]].register_type = type
    BY DEF IsOrder
  <2>2. sensors[k].register_type = type /\ k \in DOMAIN sensors
    BY <1>5, <2>1
  <2> QED  BY <2>2 DEF IsOrder
<1> HIDE DEF q, g, n, f, e
<1>7. x \in 1 .. n /\ y \in 1 .. n
  BY DEF n
<1>8. e[y] = End(sensors[order[y]]) /\ f[x] = First(sensors[order[x]])
      /\ e[x] = End(sensors[order[x]]) /\ f[y] = First(sensors[order[y]])
  BY <1>2, <1>7
<1>9. e[y] \in Nat /\ f[x] \in Nat
  BY <1>2, <1>7 DEF Spans
<1>10. ~(e[y] - f[x] > q)
  <2> DEFINE a == e[y] d == f[x]
  <2>1. a - d <= q /\ a \in Nat /\ d \in Nat
    BY <1>5, <1>8, <1>9
  <2> HIDE DEF a, d
  <2>2. ~(a - d > q)
    BY <1>1, <2>1
  <2> QED  BY <2>2 DEF a, d
<1>11. PICK t \in Nat : \E u \in Nat : /\ u - t > g /\ e[x] <= t /\ f[y] >= u
                           /\ \A m \in 1 .. n : e[m] <= t \/ f[m] >= u
  BY <1>4, <1>10 DEF Parted
<1>12. PICK u \in Nat : /\ u - t > g /\ e[x] <= t /\ f[y] >= u
                        /\ \A m \in 1 .. n : e[m] <= t \/ f[m] >= u
  BY <1>11
<1>13. \A k \in group : End(sensors[k]) <= t \/ First(sensors[k]) >= u
  <2> SUFFICES ASSUME NEW k \in group PROVE End(sensors[k]) <= t \/ First(sensors[k]) >= u
    OBVIOUS
  <2>1. PICK m \in 1 .. n : order[m] = k
    BY <1>6
  <2>2. e[m] = End(sensors[k]) /\ f[m] = First(sensors[k])
    BY <1>2, <2>1
  <2> QED  BY <1>12, <2>2
<1>14. End(sensors[order[x]]) <= t /\ First(sensors[order[y]]) >= u
  BY <1>8, <1>12
<1> QED  BY <1>5, <1>12, <1>13, <1>14

(* The blocks of one register type are a plan for its sensors. *)
LEMMA PlanOfOneType ==
  ASSUME NEW sensors, NEW L, Listed(sensors, L),
         NEW type, NEW order, IsOrder(sensors, type, order),
         NEW plan, NEW P, NEW J, NEW limits \in [quantity : Nat, gap : Nat],
         Planned(sensors, type, order, Len(order), plan, limits.quantity, limits.gap, P, J)
  PROVE  \E B, K, O : PlanFor(sensors, limits, OfType(sensors, type), plan, B, K, O)
<1> DEFINE q == limits.quantity
           g == limits.gap
           n == Len(order)
           f == Firsts(sensors, order)
           e == EndsIn(sensors, order)
           S == Starts(plan)
           T == Stops(plan)
           l == Len(plan)
           M == OfType(sensors, type)
           Opener(m, b) == Opens(m, b, n, S, T, P, f, e, q, g)
<1>1. sensors \in Seq(SensorSettings) /\ L \in Nat /\ q \in Nat /\ g \in Nat
  BY DEF Listed
<1>2. /\ Spans(n, f, e) /\ n \in Nat
      /\ \A m \in 1 .. n : /\ order[m] \in DOMAIN sensors
                           /\ f[m] = First(sensors[order[m]]) /\ e[m] = End(sensors[order[m]])
  BY <1>1, OrderSpans
<1>3. /\ plan \in Seq(Blocks(sensors)) /\ Grouping(n, l, S, T, P, f, e, q, g)
      /\ \A b \in 1 .. l : plan[b].register_type = type
      /\ Held(order, n, plan, P, J)
  BY DEF Planned
<1>4. /\ l \in Nat
      /\ \A b \in 1 .. l : S[b] = plan[b].start /\ T[b] = Stop(plan[b]) /\ T[b] \in Nat
  BY <1>3, PlanOfBlocks
<1>5. /\ \A m \in 1 .. n : order[m] \in M
      /\ \A i \in M : i \in DOMAIN sensors /\ sensors[i].register_type = type
      /\ \A m, k \in 1 .. n : order[m] = order[k] => m = k
      /\ \A i \in M : \E m \in 1 .. n : order[m] = i
  <2>1. \A m \in 1 .. n : sensors[order[m]].register_type = type
    BY DEF IsOrder
  <2>2. \A m \in 1 .. n : order[m] \in M
    BY <1>2, <2>1 DEF OfType
  <2>3. \A i \in M : i \in DOMAIN sensors /\ sensors[i].register_type = type
    BY DEF OfType
  <2>4. \A m, k \in 1 .. n : order[m] = order[k] => m = k
    BY DEF IsOrder
  <2>5. \A i \in M : \E m \in 1 .. n : order[m] = i
    BY <2>3 DEF IsOrder
  <2> QED  BY <2>2, <2>3, <2>4, <2>5
<1>6. /\ P \in [1 .. n -> 1 .. l]
      /\ \A m \in 1 .. n : S[P[m]] <= f[m] /\ e[m] <= T[P[m]]
      /\ \A b \in 1 .. l : \E m \in 1 .. n : P[m] = b /\ e[m] = T[b]
      /\ \A b \in 1 .. l : \E m \in 1 .. n : Opener(m, b)
  <2>1. P \in [1 .. n -> 1 .. l]
    BY <1>3 DEF Grouping, Groups
  <2>2. /\ \A m \in 1 .. n : S[P[m]] <= f[m] /\ e[m] <= T[P[m]]
        /\ \A b \in 1 .. l : \E m \in 1 .. n : P[m] = b /\ e[m] = T[b]
    BY <1>3 DEF Grouping, Reaches
  <2>3. \A b \in 1 .. l : \E m \in 1 .. n : Opener(m, b)
    BY <1>3 DEF Grouping, Opened
  <2> QED  BY <2>1, <2>2, <2>3
<1>7. \A m, b : Opener(m, b) => P[m] = b
  BY DEF Opens
<1>8. \A b, c \in 1 .. l, x, y \in 1 .. n : b < c /\ Opener(x, b) /\ Opener(y, c) =>
        Separate(sensors, limits, order[x], order[y])
  <2> SUFFICES ASSUME NEW b \in 1 .. l, NEW c \in 1 .. l, NEW x \in 1 .. n, NEW y \in 1 .. n,
                      b < c, Opener(x, b), Opener(y, c)
               PROVE  Separate(sensors, limits, order[x], order[y])
    OBVIOUS
  <2> QED  BY OpenersAreSeparate
<1>9. \A b \in 1 .. l : /\ OneRequest(sensors, GroupOf(order, n, P, b), limits)
                        /\ plan[b].quantity \in 1 .. q
  <2> SUFFICES ASSUME NEW b \in 1 .. l
               PROVE  /\ OneRequest(sensors, GroupOf(order, n, P, b), limits)
                      /\ plan[b].quantity \in 1 .. q
    OBVIOUS
  <2> QED  BY BlockIsOneRequest
<1> DEFINE at == [i \in M |-> CHOOSE m \in 1 .. n : order[m] = i]
           B == [i \in M |-> P[at[i]]]
           K == [i \in M |-> J[at[i]]]
           O == [b \in 1 .. l |-> order[CHOOSE m \in 1 .. n : Opener(m, b)]]
<1> HIDE DEF q, g, n, f, e, S, T, l, M, Opener
<1>10. /\ \A i \in M : at[i] \in 1 .. n /\ order[at[i]] = i
       /\ \A m \in 1 .. n : order[m] \in M /\ at[order[m]] = m
  <2>1. \A i \in M : at[i] \in 1 .. n /\ order[at[i]] = i
    BY <1>5
  <2> HIDE DEF at
  <2> QED  BY <1>5, <2>1
<1>11. \A b \in 1 .. l : \E m \in 1 .. n : Opener(m, b) /\ O[b] = order[m]
  BY <1>6
<1>12. \A i \in M : B[i] = P[at[i]] /\ K[i] = J[at[i]]
  OBVIOUS
<1>13. DOMAIN O = 1 .. l /\ O = [b \in 1 .. l |-> O[b]] /\ B = [i \in M |-> B[i]] /\ K = [i \in M |-> K[i]]
  OBVIOUS
<1> HIDE DEF at, B, K, O
<1>14. /\ J \in [1 .. n -> Nat]
       /\ \A m \in 1 .. n : /\ J[m] \in 1 .. Len(plan[P[m]].indices)
                            /\ plan[P[m]].indices[J[m]] = order[m]
       /\ \A b \in 1 .. l : \A k \in 1 .. Len(plan[b].indices) :
             \E m \in 1 .. n : P[m] = b /\ J[m] = k
  BY <1>3 DEF Held, l
<1>15. /\ B \in [M -> 1 .. l] /\ K \in [M -> Nat]
  <2>1. \A i \in M : B[i] \in 1 .. l /\ K[i] \in Nat
    BY <1>6, <1>10, <1>12, <1>14, SMTT(60)
  <2> QED  BY <1>13, <2>1
<1>16. Places(M, plan, B, K)
  <2>1. \A i \in M : K[i] \in 1 .. Len(plan[B[i]].indices) /\ plan[B[i]].indices[K[i]] = i
    BY <1>10, <1>12, <1>14
  <2>2. ASSUME NEW b \in 1 .. l, NEW k \in 1 .. Len(plan[b].indices)
        PROVE  plan[b].indices[k] \in M /\ B[plan[b].indices[k]] = b /\ K[plan[b].indices[k]] = k
    <3>1. PICK m \in 1 .. n : P[m] = b /\ J[m] = k
      BY <1>14
    <3>2. plan[b].indices[k] = order[m]
      BY <1>14, <3>1
    <3>3. order[m] \in M /\ B[order[m]] = b /\ K[order[m]] = k
      BY <1>10, <1>12, <3>1
    <3> QED  BY <3>2, <3>3
  <2> QED  BY <1>15, <2>1, <2>2 DEF Places, l
<1>17. Inside(sensors, M, plan, B)
  <2>1. \A i \in M : /\ plan[B[i]].register_type = sensors[i].register_type
                     /\ plan[B[i]].start <= First(sensors[i]) /\ End(sensors[i]) <= Stop(plan[B[i]])
    <3> SUFFICES ASSUME NEW i \in M
                 PROVE  /\ plan[B[i]].register_type = sensors[i].register_type
                        /\ plan[B[i]].start <= First(sensors[i]) /\ End(sensors[i]) <= Stop(plan[B[i]])
      OBVIOUS
    <3>1. PICK m \in 1 .. n : order[m] = i /\ B[i] = P[m] /\ P[m] \in 1 .. l
      BY <1>6, <1>10, <1>12
    <3>2. f[m] = First(sensors[i]) /\ e[m] = End(sensors[i])
      BY <1>2, <3>1
    <3>3. S[P[m]] <= f[m] /\ e[m] <= T[P[m]]
      BY <1>6
    <3>4. S[P[m]] = plan[B[i]].start /\ T[P[m]] = Stop(plan[B[i]])
      BY <1>4, <3>1
    <3>5. plan[B[i]].register_type = type /\ sensors[i].register_type = type
      BY <1>3, <1>5, <3>1
    <3> QED  BY <3>2, <3>3, <3>4, <3>5
  <2>2. \A b \in 1 .. l : \E i \in M : B[i] = b /\ End(sensors[i]) = Stop(plan[b])
    <3> SUFFICES ASSUME NEW b \in 1 .. l PROVE \E i \in M : B[i] = b /\ End(sensors[i]) = Stop(plan[b])
      OBVIOUS
    <3>1. PICK m \in 1 .. n : P[m] = b /\ e[m] = T[b]
      BY <1>6
    <3>2. order[m] \in M /\ B[order[m]] = b /\ End(sensors[order[m]]) = Stop(plan[b])
      BY <1>2, <1>4, <1>10, <1>12, <3>1
    <3> QED  BY <3>2
  <2> QED  BY <2>1, <2>2 DEF Inside, l
<1>18. \A b \in 1 .. l : InBlock(M, B, b) = GroupOf(order, n, P, b)
  <2> SUFFICES ASSUME NEW b \in 1 .. l PROVE InBlock(M, B, b) = GroupOf(order, n, P, b)
    OBVIOUS
  <2>1. \A i : i \in InBlock(M, B, b) => i \in GroupOf(order, n, P, b)
    BY <1>10, <1>12 DEF InBlock, GroupOf
  <2>2. \A i : i \in GroupOf(order, n, P, b) => i \in InBlock(M, B, b)
    BY <1>10, <1>12 DEF InBlock, GroupOf
  <2> QED  BY <2>1, <2>2
<1>19. Requests(sensors, limits, M, plan, B)
  BY <1>9, <1>18 DEF Requests, l, q
<1>20. Openers(sensors, limits, M, plan, B, O)
  <2>1. \A b \in 1 .. l : O[b] \in M /\ B[O[b]] = b
    BY <1>7, <1>10, <1>11, <1>12
  <2>2. \A b, c \in 1 .. l : b < c => Separate(sensors, limits, O[b], O[c])
    BY <1>8, <1>11
  <2>3. O \in [1 .. l -> M]
    BY <1>13, <2>1
  <2> QED  BY <2>1, <2>2, <2>3 DEF Openers, l
<1>21. PlanFor(sensors, limits, M, plan, B, K, O)
  BY <1>3, <1>16, <1>17, <1>19, <1>20 DEF PlanFor
<1> QED  BY <1>21 DEF M

(* A plan for some sensors, then one for others of another type. *)
LEMMA JoinedPlans ==
  ASSUME NEW sensors, NEW limits, NEW M, NEW N,
         \A i \in M, j \in N : i # j /\ sensors[i].register_type # sensors[j].register_type,
         NEW first, NEW B, NEW K, NEW O, PlanFor(sensors, limits, M, first, B, K, O),
         NEW second, NEW C, NEW J, NEW Q, PlanFor(sensors, limits, N, second, C, J, Q)
  PROVE  \E R, H, W : PlanFor(sensors, limits, M \union N, first \o second, R, H, W)
<1> DEFINE a == Len(first)
           z == Len(second)
           plan == first \o second
           A == M \union N
           R == [i \in A |-> IF i \in M THEN B[i] ELSE a + C[i]]
           H == [i \in A |-> IF i \in M THEN K[i] ELSE J[i]]
           W == [b \in 1 .. a + z |-> IF b \in 1 .. a THEN O[b] ELSE Q[b - a]]
<1>1. /\ first \in Seq(Blocks(sensors)) /\ second \in Seq(Blocks(sensors))
      /\ Places(M, first, B, K) /\ Places(N, second, C, J)
      /\ Inside(sensors, M, first, B) /\ Inside(sensors, N, second, C)
  BY DEF PlanFor
<1>2. /\ Requests(sensors, limits, M, first, B) /\ Requests(sensors, limits, N, second, C)
      /\ Openers(sensors, limits, M, first, B, O) /\ Openers(sensors, limits, N, second, C, Q)
  BY DEF PlanFor
<1>3. /\ plan \in Seq(Blocks(sensors)) /\ a \in Nat /\ z \in Nat /\ Len(plan) = a + z
      /\ \A b \in 1 .. a : plan[b] = first[b]
      /\ \A b \in 1 .. z : plan[a + b] = second[b]
  BY <1>1, ConcatIs
<1> HIDE DEF plan
<1>4. /\ B \in [M -> 1 .. a] /\ K \in [M -> Nat] /\ C \in [N -> 1 .. z] /\ J \in [N -> Nat]
  BY <1>1 DEF Places
<1>5. O \in [1 .. a -> M] /\ Q \in [1 .. z -> N]
  BY <1>2 DEF Openers
<1> HIDE DEF a, z
<1>6. \A b \in 1 .. a + z : b \in 1 .. a \/ \E c \in 1 .. z : b = a + c
  <2> SUFFICES ASSUME NEW b \in 1 .. a + z, b \notin 1 .. a PROVE \E c \in 1 .. z : b = a + c
    OBVIOUS
  <2>1. b - a \in 1 .. z /\ b = a + (b - a)
    BY <1>3
  <2> QED  BY <2>1
<1>7. /\ \A b \in 1 .. a : b \in 1 .. a + z
      /\ \A b \in 1 .. z : a + b \in 1 .. a + z /\ a + b \notin 1 .. a /\ a + b - a = b
  BY <1>3
<1>8. \A i : ~(i \in M /\ i \in N)
  OBVIOUS
<1>9. /\ \A i \in M : i \in A /\ R[i] = B[i] /\ H[i] = K[i]
      /\ \A i \in N : i \in A /\ R[i] = a + C[i] /\ H[i] = J[i]
      /\ \A b \in 1 .. a : W[b] = O[b]
      /\ \A b \in 1 .. z : W[a + b] = Q[b]
  <2>1. /\ \A i \in M : i \in A /\ R[i] = B[i] /\ H[i] = K[i]
        /\ \A i \in N : i \in A /\ R[i] = a + C[i] /\ H[i] = J[i]
    BY <1>8
  <2>2. \A b \in 1 .. a : W[b] = O[b]
    <3> SUFFICES ASSUME NEW b \in 1 .. a PROVE W[b] = O[b]
      OBVIOUS
    <3>1. b \in 1 .. a + z
      BY <1>7
    <3> QED  BY <3>1
  <2>3. \A b \in 1 .. z : W[a + b] = Q[b]
    <3> SUFFICES ASSUME NEW b \in 1 .. z PROVE W[a + b] = Q[b]
      OBVIOUS
    <3>1. PICK d \in 1 .. a + z : d = a + b /\ d \notin 1 .. a /\ d - a = b
      BY <1>3, <1>7
    <3>2. W[d] = Q[d - a]
      BY <3>1
    <3> QED  BY <3>1, <3>2
  <2> QED  BY <2>1, <2>2, <2>3
<1>10. /\ R = [i \in A |-> R[i]] /\ H = [i \in A |-> H[i]] /\ W = [b \in 1 .. a + z |-> W[b]]
       /\ \A i \in A : i \in M \/ i \in N
  OBVIOUS
<1> HIDE DEF A, R, H, W
<1>11. \A i \in M : B[i] \in 1 .. a /\ R[i] \in 1 .. a /\ R[i] \in 1 .. a + z /\ plan[R[i]] = first[B[i]]
  BY <1>3, <1>4, <1>7, <1>9
<1>12. \A i \in N : C[i] \in 1 .. z /\ R[i] \in 1 .. a + z /\ R[i] \notin 1 .. a /\ plan[R[i]] = second[C[i]]
  BY <1>3, <1>4, <1>7, <1>9
<1>13. R \in [A -> 1 .. a + z] /\ H \in [A -> Nat]
  <2>1. \A i \in A : R[i] \in 1 .. a + z
    BY <1>10, <1>11, <1>12
  <2>2. \A i \in A : H[i] \in Nat
    BY <1>4, <1>9, <1>10, ZenonT(60)
  <2> QED  BY <1>10, <2>1, <2>2
<1>14. Places(A, plan, R, H)
  <2>1. ASSUME NEW i \in A
        PROVE  H[i] \in 1 .. Len(plan[R[i]].indices) /\ plan[R[i]].indices[H[i]] = i
    <3>1. CASE i \in M
      <4>1. K[i] \in 1 .. Len(first[B[i]].indices) /\ first[B[i]].indices[K[i]] = i
        BY <1>1, <3>1 DEF Places
      <4> QED  BY <1>9, <1>11, <3>1, <4>1
    <3>2. CASE i \in N
      <4>1. J[i] \in 1 .. Len(second[C[i]].indices) /\ second[C[i]].indices[J[i]] = i
        BY <1>1, <3>2 DEF Places
      <4> QED  BY <1>9, <1>12, <3>2, <4>1
    <3> QED  BY <1>10, <3>1, <3>2
  <2>2. ASSUME NEW b \in 1 .. a + z, NEW k \in 1 .. Len(plan[b].indices)
        PROVE  plan[b].indices[k] \in A /\ R[plan[b].indices[k]] = b /\ H[plan[b].indices[k]] = k
    <3>1. CASE b \in 1 .. a
      <4>1. plan[b] = first[b]
        BY <1>3, <3>1
      <4>2. PICK i \in M : i = first[b].indices[k] /\ B[i] = b /\ K[i] = k
        BY <1>1, <3>1, <4>1 DEF Places, a
      <4> QED  BY <1>9, <4>1, <4>2
    <3>2. CASE b \notin 1 .. a
      <4>1. PICK c \in 1 .. z : b = a + c
        BY <1>6, <3>2
      <4>2. plan[b] = second[c]
        BY <1>3, <4>1
      <4>3. PICK i \in N : i = second[c].indices[k] /\ C[i] = c /\ J[i] = k
        BY <1>1, <4>1, <4>2 DEF Places, z
      <4> QED  BY <1>9, <4>1, <4>2, <4>3
    <3> QED  BY <3>1, <3>2
  <2>3. \A b \in 1 .. Len(plan) : \A k \in 1 .. Len(plan[b].indices) :
          plan[b].indices[k] \in A /\ R[plan[b].indices[k]] = b /\ H[plan[b].indices[k]] = k
    BY <1>3, <2>2
  <2> QED  BY <1>3, <1>13, <2>1, <2>3 DEF Places
<1>15. Inside(sensors, A, plan, R)
  <2>1. ASSUME NEW i \in A
        PROVE  /\ plan[R[i]].register_type = sensors[i].register_type
               /\ plan[R[i]].start <= First(sensors[i]) /\ End(sensors[i]) <= Stop(plan[R[i]])
    <3>1. CASE i \in M
      BY <1>1, <1>11, <3>1 DEF Inside
    <3>2. CASE i \in N
      BY <1>1, <1>12, <3>2 DEF Inside
    <3> QED  BY <1>10, <3>1, <3>2
  <2>2. ASSUME NEW b \in 1 .. a + z
        PROVE  \E i \in A : R[i] = b /\ End(sensors[i]) = Stop(plan[b])
    <3>1. CASE b \in 1 .. a
      <4>1. PICK i \in M : B[i] = b /\ End(sensors[i]) = Stop(first[b])
        BY <1>1, <3>1 DEF Inside, a
      <4> QED  BY <1>3, <1>9, <3>1, <4>1
    <3>2. CASE b \notin 1 .. a
      <4>1. PICK c \in 1 .. z : b = a + c
        BY <1>6, <3>2
      <4>2. PICK i \in N : C[i] = c /\ End(sensors[i]) = Stop(second[c])
        BY <1>1 DEF Inside, z
      <4> QED  BY <1>3, <1>9, <4>1, <4>2
    <3> QED  BY <3>1, <3>2
  <2> QED  BY <1>3, <2>1, <2>2 DEF Inside
<1>16. Requests(sensors, limits, A, plan, R)
  <2>1. ASSUME NEW b \in 1 .. a + z
        PROVE  /\ plan[b].quantity \in 1 .. limits.quantity
               /\ OneRequest(sensors, InBlock(A, R, b), limits)
    <3>1. CASE b \in 1 .. a
      <4>1. InBlock(A, R, b) = InBlock(M, B, b)
        <5>1. \A i \in N : R[i] # b
          BY <1>12, <3>1
        <5> QED  BY <1>9, <1>10, <5>1 DEF InBlock
      <4>2. /\ first[b].quantity \in 1 .. limits.quantity
            /\ OneRequest(sensors, InBlock(M, B, b), limits)
        BY <1>2, <3>1 DEF Requests, a
      <4> QED  BY <1>3, <3>1, <4>1, <4>2
    <3>2. CASE b \notin 1 .. a
      <4>1. PICK c \in 1 .. z : b = a + c
        BY <1>6, <3>2
      <4>2. InBlock(A, R, b) = InBlock(N, C, c)
        <5>1. \A i \in M : R[i] # b
          BY <1>11, <3>2
        <5>2. \A i \in N : R[i] = b <=> C[i] = c
          <6> SUFFICES ASSUME NEW i \in N PROVE R[i] = b <=> C[i] = c
            OBVIOUS
          <6>1. R[i] = a + C[i] /\ C[i] \in Int
            BY <1>9, <1>12
          <6>2. PICK d \in Int : d = C[i]
            BY <6>1
          <6>3. a + d = a + c <=> d = c
            BY <1>3
          <6> QED  BY <4>1, <6>1, <6>2, <6>3
        <5> QED  BY <1>9, <1>10, <5>1, <5>2 DEF InBlock
      <4>3. /\ second[c].quantity \in 1 .. limits.quantity
            /\ OneRequest(sensors, InBlock(N, C, c), limits)
        BY <1>2 DEF Requests, z
      <4> QED  BY <1>3, <4>1, <4>2, <4>3
    <3> QED  BY <3>1, <3>2
  <2> QED  BY <1>3, <2>1 DEF Requests
<1>17. Openers(sensors, limits, A, plan, R, W)
  <2>1. \A b \in 1 .. a : O[b] \in M /\ W[b] \in A /\ R[W[b]] = b
    <3> SUFFICES ASSUME NEW b \in 1 .. a PROVE O[b] \in M /\ W[b] \in A /\ R[W[b]] = b
      OBVIOUS
    <3>1. O[b] \in M /\ B[O[b]] = b
      BY <1>2, <1>5 DEF Openers, a
    <3> QED  BY <1>9, <3>1
  <2>2. \A c \in 1 .. z : Q[c] \in N /\ W[a + c] \in A /\ R[W[a + c]] = a + c
    <3> SUFFICES ASSUME NEW c \in 1 .. z PROVE Q[c] \in N /\ W[a + c] \in A /\ R[W[a + c]] = a + c
      OBVIOUS
    <3>1. Q[c] \in N /\ C[Q[c]] = c
      BY <1>2, <1>5 DEF Openers, z
    <3> QED  BY <1>9, <3>1
  <2>3. \A b \in 1 .. a + z : W[b] \in A /\ R[W[b]] = b
    BY <1>6, <2>1, <2>2
  <2>4. W \in [1 .. a + z -> A]
    BY <1>10, <2>3
  <2>5. \A b, c \in 1 .. a + z : b < c => Separate(sensors, limits, W[b], W[c])
    <3> SUFFICES ASSUME NEW b \in 1 .. a + z, NEW c \in 1 .. a + z, b < c
                 PROVE  Separate(sensors, limits, W[b], W[c])
      OBVIOUS
    <3>1. CASE c \in 1 .. a
      <4>1. b \in 1 .. a
        BY <1>3, <3>1
      <4>2. Separate(sensors, limits, O[b], O[c])
        BY <1>2, <3>1, <4>1 DEF Openers, a
      <4> QED  BY <1>9, <3>1, <4>1, <4>2
    <3>2. CASE b \in 1 .. a /\ c \notin 1 .. a
      <4>1. PICK y \in 1 .. z : c = a + y
        BY <1>6, <3>2
      <4>2. W[b] = O[b] /\ O[b] \in M /\ W[c] = Q[y] /\ Q[y] \in N
        BY <1>9, <2>1, <2>2, <3>2, <4>1
      <4>3. sensors[W[b]].register_type # sensors[W[c]].register_type
        BY <4>2
      <4>4. \A group : OneRequest(sensors, group, limits) =>
              \A i, j \in group : sensors[i].register_type = sensors[j].register_type
        BY Zenon DEF OneRequest
      <4> QED  BY <4>3, <4>4 DEF Separate
    <3>3. CASE b \notin 1 .. a
      <4>1. PICK x \in 1 .. z : b = a + x
        BY <1>6, <3>3
      <4>2. c \notin 1 .. a
        BY <1>3, <3>3
      <4>3. PICK y \in 1 .. z : c = a + y
        BY <1>6, <4>2
      <4>4. x < y
        BY <1>3, <4>1, <4>3
      <4>5. Separate(sensors, limits, Q[x], Q[y])
        BY <1>2, <4>4 DEF Openers, z
      <4> QED  BY <1>9, <4>1, <4>3, <4>5
    <3> QED  BY <3>1, <3>2, <3>3
  <2> QED  BY <1>3, <2>3, <2>4, <2>5 DEF Openers
<1>18. PlanFor(sensors, limits, A, plan, R, H, W)
  BY <1>3, <1>14, <1>15, <1>16, <1>17 DEF PlanFor
<1> QED  BY <1>18 DEF A, plan

(* plan_reads makes a plan for all sensors. *)
LEMMA PlanOfAll ==
  ASSUME NEW sensors, NEW L, Listed(sensors, L),
         NEW limits \in [quantity : Nat, gap : Nat], limits.quantity >= 2,
         NEW plan \in Plans(sensors, limits.quantity, limits.gap)
  PROVE  \E B, K, O : PlanFor(sensors, limits, DOMAIN sensors, plan, B, K, O)
<1> DEFINE q == limits.quantity
           g == limits.gap
           M == OfType(sensors, "holding")
           N == OfType(sensors, "input")
<1>1. sensors \in Seq(SensorSettings) /\ q \in Nat /\ g \in Nat /\ q >= 2
  BY DEF Listed
<1>2. PICK h \in SortedBy(sensors, "holding"), i \in SortedBy(sensors, "input") :
        plan = BlocksOf(sensors, h, q, g) \o BlocksOf(sensors, i, q, g)
  <2>1. plan \in {BlocksOf(sensors, h, q, g) \o BlocksOf(sensors, i, q, g) :
                    h \in SortedBy(sensors, "holding"), i \in SortedBy(sensors, "input")}
    BY DEF Plans
  <2> HIDE DEF q, g
  <2> QED  BY <2>1
<1>3. IsOrder(sensors, "holding", h) /\ IsOrder(sensors, "input", i)
  BY <1>1, SortedByIs
<1>4. \E B, K, O : PlanFor(sensors, limits, M, BlocksOf(sensors, h, q, g), B, K, O)
  <2>1. PICK P, J : Planned(sensors, "holding", h, Len(h), BlocksOf(sensors, h, q, g), q, g, P, J)
    <3> HIDE DEF q, g
    <3> QED  BY <1>1, <1>3, BlocksOfIsPlanned
  <2> QED  BY <1>3, <2>1, PlanOfOneType
<1>5. \E B, K, O : PlanFor(sensors, limits, N, BlocksOf(sensors, i, q, g), B, K, O)
  <2>1. PICK P, J : Planned(sensors, "input", i, Len(i), BlocksOf(sensors, i, q, g), q, g, P, J)
    <3> HIDE DEF q, g
    <3> QED  BY <1>1, <1>3, BlocksOfIsPlanned
  <2> QED  BY <1>3, <2>1, PlanOfOneType
<1>6. \A x \in M, y \in N : x # y /\ sensors[x].register_type # sensors[y].register_type
  <2>1. "holding" # "input"
    BY Zenon
  <2> QED  BY <2>1 DEF OfType
<1>7. M \union N = DOMAIN sensors
  <2>1. \A x \in DOMAIN sensors : sensors[x].register_type \in RegisterTypes
    BY <1>1, SensorIs
  <2> QED  BY <2>1 DEF OfType, RegisterTypes
<1> HIDE DEF M, N
<1>8. \E R, H, W : PlanFor(sensors, limits, M \union N, plan, R, H, W)
  <2>1. PICK first : first = BlocksOf(sensors, h, q, g)
    OBVIOUS
  <2>2. PICK second : second = BlocksOf(sensors, i, q, g)
    OBVIOUS
  <2>3. PICK B, K, O : PlanFor(sensors, limits, M, first, B, K, O)
    BY <1>4, <2>1
  <2>4. PICK C, J, Q : PlanFor(sensors, limits, N, second, C, J, Q)
    BY <1>5, <2>2
  <2>5. \E R, H, W : PlanFor(sensors, limits, M \union N, first \o second, R, H, W)
    BY <1>6, <2>3, <2>4, JoinedPlans
  <2> QED  BY <1>2, <2>1, <2>2, <2>5
<1> QED  BY <1>7, <1>8

(* Every sensor is in one block, once. *)
LEMMA EachInOnePlace ==
  ASSUME NEW sensors, NEW limits, NEW plan, NEW B, NEW K, NEW O,
         PlanFor(sensors, limits, DOMAIN sensors, plan, B, K, O),
         NEW i \in DOMAIN sensors
  PROVE  Cardinality(PlacesOf(plan, i)) = 1
<1>1. Places(DOMAIN sensors, plan, B, K) /\ plan \in Seq(Blocks(sensors))
  BY DEF PlanFor
<1>2. DOMAIN plan = 1 .. Len(plan) /\ \A b \in 1 .. Len(plan) : plan[b] \in Blocks(sensors)
  BY <1>1, PlanOfBlocks
<1>3. \A b \in 1 .. Len(plan) : DOMAIN plan[b].indices = 1 .. Len(plan[b].indices)
  <2> SUFFICES ASSUME NEW b \in 1 .. Len(plan)
               PROVE  DOMAIN plan[b].indices = 1 .. Len(plan[b].indices)
    OBVIOUS
  <2>1. plan[b].indices \in Seq(DOMAIN sensors)
    BY <1>2 DEF Blocks
  <2> QED  BY <2>1, LenProperties
<1>4. \A b, k : b \in DOMAIN plan /\ k \in DOMAIN plan[b].indices /\ plan[b].indices[k] = i
                  <=> b = B[i] /\ k = K[i]
  <2>1. B[i] \in 1 .. Len(plan) /\ K[i] \in 1 .. Len(plan[B[i]].indices) /\ plan[B[i]].indices[K[i]] = i
    BY <1>1 DEF Places
  <2>2. \A b \in 1 .. Len(plan) : \A k \in 1 .. Len(plan[b].indices) :
           plan[b].indices[k] = i => B[i] = b /\ K[i] = k
    BY <1>1 DEF Places
  <2> QED  BY <1>2, <1>3, <2>1, <2>2
<1>5. PlacesOf(plan, i) = {<<B[i], K[i]>>}
  <2>1. \A x : x \in PlacesOf(plan, i) <=>
           \E b \in DOMAIN plan : \E k \in DOMAIN plan[b].indices : plan[b].indices[k] = i /\ x = <<b, k>>
    BY DEF PlacesOf
  <2> QED  BY <1>4, <2>1
<1> QED  BY <1>5, FS_Singleton

(* No plan makes do with fewer requests. *)
LEMMA PlanIsFewest ==
  ASSUME NEW sensors, NEW L, Listed(sensors, L), sensors # <<>>, NEW limits,
         NEW plan, NEW B, NEW K, NEW O, PlanFor(sensors, limits, DOMAIN sensors, plan, B, K, O)
  PROVE  Len(plan) \in Nat \ {0} /\ Len(plan) = FewestRequests(sensors, limits)
<1> DEFINE l == Len(plan)
           N == Len(sensors)
           F == {n \in 1 .. N : Possible(sensors, limits, n)}
<1>1. N \in Nat \ {0} /\ DOMAIN sensors = 1 .. N
  <2>1. sensors \in Seq(SensorSettings)
    BY DEF Listed
  <2> QED  BY <2>1, LenProperties, EmptySeq
<1>2. l \in Nat
  <2>1. plan \in Seq(Blocks(sensors))
    BY DEF PlanFor
  <2> QED  BY <2>1, PlanOfBlocks
<1>3. /\ B \in [1 .. N -> 1 .. l] /\ O \in [1 .. l -> 1 .. N]
      /\ \A b \in 1 .. l : B[O[b]] = b
      /\ \A b \in 1 .. l : OneRequest(sensors, InBlock(1 .. N, B, b), limits)
  <2>1. Places(1 .. N, plan, B, K) /\ Requests(sensors, limits, 1 .. N, plan, B)
        /\ Openers(sensors, limits, 1 .. N, plan, B, O)
    BY <1>1 DEF PlanFor
  <2> QED  BY <2>1 DEF Places, Requests, Openers
<1>4. \A b, c \in 1 .. l : b # c => \A group \in SUBSET (1 .. N) :
         OneRequest(sensors, group, limits) => ~(O[b] \in group /\ O[c] \in group)
  <2>1. \A b, c \in 1 .. l : b < c => Separate(sensors, limits, O[b], O[c])
    BY DEF PlanFor, Openers
  <2>2. \A b, c \in 1 .. l : b # c => b < c \/ c < b
    BY <1>2
  <2>3. \A b, c \in 1 .. l : b # c => Separate(sensors, limits, O[b], O[c]) \/ Separate(sensors, limits, O[c], O[b])
    BY <2>1, <2>2
  <2> QED  BY <1>1, <2>3 DEF Separate
<1> HIDE DEF l, N
<1>5. l \in 1 .. N
  <2>1. l >= 1
    <3>1. 1 \in 1 .. N
      BY <1>1
    <3>2. B[1] \in 1 .. l
      BY <1>3, <3>1
    <3> QED  BY <1>2, <3>2
  <2>2. ~(N < l)
    <3> SUFFICES ASSUME N < l PROVE FALSE
      OBVIOUS
    <3>1. /\ IsFiniteSet(1 .. l) /\ IsFiniteSet(1 .. N)
          /\ Cardinality(1 .. N) < Cardinality(1 .. l)
      <4>1. Cardinality(1 .. N) = N /\ Cardinality(1 .. l) = l
        BY <1>1, <1>2, <2>1, FS_Interval
      <4> QED  BY <1>1, <1>2, <4>1, FS_Interval
    <3>2. \E x, y \in 1 .. l : x # y /\ O[x] = O[y]
      BY <1>3, <3>1, FS_PigeonHole, ZenonT(60)
    <3> QED  BY <1>3, <3>2
  <2> QED  BY <1>1, <1>2, <2>1, <2>2
<1>6. Possible(sensors, limits, l)
  <2>1. \A p \in 1 .. l : {i \in 1 .. N : B[i] = p} = InBlock(1 .. N, B, p)
    BY DEF InBlock
  <2>2. \A p \in 1 .. l : OneRequest(sensors, {i \in 1 .. N : B[i] = p}, limits)
    BY <1>3, <2>1
  <2>3. \A p \in 1 .. l : OneRequest(sensors, {i \in DOMAIN sensors : B[i] = p}, limits)
    BY <1>1, <2>2
  <2>4. B \in [DOMAIN sensors -> 1 .. l]
    BY <1>1, <1>3
  <2> QED  BY <2>3, <2>4 DEF Possible
<1>7. ASSUME NEW n \in 1 .. N, Possible(sensors, limits, n)
      PROVE  l <= n
  <2> SUFFICES ASSUME n < l PROVE FALSE
    BY <1>1, <1>2
  <2>1. PICK part \in [1 .. N -> 1 .. n] : \A p \in 1 .. n :
           {i \in 1 .. N : part[i] = p} = {} \/ OneRequest(sensors, {i \in 1 .. N : part[i] = p}, limits)
    BY <1>1, <1>7, Zenon DEF Possible
  <2> DEFINE f == [b \in 1 .. l |-> part[O[b]]]
  <2>2. f \in [1 .. l -> 1 .. n]
    BY <1>3, <2>1
  <2>3. /\ IsFiniteSet(1 .. l) /\ IsFiniteSet(1 .. n)
        /\ Cardinality(1 .. n) < Cardinality(1 .. l)
    <3>1. Cardinality(1 .. n) = n /\ Cardinality(1 .. l) = l
      BY <1>1, <1>2, FS_Interval
    <3> QED  BY <1>1, <1>2, <3>1, FS_Interval
  <2> HIDE DEF f
  <2>4. PICK x, y \in 1 .. l : x # y /\ f[x] = f[y]
    BY <2>2, <2>3, FS_PigeonHole
  <2>5. PICK p \in 1 .. n : p = part[O[x]] /\ p = part[O[y]]
    BY <1>3, <2>1, <2>4 DEF f
  <2> DEFINE group == {i \in 1 .. N : part[i] = p}
  <2>6. O[x] \in group /\ O[y] \in group /\ group \in SUBSET (1 .. N)
    BY <1>3, <2>4, <2>5
  <2>7. group = {} \/ OneRequest(sensors, group, limits)
    BY <2>1
  <2> HIDE DEF group
  <2>8. OneRequest(sensors, group, limits)
    BY <2>6, <2>7
  <2> QED  BY <1>4, <2>4, <2>6, <2>8
<1>8. l = Min(F)
  <2>1. l \in F /\ F \subseteq Nat
    BY <1>1, <1>5, <1>6
  <2>2. \A n \in F : l <= n
    BY <1>7
  <2> HIDE DEF F
  <2>3. Min(F) \in F /\ \A n \in F : Min(F) <= n
    BY <2>1, MinIs
  <2>4. Min(F) <= l /\ l <= Min(F) /\ Min(F) \in Nat
    BY <2>1, <2>2, <2>3
  <2> QED  BY <1>2, <2>4
<1> QED  BY <1>2, <1>5, <1>8 DEF FewestRequests, F, N, l

-----------------------------------------------------------------------------
(***************************************************************************)
(* Asking for the registers. The bytes of a request, of the device's       *)
(* answer to it and of the frame that arrives, and what decode_response    *)
(* makes of each kind of answer.                                           *)
(***************************************************************************)

(* A word is two bytes. *)
LEMMA WordIsTwoBytes ==
  ASSUME NEW w \in Nat
  PROVE  /\ w \div 256 \in Nat /\ w % 256 \in Nat /\ (w \div 256) * 256 + (w % 256) = w
         /\ PushU16(w) \in Seq(Nat) /\ Len(PushU16(w)) = 2
         /\ PushU16(w)[1] = w \div 256 /\ PushU16(w)[2] = w % 256
         /\ w < 256 => PushU16(w)[1] = 0 /\ PushU16(w)[2] = w
BY DEF PushU16

(* read_u16 of the two bytes of a word. *)
LEMMA ReadWord ==
  ASSUME NEW w \in Nat, NEW bytes, NEW o \in Nat,
         bytes[o + 1] = w \div 256, bytes[o + 2] = w % 256
  PROVE  ReadU16(bytes, o) = w
BY DEF ReadU16

(* A request the device is sent. *)
IsRequest(request, f, s, q) ==
  /\ SubSeq(request, 1, 2) \in Seq(Nat) /\ Len(SubSeq(request, 1, 2)) = 2
  /\ request[7] = 1 /\ request[8] = f
  /\ ReadU16(request, 8) = s /\ ReadU16(request, 10) = q

(* encode_request writes such a request. *)
LEMMA RequestIs ==
  ASSUME NEW f \in Nat, NEW s \in Nat, NEW q \in Nat
  PROVE  IsRequest(EncodeRequest(1, 1, f, s, q), f, s, q)
<1> DEFINE request == EncodeRequest(1, 1, f, s, q)
<1> DEFINE a == s \div 256 b == s % 256 c == q \div 256 d == q % 256
<1>1. request = <<0, 1>> \o <<0, 0>> \o <<0, 6>> \o <<1, f>> \o <<a, b>> \o <<c, d>>
  <2>1. PushU16(1) = <<0, 1>> /\ PushU16(0) = <<0, 0>> /\ PushU16(6) = <<0, 6>>
    BY DEF PushU16
  <2> QED  BY <2>1 DEF EncodeRequest, PushU16
<1> HIDE DEF a, b, c, d, request
<1>2. /\ request[1] = 0 /\ request[2] = 1 /\ request[7] = 1 /\ request[8] = f
      /\ request[9] = a /\ request[10] = b /\ request[11] = c /\ request[12] = d
  BY <1>1
<1>3. SubSeq(request, 1, 2) = [i \in 1 .. 2 |-> request[i]]
  BY DEF SubSeq
<1>4. SubSeq(request, 1, 2) \in Seq(Nat) /\ Len(SubSeq(request, 1, 2)) = 2
  BY <1>2, <1>3
<1>5. ReadU16(request, 8) = s
  <2>1. request[8 + 1] = s \div 256 /\ request[8 + 2] = s % 256
    BY <1>2 DEF a, b
  <2> QED  BY <2>1, ReadWord
<1>6. ReadU16(request, 10) = q
  <2>1. request[10 + 1] = q \div 256 /\ request[10 + 2] = q % 256
    BY <1>2 DEF c, d
  <2> QED  BY <2>1, ReadWord
<1> QED  BY <1>2, <1>4, <1>5, <1>6 DEF IsRequest, request

(* The registers of an answer, two bytes each. *)
RegisterBytes(bytes, f, s, n) ==
  /\ bytes \in Seq(Nat) /\ Len(bytes) = 2 * n
  /\ \A i \in 1 .. n : /\ bytes[2 * i - 1] = Contents(f, s + i - 1) \div 256
                       /\ bytes[2 * i] = Contents(f, s + i - 1) % 256

(* The registers hold words. *)
Held16(f, s, n) == \A i \in 1 .. n : Contents(f, s + i - 1) \in Nat

(* The bytes of an answer are the words of its registers. *)
LEMMA RegistersAre ==
  ASSUME NEW f, NEW s \in Nat, NEW n \in Nat, Held16(f, s, n)
  PROVE  RegisterBytes(Registers(f, s, n), f, s, n)
<1> DEFINE w(i) == Contents(f, s + i - 1)
           V == Seq(Nat)
           seqs == [i \in 1 .. n |-> PushU16(w(i))]
           E == [i \in 0 .. n |-> 2 * i]
           bytes == FlattenSeq(seqs)
<1> HIDE DEF w
<1>1. \A i \in 1 .. n : w(i) \in Nat
  BY DEF w, Held16
<1>2. /\ seqs \in Seq(Seq(Nat)) /\ Len(seqs) = n
      /\ \A i \in 1 .. n : Len(seqs[i]) = 2 /\ seqs[i][1] = w(i) \div 256 /\ seqs[i][2] = w(i) % 256
  <2>1. \A i \in 1 .. n : /\ PushU16(w(i)) \in V /\ Len(PushU16(w(i))) = 2
                          /\ PushU16(w(i))[1] = w(i) \div 256 /\ PushU16(w(i))[2] = w(i) % 256
    BY <1>1, WordIsTwoBytes, ZenonT(60)
  <2> HIDE DEF V
  <2>2. seqs \in [1 .. n -> V] /\ \A i \in 1 .. n : seqs[i] = PushU16(w(i))
    BY <2>1
  <2> HIDE DEF seqs
  <2>3. seqs \in Seq(V) /\ Len(seqs) = n
    BY <2>2
  <2> QED  BY <2>1, <2>2, <2>3 DEF V
<1>3. /\ E \in [0 .. n -> Nat] /\ E[0] = 0 /\ E[n] = 2 * n
      /\ \A i \in 1 .. n : E[i] = E[i - 1] + 2
      /\ \A i \in 1 .. n : E[i - 1] = 2 * i - 2
  OBVIOUS
<1> HIDE DEF seqs, E
<1>4. /\ bytes \in Seq(Nat) /\ Len(bytes) = E[n]
      /\ \A i \in 1 .. n : \A k \in 1 .. 2 : bytes[E[i - 1] + k] = seqs[i][k]
  <2> HIDE DEF bytes
  <2>1. E \in [0 .. Len(seqs) -> Nat] /\ E[0] = 0
    BY <1>2, <1>3
  <2>2. \A b \in 1 .. Len(seqs) : E[b] = E[b - 1] + Len(seqs[b])
    BY <1>2, <1>3
  <2>3. /\ FlattenSeq(seqs) \in Seq(Nat)
        /\ Len(FlattenSeq(seqs)) = E[Len(seqs)]
        /\ \A b \in 1 .. Len(seqs) : \A k \in 1 .. Len(seqs[b]) :
              /\ FlattenSeq(seqs)[E[b - 1] + k] = seqs[b][k]
              /\ E[b - 1] + k \in 1 .. E[Len(seqs)]
    BY <1>2, <2>1, <2>2, FlattenLayout
  <2> QED  BY <1>2, <2>3 DEF bytes
<1> HIDE DEF bytes
<1>5. \A i \in 1 .. n : bytes[2 * i - 1] = w(i) \div 256 /\ bytes[2 * i] = w(i) % 256
  <2> SUFFICES ASSUME NEW i \in 1 .. n
               PROVE  bytes[2 * i - 1] = w(i) \div 256 /\ bytes[2 * i] = w(i) % 256
    OBVIOUS
  <2>1. bytes[E[i - 1] + 1] = w(i) \div 256 /\ bytes[E[i - 1] + 2] = w(i) % 256
    BY <1>2, <1>4
  <2>2. E[i - 1] + 1 = 2 * i - 1 /\ E[i - 1] + 2 = 2 * i
    BY <1>3
  <2> QED  BY <2>1, <2>2
<1>6. Registers(f, s, n) = bytes
  BY DEF Registers, bytes, seqs, w
<1> QED  BY <1>3, <1>4, <1>5, <1>6 DEF RegisterBytes, w

(* What comes second in a concatenation, after so many elements. *)
Second(bytes, n, q) == \A k \in 1 .. Len(q) : bytes[n + k] = q[k]

(* What comes second in a concatenation. *)
LEMMA SecondIs == ASSUME NEW p \in Seq(Nat), NEW q \in Seq(Nat) PROVE Second(p \o q, Len(p), q)
BY ConcatIs DEF Second

(* A sequence begins so. *)
FirstPart(bytes, p) == \A k \in 1 .. Len(p) : bytes[k] = p[k]

(* What comes first in it. *)
LEMMA FirstIs == ASSUME NEW p \in Seq(Nat), NEW q \in Seq(Nat) PROVE FirstPart(p \o q, p)
BY ConcatIs DEF FirstPart

(* The bytes of an answer: the header, then what it says. *)
Framed(head, protocol, pdu) ==
  head \o PushU16(protocol) \o PushU16(1 + Len(pdu)) \o <<1>> \o pdu

(* The bytes that arrive are a frame with this PDU. *)
IsFrame(stream, protocol, pdu) ==
  /\ stream \in Seq(Nat) /\ Len(stream) = 7 + Len(pdu)
  /\ stream[3] = 0 /\ stream[4] = protocol
  /\ stream[5] = 0 /\ stream[6] = 1 + Len(pdu)
  /\ \A k \in 1 .. Len(pdu) : stream[7 + k] = pdu[k]

(* A PDU behind its header is a frame. *)
LEMMA FramedIs ==
  ASSUME NEW head \in Seq(Nat), Len(head) = 2, NEW protocol \in {0, 1},
         NEW pdu \in Seq(Nat), Len(pdu) >= 1, Len(pdu) <= 254
  PROVE  IsFrame(Framed(head, protocol, pdu), protocol, pdu)
<1> DEFINE stream == Framed(head, protocol, pdu)
           l == 1 + Len(pdu)
           a == PushU16(protocol)
           b == PushU16(l)
           c == <<1>>
<1>1. Len(pdu) \in Nat /\ l \in Nat /\ l < 256
  BY LenProperties
<1>2. a \in Seq(Nat) /\ Len(a) = 2 /\ a[1] = 0 /\ a[2] = protocol
  <2>1. protocol \in Nat /\ protocol < 256
    OBVIOUS
  <2> QED  BY <2>1, WordIsTwoBytes, ZenonT(60)
<1>3. b \in Seq(Nat) /\ Len(b) = 2 /\ b[1] = 0 /\ b[2] = l
  <2> HIDE DEF l
  <2> QED  BY <1>1, WordIsTwoBytes, ZenonT(60)
<1>4. c \in Seq(Nat) /\ Len(c) = 1
  OBVIOUS
<1> DEFINE two == head \o a
           three == two \o b
           four == three \o c
<1>5. stream = four \o pdu
  BY DEF Framed
<1> HIDE DEF a, b, c, l, stream
<1>6. two \in Seq(Nat) /\ Len(two) = 4 /\ two[3] = 0 /\ two[4] = protocol
  <2>0. Second(two, 2, a)
    BY <1>2, SecondIs
  <2>1. two[2 + 1] = a[1] /\ two[2 + 2] = a[2]
    <3> HIDE DEF two
    <3> QED  BY <1>2, <2>0 DEF Second
  <2>2. two \in Seq(Nat) /\ Len(two) = Len(head) + Len(a)
    BY <1>2, ConcatIs, Zenon
  <2> HIDE DEF two
  <2> QED  BY <1>2, <2>1, <2>2
<1> HIDE DEF two
<1>7. /\ three \in Seq(Nat) /\ Len(three) = 6 /\ three[3] = 0 /\ three[4] = protocol
      /\ three[5] = 0 /\ three[6] = l
  <2>0. Second(three, 4, b)
    BY <1>3, <1>6, SecondIs
  <2>1. \A k \in 1 .. 2 : three[4 + k] = b[k]
    <3> HIDE DEF three
    <3> QED  BY <1>3, <2>0 DEF Second
  <2>2. \A k \in 1 .. Len(two) : three[k] = two[k]
    BY <1>3, <1>6, ConcatIs, Zenon
  <2>3. three \in Seq(Nat) /\ Len(three) = Len(two) + Len(b)
    BY <1>3, <1>6, ConcatIs, Zenon
  <2> HIDE DEF three
  <2>4. three[4 + 1] = b[1] /\ three[4 + 2] = b[2]
    BY <2>1
  <2>5. three[3] = two[3] /\ three[4] = two[4]
    BY <1>6, <2>2
  <2> QED  BY <1>3, <1>6, <2>3, <2>4, <2>5
<1> HIDE DEF three
<1>8. /\ four \in Seq(Nat) /\ Len(four) = 7 /\ four[3] = 0 /\ four[4] = protocol
      /\ four[5] = 0 /\ four[6] = l
  <2>1. \A k \in 1 .. Len(three) : four[k] = three[k]
    BY <1>4, <1>7, ConcatIs, ZenonT(60)
  <2>2. four \in Seq(Nat) /\ Len(four) = Len(three) + Len(c)
    BY <1>4, <1>7, ConcatIs
  <2> HIDE DEF four
  <2>3. four[3] = three[3] /\ four[4] = three[4] /\ four[5] = three[5] /\ four[6] = three[6]
    BY <1>7, <2>1
  <2> QED  BY <1>4, <1>7, <2>2, <2>3
<1> HIDE DEF four
<1>9. /\ stream \in Seq(Nat) /\ Len(stream) = Len(four) + Len(pdu)
      /\ \A k \in 1 .. Len(four) : stream[k] = four[k]
      /\ \A k \in 1 .. Len(pdu) : stream[7 + k] = pdu[k]
  <2> DEFINE r == four \o pdu
  <2>1. r \in Seq(Nat) /\ Len(r) = Len(four) + Len(pdu)
    BY <1>8, ConcatIs, Zenon
  <2>2. \A k \in 1 .. Len(four) : r[k] = four[k]
    BY <1>8, ConcatIs, ZenonT(60)
  <2>3. \A k \in 1 .. Len(pdu) : r[7 + k] = pdu[k]
    <3>1. Second(r, 7, pdu)
      BY <1>8, SecondIs
    <3> HIDE DEF r
    <3> QED  BY <3>1 DEF Second
  <2> QED  BY <1>5, <2>1, <2>2, <2>3
<1>10. stream[3] = four[3] /\ stream[4] = four[4] /\ stream[5] = four[5] /\ stream[6] = four[6]
  BY <1>8, <1>9
<1>11. \A k \in 1 .. Len(pdu) : stream[7 + k] = pdu[k]
  BY <1>8, <1>9
<1> QED  BY <1>8, <1>9, <1>10, <1>11 DEF IsFrame, stream, l

(* What is read of it: all of it, unless the header is not acceptable. *)
LEMMA FrameIs ==
  ASSUME NEW stream, NEW protocol \in {0, 1},
         NEW pdu \in Seq(Nat), Len(pdu) >= 1, Len(pdu) <= 254,
         IsFrame(stream, protocol, pdu)
  PROVE  IF protocol = 0 /\ Len(pdu) <= 253
         THEN FrameOf(stream) = stream /\ ExpectedFrameLength(stream) = Len(stream)
         ELSE FrameOf(stream) = <<>>
<1>1. /\ stream \in Seq(Nat) /\ Len(stream) = 7 + Len(pdu)
      /\ stream[3] = 0 /\ stream[4] = protocol
      /\ stream[5] = 0 /\ stream[6] = 1 + Len(pdu)
  BY DEF IsFrame
<1>2. PICK m \in Nat : m = Len(pdu) /\ m >= 1 /\ m <= 254
  BY LenProperties
<1>0. m \in Nat /\ m >= 1 /\ m <= 254
  BY <1>2
<1> DEFINE start == SubSeq(stream, 1, 7)
           good == protocol = 0 /\ m <= 253
<1>3. /\ start \in Seq(Nat) /\ Len(start) = 7
      /\ start[3] = 0 /\ start[4] = protocol /\ start[5] = 0 /\ start[6] = 1 + m
  <2>1. \A k \in 1 .. 7 : stream[k] \in Nat
    <3>1. \A k \in 1 .. 7 : k \in 1 .. Len(stream)
      BY <1>1, <1>2
    <3> QED  BY <1>1, <3>1, ElementOfSeq
  <2>2. start \in Seq(Nat) /\ Len(start) = 7 /\ \A k \in 1 .. 7 : start[k] = stream[1 + k - 1]
    BY <2>1, SubSeqProperties
  <2> HIDE DEF start
  <2>3. start[3] = stream[3] /\ start[4] = stream[4] /\ start[5] = stream[5] /\ start[6] = stream[6]
    BY <2>2
  <2> QED  BY <1>1, <1>2, <2>2, <2>3
<1>4. \A bytes : bytes[3] = 0 /\ bytes[4] = protocol /\ bytes[5] = 0 /\ bytes[6] = 1 + m =>
         ReadU16(bytes, 2) = protocol /\ ReadU16(bytes, 4) = 1 + m
  BY DEF ReadU16
<1>5. \A bytes : Len(bytes) \in Nat /\ Len(bytes) >= 7
                   /\ ReadU16(bytes, 2) = protocol /\ ReadU16(bytes, 4) = 1 + m =>
         ExpectedFrameLength(bytes) = IF good THEN 7 + m ELSE 0
  <2> SUFFICES ASSUME NEW bytes, Len(bytes) \in Nat, Len(bytes) >= 7,
                      ReadU16(bytes, 2) = protocol, ReadU16(bytes, 4) = 1 + m
               PROVE  ExpectedFrameLength(bytes) = IF good THEN 7 + m ELSE 0
    OBVIOUS
  <2>1. ExpectedFrameLength(bytes) = IF protocol = 0 /\ 1 + m \in 2 .. 254 THEN 6 + (1 + m) ELSE 0
    BY DEF ExpectedFrameLength, HeaderLength
  <2>2. 1 + m \in 2 .. 254 <=> m <= 253
    BY <1>0, SMTT(60)
  <2>3. 6 + (1 + m) = 7 + m
    BY <1>2
  <2> QED  BY <2>1, <2>2, <2>3
<1>6. ExpectedFrameLength(start) = IF good THEN 7 + m ELSE 0
  <2> HIDE DEF start, good
  <2>1. ReadU16(start, 2) = protocol /\ ReadU16(start, 4) = 1 + m
    BY <1>3, <1>4
  <2>2. Len(start) \in Nat /\ Len(start) >= 7
    BY <1>3
  <2> QED  BY <1>5, <2>1, <2>2
<1>7. ExpectedFrameLength(stream) = IF good THEN 7 + m ELSE 0
  <2> HIDE DEF good
  <2>1. Len(stream) \in Nat /\ Len(stream) >= 7
    BY <1>1, <1>2
  <2> QED  BY <1>1, <1>2, <1>4, <1>5, <2>1
<1>8. FrameOf(stream) = IF ExpectedFrameLength(start) \in 8 .. 260
                        THEN SubSeq(stream, 1, ExpectedFrameLength(start)) ELSE <<>>
  BY DEF FrameOf, HeaderLength
<1> HIDE DEF start
<1>9. CASE good
  <2>1. FrameOf(stream) = SubSeq(stream, 1, 7 + m)
    <3>1. 7 + m \in 8 .. 260
      BY <1>0, <1>9
    <3> QED  BY <1>6, <1>8, <1>9, <3>1
  <2>2. SubSeq(stream, 1, Len(stream)) = stream
    BY <1>1, SubSeqFull
  <2> QED  BY <1>1, <1>2, <1>7, <1>9, <2>1, <2>2
<1>10. CASE ~good
  BY <1>2, <1>6, <1>8, <1>10
<1> QED  BY <1>9, <1>10

(* The function codes of reads and writes. *)
LEMMA ReadFunctions ==
  /\ FunctionCode["holding"] = 3 /\ FunctionCode["input"] = 4 /\ FunctionCode.write = 6
  /\ 3 \in Functions /\ 4 \in Functions
BY DEF FunctionCode, Functions

(* What decode_response makes of an answer to a read. *)
LEMMA DecodeIs ==
  ASSUME NEW stream, NEW f \in {3, 4}, stream[8] % 128 = f,
         ExpectedFrameLength(stream) # 0, Len(stream) = ExpectedFrameLength(stream)
  PROVE  LET response == DecodeResponse(stream)
         IN  IF stream[8] >= 128
             THEN response = Malformed \/ (response # Malformed /\ response.exception)
             ELSE IF ReadAnswerIsWhole(stream)
             THEN /\ response # Malformed /\ ~response.exception
                  /\ response.registers = [i \in 1 .. stream[9] \div 2 |-> ReadU16(stream, 7 + 2 * i)]
             ELSE response = Malformed
<1> DEFINE answer(exception, code, registers) ==
             [transaction |-> ReadU16(stream, 0), unit |-> stream[7], function |-> f,
              exception |-> exception, code |-> code, registers |-> registers]
           whole == [i \in 1 .. stream[9] \div 2 |-> ReadU16(stream, 7 + 2 * i)]
           response == DecodeResponse(stream)
<1>1. f \in Functions /\ f # FunctionCode.write
  BY ReadFunctions
<1>2. response =
        IF stream[8] >= 128
        THEN IF Len(stream) = 9 THEN answer(TRUE, stream[9], <<>>) ELSE Malformed
        ELSE IF ReadAnswerIsWhole(stream) THEN answer(FALSE, 0, whole) ELSE Malformed
  <2>1. stream[8] % ExceptionBit = f /\ ExceptionBit = 128
    BY DEF ExceptionBit
  <2> QED  BY <1>1, <2>1, Zenon DEF DecodeResponse
<1>3. /\ \A c, r : answer(TRUE, c, r) # Malformed /\ answer(TRUE, c, r).exception
      /\ \A c, r : answer(FALSE, c, r) # Malformed /\ ~answer(FALSE, c, r).exception
      /\ \A c, r : answer(FALSE, c, r).registers = r
  BY DEF Malformed
<1> HIDE DEF answer, whole, response
<1>4. CASE stream[8] >= 128
  <2>1. response = answer(TRUE, stream[9], <<>>) \/ response = Malformed
    BY <1>2, <1>4
  <2>2. answer(TRUE, stream[9], <<>>) # Malformed /\ answer(TRUE, stream[9], <<>>).exception
    BY <1>3
  <2> QED  BY <1>4, <2>1, <2>2 DEF response
<1>5. CASE ~(stream[8] >= 128) /\ ReadAnswerIsWhole(stream)
  <2>1. response = answer(FALSE, 0, whole)
    BY <1>2, <1>5
  <2>2. /\ answer(FALSE, 0, whole) # Malformed /\ ~answer(FALSE, 0, whole).exception
        /\ answer(FALSE, 0, whole).registers = whole
    BY <1>3
  <2> QED  BY <1>5, <2>1, <2>2 DEF response, whole
<1>6. CASE ~(stream[8] >= 128) /\ ~ReadAnswerIsWhole(stream)
  BY <1>2, <1>6 DEF response
<1> QED  BY <1>4, <1>5, <1>6

(* The condition under which a response fails its request. *)
NotRead(response, quantity) ==
  response = Malformed \/ response.exception \/ Len(response.registers) < quantity

(* An exception is no read. *)
LEMMA ExceptionIsRefused ==
  ASSUME NEW stream, NEW f \in {3, 4}, NEW pdu \in Seq(Nat), IsFrame(stream, 0, pdu),
         Len(pdu) = 2, pdu[1] = f + 128, NEW q
  PROVE  NotRead(DecodeResponse(FrameOf(stream)), q)
<1>1. FrameOf(stream) = stream /\ ExpectedFrameLength(stream) = Len(stream)
  <2>1. Len(pdu) >= 1 /\ Len(pdu) <= 254 /\ Len(pdu) <= 253
    OBVIOUS
  <2> QED  BY <2>1, FrameIs
<1>2. Len(stream) = 9 /\ stream[7 + 1] = pdu[1]
  BY DEF IsFrame
<1>3. stream[8] = f + 128
  BY <1>2
<1>4. stream[8] % 128 = f /\ stream[8] >= 128
  BY <1>3
<1>5. ExpectedFrameLength(stream) # 0
  BY <1>1, <1>2
<1> QED  BY <1>1, <1>4, <1>5, DecodeIs DEF NotRead

(* A byte count that is odd is refused. *)
LEMMA OddIsRefused ==
  ASSUME NEW stream, NEW f \in {3, 4}, NEW pdu \in Seq(Nat), IsFrame(stream, 0, pdu),
         Len(pdu) >= 2, Len(pdu) <= 253, pdu[1] = f, pdu[2] % 2 = 1, NEW q
  PROVE  NotRead(DecodeResponse(FrameOf(stream)), q)
<1>1. FrameOf(stream) = stream /\ ExpectedFrameLength(stream) = Len(stream)
  BY FrameIs
<1>2. Len(stream) = 7 + Len(pdu) /\ stream[7 + 1] = pdu[1] /\ stream[7 + 2] = pdu[2]
  <2>1. Len(pdu) \in Nat /\ 1 \in 1 .. Len(pdu) /\ 2 \in 1 .. Len(pdu)
    BY LenProperties
  <2> QED  BY <2>1 DEF IsFrame
<1>3. stream[8] = f /\ stream[9] = pdu[2]
  BY <1>2
<1>4. stream[8] % 128 = f /\ ~(stream[8] >= 128) /\ ~ReadAnswerIsWhole(stream)
  BY <1>3, SMTT(60) DEF ReadAnswerIsWhole
<1>5. ExpectedFrameLength(stream) # 0
  BY <1>1, <1>2, LenProperties
<1> QED  BY <1>1, <1>4, <1>5, DecodeIs DEF NotRead

(* So is a frame of another protocol, or one that is too long. *)
LEMMA NoFrameIsRefused ==
  ASSUME NEW stream, NEW protocol \in {0, 1}, NEW pdu \in Seq(Nat), IsFrame(stream, protocol, pdu),
         Len(pdu) >= 1, Len(pdu) <= 254, protocol = 1 \/ Len(pdu) = 254, NEW q
  PROVE  NotRead(DecodeResponse(FrameOf(stream)), q)
<1>1. FrameOf(stream) = <<>>
  <2>1. ~(protocol = 0 /\ Len(pdu) <= 253)
    <3>1. CASE protocol = 1
      BY <3>1
    <3>2. CASE Len(pdu) = 254
      BY <3>2
    <3> QED  BY <3>1, <3>2
  <2> QED  BY <2>1, FrameIs
<1>2. ExpectedFrameLength(<<>>) = 0
  BY DEF ExpectedFrameLength, HeaderLength
<1>3. DecodeResponse(<<>>) = Malformed
  BY <1>2, Zenon DEF DecodeResponse
<1> QED  BY <1>1, <1>3 DEF NotRead

(* What an answer of a kind says: of how many registers, in which bytes. *)
Told(kind, q) == CASE kind = "long" -> q + 1 [] kind = "short" -> q - 1 [] OTHER -> q

(* An answer with n registers and this byte count. *)
Pdu(f, s, n, count) == <<f, count>> \o Registers(f, s, n)

(* The PDU each kind of answer has. *)
Said(kind, f, s, q) ==
  CASE kind = "exception" -> <<f + 128, 2>>
    [] kind = "odd"       -> Pdu(f, s, Told(kind, q), 2 * Told(kind, q) - 1)
    [] OTHER              -> Pdu(f, s, Told(kind, q), 2 * Told(kind, q))

(* The answer of a device to a request. *)
LEMMA AnswerIs ==
  ASSUME NEW kind, NEW f \in Nat, NEW s \in Nat, NEW q \in Nat,
         NEW request, IsRequest(request, f, s, q)
  PROVE  /\ Answer(kind, request) =
              Framed(SubSeq(request, 1, 2), IF kind = "otherProtocol" THEN 1 ELSE 0, Said(kind, f, s, q))
         /\ SubSeq(request, 1, 2) \in Seq(Nat) /\ Len(SubSeq(request, 1, 2)) = 2
<1>1. /\ SubSeq(request, 1, 2) \in Seq(Nat) /\ Len(SubSeq(request, 1, 2)) = 2
      /\ request[7] = 1 /\ request[8] = f
      /\ ReadU16(request, 8) = s /\ ReadU16(request, 10) = q
  BY DEF IsRequest
<1>2. ExceptionBit = 128
  BY DEF ExceptionBit
<1>3. Answer(kind, request) =
        Framed(SubSeq(request, 1, 2), IF kind = "otherProtocol" THEN 1 ELSE 0, Said(kind, f, s, q))
  BY <1>1, <1>2, Zenon DEF Answer, Framed, Said, Told, Pdu
<1> QED  BY <1>1, <1>3

(* An answer with registers, and what is read from it. *)
IsBody(pdu, f, s, n, count) ==
  /\ pdu \in Seq(Nat) /\ Len(pdu) = 2 + 2 * n /\ pdu[1] = f /\ pdu[2] = count
  /\ \A i \in 1 .. n : /\ pdu[2 * i + 1] = Contents(f, s + i - 1) \div 256
                       /\ pdu[2 * i + 2] = Contents(f, s + i - 1) % 256

(* The PDU of a read holds its function, its byte count and its words. *)
LEMMA BodyIs ==
  ASSUME NEW f \in Nat, NEW s \in Nat, NEW n \in Nat, NEW count \in Nat, Held16(f, s, n)
  PROVE  IsBody(Pdu(f, s, n, count), f, s, n, count)
<1> DEFINE p == <<f, count>>
           r == Registers(f, s, n)
           b == p \o r
<1>1. /\ r \in Seq(Nat) /\ Len(r) = 2 * n
      /\ \A i \in 1 .. n : r[2 * i - 1] = Contents(f, s + i - 1) \div 256
                           /\ r[2 * i] = Contents(f, s + i - 1) % 256
  BY RegistersAre DEF RegisterBytes
<1> HIDE DEF r
<1>2. p \in Seq(Nat) /\ Len(p) = 2 /\ p[1] = f /\ p[2] = count
  OBVIOUS
<1> HIDE DEF p
<1>3. b \in Seq(Nat) /\ Len(b) = Len(p) + Len(r)
  BY <1>1, <1>2, ConcatIs, ZenonT(60)
<1>4. Second(b, 2, r)
  BY <1>1, <1>2, SecondIs
<1>5. FirstPart(b, p)
  BY <1>1, <1>2, FirstIs
<1> HIDE DEF b
<1>6. b[1] = f /\ b[2] = count
  BY <1>2, <1>5 DEF FirstPart
<1>7. \A i \in 1 .. n : b[2 * i + 1] = Contents(f, s + i - 1) \div 256
                        /\ b[2 * i + 2] = Contents(f, s + i - 1) % 256
  <2> SUFFICES ASSUME NEW i \in 1 .. n
               PROVE  /\ b[2 * i + 1] = Contents(f, s + i - 1) \div 256
                      /\ b[2 * i + 2] = Contents(f, s + i - 1) % 256
    OBVIOUS
  <2>1. PICK x \in 1 .. 2 * n : x = 2 * i - 1
    OBVIOUS
  <2>2. PICK y \in 1 .. 2 * n : y = 2 * i
    OBVIOUS
  <2>3. \A k \in 1 .. 2 * n : b[2 + k] = r[k]
    BY <1>1, <1>4 DEF Second
  <2>4. b[2 + x] = r[x] /\ b[2 + y] = r[y]
    BY <2>3
  <2>5. 2 + x = 2 * i + 1 /\ 2 + y = 2 * i + 2
    BY <2>1, <2>2
  <2> QED  BY <1>1, <2>1, <2>2, <2>4, <2>5
<1>8. Pdu(f, s, n, count) = b
  BY DEF Pdu, b, p, r
<1> QED  BY <1>1, <1>2, <1>3, <1>6, <1>7, <1>8 DEF IsBody

(* A frame around a body is decoded to the registers, if their count fits. *)
LEMMA BodyIsDecoded ==
  ASSUME NEW f \in {3, 4}, NEW s \in Nat, NEW n \in Nat, n <= 125, Held16(f, s, n),
         NEW stream, IsFrame(stream, 0, Pdu(f, s, n, 2 * n))
  PROVE  LET response == DecodeResponse(FrameOf(stream))
         IN  IF n = 0 THEN response = Malformed
             ELSE /\ response # Malformed /\ ~response.exception
                  /\ response.registers = [i \in 1 .. n |-> Contents(f, s + i - 1)]
<1> DEFINE pdu == Pdu(f, s, n, 2 * n)
           c == 2 * n
<1>1. /\ pdu \in Seq(Nat) /\ Len(pdu) = 2 + 2 * n
      /\ pdu[1] = f /\ pdu[2] = c
      /\ \A i \in 1 .. n : /\ pdu[2 * i + 1] = Contents(f, s + i - 1) \div 256
                           /\ pdu[2 * i + 2] = Contents(f, s + i - 1) % 256
  <2>1. f \in Nat /\ c \in Nat
    OBVIOUS
  <2>2. IsBody(pdu, f, s, n, c)
    BY <2>1, BodyIs
  <2> QED  BY <2>2 DEF IsBody
<1> HIDE DEF pdu
<1>2. IsFrame(stream, 0, pdu)
  BY DEF pdu
<1>3. FrameOf(stream) = stream /\ ExpectedFrameLength(stream) = Len(stream)
  <2>1. Len(pdu) >= 1 /\ Len(pdu) <= 254 /\ Len(pdu) <= 253
    BY <1>1
  <2> QED  BY <1>1, <1>2, <2>1, FrameIs
<1>4. /\ Len(stream) = 9 + c /\ stream[8] = f /\ stream[9] = c
      /\ \A i \in 1 .. n : /\ stream[8 + 2 * i] = Contents(f, s + i - 1) \div 256
                           /\ stream[9 + 2 * i] = Contents(f, s + i - 1) % 256
  <2>1. Len(stream) = 7 + (2 + 2 * n) /\ \A k \in 1 .. 2 + 2 * n : stream[7 + k] = pdu[k]
    BY <1>1, <1>2 DEF IsFrame
  <2>2. Len(stream) = 9 + c
    BY <2>1
  <2>3. stream[7 + 1] = pdu[1] /\ stream[7 + 2] = pdu[2]
    BY <2>1
  <2>4. ASSUME NEW i \in 1 .. n
        PROVE  /\ stream[8 + 2 * i] = Contents(f, s + i - 1) \div 256
               /\ stream[9 + 2 * i] = Contents(f, s + i - 1) % 256
    <3>1. PICK x \in 1 .. 2 + 2 * n : x = 2 * i + 1
      OBVIOUS
    <3>2. PICK y \in 1 .. 2 + 2 * n : y = 2 * i + 2
      OBVIOUS
    <3>3. stream[7 + x] = pdu[x] /\ stream[7 + y] = pdu[y]
      BY <2>1
    <3>4. 7 + x = 8 + 2 * i /\ 7 + y = 9 + 2 * i
      BY <3>1, <3>2
    <3> QED  BY <1>1, <3>1, <3>2, <3>3, <3>4
  <2> QED  BY <1>1, <2>2, <2>3, <2>4
<1>5. \A i \in 1 .. n : ReadU16(stream, 7 + 2 * i) = Contents(f, s + i - 1)
  <2> SUFFICES ASSUME NEW i \in 1 .. n PROVE ReadU16(stream, 7 + 2 * i) = Contents(f, s + i - 1)
    OBVIOUS
  <2> DEFINE w == Contents(f, s + i - 1)
  <2>1. w \in Nat
    BY DEF Held16
  <2>2. stream[8 + 2 * i] = w \div 256 /\ stream[9 + 2 * i] = w % 256
    BY <1>4
  <2> HIDE DEF w
  <2>3. PICK o \in Nat : o = 7 + 2 * i /\ o + 1 = 8 + 2 * i /\ o + 2 = 9 + 2 * i
    <3>1. 7 + 2 * i \in Nat
      OBVIOUS
    <3> QED  BY <3>1
  <2>4. stream[o + 1] = w \div 256 /\ stream[o + 2] = w % 256
    BY <2>2, <2>3
  <2>5. ReadU16(stream, o) = w
    BY <2>1, <2>4, ReadWord
  <2> QED  BY <2>3, <2>5 DEF w
<1>6. c \in Nat /\ c % 2 = 0 /\ c \div 2 = n /\ c <= 250 /\ (n # 0 <=> c >= 1)
  OBVIOUS
<1> HIDE DEF c
<1>7. f % 128 = f /\ ~(f >= 128)
  OBVIOUS
<1>8. Len(stream) # 0 /\ Len(stream) >= 9
  BY <1>4, <1>6
<1>9. ReadAnswerIsWhole(stream) <=> n # 0
  <2>1. ReadAnswerIsWhole(stream) <=> c \in 1 .. 250
    BY <1>4, <1>6, <1>8 DEF ReadAnswerIsWhole
  <2>2. c \in 1 .. 250 <=> n # 0
    BY <1>6
  <2> QED  BY <2>1, <2>2
<1> DEFINE response == DecodeResponse(stream)
<1>10. IF n # 0
       THEN /\ response # Malformed /\ ~response.exception
            /\ response.registers = [i \in 1 .. c \div 2 |-> ReadU16(stream, 7 + 2 * i)]
       ELSE response = Malformed
  <2>1. stream[8] % 128 = f /\ ~(stream[8] >= 128) /\ stream[9] = c
    BY <1>4, <1>7
  <2>2. ExpectedFrameLength(stream) # 0 /\ Len(stream) = ExpectedFrameLength(stream)
    BY <1>3, <1>8
  <2> HIDE DEF response
  <2>3. IF ReadAnswerIsWhole(stream)
        THEN /\ response # Malformed /\ ~response.exception
             /\ response.registers = [i \in 1 .. stream[9] \div 2 |-> ReadU16(stream, 7 + 2 * i)]
        ELSE response = Malformed
    BY <2>1, <2>2, DecodeIs DEF response
  <2> QED  BY <1>9, <2>1, <2>3
<1>11. [i \in 1 .. c \div 2 |-> ReadU16(stream, 7 + 2 * i)] = [i \in 1 .. n |-> Contents(f, s + i - 1)]
  BY <1>5, <1>6
<1> HIDE DEF response
<1>12. IF n = 0 THEN response = Malformed
       ELSE /\ response # Malformed /\ ~response.exception
            /\ response.registers = [i \in 1 .. n |-> Contents(f, s + i - 1)]
  BY <1>10, <1>11
<1> QED  BY <1>3, <1>12 DEF response

(* How many registers each kind of answer claims to have. *)
LEMMA ToldIs ==
  ASSUME NEW q
  PROVE  /\ Told("whole", q) = q /\ Told("long", q) = q + 1 /\ Told("short", q) = q - 1
         /\ Told("exception", q) = q /\ Told("odd", q) = q /\ Told("otherProtocol", q) = q
<1>1. /\ "whole" # "long" /\ "whole" # "short" /\ "long" # "short"
      /\ "exception" # "long" /\ "exception" # "short" /\ "odd" # "long" /\ "odd" # "short"
      /\ "otherProtocol" # "long" /\ "otherProtocol" # "short"
  BY Zenon
<1> QED  BY <1>1 DEF Told

(* The PDU of each kind of answer. *)
LEMMA SaidIs ==
  ASSUME NEW f, NEW s, NEW q
  PROVE  /\ Said("exception", f, s, q) = <<f + 128, 2>>
         /\ Said("odd", f, s, q) = Pdu(f, s, q, 2 * q - 1)
         /\ Said("whole", f, s, q) = Pdu(f, s, q, 2 * q)
         /\ Said("otherProtocol", f, s, q) = Pdu(f, s, q, 2 * q)
         /\ Said("long", f, s, q) = Pdu(f, s, q + 1, 2 * (q + 1))
         /\ Said("short", f, s, q) = Pdu(f, s, q - 1, 2 * (q - 1))
<1>1. /\ "exception" # "odd"
      /\ \A kind \in {"whole", "otherProtocol", "long", "short"} : kind # "exception" /\ kind # "odd"
  BY Zenon
<1>2. Said("exception", f, s, q) = <<f + 128, 2>>
  BY <1>1, Zenon DEF Said
<1>3. Said("odd", f, s, q) = Pdu(f, s, Told("odd", q), 2 * Told("odd", q) - 1)
  BY <1>1, Zenon DEF Said
<1>4. \A kind \in {"whole", "otherProtocol", "long", "short"} :
        Said(kind, f, s, q) = Pdu(f, s, Told(kind, q), 2 * Told(kind, q))
  BY <1>1, Zenon DEF Said
<1> QED  BY <1>2, <1>3, <1>4, ToldIs, Zenon

(* The bytes that arrive, of each kind. *)
LEMMA ArrivesFramed ==
  ASSUME NEW kind, NEW f \in Nat, NEW s \in Nat, NEW q \in Nat,
         NEW request, IsRequest(request, f, s, q),
         NEW protocol \in {0, 1}, protocol = IF kind = "otherProtocol" THEN 1 ELSE 0,
         NEW pdu \in Seq(Nat), Len(pdu) >= 1, Len(pdu) <= 254, pdu = Said(kind, f, s, q)
  PROVE  IsFrame(Answer(kind, request), protocol, pdu)
<1> DEFINE head == SubSeq(request, 1, 2)
<1>1. Answer(kind, request) = Framed(head, protocol, pdu)
  BY AnswerIs
<1>2. head \in Seq(Nat) /\ Len(head) = 2
  BY DEF IsRequest
<1> HIDE DEF head
<1>3. IsFrame(Framed(head, protocol, pdu), protocol, pdu)
  BY <1>2, FramedIs
<1> QED  BY <1>1, <1>3

(* The registers the device is asked for. *)
Asked(f, s, q) == f \in {3, 4} /\ s \in Nat /\ q \in Nat /\ 1 <= q /\ q <= 125 /\ s + q <= 65536

(* The largest word. *)
LEMMA LargestWord == U16 \in Nat /\ U16 = 65535
BY SMT DEF U16

(* A register holds a word. *)
LEMMA ContentsAre ==
  ASSUME NEW f \in Functions, NEW a \in Nat, a <= 65536
  PROVE  Contents(f, a) \in Nat /\ Contents(f, a) <= U16
<1>1. U16 \in Nat /\ a <= U16 + 1
  BY LargestWord
<1>2. a \in 0 .. U16 + 1
  BY <1>1
<1>3. Contents(f, a) \in 0 .. U16
  BY <1>2, ContentsAssumption
<1> QED  BY <1>1, <1>3

(* What may be asked for is held by the device, and one more. *)
LEMMA AskedAreHeld ==
  ASSUME NEW f, NEW s, NEW q, Asked(f, s, q), NEW n \in Nat, n <= q + 1
  PROVE  Held16(f, s, n)
<1>1. f \in {3, 4} /\ s \in Nat /\ q \in Nat /\ s + q <= 65536
  BY DEF Asked
<1>2. f \in Functions
  BY <1>1, ReadFunctions
<1> SUFFICES ASSUME NEW i \in 1 .. n PROVE Contents(f, s + i - 1) \in Nat
  BY DEF Held16
<1>3. PICK a \in Nat : a = s + i - 1 /\ a <= 65536
  <2>1. s + i - 1 \in Nat /\ s + i - 1 <= 65536
    BY <1>1
  <2> QED  BY <2>1
<1>4. Contents(f, a) \in Nat
  BY <1>2, <1>3, ContentsAre
<1> QED  BY <1>3, <1>4

(* The kinds of answers that hold all that was asked for, and can be framed. *)
Useful(kind, q) == kind \in {"whole", "long"} /\ (kind = "long" => q < 125)

(* A response with the registers from s on. *)
Accepted(response, f, s, n) ==
  /\ response # Malformed /\ ~response.exception
  /\ response.registers = [i \in 1 .. n |-> Contents(f, s + i - 1)]

(* A useful answer is decoded to the registers asked for. *)
LEMMA UsefulIsAccepted ==
  ASSUME NEW f, NEW s, NEW q, Asked(f, s, q), NEW request, IsRequest(request, f, s, q),
         NEW kind, NEW n \in Nat, n <= q + 1, n <= 125, kind # "otherProtocol",
         Said(kind, f, s, q) = Pdu(f, s, n, 2 * n)
  PROVE  IF n = 0 THEN DecodeResponse(FrameOf(Answer(kind, request))) = Malformed
                  ELSE Accepted(DecodeResponse(FrameOf(Answer(kind, request))), f, s, n)
<1> DEFINE pdu == Pdu(f, s, n, 2 * n)
           c == 2 * n
           stream == Answer(kind, request)
<1>1. f \in {3, 4} /\ f \in Nat /\ s \in Nat /\ q \in Nat /\ c \in Nat /\ 0 \in {0, 1}
  BY DEF Asked
<1>2. Held16(f, s, n)
  BY AskedAreHeld
<1>3. IsBody(pdu, f, s, n, c)
  BY <1>1, <1>2, BodyIs
<1>4. pdu \in Seq(Nat) /\ Len(pdu) >= 1 /\ Len(pdu) <= 254
  <2> HIDE DEF pdu
  <2> QED  BY <1>3 DEF IsBody
<1> HIDE DEF pdu
<1>5. pdu = Said(kind, f, s, q) /\ 0 = IF kind = "otherProtocol" THEN 1 ELSE 0
  BY DEF pdu
<1>6. IsFrame(stream, 0, pdu)
  BY <1>1, <1>4, <1>5, ArrivesFramed
<1> HIDE DEF stream
<1>7. IF n = 0 THEN DecodeResponse(FrameOf(stream)) = Malformed
      ELSE /\ DecodeResponse(FrameOf(stream)) # Malformed /\ ~DecodeResponse(FrameOf(stream)).exception
           /\ DecodeResponse(FrameOf(stream)).registers = [i \in 1 .. n |-> Contents(f, s + i - 1)]
  <2>1. IsFrame(stream, 0, Pdu(f, s, n, 2 * n))
    BY <1>6 DEF pdu
  <2>2. f \in {3, 4} /\ s \in Nat
    BY <1>1
  <2> QED  BY <1>2, <2>1, <2>2, BodyIsDecoded, SMTT(60)
<1> QED  BY <1>7 DEF Accepted, stream

(* Any other is refused. *)
LEMMA OtherIsRefused ==
  ASSUME NEW f, NEW s, NEW q, Asked(f, s, q), NEW request, IsRequest(request, f, s, q),
         NEW kind \in AnswerKinds, ~Useful(kind, q)
  PROVE  NotRead(DecodeResponse(FrameOf(Answer(kind, request))), q)
<1> DEFINE stream == Answer(kind, request)
           pdu == Said(kind, f, s, q)
<1>1. f \in {3, 4} /\ f \in Nat /\ s \in Nat /\ q \in Nat /\ 1 <= q /\ q <= 125 /\ 0 \in {0, 1} /\ 1 \in {0, 1}
  BY DEF Asked
<1>2. \A n \in Nat : n <= q + 1 => Held16(f, s, n)
  BY AskedAreHeld
<1>3. \A n, c \in Nat : n <= q + 1 =>
        LET body == Pdu(f, s, n, c)
        IN  body \in Seq(Nat) /\ Len(body) = 2 + 2 * n /\ body[1] = f /\ body[2] = c
  <2> SUFFICES ASSUME NEW n \in Nat, NEW c \in Nat, n <= q + 1
               PROVE  LET body == Pdu(f, s, n, c)
                      IN  body \in Seq(Nat) /\ Len(body) = 2 + 2 * n /\ body[1] = f /\ body[2] = c
    OBVIOUS
  <2>1. IsBody(Pdu(f, s, n, c), f, s, n, c)
    BY <1>1, <1>2, BodyIs
  <2> QED  BY <2>1 DEF IsBody
<1>4. kind # "otherProtocol" => 0 = IF kind = "otherProtocol" THEN 1 ELSE 0
  OBVIOUS
<1>5. /\ "exception" # "otherProtocol" /\ "odd" # "otherProtocol" /\ "long" # "otherProtocol"
      /\ "short" # "otherProtocol"
  BY Zenon
<1>6. CASE kind = "exception"
  <2>1. PICK p : p = <<f + 128, 2>>
    OBVIOUS
  <2>2. p \in Seq(Nat) /\ Len(p) = 2 /\ p[1] = f + 128
    BY <1>1, <2>1
  <2>3. p = Said(kind, f, s, q)
    BY <1>6, <2>1, SaidIs
  <2>4. Len(p) >= 1 /\ Len(p) <= 254
    BY <2>2
  <2>5. IsFrame(stream, 0, p)
    BY <1>1, <1>4, <1>5, <1>6, <2>2, <2>3, <2>4, ArrivesFramed
  <2> HIDE DEF stream
  <2>6. NotRead(DecodeResponse(FrameOf(stream)), q)
    BY <1>1, <2>2, <2>5, ExceptionIsRefused
  <2> QED  BY <2>6 DEF stream
<1>7. CASE kind = "odd"
  <2>1. PICK c \in Nat : c = 2 * q - 1 /\ c % 2 = 1
    <3>1. 2 * q - 1 \in Nat /\ (2 * q - 1) % 2 = 1
      BY <1>1
    <3> QED  BY <3>1
  <2>2. PICK p : p = Pdu(f, s, q, c)
    OBVIOUS
  <2>3. p \in Seq(Nat) /\ Len(p) = 2 + 2 * q /\ p[1] = f /\ p[2] = c
    <3>1. q <= q + 1
      BY <1>1
    <3> QED  BY <1>1, <1>3, <2>2, <3>1
  <2>4. p = Said(kind, f, s, q)
    BY <1>7, <2>1, <2>2, SaidIs
  <2>5. Len(p) >= 1 /\ Len(p) <= 254 /\ Len(p) >= 2 /\ Len(p) <= 253 /\ p[2] % 2 = 1
    BY <1>1, <2>1, <2>3
  <2>6. IsFrame(stream, 0, p)
    BY <1>1, <1>4, <1>5, <1>7, <2>3, <2>4, <2>5, ArrivesFramed
  <2> HIDE DEF stream
  <2>7. NotRead(DecodeResponse(FrameOf(stream)), q)
    BY <1>1, <2>3, <2>5, <2>6, OddIsRefused
  <2> QED  BY <2>7 DEF stream
<1>8. CASE kind = "otherProtocol"
  <2>0. PICK c \in Nat : c = 2 * q
    BY <1>1
  <2>1. PICK p : p = Pdu(f, s, q, c)
    OBVIOUS
  <2>2. p \in Seq(Nat) /\ Len(p) = 2 + 2 * q
    <3>1. q <= q + 1
      BY <1>1
    <3> QED  BY <1>1, <1>3, <2>1, <3>1
  <2>3. p = Said(kind, f, s, q)
    BY <1>8, <2>0, <2>1, SaidIs
  <2>4. Len(p) >= 1 /\ Len(p) <= 254
    BY <1>1, <2>2
  <2>5. IsFrame(stream, 1, p)
    BY <1>1, <1>8, <2>2, <2>3, <2>4, ArrivesFramed
  <2> HIDE DEF stream
  <2>6. NotRead(DecodeResponse(FrameOf(stream)), q)
    BY <1>1, <2>2, <2>4, <2>5, NoFrameIsRefused
  <2> QED  BY <2>6 DEF stream
<1>9. CASE kind = "long" /\ ~(q < 125)
  <2>1. PICK n \in Nat : n = q + 1 /\ n <= q + 1 /\ 2 + 2 * n = 254
    <3>1. q + 1 \in Nat /\ q + 1 <= q + 1 /\ 2 + 2 * (q + 1) = 254
      BY <1>1, <1>9
    <3> QED  BY <3>1
  <2>1c. PICK c \in Nat : c = 2 * n
    OBVIOUS
  <2>2. PICK p : p = Pdu(f, s, n, c)
    OBVIOUS
  <2>3. p \in Seq(Nat) /\ Len(p) = 254
    <3>1. n <= q + 1
      BY <2>1
    <3>2. p \in Seq(Nat) /\ Len(p) = 2 + 2 * n
      BY <1>1, <1>3, <2>2, <3>1
    <3> QED  BY <2>1, <3>2
  <2>4. p = Said(kind, f, s, q)
    BY <1>9, <2>1, <2>1c, <2>2, SaidIs
  <2>5. Len(p) >= 1 /\ Len(p) <= 254
    BY <2>3
  <2>6. IsFrame(stream, 0, p)
    <3>1. 0 = IF kind = "otherProtocol" THEN 1 ELSE 0
      BY <1>4, <1>5, <1>9
    <3>2. p \in Seq(Nat) /\ Len(p) >= 1 /\ Len(p) <= 254
      BY <2>3
    <3> QED  BY <1>1, <2>4, <3>1, <3>2, ArrivesFramed
  <2> HIDE DEF stream
  <2>7. NotRead(DecodeResponse(FrameOf(stream)), q)
    BY <1>1, <2>3, <2>5, <2>6, NoFrameIsRefused
  <2> QED  BY <2>7 DEF stream
<1>10. CASE kind = "short"
  <2>1. PICK n \in Nat : n = q - 1 /\ n <= q + 1 /\ n <= 125 /\ n < q
    <3>1. q - 1 \in Nat /\ q - 1 <= q + 1 /\ q - 1 <= 125 /\ q - 1 < q
      BY <1>1
    <3> QED  BY <3>1
  <2>2. Said(kind, f, s, q) = Pdu(f, s, n, 2 * n)
    BY <1>10, <2>1, SaidIs
  <2>3. IF n = 0 THEN DecodeResponse(FrameOf(stream)) = Malformed
        ELSE Accepted(DecodeResponse(FrameOf(stream)), f, s, n)
    BY <1>5, <1>10, <2>1, <2>2, UsefulIsAccepted
  <2> DEFINE response == DecodeResponse(FrameOf(stream))
  <2> HIDE DEF response
  <2>4. CASE n = 0
    BY <2>3, <2>4 DEF NotRead, response
  <2>5. CASE n # 0
    <3>1. response.registers = [i \in 1 .. n |-> Contents(f, s + i - 1)]
      BY <2>3, <2>5 DEF Accepted, response
    <3>2. Len(response.registers) = n
      BY <3>1
    <3> QED  BY <2>1, <3>2 DEF NotRead, response
  <2> QED  BY <2>4, <2>5
<1>11. \/ kind = "exception" \/ kind = "odd" \/ kind = "otherProtocol" \/ kind = "short"
       \/ kind = "long" /\ ~(q < 125)
  <2>1. kind = "whole" => Useful(kind, q)
    <3>1. "whole" # "long"
      BY Zenon
    <3> QED  BY <3>1 DEF Useful
  <2> QED  BY <2>1 DEF AnswerKinds, Useful
<1> QED  BY <1>6, <1>7, <1>8, <1>9, <1>10, <1>11

-----------------------------------------------------------------------------
(***************************************************************************)
(* The registers of a block and the values of its sensors.                 *)
(***************************************************************************)

(* The function code, the start and the quantity a block is read with. *)
AskedBlock(block) == Asked(FunctionCode[block.register_type], block.start, block.quantity)

(* What a block's request gives. *)
LEMMA ReadRegistersIs ==
  ASSUME NEW block, AskedBlock(block), NEW kind \in AnswerKinds
  PROVE  IF Useful(kind, block.quantity)
         THEN \E n \in Nat : /\ n >= block.quantity
                             /\ ReadRegisters(block, kind) =
                                  [i \in 1 .. n |-> Contents(FunctionCode[block.register_type], block.start + i - 1)]
         ELSE ReadRegisters(block, kind) = Failed
<1> DEFINE f == FunctionCode[block.register_type]
           s == block.start
           q == block.quantity
           request == EncodeRequest(1, 1, f, s, q)
           response == DecodeResponse(FrameOf(Answer(kind, request)))
           read == ReadRegisters(block, kind)
<1>1. /\ Asked(f, s, q) /\ f \in {3, 4} /\ f \in Nat /\ s \in Nat /\ q \in Nat
      /\ 1 <= q /\ q <= 125
  BY DEF AskedBlock, Asked
<1>2. read = IF NotRead(response, q) THEN Failed ELSE response.registers
  BY Zenon DEF ReadRegisters, NotRead
<1> HIDE DEF f, s, q, read
<1>3. IsRequest(request, f, s, q)
  BY <1>1, RequestIs
<1> HIDE DEF request
<1>4. CASE ~Useful(kind, q)
  <2>1. NotRead(response, q)
    BY <1>1, <1>3, <1>4, OtherIsRefused
  <2> HIDE DEF response
  <2> QED  BY <1>2, <1>4, <2>1 DEF read, q
<1>5. CASE Useful(kind, q)
  <2>1. PICK n \in Nat : /\ n <= q + 1 /\ n <= 125 /\ n >= q
                         /\ Said(kind, f, s, q) = Pdu(f, s, n, 2 * n)
    <3>1. CASE kind = "whole"
      <4>1. Said(kind, f, s, q) = Pdu(f, s, q, 2 * q) /\ q <= q + 1
        BY <1>1, <3>1, SaidIs
      <4> QED  BY <1>1, <4>1
    <3>2. CASE kind = "long"
      <4>1. q < 125
        BY <1>5, <3>2 DEF Useful
      <4>2. Said(kind, f, s, q) = Pdu(f, s, q + 1, 2 * (q + 1))
        BY <3>2, SaidIs
      <4>3. q + 1 \in Nat /\ q + 1 <= q + 1 /\ q + 1 <= 125 /\ q + 1 >= q
        BY <1>1, <4>1
      <4> QED  BY <4>2, <4>3
    <3> QED  BY <1>5, <3>1, <3>2 DEF Useful
  <2>2. kind # "otherProtocol"
    <3>1. "whole" # "otherProtocol" /\ "long" # "otherProtocol"
      BY Zenon
    <3> QED  BY <1>5, <3>1 DEF Useful
  <2>3. IF n = 0 THEN response = Malformed ELSE Accepted(response, f, s, n)
    BY <1>1, <1>3, <2>1, <2>2, UsefulIsAccepted
  <2> HIDE DEF response
  <2>4. Accepted(response, f, s, n)
    BY <1>1, <2>1, <2>3
  <2>5. response.registers = [i \in 1 .. n |-> Contents(f, s + i - 1)]
    BY <2>4 DEF Accepted
  <2>6. Len(response.registers) = n
    BY <2>5
  <2>7. ~NotRead(response, q)
    <3>1. ~(n < q)
      BY <1>1, <2>1
    <3> QED  BY <2>4, <2>6, <3>1 DEF Accepted, NotRead
  <2>8. read = [i \in 1 .. n |-> Contents(f, s + i - 1)]
    BY <1>2, <2>5, <2>7
  <2> QED  BY <1>5, <2>1, <2>8 DEF read, f, s, q
<1> QED  BY <1>4, <1>5

(* A sequence of one. *)
LEMMA SingleIs == ASSUME NEW s \in Seq(Nat), Len(s) = 1 PROVE s = <<s[1]>>
OBVIOUS

(* A sequence of two. *)
LEMMA PairIs == ASSUME NEW s \in Seq(Nat), Len(s) = 2 PROVE s = <<s[1], s[2]>>
OBVIOUS

(* The bits of a word. *)
LEMMA WordBits ==
  ASSUME NEW a \in Nat, a <= U16
  PROVE  /\ Signed(a) = (IF a \div 32768 = 1 THEN a - 65536 ELSE a)
         /\ (a % 32768) \div 128 = (a \div 128) % 256
BY LargestWord DEF Signed

(* The words of a value, decoded. *)
LEMMA OneWordIs ==
  ASSUME NEW a \in Nat, a <= U16, NEW type, NEW wordOrder
  PROVE  DecodeRaw(<<a>>, type, wordOrder) =
           IF type \in {"int16", "int32"} THEN <<IF a \div 32768 = 1 THEN a - 65536 ELSE a>> ELSE <<a>>
<1>1. Len(<<a>>) = 1 /\ [<<a>> EXCEPT ![1] = Signed(@)] = <<Signed(a)>>
  OBVIOUS
<1>2. DecodeRaw(<<a>>, type, wordOrder) = IF type \in {"int16", "int32"} THEN <<Signed(a)>> ELSE <<a>>
  BY <1>1, Zenon DEF DecodeRaw
<1> QED  BY <1>2, WordBits

(* decode_raw of two words, in either word order. *)
LEMMA TwoWordsAre ==
  ASSUME NEW a \in Nat, a <= U16, NEW b \in Nat, b <= U16, NEW type, NEW wordOrder \in WordOrders
  PROVE  LET high == IF wordOrder = "little" THEN b ELSE a
             low  == IF wordOrder = "little" THEN a ELSE b
         IN  DecodeRaw(<<a, b>>, type, wordOrder) =
               IF type \in {"int16", "int32"} THEN <<IF high \div 32768 = 1 THEN high - 65536 ELSE high, low>>
               ELSE <<high, low>>
<1>1. Len(<<a, b>>) # 1 /\ Reverse(<<a, b>>) = <<b, a>>
  BY DEF Reverse
<1>2. wordOrder = "big" \/ wordOrder = "little"
  BY DEF WordOrders
<1>3. "big" # "little"
  BY Zenon
<1> DEFINE high == IF wordOrder = "little" THEN b ELSE a
           low == IF wordOrder = "little" THEN a ELSE b
           words == IF Len(<<a, b>>) = 1 \/ wordOrder = "big" THEN <<a, b>> ELSE Reverse(<<a, b>>)
<1>4. words = <<high, low>>
  BY <1>1, <1>2, <1>3
<1>5. high \in Nat /\ high <= U16
  OBVIOUS
<1>6. DecodeRaw(<<a, b>>, type, wordOrder) =
        IF type \in {"int16", "int32"} THEN [words EXCEPT ![1] = Signed(@)] ELSE words
  BY Zenon DEF DecodeRaw
<1> HIDE DEF high, low, words
<1>7. [<<high, low>> EXCEPT ![1] = Signed(@)] = <<Signed(high), low>>
  OBVIOUS
<1>8. Signed(high) = IF high \div 32768 = 1 THEN high - 65536 ELSE high
  BY <1>5, WordBits
<1>9. DecodeRaw(<<a, b>>, type, wordOrder) =
        IF type \in {"int16", "int32"} THEN <<IF high \div 32768 = 1 THEN high - 65536 ELSE high, low>>
        ELSE <<high, low>>
  BY <1>4, <1>6, <1>7, <1>8
<1> QED  BY <1>9 DEF high, low

(* The data types of one register and of two. *)
LEMMA TypesAre ==
  /\ \A type \in DataTypes : RegisterCount(type) = 1 => type # "float32" /\ type # "int32"
  /\ "float32" \notin {"int16", "int32"}
  /\ \A type : RegisterCount(type) = 1 \/ RegisterCount(type) = 2
<1>1. /\ "float32" # "uint16" /\ "float32" # "int16" /\ "float32" # "int32"
      /\ "int32" # "uint16" /\ "int32" # "int16"
  BY Zenon
<1>2. \A type : RegisterCount(type) = IF type \in {"uint16", "int16"} THEN 1 ELSE 2
  BY DEF RegisterCount
<1>3. \A type : RegisterCount(type) = 1 => type = "uint16" \/ type = "int16"
  BY <1>2
<1> QED  BY <1>1, <1>2, <1>3

(* What n registers from start on hold. *)
IsRead(registers, f, s, n) == registers = [i \in 1 .. n |-> Contents(f, s + i - 1)]

(* The words of a sensor, c from address a on, are among them. *)
WordsAre(registers, f, s, a, c) ==
  /\ Contents(f, a) \in Nat /\ Contents(f, a) <= U16
  /\ c = 2 => Contents(f, a + 1) \in Nat /\ Contents(f, a + 1) <= U16
  /\ a - s \in Nat /\ a - s + c <= Len(registers)
  /\ SubSeq(registers, a - s + 1, a - s + c) =
       IF c = 1 THEN <<Contents(f, a)>> ELSE <<Contents(f, a), Contents(f, a + 1)>>

(* The words of a sensor in the registers of its block. *)
LEMMA WordsOfSensor ==
  ASSUME NEW f, NEW s, NEW q, Asked(f, s, q), NEW n \in Nat, n >= q,
         NEW registers, IsRead(registers, f, s, n),
         NEW a \in Nat, NEW c \in {1, 2}, s <= a, a + c <= s + q
  PROVE  WordsAre(registers, f, s, a, c)
<1>1. f \in {3, 4} /\ s \in Nat /\ q \in Nat /\ 1 <= q /\ q <= 125 /\ s + q <= 65536
  BY DEF Asked
<1>2. f \in Functions
  BY <1>1, ReadFunctions
<1>3. Contents(f, a) \in Nat /\ Contents(f, a) <= U16
  <2>1. a <= 65536
    BY <1>1
  <2> QED  BY <1>2, <2>1, ContentsAre
<1>4. c = 2 => Contents(f, a + 1) \in Nat /\ Contents(f, a + 1) <= U16
  <2>1. c = 2 => a + 1 \in Nat /\ a + 1 <= 65536
    BY <1>1
  <2> QED  BY <1>2, <2>1, ContentsAre
<1>5. PICK o \in Nat : o = a - s
  <2>1. a - s \in Nat
    BY <1>1
  <2> QED  BY <2>1
<1>6. o + c <= n
  BY <1>1, <1>5
<1>7. /\ registers = [i \in 1 .. n |-> Contents(f, s + i - 1)]
      /\ Len(registers) = n
  BY DEF IsRead
<1>8. \A k \in 1 .. c : registers[o + k] = Contents(f, a + k - 1)
  <2> SUFFICES ASSUME NEW k \in 1 .. c PROVE registers[o + k] = Contents(f, a + k - 1)
    OBVIOUS
  <2>1. PICK j \in 1 .. n : j = o + k
    BY <1>6
  <2>2. registers[j] = Contents(f, s + j - 1)
    BY <1>7
  <2>3. s + j - 1 = a + k - 1
    BY <1>1, <1>5, <2>1
  <2> QED  BY <2>1, <2>2, <2>3
<1> DEFINE words == SubSeq(registers, o + 1, o + c)
<1>9. words = [k \in 1 .. c |-> Contents(f, a + k - 1)]
  <2>1. words = [k \in 1 .. (o + c) - (o + 1) + 1 |-> registers[(o + 1) + k - 1]]
    BY DEF SubSeq
  <2>2. (o + c) - (o + 1) + 1 = c
    OBVIOUS
  <2>3. \A k \in 1 .. c : (o + 1) + k - 1 = o + k
    OBVIOUS
  <2>4. words = [k \in 1 .. c |-> registers[o + k]]
    BY <2>1, <2>2, <2>3
  <2> QED  BY <1>8, <2>4
<1> HIDE DEF words
<1>10. CASE c = 1
  <2>1. words[1] = Contents(f, a)
    <3>1. words[1] = Contents(f, a + 1 - 1)
      BY <1>9, <1>10
    <3>2. a + 1 - 1 = a
      OBVIOUS
    <3> QED  BY <3>1, <3>2
  <2>2. DOMAIN words = 1 .. 1
    BY <1>9, <1>10
  <2>3. words \in Seq(Nat) /\ Len(words) = 1
    <3>1. words = [k \in 1 .. 1 |-> words[k]]
      BY <1>9, <1>10
    <3> QED  BY <1>3, <2>1, <3>1
  <2>4. words = <<Contents(f, a)>>
    BY <2>1, <2>3, SingleIs
  <2> QED  BY <1>3, <1>5, <1>6, <1>7, <1>10, <2>4 DEF words, WordsAre
<1>11. CASE c = 2
  <2>1. words[1] = Contents(f, a) /\ words[2] = Contents(f, a + 1)
    <3>1. words[1] = Contents(f, a + 1 - 1) /\ words[2] = Contents(f, a + 2 - 1)
      BY <1>9, <1>11
    <3>2. a + 1 - 1 = a /\ a + 2 - 1 = a + 1
      OBVIOUS
    <3> QED  BY <3>1, <3>2
  <2>2. words \in Seq(Nat) /\ Len(words) = 2
    <3>1. words = [k \in 1 .. 2 |-> words[k]]
      BY <1>9, <1>11
    <3> QED  BY <1>3, <1>4, <1>11, <2>1, <3>1
  <2>3. words = <<Contents(f, a), Contents(f, a + 1)>>
    BY <2>1, <2>2, PairIs
  <2> QED  BY <1>3, <1>4, <1>5, <1>6, <1>7, <1>11, <2>3 DEF words, WordsAre
<1> QED  BY <1>10, <1>11

(* What the words of a sensor stand for. *)
Meaning(type, wordOrder, a, b) ==
  LET high == IF wordOrder = "little" THEN b ELSE a
      low  == IF wordOrder = "little" THEN a ELSE b
      signed(w) == IF type \in {"int16", "int32"} /\ w \div 32768 = 1 THEN w - 65536 ELSE w
  IN  IF type = "float32" /\ (high \div 128) % 256 = 255 THEN NoValue
      ELSE IF RegisterCount(type) = 1 THEN <<signed(a)>>
      ELSE <<signed(high), low>>

(* What the device holds for a sensor is what its words stand for. *)
LEMMA ValueIsMeaning ==
  ASSUME NEW sensor, sensor.address \in Nat
  PROVE  ValueOf(sensor) = Meaning(sensor.data_type, sensor.word_order,
                                   Contents(FunctionCode[sensor.register_type], sensor.address),
                                   Contents(FunctionCode[sensor.register_type], sensor.address + 1))
<1>1. sensor.address + 0 = sensor.address
  OBVIOUS
<1> QED  BY <1>1 DEF ValueOf, Meaning

(* decode_raw gives what one word stands for. *)
LEMMA OneWordMeans ==
  ASSUME NEW type \in DataTypes, RegisterCount(type) = 1, NEW wordOrder,
         NEW a \in Nat, a <= U16, NEW b
  PROVE  /\ IsFinite(type, DecodeRaw(<<a>>, type, wordOrder))
         /\ Meaning(type, wordOrder, a, b) = DecodeRaw(<<a>>, type, wordOrder)
<1>1. type # "float32"
  BY TypesAre
<1>2. IsFinite(type, DecodeRaw(<<a>>, type, wordOrder))
  BY <1>1 DEF IsFinite
<1>3. Meaning(type, wordOrder, a, b) =
        <<IF type \in {"int16", "int32"} /\ a \div 32768 = 1 THEN a - 65536 ELSE a>>
  BY <1>1 DEF Meaning
<1>4. DecodeRaw(<<a>>, type, wordOrder) =
        IF type \in {"int16", "int32"} THEN <<IF a \div 32768 = 1 THEN a - 65536 ELSE a>> ELSE <<a>>
  BY OneWordIs
<1>5. CASE type \in {"int16", "int32"}
  BY <1>2, <1>3, <1>4, <1>5
<1>6. CASE type \notin {"int16", "int32"}
  BY <1>2, <1>3, <1>4, <1>6
<1> QED  BY <1>5, <1>6

(* And what two words stand for, unless they are no number. *)
LEMMA TwoWordsMean ==
  ASSUME NEW type \in DataTypes, RegisterCount(type) = 2, NEW wordOrder \in WordOrders,
         NEW a \in Nat, a <= U16, NEW b \in Nat, b <= U16
  PROVE  LET words == DecodeRaw(<<a, b>>, type, wordOrder)
         IN  Meaning(type, wordOrder, a, b) = IF IsFinite(type, words) THEN words ELSE NoValue
<1> DEFINE high == IF wordOrder = "little" THEN b ELSE a
           low == IF wordOrder = "little" THEN a ELSE b
           words == DecodeRaw(<<a, b>>, type, wordOrder)
           whole == type \in {"int16", "int32"}
<1>1. words = IF whole THEN <<IF high \div 32768 = 1 THEN high - 65536 ELSE high, low>> ELSE <<high, low>>
  BY TwoWordsAre
<1>2. RegisterCount(type) # 1 /\ (type = "float32" => ~whole)
  BY TypesAre
<1>3. high \in Nat /\ high <= U16
  OBVIOUS
<1>4. Meaning(type, wordOrder, a, b) =
        IF type = "float32" /\ (high \div 128) % 256 = 255 THEN NoValue
        ELSE <<IF whole /\ high \div 32768 = 1 THEN high - 65536 ELSE high, low>>
  BY <1>2 DEF Meaning
<1> HIDE DEF high, low, words, whole
<1>5. CASE type = "float32"
  <2>1. words = <<high, low>> /\ words[1] = high
    BY <1>1, <1>2, <1>5
  <2>2. IsFinite(type, words) <=> ~((high \div 128) % 256 = 255)
    <3>1. (high % 32768) \div 128 = (high \div 128) % 256
      BY <1>3, WordBits
    <3>2. IsFinite(type, words) <=> (high % 32768) \div 128 # 255
      BY <1>5, <2>1 DEF IsFinite
    <3> QED  BY <3>1, <3>2
  <2>3. ~whole
    BY <1>2, <1>5
  <2>4. Meaning(type, wordOrder, a, b) = IF (high \div 128) % 256 = 255 THEN NoValue ELSE <<high, low>>
    BY <1>4, <1>5, <2>3
  <2> QED  BY <2>1, <2>2, <2>4 DEF words
<1>6. CASE type # "float32"
  <2>1. IsFinite(type, words)
    BY <1>6 DEF IsFinite
  <2>2. Meaning(type, wordOrder, a, b) =
          <<IF whole /\ high \div 32768 = 1 THEN high - 65536 ELSE high, low>>
    BY <1>4, <1>6
  <2>3. words = <<IF whole /\ high \div 32768 = 1 THEN high - 65536 ELSE high, low>>
    <3>1. CASE whole
      BY <1>1, <3>1
    <3>2. CASE ~whole
      BY <1>1, <3>2
    <3> QED  BY <3>1, <3>2
  <2> QED  BY <2>1, <2>2, <2>3 DEF words
<1> QED  BY <1>5, <1>6

(* A sensor gets what its own registers hold. *)
LEMMA ExtractIsValue ==
  ASSUME NEW block, AskedBlock(block), NEW sensor \in SensorSettings,
         block.register_type = sensor.register_type,
         block.start <= First(sensor), End(sensor) <= Stop(block),
         NEW n \in Nat, n >= block.quantity,
         NEW registers, IsRead(registers, FunctionCode[block.register_type], block.start, n)
  PROVE  ExtractValue(block, registers, sensor) = ValueOf(sensor)
<1> DEFINE f == FunctionCode[sensor.register_type]
           s == block.start
           q == block.quantity
           a == sensor.address
           type == sensor.data_type
           order == sensor.word_order
           c == RegisterCount(type)
           raw == SubSeq(registers, a - s + 1, a - s + c)
           words == DecodeRaw(raw, type, order)
           value == ExtractValue(block, registers, sensor)
<1>1. a \in Nat /\ type \in DataTypes /\ order \in WordOrders /\ c \in {1, 2}
  BY TypesAre DEF SensorSettings
<1>2. Asked(f, s, q) /\ s <= a /\ a + c <= s + q /\ s \in Nat /\ q \in Nat
  BY DEF AskedBlock, Asked, First, End, Stop
<1>3. IsRead(registers, f, s, n) /\ n >= q
  OBVIOUS
<1>4. value = IF a - s < 0 \/ a - s + c > Len(registers) \/ ~IsFinite(type, words) THEN NoValue ELSE words
  BY Zenon DEF ExtractValue
<1>5. ValueOf(sensor) = Meaning(type, order, Contents(f, a), Contents(f, a + 1))
  BY <1>1, ValueIsMeaning
<1> HIDE DEF f, s, q, a, type, order, c, raw, words, value
<1> DEFINE x == Contents(f, a)
           y == Contents(f, a + 1)
<1>6. /\ x \in Nat /\ x <= U16
      /\ c = 2 => y \in Nat /\ y <= U16
      /\ a - s \in Nat /\ a - s + c <= Len(registers)
      /\ SubSeq(registers, a - s + 1, a - s + c) = IF c = 1 THEN <<x>> ELSE <<x, y>>
  <2>1. WordsAre(registers, f, s, a, c)
    BY <1>1, <1>2, <1>3, WordsOfSensor
  <2> QED  BY <2>1 DEF WordsAre
<1> HIDE DEF x, y
<1>7. raw = IF c = 1 THEN <<x>> ELSE <<x, y>>
  BY <1>6 DEF raw
<1>8. value = IF IsFinite(type, words) THEN words ELSE NoValue
  <2>1. ~(a - s < 0)
    <3>1. a - s \in Nat
      BY <1>6
    <3> QED  BY <1>1, <1>2, <3>1
  <2>2. ~(a - s + c > Len(registers))
    <3>1. Len(registers) = n
      BY <1>3 DEF IsRead
    <3>2. a - s + c \in Int /\ n \in Int /\ a - s + c <= n
      BY <1>1, <1>2, <1>6, <3>1
    <3> QED  BY <3>1, <3>2
  <2> QED  BY <1>4, <2>1, <2>2
<1>9. CASE c = 1
  <2>1. words = DecodeRaw(<<x>>, type, order)
    BY <1>7, <1>9 DEF words
  <2>2. /\ IsFinite(type, DecodeRaw(<<x>>, type, order))
        /\ Meaning(type, order, x, y) = DecodeRaw(<<x>>, type, order)
    BY <1>1, <1>6, <1>9, OneWordMeans DEF c
  <2> QED  BY <1>5, <1>8, <2>1, <2>2 DEF value, x, y
<1>10. CASE c = 2
  <2>1. words = DecodeRaw(<<x, y>>, type, order)
    BY <1>7, <1>10 DEF words
  <2>2. Meaning(type, order, x, y) = IF IsFinite(type, DecodeRaw(<<x, y>>, type, order))
                                     THEN DecodeRaw(<<x, y>>, type, order) ELSE NoValue
    BY <1>1, <1>6, <1>10, TwoWordsMean DEF c
  <2> QED  BY <1>5, <1>8, <2>1, <2>2 DEF value, x, y
<1> QED  BY <1>1, <1>9, <1>10

(* Each register type has a function code that reads it. *)
LEMMA ReadTypes == \A type \in RegisterTypes : FunctionCode[type] \in {3, 4}
BY ReadFunctions DEF RegisterTypes

(* The requests of a plan are ones the device can answer. *)
LEMMA BlocksAreAsked ==
  ASSUME NEW sensors, Listed(sensors, 65536), NEW limits \in [quantity : 2 .. 125, gap : Nat],
         NEW plan, NEW B, NEW K, NEW O, PlanFor(sensors, limits, DOMAIN sensors, plan, B, K, O),
         NEW b \in 1 .. Len(plan)
  PROVE  AskedBlock(plan[b])
<1>1. /\ plan \in Seq(Blocks(sensors)) /\ Inside(sensors, DOMAIN sensors, plan, B)
      /\ Requests(sensors, limits, DOMAIN sensors, plan, B)
  BY DEF PlanFor
<1>2. plan[b] \in Blocks(sensors) /\ plan[b].start \in Nat /\ plan[b].quantity \in Nat
  BY <1>1, PlanOfBlocks
<1>3. FunctionCode[plan[b].register_type] \in {3, 4}
  <2>1. plan[b].register_type \in RegisterTypes
    BY <1>2 DEF Blocks
  <2> QED  BY <2>1, ReadTypes
<1>4. plan[b].quantity >= 1 /\ plan[b].quantity <= 125
  <2> DEFINE q == plan[b].quantity
             most == limits.quantity
  <2>1. q \in 1 .. most /\ most \in 2 .. 125
    BY <1>1 DEF Requests
  <2> HIDE DEF q, most
  <2>2. q >= 1 /\ q <= 125
    BY <2>1
  <2> QED  BY <2>2 DEF q
<1>5. PICK i \in DOMAIN sensors : End(sensors[i]) = Stop(plan[b])
  BY <1>1 DEF Inside
<1>6. plan[b].start + plan[b].quantity <= 65536
  <2>1. End(sensors[i]) <= 65536
    BY DEF Listed
  <2> QED  BY <1>5, <2>1 DEF Stop
<1> QED  BY <1>2, <1>3, <1>4, <1>6 DEF AskedBlock, Asked

(* The block a sensor is looked for in is the one it is in. *)
LEMMA BlockOfSensor ==
  ASSUME NEW sensors, NEW limits, NEW plan, NEW B, NEW K, NEW O,
         PlanFor(sensors, limits, DOMAIN sensors, plan, B, K, O),
         NEW i \in DOMAIN sensors
  PROVE  /\ B[i] \in DOMAIN plan
         /\ (CHOOSE b \in DOMAIN plan : \E k \in DOMAIN plan[b].indices : plan[b].indices[k] = i) = B[i]
         /\ \E b \in DOMAIN plan : i \in {plan[b].indices[k] : k \in DOMAIN plan[b].indices}
<1>1. plan \in Seq(Blocks(sensors)) /\ Places(DOMAIN sensors, plan, B, K)
  BY DEF PlanFor
<1>2. DOMAIN plan = 1 .. Len(plan) /\ \A b \in 1 .. Len(plan) : plan[b] \in Blocks(sensors)
  BY <1>1, PlanOfBlocks
<1>3. \A b \in 1 .. Len(plan) : DOMAIN plan[b].indices = 1 .. Len(plan[b].indices)
  <2> SUFFICES ASSUME NEW b \in 1 .. Len(plan) PROVE DOMAIN plan[b].indices = 1 .. Len(plan[b].indices)
    OBVIOUS
  <2>1. plan[b].indices \in Seq(DOMAIN sensors)
    BY <1>2 DEF Blocks
  <2> QED  BY <2>1, LenProperties
<1> DEFINE holds(b) == \E k \in DOMAIN plan[b].indices : plan[b].indices[k] = i
<1>4. B[i] \in DOMAIN plan /\ holds(B[i])
  <2>1. B[i] \in 1 .. Len(plan) /\ K[i] \in 1 .. Len(plan[B[i]].indices) /\ plan[B[i]].indices[K[i]] = i
    BY <1>1 DEF Places
  <2> QED  BY <1>2, <1>3, <2>1
<1>5. \A b \in DOMAIN plan : holds(b) => b = B[i]
  <2> SUFFICES ASSUME NEW b \in DOMAIN plan, NEW k \in DOMAIN plan[b].indices, plan[b].indices[k] = i
               PROVE  b = B[i]
    OBVIOUS
  <2>1. b \in 1 .. Len(plan) /\ k \in 1 .. Len(plan[b].indices)
    BY <1>2, <1>3
  <2>2. B[plan[b].indices[k]] = b
    BY <1>1, <2>1 DEF Places
  <2> QED  BY <2>2
<1>6. (CHOOSE b \in DOMAIN plan : holds(b)) = B[i]
  <2> HIDE DEF holds
  <2> QED  BY <1>4, <1>5
<1>7. \E b \in DOMAIN plan : i \in {plan[b].indices[k] : k \in DOMAIN plan[b].indices}
  BY <1>4
<1> QED  BY <1>4, <1>6, <1>7

(* A block's answer holds the values of its sensors. *)
LEMMA BlockHasItsSensors ==
  ASSUME NEW sensors, Listed(sensors, 65536), NEW limits \in [quantity : 2 .. 125, gap : Nat],
         NEW plan, NEW B, NEW K, NEW O, PlanFor(sensors, limits, DOMAIN sensors, plan, B, K, O),
         NEW kind \in AnswerKinds, NEW i \in DOMAIN sensors, Useful(kind, plan[B[i]].quantity)
  PROVE  ExtractValue(plan[B[i]], ReadRegisters(plan[B[i]], kind), sensors[i]) = ValueOf(sensors[i])
<1> DEFINE block == plan[B[i]]
           sensor == sensors[i]
           registers == ReadRegisters(block, kind)
<1>1. /\ Places(DOMAIN sensors, plan, B, K) /\ Inside(sensors, DOMAIN sensors, plan, B)
  BY DEF PlanFor
<1>2. AskedBlock(block)
  <2>1. B[i] \in 1 .. Len(plan)
    BY <1>1 DEF Places
  <2> QED  BY <2>1, BlocksAreAsked
<1>3. sensor \in SensorSettings
  <2>1. sensors \in Seq(SensorSettings)
    BY DEF Listed
  <2> QED  BY <2>1, ElementOfSeq
<1>4. /\ block.register_type = sensor.register_type
      /\ block.start <= First(sensor) /\ End(sensor) <= Stop(block)
  BY <1>1 DEF Inside
<1>5. Useful(kind, block.quantity)
  OBVIOUS
<1> HIDE DEF block, sensor
<1>6. PICK n \in Nat : n >= block.quantity /\ IsRead(registers, FunctionCode[block.register_type], block.start, n)
  BY <1>2, <1>5, ReadRegistersIs DEF IsRead
<1> HIDE DEF registers
<1>7. ExtractValue(block, registers, sensor) = ValueOf(sensor)
  BY <1>2, <1>3, <1>4, <1>6, ExtractIsValue
<1> QED  BY <1>7 DEF block, sensor, registers

(* A request fails exactly when its answer is not useful. *)
LEMMA UsefulIsRead ==
  ASSUME NEW block, AskedBlock(block), NEW kind \in AnswerKinds
  PROVE  ReadRegisters(block, kind) = Failed <=> ~Useful(kind, block.quantity)
<1> DEFINE registers == ReadRegisters(block, kind)
<1>1. CASE Useful(kind, block.quantity)
  <2>1. PICK n \in Nat : n >= block.quantity /\ IsRead(registers, FunctionCode[block.register_type], block.start, n)
    BY <1>1, ReadRegistersIs DEF IsRead
  <2> HIDE DEF registers
  <2>2. n >= 1
    BY <2>1 DEF AskedBlock, Asked
  <2>3. Len(registers) = n /\ Len(registers) # 0
    BY <2>1, <2>2 DEF IsRead
  <2>4. registers # Failed
    BY <2>3 DEF Failed
  <2> QED  BY <1>1, <2>4 DEF registers
<1>2. CASE ~Useful(kind, block.quantity)
  BY <1>2, ReadRegistersIs
<1> QED  BY <1>1, <1>2

(* A cycle over a plan gives what the property of the run says it gives. *)
AllUseful(kind, plan) ==
  kind \in {"whole", "long"} /\ (kind = "long" => \A b \in DOMAIN plan : plan[b].quantity < 125)

(* A cycle over a plan gives every sensor the value its registers hold, or fails. *)
LEMMA CycleReads ==
  ASSUME NEW sensors, Listed(sensors, 65536), sensors # <<>>,
         NEW limits \in [quantity : 2 .. 125, gap : Nat],
         NEW plan, NEW B, NEW K, NEW O, PlanFor(sensors, limits, DOMAIN sensors, plan, B, K, O),
         NEW kind \in AnswerKinds
  PROVE  ReadCycle(sensors, plan, kind) =
           IF AllUseful(kind, plan) THEN [i \in DOMAIN sensors |-> ValueOf(sensors[i])] ELSE Failed
<1> DEFINE answers == [b \in DOMAIN plan |-> ReadRegisters(plan[b], kind)]
           block(i) == CHOOSE b \in DOMAIN plan : \E k \in DOMAIN plan[b].indices : plan[b].indices[k] = i
           value(i) == IF \E b \in DOMAIN plan : i \in {plan[b].indices[k] : k \in DOMAIN plan[b].indices}
                       THEN ExtractValue(plan[block(i)], answers[block(i)], sensors[i])
                       ELSE NoValue
<1>1. plan \in Seq(Blocks(sensors))
  BY DEF PlanFor
<1>2. DOMAIN plan = 1 .. Len(plan)
  BY <1>1, PlanOfBlocks
<1>3. Len(plan) \in Nat \ {0}
  BY PlanIsFewest
<1>4. ReadCycle(sensors, plan, kind) =
        IF \E b \in DOMAIN plan : answers[b] = Failed THEN Failed ELSE [i \in DOMAIN sensors |-> value(i)]
  BY DEF ReadCycle
<1>5. \A b \in DOMAIN plan : answers[b] = Failed <=> ~Useful(kind, plan[b].quantity)
  <2> SUFFICES ASSUME NEW b \in DOMAIN plan PROVE answers[b] = Failed <=> ~Useful(kind, plan[b].quantity)
    OBVIOUS
  <2>1. AskedBlock(plan[b])
    BY <1>2, BlocksAreAsked
  <2>2. ReadRegisters(plan[b], kind) = Failed <=> ~Useful(kind, plan[b].quantity)
    BY <2>1, UsefulIsRead
  <2> QED  BY <2>2
<1>6. AllUseful(kind, plan) <=> \A b \in DOMAIN plan : Useful(kind, plan[b].quantity)
  <2>1. 1 \in DOMAIN plan
    BY <1>2, <1>3
  <2> QED  BY <2>1 DEF AllUseful, Useful
<1>7. CASE AllUseful(kind, plan)
  <2>1. \A i \in DOMAIN sensors : value(i) = ValueOf(sensors[i])
    <3>1. ASSUME NEW i \in DOMAIN sensors PROVE value(i) = ValueOf(sensors[i])
      <4>1. B[i] \in DOMAIN plan
        BY BlockOfSensor
      <4>2. block(i) = B[i]
        BY BlockOfSensor
      <4>3. \E b \in DOMAIN plan : i \in {plan[b].indices[k] : k \in DOMAIN plan[b].indices}
        BY BlockOfSensor
      <4>4. Useful(kind, plan[B[i]].quantity)
        BY <1>6, <1>7, <4>1
      <4>5. ExtractValue(plan[B[i]], ReadRegisters(plan[B[i]], kind), sensors[i]) = ValueOf(sensors[i])
        BY <4>4, BlockHasItsSensors
      <4>6. answers[B[i]] = ReadRegisters(plan[B[i]], kind)
        BY <4>1
      <4> HIDE DEF block, answers
      <4>7. value(i) = ExtractValue(plan[block(i)], answers[block(i)], sensors[i])
        BY <4>3
      <4> HIDE DEF value
      <4> QED  BY <4>2, <4>5, <4>6, <4>7
    <3> HIDE DEF value
    <3> QED  BY <3>1
  <2>2. ~ \E b \in DOMAIN plan : answers[b] = Failed
    BY <1>5, <1>6, <1>7
  <2> HIDE DEF value, answers
  <2>3. ReadCycle(sensors, plan, kind) = [i \in DOMAIN sensors |-> value(i)]
    BY <1>4, <2>2
  <2> QED  BY <1>7, <2>1, <2>3
<1>8. CASE ~AllUseful(kind, plan)
  <2>1. \E b \in DOMAIN plan : answers[b] = Failed
    BY <1>5, <1>6, <1>8
  <2> HIDE DEF value, answers
  <2> QED  BY <1>4, <1>8, <2>1
<1> QED  BY <1>7, <1>8

-----------------------------------------------------------------------------
(***************************************************************************)
(* The theorems.                                                           *)
(***************************************************************************)

(* Every state but the first one holds a case and what its algorithm gave. *)
Polled(sensors, limits, kind, plan) ==
  /\ case = [run |-> "poll", sensors |-> sensors, limits |-> limits, kind |-> kind]
  /\ result = [plan |-> plan, values |-> ReadCycle(sensors, plan, kind)]

(* The state that holds the case of a configuration. *)
Loaded(document, env) ==
  /\ case = [run |-> "config", document |-> document, env |-> env]
  /\ result = Parse(document, env)

(* The invariant. *)
ResultOfCase ==
  \/ case.run = "none"
  \/ \E sensors \in SensorLists, limits \in Limits, kind \in AnswerKinds :
     \E plan \in Plans(sensors, limits.quantity, limits.gap) : Polled(sensors, limits, kind, plan)
  \/ \E sizes \in BatchSizes :
     \E bytes \in Lengths, header \in Headers, at \in {0} \union FirstBatch + 1 .. Len(Written(sizes)) :
     \E unit \in IF at = 0 THEN {Data(0)} ELSE Damaged(Written(sizes)[at]) :
        Read(sizes, bytes, header, at, unit)
  \/ \E document \in Documents, env \in Environments : Loaded(document, env)

(* Every step records a case and what its algorithm gives. *)
LEMMA StepIsResult == ResultOfCase /\ [Next]_<<case, result>> => ResultOfCase'
<1> SUFFICES ASSUME ResultOfCase, [Next]_<<case, result>> PROVE ResultOfCase'
  OBVIOUS
<1>1. CASE PollDevice
  BY <1>1 DEF PollDevice, ResultOfCase, Polled
<1>2. CASE ReadDamaged
  <2>1. PICK sizes \in BatchSizes : 
        \E bytes \in Lengths, header \in Headers, at \in {0} \union FirstBatch + 1..Len(Written(sizes)) :
        \E unit \in IF at = 0 THEN {Data(0)} ELSE Damaged(Written(sizes)[at]) :
          Read(sizes, bytes, header, at, unit)'
    BY <1>2, Zenon DEF ReadDamaged, Read, FileOf
  <2> QED  BY <2>1, Zenon DEF ResultOfCase
<1>3. CASE LoadConfig
  <2>1. PICK inputs \in Configurations : \E document \in inputs.documents, env \in inputs.environments :
           Loaded(document, env)'
    BY <1>3, Zenon DEF LoadConfig, Loaded
  <2>2. \A document \in inputs.documents, env \in inputs.environments :
          document \in Documents /\ env \in Environments
    BY ConfigAssumption
  <2> QED  BY <2>1, <2>2, Zenon DEF ResultOfCase
<1>4. CASE UNCHANGED <<case, result>>
  BY <1>4 DEF ResultOfCase, Polled, Read, Loaded
<1> QED  BY <1>1, <1>2, <1>3, <1>4 DEF Next

(***************************************************************************)
(* Every reachable state holds a case and the result of the algorithm on   *)
(* it: what holds of every result holds in every state.                    *)
(***************************************************************************)
LEMMA EveryStateIsAResult == Spec => []ResultOfCase
<1>1. Init => ResultOfCase
  BY DEF Init, ResultOfCase
<1> QED  BY <1>1, StepIsResult, PTL DEF Spec

(***************************************************************************)
(* Whatever documents and environments there are: a configuration that     *)
(* from_json, apply_env_overrides and validate accept is one the program   *)
(* can run with.                                                           *)
(***************************************************************************)
THEOREM AcceptedConfigIsAlwaysUsable == Spec => []AcceptedConfigIsUsable
<1>1. ResultOfCase => AcceptedConfigIsUsable
  <2> SUFFICES ASSUME ResultOfCase, case.run = "config" PROVE AcceptedConfigIsUsable
    BY DEF AcceptedConfigIsUsable
  <2>1. PICK document \in Documents, env \in Environments : Loaded(document, env)
    <3>1. \A sensors, limits, kind, plan : ~Polled(sensors, limits, kind, plan)
      BY DEF Polled
    <3>2. \A sizes, bytes, header, at, unit : ~Read(sizes, bytes, header, at, unit)
      BY DEF Read
    <3> QED  BY <3>1, <3>2, Zenon DEF ResultOfCase
  <2> QED  BY <2>1, LoadedIsUsable DEF Loaded
<1> QED  BY <1>1, EveryStateIsAResult, PTL

(***************************************************************************)
(* Whatever batches a segment has, wherever it is damaged and wherever it  *)
(* is cut off: read_segment delivers the whole batches and reports the     *)
(* others.                                                                 *)
(***************************************************************************)
THEOREM DamageIsAlwaysContained == Spec => []DamageIsContained
<1>1. ResultOfCase => DamageIsContained
  <2> SUFFICES ASSUME ResultOfCase, case.run = "segment" PROVE DamageIsContained
    BY DEF DamageIsContained
  <2>1. PICK sizes \in BatchSizes :
        \E bytes \in Lengths, header \in Headers, at \in {0} \union FirstBatch + 1 .. Len(Written(sizes)) :
        \E unit \in IF at = 0 THEN {Data(0)} ELSE Damaged(Written(sizes)[at]) :
           Read(sizes, bytes, header, at, unit)
    <3>1. \A sensors, limits, kind, plan : ~Polled(sensors, limits, kind, plan)
      BY DEF Polled
    <3>2. \A document, env : ~Loaded(document, env)
      BY DEF Loaded
    <3>3. case.run # "none"
      OBVIOUS
    <3> QED  BY <3>1, <3>2, <3>3, Zenon DEF ResultOfCase
  <2>2. PICK bytes \in Lengths, header \in Headers, at \in {0} \union FirstBatch + 1 .. Len(Written(sizes)) :
        \E unit \in IF at = 0 THEN {Data(0)} ELSE Damaged(Written(sizes)[at]) :
           Read(sizes, bytes, header, at, unit)
    BY <2>1, Zenon
  <2>3. PICK unit \in IF at = 0 THEN {Data(0)} ELSE Damaged(Written(sizes)[at]) :
           Read(sizes, bytes, header, at, unit)
    BY <2>2, Zenon
  <2> QED  BY <2>3, ReadIsContained, Zenon
<1> QED  BY <1>1, EveryStateIsAResult, PTL

(* The limits of a request are numbers. *)
LEMMA LimitsAre ==
  ASSUME NEW limits, limits \in [quantity : 2 .. 125, gap : Nat]
  PROVE  limits \in [quantity : Nat, gap : Nat] /\ limits.quantity >= 2
<1>1. \A n \in 2 .. 125 : n \in Nat /\ n >= 2
  OBVIOUS
<1>2. PICK n \in 2 .. 125, g \in Nat : limits = [quantity |-> n, gap |-> g]
  OBVIOUS
<1>3. n \in Nat /\ n >= 2 /\ g \in Nat
  BY <1>1
<1>4. [quantity |-> n, gap |-> g] \in [quantity : Nat, gap : Nat]
  BY <1>3
<1> QED  BY <1>2, <1>3, <1>4

(***************************************************************************)
(* Whatever sensors a device has and whatever its registers hold:          *)
(* plan_reads puts each sensor in one block, with as few blocks as         *)
(* possible, and a cycle gives each sensor what its own registers hold, or *)
(* gives nothing where an answer is unusable.                              *)
(***************************************************************************)
THEOREM EverySensorIsAlwaysRead == Spec => []EverySensorIsRead
<1>1. ResultOfCase => EverySensorIsRead
  <2> SUFFICES ASSUME ResultOfCase, case.run = "poll" PROVE EverySensorIsRead
    BY DEF EverySensorIsRead
  <2>1. PICK sensors \in SensorLists, limits \in Limits, kind \in AnswerKinds :
           \E plan \in Plans(sensors, limits.quantity, limits.gap) : Polled(sensors, limits, kind, plan)
    <3>1. \A sizes, bytes, header, at, unit : ~Read(sizes, bytes, header, at, unit)
      BY DEF Read
    <3>2. \A document, env : ~Loaded(document, env)
      BY DEF Loaded
    <3>3. case.run # "none"
      OBVIOUS
    <3> QED  BY <3>1, <3>2, <3>3, Zenon DEF ResultOfCase
  <2>2. PICK plan \in Plans(sensors, limits.quantity, limits.gap) : Polled(sensors, limits, kind, plan)
    BY <2>1
  <2>3. /\ Listed(sensors, 65536) /\ sensors # <<>>
        /\ limits \in [quantity : 2 .. 125, gap : Nat]
    BY SensorAssumption DEF Listed
  <2>4. limits \in [quantity : Nat, gap : Nat] /\ limits.quantity >= 2
    BY <2>3, LimitsAre
  <2>5. PICK B, K, O : PlanFor(sensors, limits, DOMAIN sensors, plan, B, K, O)
    <3>1. \E B, K, O : PlanFor(sensors, limits, DOMAIN sensors, plan, B, K, O)
      <4>1. Listed(sensors, 65536)
        BY <2>3
      <4> QED  BY <2>4, <4>1, PlanOfAll
    <3> QED  BY <3>1, Zenon
  <2>6. \A i \in DOMAIN sensors : Cardinality(PlacesOf(plan, i)) = 1
    BY <2>5, EachInOnePlace
  <2>7. \A b \in DOMAIN plan : plan[b].quantity \in 1 .. limits.quantity
    <3>1. plan \in Seq(Blocks(sensors)) /\ Requests(sensors, limits, DOMAIN sensors, plan, B)
      BY <2>5 DEF PlanFor
    <3> QED  BY <3>1, PlanOfBlocks DEF Requests
  <2>8. Len(plan) = FewestRequests(sensors, limits)
    BY <2>3, <2>5, PlanIsFewest
  <2>9. ReadCycle(sensors, plan, kind) =
          IF kind \in {"whole", "long"} /\ (kind = "long" => \A b \in DOMAIN plan : plan[b].quantity < 125)
          THEN [i \in DOMAIN sensors |-> ValueOf(sensors[i])] ELSE Failed
    BY <2>3, <2>5, CycleReads DEF AllUseful
  <2>10. /\ case.sensors = sensors /\ case.limits = limits /\ case.kind = kind
         /\ result.plan = plan /\ result.values = ReadCycle(sensors, plan, kind)
    BY <2>2 DEF Polled
  <2> QED  BY <2>6, <2>7, <2>8, <2>9, <2>10, Zenon DEF EverySensorIsRead
<1> QED  BY <1>1, EveryStateIsAResult, PTL
=============================================================================
