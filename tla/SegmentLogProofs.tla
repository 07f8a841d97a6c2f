--------------------------- MODULE SegmentLogProofs ---------------------------
(***************************************************************************)
(* Proofs about SegmentLog, for any limits, clock and number of batches:   *)
(* no batch that write_batch returned for is overwritten, by any sequence  *)
(* of crashes, restarts, refused operations and settings of the clock;     *)
(* what the limit on the total removes is always the oldest; and the limit *)
(* holds, while the disk removes what it is asked to, but for the size by  *)
(* which one segment exceeds its own.                                      *)
(***************************************************************************)
EXTENDS SegmentLog, FiniteSetTheorems, SequenceTheorems, NaturalsInduction,
        WellFoundedInduction, TLAPS

-----------------------------------------------------------------------------
(* What is said of the files, for any set of files. *)

Files == {f \in [name : Names, part : BOOLEAN, batches : Seq(1 .. MaxBatches),
                bytes : SegmentSizes] : f.bytes > MaxSegment => Len(f.batches) <= 1}

WellNamed(files) ==
  /\ files \subseteq Files /\ IsFiniteSet(files)
  /\ \A f, g \in files : f.name = g.name => f = g

(* The batches written are those that are gone and those of the files. *)
Kept(files, gone, written) ==
  /\ written = gone \cup UNION {Whole(f) : f \in files}
  /\ \A f \in files : /\ InOrder(f.batches) /\ Whole(f) \cap gone = {}
                      /\ \A g \in files : f # g => Whole(f) \cap Whole(g) = {}

(* Some of the files lose the suffix of the one being written. *)
Final(f) == [f EXCEPT !.part = FALSE]
After(f, some) == IF f \in some THEN Final(f) ELSE f
Renamed(files, some) == {After(f, some) : f \in files}

(* What the operations rely on beside the types. *)
DirInv == WellNamed(dir) /\ Kept(dir, deleted, ToSet(acked))
CallInv ==
  /\ pc \in {"down", "enforce", "open"} => open = NoName
  /\ pc = "write" => /\ open # NoName
                     /\ \/ segment_bytes + batch.bytes <= MaxSegment
                        \/ segment_bytes = HeaderBytes /\ OpenFile.batches = <<>>
  /\ InOrder(acked)
  /\ batch # Idle => \A i \in DOMAIN acked : acked[i] < batch.id
IInv == TypeOK /\ DirInv /\ CallInv

-----------------------------------------------------------------------------
(* Sets of files. *)

LEMMA FinalFile ==
  ASSUME NEW f \in Files
  PROVE  /\ Final(f) \in Files /\ Final(f).name = f.name /\ Final(f).batches = f.batches
         /\ Final(f).bytes = f.bytes /\ Final(f).part = FALSE
BY DEF Files, Final

(* The sizes a segment can have. *)
LEMMA Sizes ==
  /\ MaxSegment \in Nat /\ HeaderBytes \in Nat \ {0}
  /\ \A n \in SegmentSizes : n \in Nat
  /\ \A n \in 0 .. HeaderBytes : n \in SegmentSizes
  /\ \A n \in 0 .. MaxSegment : n \in SegmentSizes
  /\ \A b \in BatchBytes : \A n \in 0 .. HeaderBytes + b : n \in SegmentSizes
<1>1. MaxSegment \in Nat /\ HeaderBytes \in Nat \ {0} /\ BatchBytes \subseteq Nat \ {0}
  BY SegmentAssumption
<1>2. ASSUME NEW b \in BatchBytes \cup {0}, NEW n \in 0 .. HeaderBytes + b
      PROVE  n \in SegmentSizes
  BY <1>1 DEF SegmentSizes
<1>3. \A n \in 0 .. HeaderBytes : n \in SegmentSizes
  <2>1. HeaderBytes + 0 = HeaderBytes
    BY <1>1
  <2> QED  BY <1>2, <2>1
<1>4. \A n \in 0 .. MaxSegment : n \in SegmentSizes
  BY <1>1 DEF SegmentSizes
<1>5. \A n \in SegmentSizes : n \in Nat
  BY DEF SegmentSizes
<1> QED  BY <1>1, <1>2, <1>3, <1>4, <1>5

LEMMA AfterFile ==
  ASSUME NEW f \in Files, NEW some
  PROVE  /\ After(f, some) \in Files
         /\ After(f, some).name = f.name /\ After(f, some).batches = f.batches
         /\ After(f, some).bytes = f.bytes
         /\ f \in some => ~After(f, some).part
         /\ f \notin some => After(f, some) = f
<1>1. CASE f \in some
  BY <1>1, FinalFile DEF After
<1>2. CASE f \notin some
  BY <1>2 DEF After
<1> QED  BY <1>1, <1>2

LEMMA RenamingKeeps ==
  ASSUME NEW files, NEW some, NEW gone, NEW written,
         WellNamed(files), Kept(files, gone, written)
  PROVE  WellNamed(Renamed(files, some)) /\ Kept(Renamed(files, some), gone, written)
<1> DEFINE new == Renamed(files, some)
<1>0. \A f \in files : /\ f \in Files /\ After(f, some) \in Files
                       /\ After(f, some).name = f.name /\ After(f, some).batches = f.batches
  BY AfterFile DEF WellNamed
<1>1. /\ \A f \in files : \E g \in new : g.name = f.name /\ g.batches = f.batches
      /\ \A g \in new : g \in Files /\ \E f \in files :
            g = After(f, some) /\ g.name = f.name /\ g.batches = f.batches
  BY <1>0 DEF Renamed
<1>2. IsFiniteSet(new)
  <2> DEFINE h == [f \in files |-> After(f, some)]
  <2>1. h \in Surjection(files, new)
    BY DEF Surjection, Renamed
  <2> QED  BY <2>1, FS_Surjection DEF WellNamed
<1>3. \A g, h \in new : g.name = h.name => g = h
  BY <1>1 DEF WellNamed
<1>4. WellNamed(new)
  BY <1>1, <1>2, <1>3 DEF WellNamed
<1>5. UNION {Whole(f) : f \in new} = UNION {Whole(f) : f \in files}
  BY <1>1 DEF Whole
<1>6. \A f \in new : InOrder(f.batches) /\ Whole(f) \cap gone = {}
  BY <1>1 DEF Kept, Whole
<1>7. \A f, g \in new : f # g => Whole(f) \cap Whole(g) = {}
  BY <1>1, <1>3 DEF Kept, Whole
<1> HIDE DEF new
<1>8. Kept(new, gone, written)
  BY <1>5, <1>6, <1>7 DEF Kept
<1> QED  BY <1>4, <1>8 DEF new

LEMMA RemovingKeeps ==
  ASSUME NEW files, NEW removed \in SUBSET files, NEW gone, NEW written,
         WellNamed(files), Kept(files, gone, written)
  PROVE  /\ WellNamed(files \ removed)
         /\ Kept(files \ removed, gone \cup UNION {Whole(f) : f \in removed}, written)
<1>1. WellNamed(files \ removed)
  BY FS_Difference DEF WellNamed
<1>2. Kept(files \ removed, gone \cup UNION {Whole(f) : f \in removed}, written)
  BY DEF Kept
<1> QED  BY <1>1, <1>2

LEMMA AddingKeeps ==
  ASSUME NEW files, NEW f \in Files, f.batches = <<>>, \A g \in files : g.name # f.name,
         NEW gone, NEW written, WellNamed(files), Kept(files, gone, written)
  PROVE  WellNamed(files \cup {f}) /\ Kept(files \cup {f}, gone, written)
<1>1. WellNamed(files \cup {f})
  BY FS_AddElement DEF WellNamed
<1>2. DOMAIN f.batches = {} /\ Whole(f) = {} /\ InOrder(f.batches)
  BY DEF Whole, InOrder
<1>3. Kept(files \cup {f}, gone, written)
  BY <1>2 DEF Kept
<1> QED  BY <1>1, <1>3

(* A batch whose number is above all written ones is added to one file. *)
LEMMA WritingKeeps ==
  ASSUME NEW files, NEW f \in files, NEW g \in Files, NEW gone, NEW written, NEW id,
         WellNamed(files), Kept(files, gone, written),
         g.name = f.name, Whole(g) = Whole(f) \cup {id}, InOrder(g.batches), id \notin written
  PROVE  /\ WellNamed((files \ {f}) \cup {g})
         /\ Kept((files \ {f}) \cup {g}, gone, written \cup {id})
<1>1. WellNamed((files \ {f}) \cup {g})
  BY FS_RemoveElement, FS_AddElement DEF WellNamed
<1>2. /\ id \notin gone /\ \A h \in files : id \notin Whole(h)
  BY DEF Kept
<1>3. UNION {Whole(h) : h \in (files \ {f}) \cup {g}} = (UNION {Whole(h) : h \in files}) \cup {id}
  <2>1. \A h \in files : h = f \/ h \in files \ {f}
    OBVIOUS
  <2> QED  BY <2>1
<1>4. ASSUME NEW h \in (files \ {f}) \cup {g}
      PROVE  InOrder(h.batches) /\ Whole(h) \cap gone = {}
  BY <1>2 DEF Kept
<1>5. ASSUME NEW h \in (files \ {f}) \cup {g}, NEW k \in (files \ {f}) \cup {g}, h # k
      PROVE  Whole(h) \cap Whole(k) = {}
  <2>1. CASE h = g
    BY <1>2, <1>5, <2>1 DEF Kept
  <2>2. CASE h # g
    BY <1>2, <1>5, <2>2 DEF Kept
  <2> QED  BY <2>1, <2>2
<1>6. Kept((files \ {f}) \cup {g}, gone, written \cup {id})
  BY <1>3, <1>4, <1>5 DEF Kept
<1> QED  BY <1>1, <1>6

(* A batch that was cut off changes nothing but the file's size. *)
LEMMA ResizingKeeps ==
  ASSUME NEW files, NEW f \in files, NEW g \in Files, NEW gone, NEW written,
         WellNamed(files), Kept(files, gone, written),
         g.name = f.name, g.batches = f.batches
  PROVE  WellNamed((files \ {f}) \cup {g}) /\ Kept((files \ {f}) \cup {g}, gone, written)
<1>1. WellNamed((files \ {f}) \cup {g})
  BY FS_RemoveElement, FS_AddElement DEF WellNamed
<1>2. Whole(g) = Whole(f)
  BY DEF Whole
<1>3. UNION {Whole(h) : h \in (files \ {f}) \cup {g}} = UNION {Whole(h) : h \in files}
  <2>1. \A h \in files : h = f \/ h \in files \ {f}
    OBVIOUS
  <2> QED  BY <1>2, <2>1
<1>4. ASSUME NEW h \in (files \ {f}) \cup {g}
      PROVE  InOrder(h.batches) /\ Whole(h) \cap gone = {}
  BY <1>2 DEF Kept
<1>5. ASSUME NEW h \in (files \ {f}) \cup {g}, NEW k \in (files \ {f}) \cup {g}, h # k
      PROVE  Whole(h) \cap Whole(k) = {}
  BY <1>2, <1>5 DEF Kept
<1>6. Kept((files \ {f}) \cup {g}, gone, written)
  BY <1>3, <1>4, <1>5 DEF Kept
<1> QED  BY <1>1, <1>6

-----------------------------------------------------------------------------
(* Numbers and names. *)

LEMMA LeastOf ==
  ASSUME NEW S, S \subseteq Nat, S # {}
  PROVE  Min(S) \in S
<1>1. IsWellFoundedOn(OpToRel(<, Nat), Nat)
  BY NatLessThanWellFounded
<1>2. PICK x \in S : \A y \in S : ~(<<y, x>> \in OpToRel(<, Nat))
  BY <1>1, WFMin
<1>3. \A y \in S : ~(y < x)
  BY <1>2 DEF OpToRel
<1>4. \A y \in S : x <= y
  BY <1>3
<1> QED  BY <1>4 DEF Min

(* The directory has fewer files than there are numbers to choose from. *)
LEMMA NextSequenceIsFree ==
  ASSUME WellNamed(dir), sequence \in Nat
  PROVE  /\ NextSequence \in Nat /\ sequence < NextSequence
         /\ \A f \in dir : f.name # <<clock, NextSequence>>
<1> DEFINE I == sequence + 1 .. sequence + Cardinality(dir) + 1
           S == {n \in I : ~NameTaken(<<clock, n>>)}
<1>1. Cardinality(dir) \in Nat /\ IsFiniteSet(dir)
  BY FS_CardinalityType DEF WellNamed
<1>2. IsFiniteSet(I) /\ Cardinality(I) = Cardinality(dir) + 1
  BY <1>1, FS_Interval
<1>3. S # {}
  <2> SUFFICES ASSUME S = {} PROVE FALSE
    OBVIOUS
  <2> DEFINE owner == [n \in I |-> CHOOSE f \in dir : f.name = <<clock, n>>]
  <2>1. \A n \in I : \E f \in dir : f.name = <<clock, n>>
    BY DEF NameTaken
  <2>2. \A n \in I : owner[n] \in dir /\ owner[n].name = <<clock, n>>
    BY <2>1
  <2>3. owner \in [I -> dir]
    BY <2>2
  <2>4. Cardinality(dir) < Cardinality(I)
    BY <1>1, <1>2
  <2> HIDE DEF I, owner
  <2>5. PICK m \in I, n \in I : m # n /\ owner[m] = owner[n]
    BY <1>1, <1>2, <2>3, <2>4, FS_PigeonHole
  <2>6. <<clock, m>> = <<clock, n>>
    BY <2>2, <2>5
  <2> QED  BY <2>5, <2>6
<1>4. S \subseteq Nat /\ \A n \in S : sequence < n
  BY <1>1
<1>5. Min(S) \in S
  <2> HIDE DEF S
  <2> QED  BY <1>3, <1>4, LeastOf
<1>6. NextSequence = Min(S)
  BY DEF NextSequence
<1> HIDE DEF I
<1>7. Min(S) \in Nat /\ sequence < Min(S) /\ ~NameTaken(<<clock, Min(S)>>)
  BY <1>4, <1>5
<1> QED  BY <1>6, <1>7 DEF NameTaken

(* Batches are numbered upwards. *)
LEMMA NextBatchIsAbove ==
  ASSUME acked \in Seq(1 .. MaxBatches), InOrder(acked)
  PROVE  LET id == Max({0} \cup ToSet(acked)) + 1
         IN  id \in Nat \ {0} /\ \A i \in DOMAIN acked : acked[i] < id
<1> DEFINE S == {0} \cup ToSet(acked)
           m == IF acked = <<>> THEN 0 ELSE acked[Len(acked)]
<1>1. /\ Len(acked) \in Nat /\ DOMAIN acked = 1 .. Len(acked)
      /\ acked # <<>> => Len(acked) \in DOMAIN acked
      /\ \A i \in DOMAIN acked : acked[i] \in 1 .. MaxBatches
  <2>1. Len(acked) \in Nat /\ DOMAIN acked = 1 .. Len(acked)
    BY LenProperties
  <2>2. acked # <<>> => Len(acked) # 0
    BY EmptySeq
  <2>3. \A i \in 1 .. Len(acked) : acked[i] \in 1 .. MaxBatches
    BY ElementOfSeq
  <2> QED  BY <2>1, <2>2, <2>3
<1>2. m \in S /\ m \in Nat
  BY <1>1 DEF ToSet
<1>3. \A i \in DOMAIN acked : acked[i] <= m
  <2>1. \A i \in DOMAIN acked : i = Len(acked) \/ i < Len(acked)
    BY <1>1
  <2>2. acked = <<>> => DOMAIN acked = {}
    OBVIOUS
  <2> QED  BY <1>1, <2>1, <2>2 DEF InOrder
<1>4. \A y \in S : m >= y
  BY <1>2, <1>3 DEF ToSet
<1>5. Max(S) \in S /\ \A y \in S : Max(S) >= y
  <2> HIDE DEF S, m
  <2> QED  BY <1>2, <1>4 DEF Max
<1>6. Max(S) \in Nat /\ \A i \in DOMAIN acked : acked[i] \in S
  BY <1>1, <1>5 DEF ToSet
<1> HIDE DEF S
<1>7. Max(S) + 1 \in Nat \ {0} /\ \A i \in DOMAIN acked : acked[i] < Max(S) + 1
  BY <1>1, <1>5, <1>6
<1> QED  BY <1>7 DEF S

-----------------------------------------------------------------------------
(* What the helpers of the model return. *)

LEMMA OpenFileIs ==
  ASSUME NEW files, NEW g \in files, NEW name, g.name = name, g.part,
         \A f, h \in files : f.name = h.name => f = h
  PROVE  (CHOOSE f \in files : f.name = name /\ f.part) = g
OBVIOUS

LEMMA OpenFileExists ==
  ASSUME TypeOK, DirInv, open # NoName
  PROVE  /\ OpenFile \in dir /\ OpenFile \in Files /\ OpenFile.name = open /\ OpenFile.part
         /\ segment_bytes = OpenFile.bytes /\ segment_bytes \in Nat
         /\ \A f \in dir : f.name = open => f = OpenFile
<1>1. /\ OpenFile \in dir /\ OpenFile.name = open /\ OpenFile.part
      /\ segment_bytes = OpenFile.bytes
  BY DEF TypeOK, OpenFile
<1>2. OpenFile \in Files /\ \A f \in dir : f.name = open => f = OpenFile
  BY <1>1 DEF DirInv, WellNamed
<1>3. OpenFile.bytes \in Nat
  BY <1>2, Sizes DEF Files
<1> QED  BY <1>1, <1>2, <1>3

LEMMA FilesOfDir ==
  ASSUME NEW files, WellNamed(files)
  PROVE  /\ \A f \in files : /\ f.name \in Names /\ f.part \in BOOLEAN
                             /\ f.batches \in Seq(1 .. MaxBatches)
                             /\ f.bytes \in SegmentSizes
                             /\ f.bytes > MaxSegment => Len(f.batches) <= 1
         /\ \A f, g \in files : f.name = g.name => f = g
BY DEF WellNamed, Files

LEMMA FinishInIs ==
  ASSUME NEW files, NEW ok \in BOOLEAN, NEW gone, NEW written,
         WellNamed(files), Kept(files, gone, written)
  PROVE  WellNamed(FinishIn(files, ok)) /\ Kept(FinishIn(files, ok), gone, written)
<1> DEFINE some == {f \in files : f.name = open}
<1>1. FinishIn(files, TRUE) = Renamed(files, some)
  BY DEF FinishIn, Renamed, After, Final
<1>2. FinishIn(files, FALSE) = files
  BY DEF FinishIn
<1> HIDE DEF some
<1> QED  BY <1>1, <1>2, RenamingKeeps

LEMMA EnforceIs ==
  ASSUME TypeOK, NEW files, NEW in_use, NEW reserve, NEW refused \in Nat, NEW written,
         WellNamed(files), Kept(files, deleted, written), faults + refused <= MaxFaults,
         EnforceTotalLimit(files, in_use, reserve, refused)
  PROVE  /\ WellNamed(dir') /\ Kept(dir', deleted', written)
         /\ deleted' \subseteq 1 .. MaxBatches /\ remove_failed' \in BOOLEAN
         /\ irregular' \in BOOLEAN /\ faults' \in 0 .. MaxFaults
<1>1. PICK stuck \in SUBSET {f \in files : ~f.part} :
        /\ Cardinality(stuck) <= MaxFaults - faults - refused
        /\ LET removed == Removed(files, stuck, in_use, reserve)
           IN  /\ dir' = files \ removed
               /\ deleted' = deleted \cup UNION {Whole(f) : f \in removed}
        /\ remove_failed' = (stuck # {})
        /\ irregular' = (irregular \/ stuck # {} \/ refused > 0)
        /\ faults' = faults + refused + Cardinality(stuck)
  BY DEF EnforceTotalLimit
<1> DEFINE removed == Removed(files, stuck, in_use, reserve)
<1>2. removed \in SUBSET files /\ dir' = files \ removed
      /\ deleted' = deleted \cup UNION {Whole(f) : f \in removed}
  BY <1>1 DEF Removed
<1> HIDE DEF removed
<1>3. WellNamed(dir') /\ Kept(dir', deleted', written)
  BY <1>2, RemovingKeeps
<1>4. Cardinality(stuck) \in Nat
  BY FS_Subset, FS_CardinalityType DEF WellNamed
<1>5. faults' \in 0 .. MaxFaults
  BY <1>1, <1>4, SegmentAssumption DEF TypeOK
<1>6. \A f \in files : Whole(f) \subseteq 1 .. MaxBatches
  <2> SUFFICES ASSUME NEW f \in files PROVE Whole(f) \subseteq 1 .. MaxBatches
    OBVIOUS
  <2>1. f.batches \in Seq(1 .. MaxBatches)
    BY FilesOfDir
  <2>2. \A i \in DOMAIN f.batches : f.batches[i] \in 1 .. MaxBatches
    <3>1. DOMAIN f.batches = 1 .. Len(f.batches)
      BY <2>1, LenProperties
    <3> QED  BY <2>1, <3>1, ElementOfSeq
  <2> QED  BY <2>2 DEF Whole
<1>7. deleted' \subseteq 1 .. MaxBatches
  BY <1>2, <1>6 DEF TypeOK
<1> QED  BY <1>1, <1>3, <1>5, <1>7

LEMMA NewFileIs ==
  ASSUME TypeOK, DirInv, NEW n \in SegmentSizes
  PROVE  /\ NewFile(n) \in Files /\ NewFile(n).batches = <<>> /\ NewFile(n).part
         /\ NewFile(n).bytes = n /\ NewFile(n).name = <<clock, NextSequence>>
         /\ NextSequence \in Nat /\ \A f \in dir : f.name # <<clock, NextSequence>>
         /\ <<clock, NextSequence>> # NoName
<1>1. NextSequence \in Nat /\ \A f \in dir : f.name # <<clock, NextSequence>>
  BY NextSequenceIsFree DEF TypeOK, DirInv
<1>2. <<clock, NextSequence>> \in Names
  BY <1>1 DEF TypeOK, Names
<1>3. <<>> \in Seq(1 .. MaxBatches)
  BY EmptySeq
<1>4. /\ NewFile(n) \in Files /\ NewFile(n).batches = <<>> /\ NewFile(n).part
      /\ NewFile(n).bytes = n /\ NewFile(n).name = <<clock, NextSequence>>
  BY <1>2, <1>3, EmptySeq DEF NewFile, Files
<1>5. <<clock, NextSequence>> # NoName
  BY DEF NoName
<1> QED  BY <1>1, <1>4, <1>5

LEMMA BatchIs ==
  ASSUME TypeOK, batch # Idle
  PROVE  /\ batch.id \in 1 .. MaxBatches /\ batch.bytes \in BatchBytes
         /\ batch.bytes \in Nat \ {0} /\ MaxSegment \in Nat
         /\ HeaderBytes \in Nat \ {0}
<1>1. batch.id \in 1 .. MaxBatches /\ batch.bytes \in BatchBytes
  BY DEF TypeOK
<1>2. batch.bytes \in Nat \ {0} /\ HeaderBytes \in Nat \ {0} /\ MaxSegment \in Nat
  BY <1>1, SegmentAssumption
<1> QED  BY <1>1, <1>2

-----------------------------------------------------------------------------
(* One lemma per action. *)

(* With no segment open the types follow from the rest. *)
LEMMA WithoutOpenFile ==
  ASSUME WellNamed(dir)', open' = NoName, segment_bytes' = 0,
         clock' \in 0 .. MaxTime, sequence' \in Nat,
         pc' \in {"down", "idle", "enforce", "open", "write"},
         batch' = Idle \/ (batch'.id \in 1 .. MaxBatches /\ batch'.bytes \in BatchBytes),
         (batch' = Idle) <=> (pc' \in {"down", "idle"}),
         acked' \in Seq(1 .. MaxBatches), deleted' \subseteq 1 .. MaxBatches,
         remove_failed' \in BOOLEAN, irregular' \in BOOLEAN, faults' \in 0 .. MaxFaults,
         crashes' \in 0 .. MaxCrashes, steps_back' \in 0 .. MaxStepsBack
  PROVE  TypeOK'
<1>1. \A f \in dir' : /\ f.name \in Names /\ f.part \in BOOLEAN
                      /\ f.batches \in Seq(1 .. MaxBatches) /\ f.bytes \in SegmentSizes
                      /\ f.bytes > MaxSegment => Len(f.batches) <= 1
  BY FilesOfDir
<1>2. \A f, g \in dir' : f.name = g.name => f = g
  BY FilesOfDir
<1> QED  BY <1>1, <1>2 DEF TypeOK

LEMMA FinishSegmentIs ==
  ASSUME TypeOK, DirInv, FinishSegment(dir), UNCHANGED <<acked, deleted>>
  PROVE  /\ DirInv' /\ open' = NoName /\ segment_bytes' = 0
         /\ faults' \in 0 .. MaxFaults /\ irregular' \in BOOLEAN
<1>1. PICK ok \in BOOLEAN :
        /\ ok \/ faults < MaxFaults
        /\ dir' = FinishIn(dir, ok)
        /\ open' = NoName /\ segment_bytes' = 0
        /\ faults' = IF ok THEN faults ELSE faults + 1
        /\ irregular' = (irregular \/ ~ok)
  BY DEF FinishSegment
<1>2. DirInv'
  BY <1>1, FinishInIs DEF DirInv
<1>3. faults' \in 0 .. MaxFaults /\ irregular' \in BOOLEAN
  BY <1>1, SegmentAssumption DEF TypeOK
<1> QED  BY <1>1, <1>2, <1>3

LEMMA WriteBatchKeepsIInv ==
  ASSUME IInv, NEW bytes \in BatchBytes, WriteBatch(bytes) PROVE IInv'
<1> DEFINE id == Max({0} \cup ToSet(acked)) + 1
<1>1. /\ pc = "idle" /\ id <= MaxBatches /\ batch' = [id |-> id, bytes |-> bytes]
      /\ UNCHANGED <<clock, sequence, acked, deleted, remove_failed, crashes, steps_back>>
  BY DEF WriteBatch
<1>2. id \in Nat \ {0} /\ \A i \in DOMAIN acked : acked[i] < id
  BY NextBatchIsAbove DEF IInv, TypeOK, CallInv
<1> HIDE DEF id
<1>3. /\ batch'.id = id /\ id \in 1 .. MaxBatches /\ batch'.bytes = bytes /\ batch' # Idle
  <2>1. id \in 1 .. MaxBatches
    BY <1>1, <1>2, SegmentAssumption
  <2> QED  BY <1>1, <2>1 DEF Idle
<1>4. InOrder(acked)' /\ \A i \in DOMAIN acked' : acked'[i] < batch'.id
  BY <1>1, <1>2, <1>3 DEF IInv, CallInv
<1>5. CASE open = NoName /\ pc' = "enforce" /\ UNCHANGED <<dir, open, segment_bytes, faults, irregular>>
  <2>1. DirInv'
    BY <1>1, <1>5 DEF IInv, DirInv
  <2>2. TypeOK'
    BY <1>1, <1>3, <1>5, <2>1, WithoutOpenFile DEF IInv, TypeOK, DirInv
  <2>3. CallInv'
    BY <1>4, <1>5 DEF CallInv
  <2> QED  BY <2>1, <2>2, <2>3 DEF IInv
<1>6. CASE pc' = "enforce" /\ FinishSegment(dir)
  <2>1. /\ DirInv' /\ open' = NoName /\ segment_bytes' = 0
        /\ faults' \in 0 .. MaxFaults /\ irregular' \in BOOLEAN
    BY <1>1, <1>6, FinishSegmentIs DEF IInv
  <2>2. TypeOK'
    BY <1>1, <1>3, <1>6, <2>1, WithoutOpenFile DEF IInv, TypeOK, DirInv
  <2>3. CallInv'
    BY <1>4, <1>6, <2>1 DEF CallInv
  <2> QED  BY <2>1, <2>2, <2>3 DEF IInv
<1>7. CASE /\ open # NoName /\ ~IsFull(bytes) /\ pc' = "write"
           /\ UNCHANGED <<dir, open, segment_bytes, faults, irregular>>
  <2>1. DirInv'
    BY <1>1, <1>7 DEF IInv, DirInv
  <2>2. TypeOK'
    BY <1>1, <1>3, <1>7 DEF IInv, TypeOK, OpenFile
  <2>3. segment_bytes' + batch'.bytes <= MaxSegment
    <3>1. segment_bytes \in Nat /\ bytes \in Nat /\ MaxSegment \in Nat
      BY <1>7, OpenFileExists, SegmentAssumption DEF IInv
    <3> QED  BY <1>3, <1>7, <3>1 DEF IsFull
  <2>4. CallInv'
    BY <1>4, <1>7, <2>3 DEF CallInv
  <2> QED  BY <2>1, <2>2, <2>4 DEF IInv
<1> QED  BY <1>5, <1>6, <1>7 DEF WriteBatch

LEMMA EnforceKeepsIInv ==
  ASSUME IInv, Enforce PROVE IInv'
<1>1. /\ pc = "enforce" /\ pc' = "open" /\ open = NoName
      /\ EnforceTotalLimit(dir, segment_bytes, Reserve, 0)
      /\ UNCHANGED <<clock, sequence, open, segment_bytes, batch, acked, crashes, steps_back>>
  BY DEF Enforce, IInv, CallInv
<1>2. 0 \in Nat /\ faults + 0 <= MaxFaults
  BY SegmentAssumption DEF IInv, TypeOK
<1>3. /\ WellNamed(dir') /\ Kept(dir', deleted', ToSet(acked))
      /\ deleted' \subseteq 1 .. MaxBatches /\ remove_failed' \in BOOLEAN
      /\ irregular' \in BOOLEAN /\ faults' \in 0 .. MaxFaults
  BY <1>1, <1>2, EnforceIs DEF IInv, DirInv
<1>4. DirInv'
  BY <1>1, <1>3 DEF DirInv
<1>5. TypeOK'
  BY <1>1, <1>3, WithoutOpenFile DEF IInv, TypeOK
<1>6. CallInv'
  BY <1>1 DEF IInv, CallInv
<1> QED  BY <1>4, <1>5, <1>6 DEF IInv

LEMMA OpenSegmentKeepsIInv ==
  ASSUME IInv, OpenSegment PROVE IInv'
<1> DEFINE new == NewFile(HeaderBytes)
<1>1. HeaderBytes \in SegmentSizes /\ batch # Idle
  BY Sizes DEF OpenSegment, IInv, TypeOK
<1>2. /\ new \in Files /\ new.batches = <<>> /\ new.part /\ new.bytes = HeaderBytes
      /\ new.name = <<clock, NextSequence>> /\ NextSequence \in Nat
      /\ \A f \in dir : f.name # <<clock, NextSequence>>
      /\ <<clock, NextSequence>> # NoName
  BY <1>1, NewFileIs DEF IInv
<1>3. /\ pc = "open" /\ pc' = "write" /\ sequence' = NextSequence
      /\ open' = <<clock, NextSequence>> /\ segment_bytes' = HeaderBytes
      /\ UNCHANGED <<clock, batch, acked, deleted, remove_failed, irregular, faults, crashes,
                     steps_back>>
  BY DEF OpenSegment
<1>4. dir' = dir \cup {new}
  BY <1>2 DEF OpenSegment
<1> HIDE DEF new
<1>5. DirInv'
  <2>1. WellNamed(dir') /\ Kept(dir', deleted, ToSet(acked))
    BY <1>2, <1>4, AddingKeeps DEF IInv, DirInv
  <2> QED  BY <1>3, <2>1 DEF DirInv
<1>6. OpenFile' = new
  <2>1. (CHOOSE f \in dir' : f.name = open' /\ f.part) = new
    BY <1>2, <1>3, <1>4, <1>5, OpenFileIs DEF DirInv, WellNamed
  <2> QED  BY <2>1 DEF OpenFile
<1>7. TypeOK'
  <2>1. \A f \in dir' : /\ f.name \in Names /\ f.part \in BOOLEAN
                        /\ f.batches \in Seq(1 .. MaxBatches) /\ f.bytes \in SegmentSizes
                        /\ f.bytes > MaxSegment => Len(f.batches) <= 1
    BY <1>5, FilesOfDir DEF DirInv
  <2>2. \A f, g \in dir' : f.name = g.name => f = g
    BY <1>5, FilesOfDir DEF DirInv
  <2>3. open' # NoName /\ (\E f \in dir' : f.name = open' /\ f.part) /\ segment_bytes' = OpenFile'.bytes
    BY <1>2, <1>3, <1>4, <1>6
  <2> QED  BY <1>2, <1>3, <2>1, <2>2, <2>3 DEF IInv, TypeOK
<1>8. CallInv'
  BY <1>1, <1>2, <1>3, <1>6 DEF IInv, CallInv
<1> QED  BY <1>5, <1>7, <1>8 DEF IInv

LEMMA OpenSegmentFailsKeepsIInv ==
  ASSUME IInv, OpenSegmentFails PROVE IInv'
<1>1. /\ pc = "open" /\ open = NoName /\ segment_bytes = 0 /\ faults < MaxFaults
      /\ sequence' = NextSequence /\ pc' = "idle" /\ batch' = Idle
      /\ UNCHANGED <<clock, open, segment_bytes, acked, deleted, remove_failed, crashes,
                     steps_back>>
  BY DEF OpenSegmentFails, IInv, CallInv, TypeOK
<1>2. \A n \in 0 .. HeaderBytes - 1 : n \in SegmentSizes
  BY Sizes
<1>3. sequence' \in Nat
  BY <1>1, NextSequenceIsFree DEF IInv, TypeOK, DirInv
<1>4. /\ WellNamed(dir') /\ Kept(dir', deleted, ToSet(acked))
      /\ faults' \in 0 .. MaxFaults /\ irregular' \in BOOLEAN
  <2>1. CASE dir' = dir /\ faults' = faults + 1 /\ UNCHANGED irregular
    BY <1>1, <2>1, SegmentAssumption DEF IInv, DirInv, TypeOK
  <2>2. ASSUME NEW n \in 0 .. HeaderBytes - 1, NEW ok \in BOOLEAN,
               ok \/ faults + 1 < MaxFaults,
               dir' = dir \cup {[NewFile(n) EXCEPT !.part = ~ok]},
               faults' = IF ok THEN faults + 1 ELSE faults + 2,
               irregular' = (irregular \/ ~ok)
        PROVE  /\ WellNamed(dir') /\ Kept(dir', deleted, ToSet(acked))
               /\ faults' \in 0 .. MaxFaults /\ irregular' \in BOOLEAN
    <3> DEFINE new == [NewFile(n) EXCEPT !.part = ~ok]
    <3>1. /\ NewFile(n) \in Files /\ NewFile(n).batches = <<>>
          /\ NewFile(n).name = <<clock, NextSequence>>
          /\ \A f \in dir : f.name # <<clock, NextSequence>>
      BY <1>2, NewFileIs DEF IInv
    <3>2. new \in Files /\ new.batches = <<>> /\ new.name = <<clock, NextSequence>>
      BY <3>1 DEF Files
    <3> HIDE DEF new
    <3>3. dir' = dir \cup {new}
      BY <2>2 DEF new
    <3>4. WellNamed(dir') /\ Kept(dir', deleted, ToSet(acked))
      BY <3>1, <3>2, <3>3, AddingKeeps DEF IInv, DirInv
    <3>5. faults' \in 0 .. MaxFaults /\ irregular' \in BOOLEAN
      <4>1. faults \in 0 .. MaxFaults /\ MaxFaults \in Nat
        BY SegmentAssumption DEF IInv, TypeOK
      <4>2. faults' \in 0 .. MaxFaults
        <5>1. CASE ok
          BY <1>1, <2>2, <4>1, <5>1
        <5>2. CASE ~ok
          BY <1>1, <2>2, <4>1, <5>2
        <5> QED  BY <5>1, <5>2
      <4>3. irregular' \in BOOLEAN
        BY <2>2 DEF IInv, TypeOK
      <4> QED  BY <4>2, <4>3
    <3> QED  BY <3>4, <3>5
  <2> QED  BY <2>1, <2>2 DEF OpenSegmentFails
<1>5. DirInv'
  BY <1>1, <1>4 DEF DirInv
<1>6. TypeOK'
  BY <1>1, <1>3, <1>4, WithoutOpenFile DEF IInv, TypeOK
<1>7. CallInv'
  BY <1>1 DEF IInv, CallInv
<1> QED  BY <1>5, <1>6, <1>7 DEF IInv

(* The batch fits the segment, or is the first in it. *)
LEMMA WriteFits ==
  ASSUME IInv, pc = "write", NEW n \in 0 .. batch.bytes
  PROVE  /\ n \in Nat /\ segment_bytes + n \in SegmentSizes
         /\ segment_bytes + n > MaxSegment => OpenFile.batches = <<>>
<1>1. batch # Idle /\ batch.bytes \in BatchBytes /\ batch.bytes \in Nat
  BY BatchIs DEF IInv, TypeOK
<1>2. segment_bytes \in Nat
  BY OpenFileExists DEF IInv, CallInv
<1>3. CASE segment_bytes + batch.bytes <= MaxSegment
  <2>1. segment_bytes + n \in 0 .. MaxSegment
    BY <1>1, <1>2, <1>3, Sizes
  <2> QED  BY <1>1, <2>1, Sizes
<1>4. CASE segment_bytes = HeaderBytes /\ OpenFile.batches = <<>>
  <2>1. segment_bytes + n \in 0 .. HeaderBytes + batch.bytes
    BY <1>1, <1>2, <1>4
  <2> QED  BY <1>1, <1>4, <2>1, Sizes
<1> QED  BY <1>3, <1>4 DEF IInv, CallInv

(* The segment being written, with more in it. *)
LEMMA GrownIs ==
  ASSUME TypeOK, DirInv, open # NoName, NEW n \in Nat, segment_bytes + n \in SegmentSizes,
         NEW batches \in Seq(1 .. MaxBatches),
         segment_bytes + n > MaxSegment => OpenFile.batches = <<>> /\ Len(batches) <= 1
  PROVE  \E g \in Files : /\ Grown(n, batches) = (dir \ {OpenFile}) \cup {g}
                          /\ g.name = open /\ g.part /\ g.bytes = segment_bytes + n
                          /\ g.batches = OpenFile.batches \o batches
<1> DEFINE f == OpenFile
           g == [f EXCEPT !.bytes = f.bytes + n, !.batches = f.batches \o batches]
<1>1. f \in Files /\ f.name = open /\ f.part /\ segment_bytes = f.bytes /\ f.bytes \in Nat
  BY OpenFileExists
<1>2. f.bytes + n \in SegmentSizes
  BY <1>1
<1>3. /\ f.batches \o batches \in Seq(1 .. MaxBatches)
      /\ f.bytes + n > MaxSegment => Len(f.batches \o batches) <= 1
  <2>1. /\ f.batches \o batches \in Seq(1 .. MaxBatches)
        /\ Len(f.batches \o batches) = Len(f.batches) + Len(batches)
    BY <1>1, ConcatProperties DEF Files
  <2>2. f.batches = <<>> => Len(f.batches) = 0
    BY EmptySeq
  <2>3. Len(batches) \in Nat
    BY LenProperties
  <2> QED  BY <1>1, <2>1, <2>2, <2>3
<1>4. Grown(n, batches) = (dir \ {OpenFile}) \cup {g}
  BY DEF Grown
<1> HIDE DEF f
<1>5. /\ g \in Files /\ g.name = f.name /\ g.part = f.part /\ g.bytes = f.bytes + n
      /\ g.batches = f.batches \o batches
  BY <1>1, <1>2, <1>3 DEF Files
<1> HIDE DEF g
<1> QED  BY <1>1, <1>4, <1>5 DEF f

LEMMA AppendedBatch ==
  ASSUME NEW s \in Seq(1 .. MaxBatches), NEW id \in 1 .. MaxBatches, InOrder(s),
         \A i \in DOMAIN s : s[i] < id
  PROVE  /\ Append(s, id) \in Seq(1 .. MaxBatches) /\ Append(s, id) = s \o <<id>>
         /\ InOrder(Append(s, id)) /\ ToSet(Append(s, id)) = ToSet(s) \cup {id}
<1>1. /\ Append(s, id) \in Seq(1 .. MaxBatches) /\ Append(s, id) = s \o <<id>>
      /\ Len(s) \in Nat /\ Len(Append(s, id)) = Len(s) + 1
      /\ \A i \in 1 .. Len(s) : Append(s, id)[i] = s[i]
      /\ Append(s, id)[Len(s) + 1] = id
  BY AppendProperties, AppendIsConcat, LenProperties
<1> DEFINE t == Append(s, id)
<1>2. DOMAIN s = 1 .. Len(s) /\ DOMAIN t = (1 .. Len(s)) \cup {Len(s) + 1}
  <2>1. DOMAIN t = 1 .. Len(t)
    BY <1>1, LenProperties
  <2>2. DOMAIN s = 1 .. Len(s)
    BY LenProperties
  <2> QED  BY <1>1, <2>1, <2>2
<1>3. /\ \A i \in DOMAIN s : t[i] = s[i] /\ i < Len(s) + 1
      /\ t[Len(s) + 1] = id
  BY <1>1, <1>2
<1> HIDE DEF t
<1>4. InOrder(t)
  <2> SUFFICES ASSUME NEW i \in DOMAIN t, NEW j \in DOMAIN t, i < j PROVE t[i] < t[j]
    BY DEF InOrder
  <2>1. i \in DOMAIN s
    BY <1>1, <1>2
  <2>2. CASE j \in DOMAIN s
    BY <1>3, <2>1, <2>2 DEF InOrder
  <2>3. CASE j = Len(s) + 1
    BY <1>3, <2>1, <2>3
  <2> QED  BY <1>2, <2>2, <2>3
<1>5. ToSet(t) = ToSet(s) \cup {id}
  BY <1>2, <1>3 DEF ToSet
<1> QED  BY <1>1, <1>4, <1>5 DEF t

LEMMA WriteKeepsIInv ==
  ASSUME IInv, Write PROVE IInv'
<1>1. /\ pc = "write" /\ pc' = "idle" /\ batch' = Idle /\ open # NoName
      /\ dir' = Grown(batch.bytes, <<batch.id>>)
      /\ segment_bytes' = segment_bytes + batch.bytes
      /\ acked' = Append(acked, batch.id)
      /\ UNCHANGED <<clock, sequence, open, deleted, remove_failed, irregular, faults, crashes,
                     steps_back>>
  BY DEF Write, IInv, CallInv
<1>2. batch # Idle /\ batch.id \in 1 .. MaxBatches /\ batch.bytes \in Nat
      /\ \A i \in DOMAIN acked : acked[i] < batch.id
  BY <1>1, BatchIs DEF IInv, TypeOK, CallInv
<1>3. /\ <<batch.id>> \in Seq(1 .. MaxBatches)
      /\ segment_bytes + batch.bytes \in SegmentSizes
      /\ segment_bytes + batch.bytes > MaxSegment =>
           OpenFile.batches = <<>> /\ Len(<<batch.id>>) <= 1
  <2>1. batch.bytes \in 0 .. batch.bytes
    BY <1>2
  <2> QED  BY <1>1, <1>2, <2>1, WriteFits
<1>4. PICK g \in Files :
        /\ dir' = (dir \ {OpenFile}) \cup {g}
        /\ g.name = open /\ g.part /\ g.bytes = segment_bytes + batch.bytes
        /\ g.batches = OpenFile.batches \o <<batch.id>>
  BY <1>1, <1>2, <1>3, GrownIs DEF IInv
<1>5. OpenFile \in dir /\ OpenFile \in Files /\ OpenFile.name = open
  BY <1>1, OpenFileExists DEF IInv
<1>6. /\ acked' \in Seq(1 .. MaxBatches) /\ InOrder(acked')
      /\ ToSet(acked') = ToSet(acked) \cup {batch.id} /\ batch.id \notin ToSet(acked)
  <2>1. batch.id \notin ToSet(acked)
    BY <1>2 DEF ToSet, IInv, TypeOK
  <2> QED  BY <1>1, <1>2, <2>1, AppendedBatch DEF IInv, TypeOK, CallInv
<1>7. InOrder(g.batches) /\ Whole(g) = Whole(OpenFile) \cup {batch.id}
  <2> DEFINE s == OpenFile.batches
  <2>1. s \in Seq(1 .. MaxBatches) /\ InOrder(s) /\ Whole(OpenFile) \subseteq ToSet(acked)
    BY <1>5 DEF Files, IInv, DirInv, Kept
  <2>2. \A i \in DOMAIN s : s[i] < batch.id
    <3>1. \A b \in ToSet(acked) : b < batch.id
      BY <1>2 DEF ToSet
    <3> QED  BY <2>1, <3>1 DEF Whole
  <2> HIDE DEF s
  <2>3. g.batches = Append(s, batch.id) /\ InOrder(g.batches)
        /\ ToSet(g.batches) = ToSet(s) \cup {batch.id}
    <3>1. /\ Append(s, batch.id) = s \o <<batch.id>> /\ InOrder(Append(s, batch.id))
          /\ ToSet(Append(s, batch.id)) = ToSet(s) \cup {batch.id}
      BY <1>2, <2>1, <2>2, AppendedBatch
    <3>2. g.batches = s \o <<batch.id>>
      BY <1>4 DEF s
    <3> QED  BY <3>1, <3>2
  <2> QED  BY <2>3 DEF s, Whole, ToSet
<1>8. DirInv'
  <2>1. WellNamed(dir') /\ Kept(dir', deleted, ToSet(acked) \cup {batch.id})
    BY <1>4, <1>5, <1>6, <1>7, WritingKeeps DEF IInv, DirInv
  <2> QED  BY <1>1, <1>6, <2>1 DEF DirInv
<1>9. TypeOK'
  <2>1. OpenFile' = g
    <3>1. (CHOOSE f \in dir' : f.name = open' /\ f.part) = g
      BY <1>1, <1>4, <1>8, OpenFileIs DEF DirInv, WellNamed
    <3> QED  BY <3>1 DEF OpenFile
  <2>2. \A f \in dir' : /\ f.name \in Names /\ f.part \in BOOLEAN
                        /\ f.batches \in Seq(1 .. MaxBatches) /\ f.bytes \in SegmentSizes
                        /\ f.bytes > MaxSegment => Len(f.batches) <= 1
    BY <1>8, FilesOfDir DEF DirInv
  <2>3. \A f, h \in dir' : f.name = h.name => f = h
    BY <1>8, FilesOfDir DEF DirInv
  <2>4. open' # NoName /\ (\E f \in dir' : f.name = open' /\ f.part) /\ segment_bytes' = OpenFile'.bytes
    BY <1>1, <1>4, <2>1
  <2> QED  BY <1>1, <1>6, <2>2, <2>3, <2>4 DEF IInv, TypeOK
<1>10. CallInv'
  BY <1>1, <1>6 DEF CallInv
<1> QED  BY <1>8, <1>9, <1>10 DEF IInv

(* The write is cut off by an error or by a crash. *)
LEMMA CutOff ==
  ASSUME IInv, pc = "write", NEW n \in 0 .. batch.bytes - 1
  PROVE  WellNamed(Grown(n, <<>>)) /\ Kept(Grown(n, <<>>), deleted, ToSet(acked))
<1>1. batch # Idle /\ batch.bytes \in Nat /\ open # NoName
  BY BatchIs DEF IInv, TypeOK, CallInv
<1>2. /\ OpenFile \in dir /\ OpenFile \in Files /\ OpenFile.name = open /\ segment_bytes \in Nat
  BY <1>1, OpenFileExists DEF IInv
<1>3. /\ n \in Nat /\ segment_bytes + n \in SegmentSizes
      /\ segment_bytes + n > MaxSegment => OpenFile.batches = <<>> /\ Len(<<>>) <= 1
  <2>1. n \in 0 .. batch.bytes
    BY <1>1
  <2> QED  BY <2>1, WriteFits, EmptySeq
<1>4. <<>> \in Seq(1 .. MaxBatches)
  BY EmptySeq
<1>5. PICK g \in Files : /\ Grown(n, <<>>) = (dir \ {OpenFile}) \cup {g}
                         /\ g.name = open /\ g.batches = OpenFile.batches \o <<>>
  BY <1>1, <1>3, <1>4, GrownIs DEF IInv
<1>6. g.batches = OpenFile.batches
  BY <1>2, <1>5, ConcatEmptySeq DEF Files
<1> QED  BY <1>2, <1>5, <1>6, ResizingKeeps DEF IInv, DirInv

LEMMA WriteFailsKeepsIInv ==
  ASSUME IInv, WriteFails PROVE IInv'
<1>1. PICK n \in 0 .. batch.bytes - 1, ok \in BOOLEAN :
        /\ ok \/ faults + 1 < MaxFaults
        /\ dir' = FinishIn(Grown(n, <<>>), ok)
        /\ faults' = IF ok THEN faults + 1 ELSE faults + 2
        /\ irregular' = (irregular \/ ~ok)
  BY DEF WriteFails
<1>2. /\ pc = "write" /\ faults < MaxFaults
      /\ open' = NoName /\ segment_bytes' = 0 /\ pc' = "idle" /\ batch' = Idle
      /\ UNCHANGED <<clock, sequence, acked, deleted, remove_failed, crashes, steps_back>>
  BY DEF WriteFails
<1>3. DirInv'
  <2>1. WellNamed(dir') /\ Kept(dir', deleted, ToSet(acked))
    BY <1>1, <1>2, CutOff, FinishInIs
  <2> QED  BY <1>2, <2>1 DEF DirInv
<1>4. faults' \in 0 .. MaxFaults /\ irregular' \in BOOLEAN
  <2>1. faults \in 0 .. MaxFaults /\ MaxFaults \in Nat
    BY SegmentAssumption DEF IInv, TypeOK
  <2>2. faults' \in 0 .. MaxFaults
    <3>1. CASE ok
      BY <1>1, <1>2, <2>1, <3>1
    <3>2. CASE ~ok
      BY <1>1, <1>2, <2>1, <3>2
    <3> QED  BY <3>1, <3>2
  <2>3. irregular' \in BOOLEAN
    BY <1>1 DEF IInv, TypeOK
  <2> QED  BY <2>2, <2>3
<1>5. TypeOK'
  BY <1>2, <1>3, <1>4, WithoutOpenFile DEF IInv, TypeOK, DirInv
<1>6. CallInv'
  BY <1>2 DEF IInv, CallInv
<1> QED  BY <1>3, <1>5, <1>6 DEF IInv

LEMMA CloseKeepsIInv ==
  ASSUME IInv, Close PROVE IInv'
<1>1. /\ pc = "idle" /\ pc' = "down" /\ batch = Idle
      /\ UNCHANGED <<clock, sequence, batch, acked, deleted, remove_failed, crashes, steps_back>>
  BY DEF Close, IInv, TypeOK
<1>2. /\ DirInv' /\ open' = NoName /\ segment_bytes' = 0
      /\ faults' \in 0 .. MaxFaults /\ irregular' \in BOOLEAN
  <2>1. CASE open # NoName /\ FinishSegment(dir)
    BY <1>1, <2>1, FinishSegmentIs DEF IInv
  <2>2. CASE open = NoName /\ UNCHANGED <<dir, open, segment_bytes, faults, irregular>>
    BY <1>1, <2>2 DEF IInv, DirInv, TypeOK
  <2> QED  BY <2>1, <2>2 DEF Close
<1>3. TypeOK'
  BY <1>1, <1>2, WithoutOpenFile DEF IInv, TypeOK, DirInv
<1>4. CallInv'
  BY <1>1, <1>2 DEF IInv, CallInv
<1> QED  BY <1>2, <1>3, <1>4 DEF IInv

LEMMA CrashKeepsIInv ==
  ASSUME IInv, Crash PROVE IInv'
<1>1. /\ pc' = "down" /\ batch' = Idle /\ open' = NoName /\ segment_bytes' = 0
      /\ crashes < MaxCrashes /\ crashes' = crashes + 1
      /\ UNCHANGED <<clock, sequence, acked, deleted, remove_failed, irregular, faults,
                     steps_back>>
  BY DEF Crash
<1>2. DirInv'
  <2>1. WellNamed(dir') /\ Kept(dir', deleted, ToSet(acked))
    <3>1. CASE dir' = dir
      BY <3>1 DEF IInv, DirInv
    <3>2. ASSUME pc = "open", NEW n \in 0 .. HeaderBytes - 1, dir' = dir \cup {NewFile(n)}
          PROVE  WellNamed(dir') /\ Kept(dir', deleted, ToSet(acked))
      <4>1. n \in SegmentSizes
        BY Sizes
      <4>2. /\ NewFile(n) \in Files /\ NewFile(n).batches = <<>>
            /\ \A f \in dir : f.name # NewFile(n).name
        BY <4>1, NewFileIs DEF IInv
      <4> QED  BY <3>2, <4>2, AddingKeeps DEF IInv, DirInv
    <3>3. ASSUME pc = "write", NEW n \in 1 .. batch.bytes - 1, dir' = Grown(n, <<>>)
          PROVE  WellNamed(dir') /\ Kept(dir', deleted, ToSet(acked))
      <4>1. n \in 0 .. batch.bytes - 1
        BY <3>3, BatchIs DEF IInv, TypeOK
      <4> QED  BY <3>3, <4>1, CutOff
    <3> QED  BY <3>1, <3>2, <3>3 DEF Crash
  <2> QED  BY <1>1, <2>1 DEF DirInv
<1>3. crashes' \in 0 .. MaxCrashes
  BY <1>1, SegmentAssumption DEF IInv, TypeOK
<1>4. TypeOK'
  BY <1>1, <1>2, <1>3, WithoutOpenFile DEF IInv, TypeOK, DirInv
<1>5. CallInv'
  BY <1>1 DEF IInv, CallInv
<1> QED  BY <1>2, <1>4, <1>5 DEF IInv

LEMMA RestartKeepsIInv ==
  ASSUME IInv, Restart PROVE IInv'
<1>1. PICK left \in SUBSET {f \in dir : f.part} :
        /\ Cardinality(left) <= MaxFaults - faults
        /\ EnforceTotalLimit({IF f \in left THEN f ELSE [f EXCEPT !.part = FALSE] :
                                f \in dir}, 0, 0, Cardinality(left))
  BY DEF Restart
<1>2. /\ pc = "down" /\ pc' = "idle" /\ sequence' = 0 /\ clock < MaxTime /\ clock' = clock + 1
      /\ UNCHANGED <<open, segment_bytes, batch, acked, crashes, steps_back>>
      /\ open = NoName /\ segment_bytes = 0 /\ batch = Idle
  BY DEF Restart, IInv, TypeOK, CallInv
<1> DEFINE files == Renamed(dir, dir \ left)
<1>3. files = {IF f \in left THEN f ELSE [f EXCEPT !.part = FALSE] : f \in dir}
  BY DEF Renamed, After, Final
<1>4. Cardinality(left) \in Nat /\ faults + Cardinality(left) <= MaxFaults
  <2>1. Cardinality(left) \in Nat
    BY FS_Subset, FS_CardinalityType DEF IInv, DirInv, WellNamed
  <2> QED  BY <1>1, <2>1, SegmentAssumption DEF IInv, TypeOK
<1>5. WellNamed(files) /\ Kept(files, deleted, ToSet(acked))
  BY RenamingKeeps DEF IInv, DirInv
<1>6. EnforceTotalLimit(files, 0, 0, Cardinality(left))
  BY <1>1, <1>3
<1> HIDE DEF files
<1>7. /\ WellNamed(dir') /\ Kept(dir', deleted', ToSet(acked))
      /\ deleted' \subseteq 1 .. MaxBatches /\ remove_failed' \in BOOLEAN
      /\ irregular' \in BOOLEAN /\ faults' \in 0 .. MaxFaults
  BY <1>4, <1>5, <1>6, EnforceIs DEF IInv
<1>8. DirInv'
  BY <1>2, <1>7 DEF DirInv
<1>9. clock' \in 0 .. MaxTime
  BY <1>2, SegmentAssumption DEF IInv, TypeOK
<1>10. TypeOK'
  BY <1>2, <1>7, <1>9, WithoutOpenFile DEF IInv, TypeOK
<1>11. CallInv'
  BY <1>2 DEF IInv, CallInv
<1> QED  BY <1>8, <1>10, <1>11 DEF IInv

(* The clock, and the steps of the rest of the system. *)
LEMMA ClockKeepsIInv ==
  ASSUME IInv, ClockTicks \/ ClockIsSetBack \/ UNCHANGED vars PROVE IInv'
<1>1. /\ clock' \in 0 .. MaxTime /\ steps_back' \in 0 .. MaxStepsBack /\ irregular' \in BOOLEAN
      /\ UNCHANGED <<dir, sequence, open, segment_bytes, pc, batch, acked, deleted,
                     remove_failed, faults, crashes>>
  <2>1. /\ clock \in 0 .. MaxTime /\ steps_back \in 0 .. MaxStepsBack /\ irregular \in BOOLEAN
        /\ MaxTime \in Nat /\ MaxStepsBack \in Nat
    BY SegmentAssumption DEF IInv, TypeOK
  <2>2. CASE ClockTicks
    BY <2>1, <2>2 DEF ClockTicks
  <2>3. CASE ClockIsSetBack
    BY <2>1, <2>3 DEF ClockIsSetBack
  <2>4. CASE UNCHANGED vars
    BY <2>1, <2>4 DEF vars
  <2> QED  BY <2>2, <2>3, <2>4
<1>2. TypeOK'
  BY <1>1 DEF IInv, TypeOK, OpenFile
<1>3. DirInv' /\ CallInv'
  BY <1>1 DEF IInv, DirInv, CallInv, OpenFile
<1> QED  BY <1>2, <1>3 DEF IInv

-----------------------------------------------------------------------------
(* The inductive invariant, and what it is for. *)

LEMMA InitIInv == Init => IInv
<1> SUFFICES ASSUME Init PROVE IInv
  OBVIOUS
<1>1. /\ acked = <<>> /\ acked \in Seq(1 .. MaxBatches) /\ DOMAIN acked = {}
      /\ clock = 0 /\ sequence = 0 /\ dir = {} /\ deleted = {} /\ open = NoName
      /\ segment_bytes = 0 /\ batch = Idle /\ pc = "idle"
      /\ remove_failed = FALSE /\ irregular = FALSE /\ faults = 0 /\ crashes = 0 /\ steps_back = 0
  BY DEF Init
<1>2. DirInv
  BY <1>1, FS_EmptySet DEF DirInv, WellNamed, Kept, ToSet
<1>3. TypeOK
  <2>1. /\ 0 \in 0 .. MaxTime /\ 0 \in 0 .. MaxFaults /\ 0 \in 0 .. MaxCrashes
        /\ 0 \in 0 .. MaxStepsBack
    BY SegmentAssumption
  <2> QED  BY <1>1, <2>1 DEF TypeOK
<1>4. CallInv
  BY <1>1 DEF CallInv, InOrder
<1> QED  BY <1>2, <1>3, <1>4 DEF IInv

LEMMA NextKeepsIInv == IInv /\ [Next]_vars => IInv'
BY WriteBatchKeepsIInv, EnforceKeepsIInv, OpenSegmentKeepsIInv, OpenSegmentFailsKeepsIInv,
   WriteKeepsIInv, WriteFailsKeepsIInv, CloseKeepsIInv, CrashKeepsIInv, RestartKeepsIInv,
   ClockKeepsIInv
   DEF Next

LEMMA IInvHolds == Spec => []IInv
BY InitIInv, NextKeepsIInv, PTL DEF Spec

(* The files of the directory have one name each, and the segment being
   written is one of them, of the size the writer counts. *)
THEOREM TypeCorrectness == Spec => []TypeOK
<1>1. IInv => TypeOK
  BY DEF IInv
<1> QED  BY <1>1, IInvHolds, PTL

(* Whatever the limits, and however crashes, restarts, refused operations
   and settings of the clock follow each other, a batch that write_batch
   returned for is whole in exactly one segment until the limit removes it. *)
THEOREM BatchesAreKept == Spec => []NothingOverwritten
<1>1. IInv => NothingOverwritten
  BY DEF IInv, DirInv, Kept, NothingOverwritten
<1> QED  BY <1>1, IInvHolds, PTL

-----------------------------------------------------------------------------
(* The size of a set of files.  Induction over finite sets: a collection of subsets of a finite set has
   one that no other is a part of. *)
LEMMA SmallestSet ==
  ASSUME NEW U, IsFiniteSet(U), NEW C \in SUBSET (SUBSET U), C # {}
  PROVE  \E s \in C : \A t \in C : t \subseteq s => t = s
<1>1. IsWellFoundedOn(StrictSubsetOrdering(U), FiniteSubsetsOf(U))
  BY FS_StrictSubsetOrderingWellFounded
<1>2. C \subseteq FiniteSubsetsOf(U)
  BY FS_Subset DEF FiniteSubsetsOf
<1>3. PICK s \in C : \A t \in C : ~(<<t, s>> \in StrictSubsetOrdering(U))
  BY <1>1, <1>2, WFMin
<1>4. ASSUME NEW t \in C, t \subseteq s PROVE t = s
  <2>1. t \in SUBSET U /\ s \in SUBSET U
    OBVIOUS
  <2> QED  BY <1>3, <1>4, <2>1 DEF StrictSubsetOrdering
<1> QED  BY <1>4

(* The sum of a set's sizes: the recursion that Bytes stands for. *)
First(s) == CHOOSE f \in s : TRUE
Sums(S, g) ==
  g = [s \in SUBSET S |-> IF s = {} THEN 0 ELSE First(s).bytes + g[s \ {First(s)}]]

LEMMA BytesIs == \A S : Bytes(S) = (CHOOSE g : Sums(S, g))[S]
BY DEF Bytes, MapThenSumSet, MapThenFoldSet, Sums, First

LEMMA SumsAgree ==
  ASSUME NEW S, NEW T, NEW g, NEW h, Sums(S, g), Sums(T, h),
         NEW s, s \subseteq S, s \subseteq T, IsFiniteSet(s)
  PROVE  g[s] = h[s]
<1> DEFINE C == {t \in SUBSET s : g[t] # h[t]}
<1> SUFFICES ASSUME C # {} PROVE FALSE
  OBVIOUS
<1>1. PICK t \in C : \A u \in C : u \subseteq t => u = t
  <2>1. C \in SUBSET (SUBSET s)
    OBVIOUS
  <2> HIDE DEF C
  <2> QED  BY <2>1, SmallestSet
<1>2. t \in SUBSET S /\ t \in SUBSET T /\ t \in SUBSET s /\ g[t] # h[t]
  OBVIOUS
<1>3. /\ g[t] = IF t = {} THEN 0 ELSE First(t).bytes + g[t \ {First(t)}]
      /\ h[t] = IF t = {} THEN 0 ELSE First(t).bytes + h[t \ {First(t)}]
  BY <1>2 DEF Sums
<1>4. t # {}
  BY <1>2, <1>3
<1>5. First(t) \in t
  BY <1>4 DEF First
<1>6. g[t \ {First(t)}] = h[t \ {First(t)}]
  BY <1>1, <1>5
<1> QED  BY <1>2, <1>3, <1>6

LEMMA SumsExist ==
  ASSUME NEW S, IsFiniteSet(S)
  PROVE  Sums(S, CHOOSE g : Sums(S, g))
<1> DEFINE C == {s \in SUBSET S : ~ \E g : Sums(s, g)}
<1> SUFFICES ASSUME C # {} PROVE FALSE
  OBVIOUS
<1>1. PICK m \in C : \A u \in C : u \subseteq m => u = m
  <2>1. C \in SUBSET (SUBSET S)
    OBVIOUS
  <2> HIDE DEF C
  <2> QED  BY <2>1, SmallestSet
<1>2. m \in SUBSET S /\ ~ \E g : Sums(m, g)
  OBVIOUS
<1> DEFINE Of(s) == CHOOSE g : Sums(s, g)
           G == [s \in SUBSET m |-> IF s = {} THEN 0
                                    ELSE First(s).bytes + Of(s \ {First(s)})[s \ {First(s)}]]
<1>3. \A s \in SUBSET m : s # m => Sums(s, Of(s))
  BY <1>1
<1>4. \A s \in SUBSET m : s # {} => /\ First(s) \in s /\ s \ {First(s)} \in SUBSET m
                                    /\ s \ {First(s)} # m
  BY DEF First
<1> HIDE DEF Of, C
<1>5. ASSUME NEW s \in SUBSET m, s # {}
      PROVE  G[s \ {First(s)}] = Of(s \ {First(s)})[s \ {First(s)}]
  <2> DEFINE t == s \ {First(s)}
  <2>1. t \in SUBSET m /\ t # m /\ Sums(t, Of(t))
    BY <1>3, <1>4, <1>5
  <2> HIDE DEF t
  <2>2. Of(t)[t] = IF t = {} THEN 0 ELSE First(t).bytes + Of(t)[t \ {First(t)}]
    BY <2>1 DEF Sums
  <2>3. G[t] = IF t = {} THEN 0 ELSE First(t).bytes + Of(t \ {First(t)})[t \ {First(t)}]
    BY <2>1
  <2>4. ASSUME t # {} PROVE Of(t)[t \ {First(t)}] = Of(t \ {First(t)})[t \ {First(t)}]
    <3>1. t \ {First(t)} \subseteq t /\ Sums(t \ {First(t)}, Of(t \ {First(t)}))
      BY <1>3, <1>4, <2>1, <2>4
    <3>2. IsFiniteSet(t \ {First(t)})
      BY <1>2, <2>1, FS_Subset
    <3> QED  BY <2>1, <3>1, <3>2, SumsAgree
  <2>5. G[t] = Of(t)[t]
    BY <2>2, <2>3, <2>4
  <2> QED  BY <2>5 DEF t
<1>6. Sums(m, G)
  <2>1. G = [s \in SUBSET m |-> IF s = {} THEN 0 ELSE First(s).bytes + G[s \ {First(s)}]]
    BY <1>5
  <2> HIDE DEF G
  <2> QED  BY <2>1 DEF Sums
<1> QED  BY <1>2, <1>6

LEMMA BytesOf ==
  ASSUME NEW S, IsFiniteSet(S)
  PROVE  Bytes(S) = IF S = {} THEN 0 ELSE First(S).bytes + Bytes(S \ {First(S)})
<1> DEFINE Of(s) == CHOOSE g : Sums(s, g)
<1>1. Sums(S, Of(S)) /\ Sums(S \ {First(S)}, Of(S \ {First(S)})) /\ IsFiniteSet(S \ {First(S)})
  BY SumsExist, FS_RemoveElement
<1>2. Bytes(S) = Of(S)[S] /\ Bytes(S \ {First(S)}) = Of(S \ {First(S)})[S \ {First(S)}]
  BY BytesIs
<1> HIDE DEF Of
<1>3. Of(S)[S] = IF S = {} THEN 0 ELSE First(S).bytes + Of(S)[S \ {First(S)}]
  BY <1>1 DEF Sums
<1>4. Of(S)[S \ {First(S)}] = Of(S \ {First(S)})[S \ {First(S)}]
  BY <1>1, SumsAgree
<1> QED  BY <1>2, <1>3, <1>4

(* Files with sizes, of which there are finitely many. *)
Sized(S) == IsFiniteSet(S) /\ \A f \in S : f.bytes \in Nat

LEMMA BytesIsNat == ASSUME NEW S, Sized(S) PROVE Bytes(S) \in Nat
<1> DEFINE C == {s \in SUBSET S : Bytes(s) \notin Nat}
<1> SUFFICES ASSUME C # {} PROVE FALSE
  OBVIOUS
<1>1. PICK m \in C : \A u \in C : u \subseteq m => u = m
  <2>1. C \in SUBSET (SUBSET S)
    OBVIOUS
  <2> HIDE DEF C
  <2> QED  BY <2>1, SmallestSet DEF Sized
<1>2. m \in SUBSET S /\ Bytes(m) \notin Nat /\ IsFiniteSet(m)
  BY FS_Subset DEF Sized
<1>3. m # {} /\ Bytes(m) = First(m).bytes + Bytes(m \ {First(m)})
  BY <1>2, BytesOf
<1>4. First(m) \in m
  BY <1>3 DEF First
<1>5. Bytes(m \ {First(m)}) \in Nat /\ First(m).bytes \in Nat
  BY <1>1, <1>2, <1>4 DEF Sized
<1> QED  BY <1>2, <1>3, <1>5

LEMMA BytesTake ==
  ASSUME NEW S, Sized(S), NEW f \in S
  PROVE  Bytes(S) = f.bytes + Bytes(S \ {f})
<1> DEFINE C == {s \in SUBSET S : \E x \in s : Bytes(s) # x.bytes + Bytes(s \ {x})}
<1>0. \A s \in SUBSET S : Sized(s)
  BY FS_Subset DEF Sized
<1> SUFFICES ASSUME C # {} PROVE FALSE
  BY <1>0
<1>1. PICK m \in C : \A u \in C : u \subseteq m => u = m
  <2>1. C \in SUBSET (SUBSET S)
    OBVIOUS
  <2> HIDE DEF C
  <2> QED  BY <2>1, SmallestSet DEF Sized
<1>2. PICK x \in m : Bytes(m) # x.bytes + Bytes(m \ {x})
  OBVIOUS
<1> DEFINE g == First(m)
<1>3. g \in m /\ Bytes(m) = g.bytes + Bytes(m \ {g})
  BY <1>0, <1>2, BytesOf DEF First, Sized
<1> HIDE DEF g
<1>4. g # x /\ m \in SUBSET S
  BY <1>2, <1>3
<1>5. Bytes(m \ {g}) = x.bytes + Bytes((m \ {g}) \ {x})
  <2>1. m \ {g} \in SUBSET S /\ x \in m \ {g} /\ m \ {g} \subseteq m /\ m \ {g} # m
    BY <1>2, <1>3, <1>4
  <2> QED  BY <1>1, <2>1
<1>6. Bytes(m \ {x}) = g.bytes + Bytes((m \ {x}) \ {g})
  <2>1. m \ {x} \in SUBSET S /\ g \in m \ {x} /\ m \ {x} \subseteq m /\ m \ {x} # m
    BY <1>2, <1>3, <1>4
  <2> QED  BY <1>1, <2>1
<1>7. (m \ {g}) \ {x} = (m \ {x}) \ {g}
  OBVIOUS
<1>8. /\ g.bytes \in Nat /\ x.bytes \in Nat
      /\ Bytes((m \ {g}) \ {x}) \in Nat
  BY <1>0, <1>2, <1>3, <1>4, BytesIsNat DEF Sized
<1> QED  BY <1>2, <1>3, <1>5, <1>6, <1>7, <1>8

(* The sizes of two sets of files that share none add up. *)
LEMMA BytesAdd ==
  ASSUME NEW S, Sized(S), NEW A \in SUBSET S, NEW D \in SUBSET S, A \cap D = {}
  PROVE  Bytes(A \cup D) = Bytes(A) + Bytes(D)
<1> DEFINE C == {s \in SUBSET S : s \cap A = {} /\ Bytes(A \cup s) # Bytes(A) + Bytes(s)}
<1>0. \A s \in SUBSET S : Sized(s)
  BY FS_Subset DEF Sized
<1> SUFFICES ASSUME C # {} PROVE FALSE
  OBVIOUS
<1>1. PICK m \in C : \A u \in C : u \subseteq m => u = m
  <2>1. C \in SUBSET (SUBSET S)
    OBVIOUS
  <2> HIDE DEF C
  <2> QED  BY <2>1, SmallestSet DEF Sized
<1>2. m \in SUBSET S /\ m \cap A = {} /\ Bytes(A \cup m) # Bytes(A) + Bytes(m)
  OBVIOUS
<1>3. Bytes({}) = 0 /\ \A s \in SUBSET S : Bytes(s) \in Nat
  BY <1>0, BytesOf, BytesIsNat, FS_EmptySet
<1>4. m # {}
  BY <1>2, <1>3
<1>5. PICK x \in m : TRUE
  BY <1>4
<1>6. Bytes(m) = x.bytes + Bytes(m \ {x})
  BY <1>0, <1>2, BytesTake
<1>7. Bytes(A \cup m) = x.bytes + Bytes((A \cup m) \ {x})
  <2>1. Sized(A \cup m) /\ x \in A \cup m
    BY <1>0, <1>2
  <2> QED  BY <2>1, BytesTake
<1>8. (A \cup m) \ {x} = A \cup (m \ {x})
  BY <1>2
<1>9. Bytes(A \cup (m \ {x})) = Bytes(A) + Bytes(m \ {x})
  <2>1. m \ {x} \in SUBSET S /\ (m \ {x}) \cap A = {} /\ m \ {x} \subseteq m /\ m \ {x} # m
    BY <1>2
  <2> QED  BY <1>1, <2>1
<1>10. x.bytes \in Nat /\ m \ {x} \in SUBSET S
  BY <1>2 DEF Sized
<1> HIDE DEF C
<1>11. Bytes(A \cup m) = x.bytes + (Bytes(A) + Bytes(m \ {x}))
  BY <1>7, <1>8, <1>9
<1>12. Bytes(A) \in Nat /\ Bytes(m \ {x}) \in Nat
  BY <1>3, <1>10
<1> QED  BY <1>2, <1>6, <1>10, <1>11, <1>12

(* A part of the files is no larger than all of them. *)
LEMMA BytesOfPart ==
  ASSUME NEW S, Sized(S), NEW A \in SUBSET S
  PROVE  /\ Bytes(S) = Bytes(A) + Bytes(S \ A) /\ Bytes(A) <= Bytes(S)
         /\ Bytes(A) \in Nat /\ Bytes(S \ A) \in Nat /\ Bytes(S) \in Nat
<1>1. A \cup (S \ A) = S /\ A \cap (S \ A) = {} /\ S \ A \in SUBSET S
  OBVIOUS
<1>2. Bytes(S) = Bytes(A) + Bytes(S \ A)
  <2>1. Bytes(A \cup (S \ A)) = Bytes(A) + Bytes(S \ A)
    BY <1>1, BytesAdd
  <2> QED  BY <1>1, <2>1
<1>3. Bytes(A) \in Nat /\ Bytes(S \ A) \in Nat /\ Bytes(S) \in Nat
  <2>1. Sized(A) /\ Sized(S \ A)
    BY <1>1, FS_Subset DEF Sized
  <2> QED  BY <2>1, BytesIsNat
<1> QED  BY <1>2, <1>3

-----------------------------------------------------------------------------
(* The oldest go first. *)

(* The batches of an older file are older. *)
Aged(files) ==
  \A f, g \in files : Older(f, g) => \A a \in Whole(f), b \in Whole(g) : a < b
GoneFirst(files, gone) == \A old \in gone : \A f \in files : \A b \in Whole(f) : old < b

(* While the clock only advances and the disk obeys, a new name is above all
   names in use, and nothing but the segment being written has the suffix. *)
AgeInv ==
  ~irregular =>
    /\ Aged(dir) /\ GoneFirst(dir, deleted)
    /\ \A f \in dir : f.name[1] <= clock
    /\ pc # "down" => \A f \in dir : /\ f.name[1] = clock => f.name[2] <= sequence
                                     /\ f.part => f.name = open
    /\ open # NoName => \A f, g \in dir : g.name = open /\ f # g => Older(f, g)

(* Every file of new was there before, by its name and content. *)
Traces(new, old) == \A g \in new : \E f \in old : g.name = f.name /\ Whole(g) = Whole(f)

LEMMA TracesAge ==
  ASSUME NEW new, NEW old, NEW gone, Traces(new, old), Aged(old), GoneFirst(old, gone)
  PROVE  Aged(new) /\ GoneFirst(new, gone)
<1>1. Aged(new)
  BY DEF Traces, Aged, Older
<1>2. GoneFirst(new, gone)
  BY DEF Traces, GoneFirst
<1> QED  BY <1>1, <1>2

LEMMA FinishTraces ==
  ASSUME NEW files, WellNamed(files)
  PROVE  /\ Traces(FinishIn(files, TRUE), files)
         /\ (\A f \in files : f.part => f.name = open) =>
               \A f \in FinishIn(files, TRUE) : ~f.part
<1> DEFINE some == {f \in files : f.name = open}
<1>1. FinishIn(files, TRUE) = Renamed(files, some)
  BY DEF FinishIn, Renamed, After, Final
<1>2. \A f \in files : /\ After(f, some).name = f.name
                       /\ After(f, some).batches = f.batches
                       /\ f.name = open => ~After(f, some).part
                       /\ f.name # open => After(f, some) = f
  <2> SUFFICES ASSUME NEW f \in files
               PROVE  /\ After(f, some).name = f.name
                      /\ After(f, some).batches = f.batches
                      /\ f.name = open => ~After(f, some).part
                      /\ f.name # open => After(f, some) = f
    OBVIOUS
  <2>1. f \in Files /\ (f \in some <=> f.name = open)
    BY DEF WellNamed
  <2> HIDE DEF some
  <2> QED  BY <2>1, AfterFile
<1>3. \A f \in files : Whole(After(f, some)) = Whole(f)
  BY <1>2 DEF Whole
<1> HIDE DEF some
<1> QED  BY <1>1, <1>2, <1>3 DEF Traces, Renamed

LEMMA CutOffTraces ==
  ASSUME IInv, pc = "write", NEW n \in 0 .. batch.bytes - 1
  PROVE  /\ Traces(Grown(n, <<>>), dir) /\ WellNamed(Grown(n, <<>>))
         /\ \A f \in Grown(n, <<>>) : f.name = open \/ f \in dir
<1>1. batch # Idle /\ batch.bytes \in Nat /\ open # NoName
  BY BatchIs DEF IInv, TypeOK, CallInv
<1>2. /\ OpenFile \in dir /\ OpenFile \in Files /\ OpenFile.name = open /\ segment_bytes \in Nat
  BY <1>1, OpenFileExists DEF IInv
<1>3. /\ n \in Nat /\ segment_bytes + n \in SegmentSizes
      /\ segment_bytes + n > MaxSegment => OpenFile.batches = <<>> /\ Len(<<>>) <= 1
  <2>1. n \in 0 .. batch.bytes
    BY <1>1
  <2> QED  BY <2>1, WriteFits, EmptySeq
<1>4. <<>> \in Seq(1 .. MaxBatches)
  BY EmptySeq
<1>5. PICK g \in Files : /\ Grown(n, <<>>) = (dir \ {OpenFile}) \cup {g}
                         /\ g.name = open /\ g.batches = OpenFile.batches \o <<>>
  BY <1>1, <1>3, <1>4, GrownIs DEF IInv
<1>6. g.batches = OpenFile.batches
  BY <1>2, <1>5, ConcatEmptySeq DEF Files
<1>7. Whole(g) = Whole(OpenFile)
  BY <1>6 DEF Whole
<1> QED  BY <1>2, <1>5, <1>7, CutOff DEF Traces

(* A new file holds nothing yet, and its name is above all others. *)
LEMMA NewFileAge ==
  ASSUME NEW files, NEW new, new.batches = <<>>, NEW gone, Aged(files), GoneFirst(files, gone)
  PROVE  Aged(files \cup {new}) /\ GoneFirst(files \cup {new}, gone)
<1>1. Whole(new) = {}
  BY DEF Whole
<1> QED  BY <1>1 DEF Aged, GoneFirst

LEMMA NamesAreAbove ==
  ASSUME IInv, AgeInv, ~irregular, pc # "down",
         NEW new, new.name = <<clock, NextSequence>>, NEW f \in dir
  PROVE  Older(f, new)
<1>1. NextSequence \in Nat /\ sequence < NextSequence /\ sequence \in Nat /\ clock \in Nat
  BY NextSequenceIsFree, SegmentAssumption DEF IInv, DirInv, TypeOK
<1>2. f.name[1] \in Nat /\ f.name[2] \in Nat
  BY SegmentAssumption DEF IInv, TypeOK, Names
<1>3. f.name[1] <= clock /\ (f.name[1] = clock => f.name[2] <= sequence)
  BY DEF AgeInv
<1>4. new.name[1] = clock /\ new.name[2] = NextSequence
  OBVIOUS
<1> QED  BY <1>1, <1>2, <1>3, <1>4 DEF Older

(* What the limit removes is older than what it leaves. *)
LEMMA OlderTotal ==
  ASSUME NEW f \in Files, NEW g \in Files, f.name # g.name
  PROVE  Older(f, g) \/ Older(g, f)
<1>1. /\ f.name[1] \in Nat /\ f.name[2] \in Nat /\ f.name = <<f.name[1], f.name[2]>>
      /\ g.name[1] \in Nat /\ g.name[2] \in Nat /\ g.name = <<g.name[1], g.name[2]>>
  BY SegmentAssumption DEF Files, Names
<1>2. f.name[1] # g.name[1] \/ f.name[2] # g.name[2]
  BY <1>1
<1> QED  BY <1>1, <1>2 DEF Older

LEMMA OlderTransitive ==
  ASSUME NEW f \in Files, NEW g \in Files, NEW h \in Files, Older(f, g), Older(g, h)
  PROVE  Older(f, h) /\ ~Older(g, f)
<1>1. /\ f.name[1] \in Nat /\ f.name[2] \in Nat
      /\ g.name[1] \in Nat /\ g.name[2] \in Nat
      /\ h.name[1] \in Nat /\ h.name[2] \in Nat
  BY SegmentAssumption DEF Files, Names
<1> QED  BY <1>1 DEF Older

LEMMA FilesAreSized ==
  ASSUME NEW files, WellNamed(files) PROVE Sized(files)
<1>1. \A f \in Files : f.bytes \in Nat
  BY Sizes DEF Files
<1> QED  BY <1>1 DEF WellNamed, Sized

LEMMA RemovedAreOldest ==
  ASSUME NEW files, WellNamed(files), NEW in_use \in Nat, NEW reserve \in Nat,
         NEW f \in Removed(files, {}, in_use, reserve), NEW g \in files, ~g.part, Older(g, f)
  PROVE  g \in Removed(files, {}, in_use, reserve)
<1> DEFINE fin == {h \in files : ~h.part}
           before(x) == {h \in files : ~h.part /\ Older(h, x)}
<1>1. /\ f \in fin /\ MaxTotal # 0
      /\ in_use + Bytes(fin) - Bytes(before(f)) + reserve > MaxTotal
  <2>1. before(f) \ {} = before(f)
    OBVIOUS
  <2> QED  BY <2>1 DEF Removed
<1>2. before(g) \in SUBSET before(f) /\ before(f) \in SUBSET files /\ g \in fin
  BY <1>1, OlderTransitive DEF WellNamed
<1>3. Sized(before(f)) /\ Sized(fin)
  <2>1. \A s \in SUBSET files : Sized(s)
    BY FilesAreSized, FS_Subset DEF Sized
  <2> QED  BY <1>2, <2>1
<1>4. Bytes(before(g)) <= Bytes(before(f)) /\ Bytes(before(g)) \in Nat /\ Bytes(before(f)) \in Nat
      /\ Bytes(fin) \in Nat
  <2> HIDE DEF before, fin
  <2> QED  BY <1>2, <1>3, BytesOfPart
<1>5. in_use + Bytes(fin) - Bytes(before(g)) + reserve > MaxTotal
  BY <1>1, <1>4, SegmentAssumption
<1>6. before(g) \ {} = before(g)
  OBVIOUS
<1> QED  BY <1>1, <1>2, <1>5, <1>6 DEF Removed

LEMMA EnforceAge ==
  ASSUME NEW files, WellNamed(files), NEW in_use \in Nat, NEW reserve \in Nat,
         NEW refused \in Nat, EnforceTotalLimit(files, in_use, reserve, refused), ~irregular',
         Aged(files), GoneFirst(files, deleted), \A f \in files : ~f.part
  PROVE  /\ ~irregular /\ refused = 0 /\ dir' \subseteq files
         /\ Aged(dir') /\ GoneFirst(dir', deleted')
<1>1. PICK stuck \in SUBSET {f \in files : ~f.part} :
        /\ LET removed == Removed(files, stuck, in_use, reserve)
           IN  /\ dir' = files \ removed
               /\ deleted' = deleted \cup UNION {Whole(f) : f \in removed}
        /\ irregular' = (irregular \/ stuck # {} \/ refused > 0)
  BY DEF EnforceTotalLimit
<1>2. stuck = {} /\ ~irregular /\ refused = 0
  <2>1. ~(irregular \/ stuck # {} \/ refused > 0)
    BY <1>1
  <2> QED  BY <2>1
<1> DEFINE removed == Removed(files, {}, in_use, reserve)
<1>3. dir' = files \ removed /\ deleted' = deleted \cup UNION {Whole(f) : f \in removed}
  BY <1>1, <1>2
<1>4. removed \in SUBSET files
  BY DEF Removed
<1>5. Aged(dir')
  BY <1>3 DEF Aged
<1>6. ASSUME NEW r \in removed, NEW f \in files \ removed PROVE Older(r, f)
  <2>1. r \in files /\ r \in Files /\ f \in Files /\ r.name # f.name /\ ~f.part
    BY <1>4, <1>6 DEF WellNamed
  <2>2. ~Older(f, r)
    BY <1>6, <2>1, RemovedAreOldest
  <2> QED  BY <2>1, <2>2, OlderTotal
<1> HIDE DEF removed
<1>7. GoneFirst(dir', deleted')
  <2> SUFFICES ASSUME NEW old \in deleted', NEW f \in dir', NEW b \in Whole(f) PROVE old < b
    BY DEF GoneFirst
  <2>1. CASE old \in deleted
    BY <1>3, <2>1 DEF GoneFirst
  <2>2. CASE old \notin deleted
    <3>1. PICK r \in removed : old \in Whole(r)
      BY <1>3, <2>2
    <3>2. Older(r, f) /\ r \in files /\ f \in files
      BY <1>3, <1>4, <1>6, <3>1
    <3> QED  BY <3>1, <3>2 DEF Aged
  <2> QED  BY <2>1, <2>2
<1> QED  BY <1>2, <1>3, <1>5, <1>7

(* The clauses of AgeInv once no segment is open. *)
LEMMA AgeWithoutOpenFile ==
  ASSUME Aged(dir'), GoneFirst(dir', deleted'), \A f \in dir' : f.name[1] <= clock',
         pc' # "down" => \A f \in dir' : (f.name[1] = clock' => f.name[2] <= sequence') /\ ~f.part,
         open' = NoName
  PROVE  AgeInv'
BY DEF AgeInv, Aged, GoneFirst, Whole, Older

LEMMA WriteBatchAge ==
  ASSUME IInv, AgeInv, NEW bytes \in BatchBytes, WriteBatch(bytes) PROVE AgeInv'
<1> SUFFICES ASSUME ~irregular' PROVE AgeInv'
  BY DEF AgeInv
<1>1. pc = "idle" /\ pc' # "down" /\ UNCHANGED <<clock, sequence, deleted>>
  BY DEF WriteBatch
<1>2. CASE UNCHANGED <<dir, open, segment_bytes, faults, irregular>>
  BY <1>1, <1>2 DEF AgeInv, Aged, GoneFirst, Whole, Older
<1>3. CASE FinishSegment(dir)
  <2>1. dir' = FinishIn(dir, TRUE) /\ open' = NoName /\ ~irregular
    BY <1>3 DEF FinishSegment
  <2>2. Traces(dir', dir) /\ \A f \in dir' : ~f.part
    BY <1>1, <2>1, FinishTraces DEF AgeInv, IInv, DirInv
  <2>3. Aged(dir') /\ GoneFirst(dir', deleted)
    BY <2>1, <2>2, TracesAge DEF AgeInv
  <2>4. \A f \in dir' : f.name[1] <= clock /\ (f.name[1] = clock => f.name[2] <= sequence)
    BY <1>1, <2>1, <2>2 DEF Traces, AgeInv
  <2> QED  BY <1>1, <2>1, <2>2, <2>3, <2>4, AgeWithoutOpenFile
<1> QED  BY <1>2, <1>3 DEF WriteBatch

LEMMA CloseAge ==
  ASSUME IInv, AgeInv, Close PROVE AgeInv'
<1> SUFFICES ASSUME ~irregular' PROVE AgeInv'
  BY DEF AgeInv
<1>1. pc = "idle" /\ pc' = "down" /\ UNCHANGED <<clock, sequence, deleted>>
  BY DEF Close
<1>2. CASE open = NoName /\ UNCHANGED <<dir, open, segment_bytes, faults, irregular>>
  BY <1>1, <1>2 DEF AgeInv, Aged, GoneFirst, Whole, Older
<1>3. CASE FinishSegment(dir)
  <2>1. dir' = FinishIn(dir, TRUE) /\ open' = NoName /\ ~irregular
    BY <1>3 DEF FinishSegment
  <2>2. Traces(dir', dir)
    BY <1>1, <2>1, FinishTraces DEF AgeInv, IInv, DirInv
  <2>3. Aged(dir') /\ GoneFirst(dir', deleted)
    BY <2>1, <2>2, TracesAge DEF AgeInv
  <2>4. \A f \in dir' : f.name[1] <= clock
    BY <1>1, <2>1, <2>2 DEF Traces, AgeInv
  <2> QED  BY <1>1, <2>1, <2>3, <2>4, AgeWithoutOpenFile
<1> QED  BY <1>2, <1>3 DEF Close

(* The name of a segment that is open is not NoName. *)
LEMMA NamesAreNames ==
  ASSUME IInv PROVE \A f \in dir : f.name # NoName
<1> SUFFICES ASSUME IInv, NEW f \in dir PROVE f.name # NoName
  OBVIOUS
<1>1. f.name = <<f.name[1], f.name[2]>>
  BY DEF IInv, TypeOK, Names
<1>2. <<f.name[1], f.name[2]>> # NoName
  BY DEF NoName
<1> QED  BY <1>1, <1>2

LEMMA EnforceAgeStep ==
  ASSUME IInv, AgeInv, Enforce PROVE AgeInv'
<1> SUFFICES ASSUME ~irregular' PROVE AgeInv'
  BY DEF AgeInv
<1>1. /\ pc = "enforce" /\ pc' = "open" /\ open = NoName /\ open' = NoName
      /\ EnforceTotalLimit(dir, segment_bytes, Reserve, 0)
      /\ UNCHANGED <<clock, sequence>>
  BY DEF Enforce, IInv, CallInv
<1>2. ~irregular
  BY <1>1 DEF EnforceTotalLimit
<1>3. WellNamed(dir) /\ segment_bytes \in Nat /\ Reserve \in Nat /\ 0 \in Nat
  BY <1>1, SegmentAssumption DEF IInv, TypeOK, DirInv, Reserve
<1>4. \A f \in dir : ~f.part
  BY <1>1, <1>2, NamesAreNames DEF AgeInv
<1>5. dir' \subseteq dir /\ Aged(dir') /\ GoneFirst(dir', deleted')
  BY <1>1, <1>2, <1>3, <1>4, EnforceAge DEF AgeInv
<1>6. \A f \in dir' : f.name[1] <= clock /\ (f.name[1] = clock => f.name[2] <= sequence) /\ ~f.part
  BY <1>1, <1>2, <1>4, <1>5 DEF AgeInv
<1> QED  BY <1>1, <1>5, <1>6, AgeWithoutOpenFile

LEMMA RestartAge ==
  ASSUME IInv, AgeInv, Restart PROVE AgeInv'
<1> SUFFICES ASSUME ~irregular' PROVE AgeInv'
  BY DEF AgeInv
<1>1. PICK left \in SUBSET {f \in dir : f.part} :
        EnforceTotalLimit({IF f \in left THEN f ELSE [f EXCEPT !.part = FALSE] : f \in dir},
                          0, 0, Cardinality(left))
  BY DEF Restart
<1>2. /\ pc = "down" /\ pc' = "idle" /\ clock' = clock + 1 /\ open' = NoName /\ clock \in Nat
  BY SegmentAssumption DEF Restart, IInv, TypeOK, CallInv
<1> DEFINE some == dir \ left
           files == Renamed(dir, some)
<1>3. files = {IF f \in left THEN f ELSE [f EXCEPT !.part = FALSE] : f \in dir}
  BY DEF Renamed, After, Final
<1>4. IsFiniteSet(left) /\ Cardinality(left) \in Nat
  BY FS_Subset, FS_CardinalityType DEF IInv, DirInv, WellNamed
<1>5. ~irregular /\ Cardinality(left) = 0
  <2>1. PICK stuck : irregular' = (irregular \/ stuck # {} \/ Cardinality(left) > 0)
    BY <1>1 DEF EnforceTotalLimit
  <2>2. ~(irregular \/ stuck # {} \/ Cardinality(left) > 0)
    BY <2>1
  <2> QED  BY <1>4, <2>2
<1>6. left = {}
  BY <1>4, <1>5, FS_EmptySet
<1>7. /\ WellNamed(files) /\ Traces(files, dir) /\ \A f \in files : ~f.part
  <2>0. \A f \in dir : f \in some
    BY <1>6
  <2> HIDE DEF some
  <2>1. WellNamed(files)
    BY RenamingKeeps DEF IInv, DirInv
  <2>2. \A f \in dir : /\ After(f, some).name = f.name
                       /\ After(f, some).batches = f.batches
                       /\ ~After(f, some).part
    BY <2>0, AfterFile DEF IInv, DirInv, WellNamed
  <2>3. \A f \in dir : Whole(After(f, some)) = Whole(f)
    BY <2>2 DEF Whole
  <2> QED  BY <2>1, <2>2, <2>3 DEF Renamed, Traces
<1>8. EnforceTotalLimit(files, 0, 0, Cardinality(left))
  BY <1>1, <1>3
<1> HIDE DEF files
<1>9. Aged(files) /\ GoneFirst(files, deleted)
  BY <1>5, <1>7, TracesAge DEF AgeInv
<1>10. dir' \subseteq files /\ Aged(dir') /\ GoneFirst(dir', deleted')
  BY <1>4, <1>7, <1>8, <1>9, EnforceAge
<1>11. \A f \in dir' : f.name[1] <= clock /\ f.name[1] \in Nat /\ ~f.part
  <2>1. \A f \in dir : f.name[1] <= clock /\ f.name[1] \in Nat
    BY <1>5, SegmentAssumption DEF AgeInv, IInv, TypeOK, Names
  <2> QED  BY <1>7, <1>10, <2>1 DEF Traces
<1>12. \A f \in dir' : f.name[1] <= clock' /\ f.name[1] # clock'
  BY <1>2, <1>11
<1> QED  BY <1>2, <1>10, <1>11, <1>12, AgeWithoutOpenFile

LEMMA OpenSegmentAge ==
  ASSUME IInv, AgeInv, OpenSegment PROVE AgeInv'
<1> SUFFICES ASSUME ~irregular' PROVE AgeInv'
  BY DEF AgeInv
<1> DEFINE new == NewFile(HeaderBytes)
<1>1. /\ pc = "open" /\ pc' = "write" /\ sequence' = NextSequence /\ ~irregular
      /\ open' = <<clock, NextSequence>> /\ UNCHANGED <<clock, deleted>> /\ open = NoName
  BY DEF OpenSegment, IInv, CallInv
<1>2. /\ new.batches = <<>> /\ new.name = <<clock, NextSequence>>
      /\ NextSequence \in Nat /\ sequence < NextSequence /\ sequence \in Nat
      /\ \A f \in dir : f.name # <<clock, NextSequence>>
  <2>1. HeaderBytes \in SegmentSizes
    BY Sizes
  <2>2. /\ NextSequence \in Nat /\ sequence < NextSequence /\ sequence \in Nat
        /\ \A f \in dir : f.name # <<clock, NextSequence>>
    BY NextSequenceIsFree DEF IInv, TypeOK, DirInv
  <2> QED  BY <2>1, <2>2, NewFileIs DEF IInv
<1>3. dir' = dir \cup {new}
  BY <1>2 DEF OpenSegment
<1>4. \A f \in dir : Older(f, new)
  BY <1>1, <1>2, NamesAreAbove
<1> HIDE DEF new
<1>5. Aged(dir') /\ GoneFirst(dir', deleted')
  BY <1>1, <1>2, <1>3, NewFileAge DEF AgeInv
<1>6. \A f \in dir' : f.name[1] <= clock
  <2>1. new.name[1] = clock /\ clock \in Nat
    BY <1>2, SegmentAssumption DEF IInv, TypeOK
  <2> QED  BY <1>1, <1>3, <2>1 DEF AgeInv
<1>7. \A f \in dir' : (f.name[1] = clock => f.name[2] <= NextSequence)
                      /\ (f.part => f.name = open')
  <2>1. new.name[2] = NextSequence
    BY <1>2
  <2>2. \A f \in dir : ~f.part /\ (f.name[1] = clock => f.name[2] <= sequence)
                       /\ f.name[2] \in Nat
    BY <1>1, NamesAreNames DEF AgeInv, IInv, TypeOK, Names
  <2> QED  BY <1>1, <1>2, <1>3, <2>1, <2>2
<1>8. \A f, g \in dir' : g.name = open' /\ f # g => Older(f, g)
  BY <1>1, <1>2, <1>3, <1>4
<1> QED  BY <1>1, <1>5, <1>6, <1>7, <1>8 DEF AgeInv, Aged, GoneFirst, Whole, Older

LEMMA OpenSegmentFailsAge ==
  ASSUME IInv, AgeInv, OpenSegmentFails PROVE AgeInv'
<1> SUFFICES ASSUME ~irregular' PROVE AgeInv'
  BY DEF AgeInv
<1>1. /\ pc = "open" /\ pc' = "idle" /\ sequence' = NextSequence
      /\ UNCHANGED <<clock, deleted>> /\ open = NoName /\ open' = NoName
  BY DEF OpenSegmentFails, IInv, CallInv
<1>2. /\ NextSequence \in Nat /\ sequence < NextSequence /\ sequence \in Nat
      /\ clock \in Nat
  BY NextSequenceIsFree, SegmentAssumption DEF IInv, TypeOK, DirInv
<1>3. \A f \in dir : /\ f.name[1] <= clock
                     /\ f.name[1] = clock => f.name[2] <= NextSequence
                     /\ ~irregular => ~f.part
  <2>1. CASE ~irregular
    <3>1. \A f \in dir : /\ f.name[1] <= clock /\ ~f.part
                         /\ f.name[1] = clock => f.name[2] <= sequence
                         /\ f.name[2] \in Nat
      BY <1>1, <2>1, NamesAreNames DEF AgeInv, IInv, TypeOK, Names
    <3> QED  BY <1>2, <3>1
  <2>2. CASE irregular
    BY <2>2 DEF OpenSegmentFails
  <2> QED  BY <2>1, <2>2
<1>4. CASE dir' = dir /\ UNCHANGED irregular
  BY <1>1, <1>3, <1>4, AgeWithoutOpenFile DEF AgeInv
<1>5. ASSUME NEW n \in 0 .. HeaderBytes - 1, NEW ok \in BOOLEAN,
             dir' = dir \cup {[NewFile(n) EXCEPT !.part = ~ok]},
             irregular' = (irregular \/ ~ok)
      PROVE  AgeInv'
  <2> DEFINE new == [NewFile(n) EXCEPT !.part = ~ok]
  <2>1. ok /\ ~irregular
    BY <1>5
  <2>2. n \in SegmentSizes
    BY Sizes
  <2>3. new.batches = <<>> /\ new.name = <<clock, NextSequence>> /\ ~new.part
    <3>1. /\ NewFile(n) \in Files /\ NewFile(n).batches = <<>>
          /\ NewFile(n).name = <<clock, NextSequence>>
      BY <2>2, NewFileIs DEF IInv
    <3> QED  BY <2>1, <3>1 DEF Files
  <2> HIDE DEF new
  <2>4. dir' = dir \cup {new}
    BY <1>5 DEF new
  <2>5. Aged(dir') /\ GoneFirst(dir', deleted')
    BY <1>1, <2>1, <2>3, <2>4, NewFileAge DEF AgeInv
  <2>6. new.name[1] = clock /\ new.name[2] = NextSequence
    BY <2>3
  <2>7. \A f \in dir' : /\ f.name[1] <= clock /\ ~f.part
                        /\ f.name[1] = clock => f.name[2] <= NextSequence
    BY <1>2, <1>3, <2>1, <2>3, <2>4, <2>6
  <2> QED  BY <1>1, <2>5, <2>7, AgeWithoutOpenFile
<1> QED  BY <1>4, <1>5 DEF OpenSegmentFails

LEMMA WriteAge ==
  ASSUME IInv, AgeInv, Write PROVE AgeInv'
<1> SUFFICES ASSUME ~irregular' PROVE AgeInv'
  BY DEF AgeInv
<1>1. /\ pc = "write" /\ pc' = "idle" /\ open # NoName /\ ~irregular
      /\ dir' = Grown(batch.bytes, <<batch.id>>)
      /\ UNCHANGED <<clock, sequence, open, deleted>>
  BY DEF Write, IInv, CallInv
<1>2. /\ batch.id \in 1 .. MaxBatches /\ batch.bytes \in Nat
      /\ \A i \in DOMAIN acked : acked[i] < batch.id
  BY <1>1, BatchIs DEF IInv, TypeOK, CallInv
<1>3. /\ OpenFile \in dir /\ OpenFile.name = open /\ OpenFile.batches \in Seq(1 .. MaxBatches)
  BY <1>1, OpenFileExists DEF IInv, Files
<1>4. /\ <<batch.id>> \in Seq(1 .. MaxBatches)
      /\ segment_bytes + batch.bytes \in SegmentSizes
      /\ segment_bytes + batch.bytes > MaxSegment =>
           OpenFile.batches = <<>> /\ Len(<<batch.id>>) <= 1
  <2>1. batch.bytes \in 0 .. batch.bytes
    BY <1>2
  <2> QED  BY <1>1, <1>2, <2>1, WriteFits
<1>5. PICK g \in Files :
        /\ dir' = (dir \ {OpenFile}) \cup {g}
        /\ g.name = open /\ g.part
        /\ g.batches = OpenFile.batches \o <<batch.id>>
  BY <1>1, <1>2, <1>4, GrownIs DEF IInv
<1>6. Whole(g) \subseteq Whole(OpenFile) \cup {batch.id}
  <2> DEFINE s == OpenFile.batches
  <2>1. /\ Append(s, batch.id) = s \o <<batch.id>>
        /\ \A i \in DOMAIN Append(s, batch.id) :
              Append(s, batch.id)[i] = batch.id \/ (i \in DOMAIN s /\ Append(s, batch.id)[i] = s[i])
    <3> HIDE DEF s
    <3> SUFFICES ASSUME s \in Seq(1 .. MaxBatches)
                 PROVE  /\ Append(s, batch.id) = s \o <<batch.id>>
                        /\ \A i \in DOMAIN Append(s, batch.id) :
                              \/ Append(s, batch.id)[i] = batch.id
                              \/ i \in DOMAIN s /\ Append(s, batch.id)[i] = s[i]
      BY <1>3 DEF s
    <3>1. /\ Append(s, batch.id) \in Seq(1 .. MaxBatches)
          /\ Append(s, batch.id) = s \o <<batch.id>>
          /\ Len(s) \in Nat /\ Len(Append(s, batch.id)) = Len(s) + 1
          /\ \A i \in 1 .. Len(s) : Append(s, batch.id)[i] = s[i]
          /\ Append(s, batch.id)[Len(s) + 1] = batch.id
      BY <1>2, AppendProperties, AppendIsConcat, LenProperties
    <3>2. DOMAIN s = 1 .. Len(s) /\ DOMAIN Append(s, batch.id) = 1 .. Len(s) + 1
      BY <3>1, LenProperties
    <3> QED  BY <3>1, <3>2
  <2>2. g.batches = Append(s, batch.id)
    BY <1>5, <2>1
  <2> HIDE DEF s
  <2>3. \A i \in DOMAIN g.batches : g.batches[i] = batch.id
                                    \/ (i \in DOMAIN s /\ g.batches[i] = s[i])
    BY <2>1, <2>2
  <2> QED  BY <2>3 DEF s, Whole
<1>7. /\ deleted \subseteq ToSet(acked) /\ \A f \in dir : Whole(f) \subseteq ToSet(acked)
  BY DEF IInv, DirInv, Kept
<1>8. \A b \in ToSet(acked) : b < batch.id
  BY <1>2 DEF ToSet
<1>9. \A f \in dir : f # OpenFile => Older(f, OpenFile)
  BY <1>1, <1>3 DEF AgeInv
<1>10. \A f \in dir : f # OpenFile => Older(f, g) /\ ~Older(g, f)
  <2> SUFFICES ASSUME NEW f \in dir, f # OpenFile PROVE Older(f, g) /\ ~Older(g, f)
    OBVIOUS
  <2>1. Older(f, g)
    BY <1>3, <1>5, <1>9 DEF Older
  <2>2. f \in Files
    BY DEF IInv, DirInv, WellNamed
  <2> QED  BY <1>5, <2>1, <2>2, OlderTransitive
<1>11. ~Older(g, g)
  BY <1>5, OlderTransitive
<1>12. Aged(dir')
  <2> SUFFICES ASSUME NEW f \in dir', NEW h \in dir', Older(f, h), NEW a \in Whole(f),
                      NEW b \in Whole(h)
               PROVE  a < b
    BY DEF Aged
  <2>1. f \in dir /\ f # OpenFile
    BY <1>5, <1>10, <1>11
  <2>2. CASE h = g /\ b = batch.id
    BY <1>7, <1>8, <2>1, <2>2
  <2>3. CASE h = g /\ b \in Whole(OpenFile)
    BY <1>1, <1>3, <1>9, <2>1, <2>3 DEF AgeInv, Aged
  <2>4. CASE h # g
    BY <1>1, <1>5, <2>1, <2>4 DEF AgeInv, Aged
  <2> QED  BY <1>6, <2>2, <2>3, <2>4
<1>13. GoneFirst(dir', deleted')
  <2> SUFFICES ASSUME NEW old \in deleted, NEW f \in dir', NEW b \in Whole(f) PROVE old < b
    BY <1>1 DEF GoneFirst
  <2>1. CASE f = g /\ b = batch.id
    BY <1>7, <1>8, <2>1
  <2>2. CASE f = g /\ b \in Whole(OpenFile)
    BY <1>1, <1>3, <2>2 DEF AgeInv, GoneFirst
  <2>3. CASE f # g
    BY <1>1, <1>5, <2>3 DEF AgeInv, GoneFirst
  <2> QED  BY <1>6, <2>1, <2>2, <2>3
<1>14. \A f \in dir' : \E h \in dir : f.name = h.name
  BY <1>3, <1>5
<1>15. \A f \in dir' : /\ f.name[1] <= clock
                       /\ f.name[1] = clock => f.name[2] <= sequence
                       /\ f.part => f.name = open
  BY <1>1, <1>5, <1>14 DEF AgeInv
<1>16. \A f, h \in dir' : h.name = open /\ f # h => Older(f, h)
  <2>1. \A f \in dir : f.name = open => f = OpenFile
    BY <1>1, OpenFileExists DEF IInv
  <2> QED  BY <1>5, <1>10, <2>1
<1> QED  BY <1>1, <1>12, <1>13, <1>15, <1>16 DEF AgeInv, Aged, GoneFirst, Whole, Older

LEMMA WriteFailsAge ==
  ASSUME IInv, AgeInv, WriteFails PROVE AgeInv'
<1> SUFFICES ASSUME ~irregular' PROVE AgeInv'
  BY DEF AgeInv
<1>1. PICK n \in 0 .. batch.bytes - 1, ok \in BOOLEAN :
        dir' = FinishIn(Grown(n, <<>>), ok) /\ irregular' = (irregular \/ ~ok)
  BY DEF WriteFails
<1>2. /\ pc = "write" /\ pc' = "idle" /\ open' = NoName /\ UNCHANGED <<clock, sequence, deleted>>
  BY DEF WriteFails
<1>3. ok = TRUE /\ ~irregular
  BY <1>1
<1> DEFINE files == Grown(n, <<>>)
<1>4. /\ Traces(files, dir) /\ WellNamed(files) /\ \A f \in files : f.name = open \/ f \in dir
  BY <1>2, CutOffTraces
<1>5. dir' = FinishIn(files, TRUE)
  BY <1>1, <1>3
<1> HIDE DEF files
<1>6. Traces(dir', files) /\ \A f \in dir' : ~f.part
  BY <1>2, <1>3, <1>4, <1>5, FinishTraces DEF AgeInv
<1>7. Traces(dir', dir)
  BY <1>4, <1>6 DEF Traces
<1>8. Aged(dir') /\ GoneFirst(dir', deleted')
  BY <1>2, <1>3, <1>7, TracesAge DEF AgeInv
<1>9. \A f \in dir' : f.name[1] <= clock /\ (f.name[1] = clock => f.name[2] <= sequence)
  BY <1>2, <1>3, <1>7 DEF Traces, AgeInv
<1> QED  BY <1>2, <1>6, <1>8, <1>9, AgeWithoutOpenFile

LEMMA CrashAge ==
  ASSUME IInv, AgeInv, Crash PROVE AgeInv'
<1> SUFFICES ASSUME ~irregular' PROVE AgeInv'
  BY DEF AgeInv
<1>1. pc # "down" /\ pc' = "down" /\ open' = NoName /\ UNCHANGED <<clock, deleted, irregular>>
  BY DEF Crash
<1>2. ~irregular
  BY <1>1
<1>3. CASE dir' = dir
  BY <1>1, <1>2, <1>3, AgeWithoutOpenFile DEF AgeInv
<1>4. ASSUME pc = "open", NEW n \in 0 .. HeaderBytes - 1, dir' = dir \cup {NewFile(n)}
      PROVE  AgeInv'
  <2>1. n \in SegmentSizes
    BY Sizes
  <2>2. NewFile(n).batches = <<>> /\ NewFile(n).name = <<clock, NextSequence>>
    BY <2>1, NewFileIs DEF IInv
  <2>3. NewFile(n).name[1] = clock /\ clock \in Nat
    BY <2>2, SegmentAssumption DEF IInv, TypeOK
  <2>4. Aged(dir') /\ GoneFirst(dir', deleted')
    BY <1>1, <1>2, <1>4, <2>2, NewFileAge DEF AgeInv
  <2>5. \A f \in dir' : f.name[1] <= clock
    BY <1>2, <1>4, <2>3 DEF AgeInv
  <2> QED  BY <1>1, <2>4, <2>5, AgeWithoutOpenFile
<1>5. ASSUME pc = "write", NEW n \in 1 .. batch.bytes - 1, dir' = Grown(n, <<>>)
      PROVE  AgeInv'
  <2>1. n \in 0 .. batch.bytes - 1
    BY <1>5, BatchIs DEF IInv, TypeOK
  <2>2. Traces(dir', dir)
    BY <1>5, <2>1, CutOffTraces
  <2>3. Aged(dir') /\ GoneFirst(dir', deleted')
    BY <1>1, <1>2, <2>2, TracesAge DEF AgeInv
  <2>4. \A f \in dir' : f.name[1] <= clock
    BY <1>2, <2>2 DEF Traces, AgeInv
  <2> QED  BY <1>1, <2>3, <2>4, AgeWithoutOpenFile
<1> QED  BY <1>3, <1>4, <1>5 DEF Crash

LEMMA ClockAge ==
  ASSUME IInv, AgeInv, ClockTicks \/ ClockIsSetBack \/ UNCHANGED vars PROVE AgeInv'
<1>1. CASE ClockIsSetBack
  BY <1>1 DEF ClockIsSetBack, AgeInv
<1>2. CASE ClockTicks
  <2>1. /\ clock' = clock + 1 /\ clock \in Nat
        /\ UNCHANGED <<dir, sequence, open, pc, deleted, irregular>>
    BY <1>2, SegmentAssumption DEF ClockTicks, IInv, TypeOK
  <2>2. \A f \in dir : f.name[1] \in Nat
    BY SegmentAssumption DEF IInv, TypeOK, Names
  <2>3. ~irregular => \A f \in dir : f.name[1] <= clock' /\ f.name[1] # clock'
    BY <2>1, <2>2 DEF AgeInv
  <2> QED  BY <2>1, <2>3 DEF AgeInv, Aged, GoneFirst, Whole, Older
<1>3. CASE UNCHANGED vars
  BY <1>3 DEF vars, AgeInv, Aged, GoneFirst, Whole, Older
<1> QED  BY <1>1, <1>2, <1>3

LEMMA NextKeepsAgeInv == IInv /\ AgeInv /\ [Next]_vars => AgeInv'
BY WriteBatchAge, EnforceAgeStep, OpenSegmentAge, OpenSegmentFailsAge, WriteAge, WriteFailsAge,
   CloseAge, CrashAge, RestartAge, ClockAge
   DEF Next

(* What the limit removes is always the oldest data: no batch that is left
   is older than one that is gone, for any limits and any sequence of
   crashes and restarts, while the clock only advances and the disk obeys. *)
THEOREM OldestDataGoesFirst == Spec => []OldestGoFirst
<1>1. Init => AgeInv
  BY DEF Init, AgeInv, Aged, GoneFirst
<1>2. AgeInv => OldestGoFirst
  BY DEF AgeInv, GoneFirst, OldestGoFirst
<1> QED  BY <1>1, <1>2, IInvHolds, NextKeepsAgeInv, PTL DEF Spec

-----------------------------------------------------------------------------
(* The limit on the total. *)
Done(files) == {f \in files : ~f.part}

TotalInv ==
  MaxTotal # 0 /\ pc # "down" /\ ~remove_failed =>
    /\ WithinLimit(Finished)
    /\ pc = "open" \/ open # NoName => Bytes(Finished) + MaxSegment <= MaxTotal

LEMMA TotalPrimed ==
  Bytes(Finished)' = Bytes(Finished') /\ WithinLimit(Finished)' = WithinLimit(Finished')
OBVIOUS

LEMMA SameTotal ==
  ASSUME UNCHANGED dir
  PROVE  Bytes(Finished)' = Bytes(Finished) /\ WithinLimit(Finished)' = WithinLimit(Finished)
<1>1. Finished' = Finished
  BY DEF Finished
<1> QED  BY <1>1, TotalPrimed

LEMMA PartIsSized ==
  ASSUME NEW files, WellNamed(files), NEW A \in SUBSET files
  PROVE  Sized(A) /\ Bytes(A) \in Nat
<1>1. Sized(A)
  BY FilesAreSized, FS_Subset DEF Sized
<1> QED  BY <1>1, BytesIsNat

(* Of a set of files that is not empty one is the oldest. *)
LEMMA OldestOf ==
  ASSUME NEW files, files \subseteq Files, IsFiniteSet(files), files # {}
  PROVE  \E f \in files : \A g \in files : ~Older(g, f)
<1> DEFINE before(f) == {g \in files : Older(g, f)}
           C == {before(f) : f \in files}
<1>1. PICK s \in C : \A t \in C : t \subseteq s => t = s
  <2>1. C \in SUBSET (SUBSET files) /\ C # {}
    OBVIOUS
  <2> HIDE DEF C
  <2> QED  BY <2>1, SmallestSet
<1>2. PICK f \in files : s = before(f)
  BY <1>1
<1>3. ASSUME NEW g \in files, Older(g, f) PROVE FALSE
  <2>1. before(g) \subseteq before(f) /\ g \in before(f) /\ g \notin before(g)
    BY <1>2, <1>3, OlderTransitive
  <2>2. before(g) \in C
    OBVIOUS
  <2> HIDE DEF before
  <2>3. before(g) = before(f)
    BY <1>1, <1>2, <2>1, <2>2
  <2> QED  BY <2>1, <2>3
<1> QED  BY <1>3

(* What the enforcement leaves fits, when it removes all it wants to. *)
LEMMA EnforceFits ==
  ASSUME NEW files, WellNamed(files), NEW in_use \in Nat, NEW reserve \in Nat,
         NEW refused, EnforceTotalLimit(files, in_use, reserve, refused), ~remove_failed',
         MaxTotal # 0, in_use + reserve <= MaxTotal
  PROVE  in_use + Bytes(Finished') + reserve <= MaxTotal /\ Bytes(Finished') \in Nat
<1>1. PICK stuck \in SUBSET {f \in files : ~f.part} :
        /\ dir' = files \ Removed(files, stuck, in_use, reserve)
        /\ remove_failed' = (stuck # {})
  BY DEF EnforceTotalLimit
<1>2. stuck = {}
  BY <1>1
<1> DEFINE fin == {f \in files : ~f.part}
           left == fin \ Removed(files, {}, in_use, reserve)
           before(f) == {g \in files : ~g.part /\ Older(g, f)}
<1>3. Finished' = left
  BY <1>1, <1>2 DEF Finished
<1>4. /\ left \in SUBSET fin /\ fin \in SUBSET files
      /\ \A f \in fin : before(f) \in SUBSET fin
  OBVIOUS
<1>5. left \in SUBSET files
  BY <1>4
<1>6. Sized(left) /\ Sized(fin) /\ Bytes(left) \in Nat /\ Bytes(fin) \in Nat
  <2> HIDE DEF left, fin
  <2> QED  BY <1>4, <1>5, PartIsSized
<1>7. CASE left = {}
  <2>1. Bytes({}) = 0
    BY FS_EmptySet, BytesOf
  <2>2. Bytes(left) = 0
    BY <1>7, <2>1
  <2> HIDE DEF left
  <2> QED  BY <1>3, <2>2
<1>8. CASE left # {}
  <2>1. PICK f \in left : \A g \in left : ~Older(g, f)
    <3>1. left \subseteq Files /\ IsFiniteSet(left)
      BY <1>5, FS_Subset DEF WellNamed
    <3> HIDE DEF left
    <3> QED  BY <1>8, <3>1, OldestOf
  <2>2. in_use + Bytes(fin) - Bytes(before(f)) + reserve <= MaxTotal
    <3>1. f \in fin /\ f \notin Removed(files, {}, in_use, reserve)
      OBVIOUS
    <3>2. ~(in_use + Bytes(fin) - Bytes(before(f)) + reserve > MaxTotal)
      <4>1. before(f) \ {} = before(f)
        OBVIOUS
      <4> QED  BY <3>1, <4>1 DEF Removed
    <3>3. Bytes(before(f)) \in Nat
      <4>1. before(f) \in SUBSET files
        OBVIOUS
      <4> HIDE DEF before
      <4> QED  BY <4>1, PartIsSized
    <3> HIDE DEF before, fin
    <3> QED  BY <1>6, <3>2, <3>3, SegmentAssumption
  <2>3. left \in SUBSET (fin \ before(f)) /\ before(f) \in SUBSET fin
    BY <2>1
  <2>4. fin \ before(f) \in SUBSET files
    OBVIOUS
  <2> HIDE DEF left, fin, before
  <2>5. Sized(fin \ before(f))
    BY <2>4, PartIsSized
  <2>6. Bytes(left) <= Bytes(fin \ before(f)) /\ Bytes(fin \ before(f)) \in Nat
    BY <2>3, <2>5, BytesOfPart
  <2>7. Bytes(fin) = Bytes(before(f)) + Bytes(fin \ before(f)) /\ Bytes(before(f)) \in Nat
    BY <1>6, <2>3, BytesOfPart
  <2> QED  BY <1>3, <1>6, <2>2, <2>6, <2>7, SegmentAssumption
<1> QED  BY <1>3, <1>6, <1>7, <1>8

(* A segment for which there was room: it fits, or has outgrown its limit. *)
LEMMA OneMore ==
  ASSUME NEW files, WellNamed(files), NEW some \in SUBSET files, NEW new \in Files,
         new \notin some, Bytes(some) + MaxSegment <= MaxTotal
  PROVE  WithinLimit(some \cup {new})
<1> DEFINE all == some \cup {new}
<1>1. Sized(some) /\ Bytes(some) \in Nat
  BY PartIsSized
<1>2. new.bytes \in Nat /\ (new.bytes > MaxSegment => Len(new.batches) <= 1)
  BY Sizes DEF Files
<1>3. Sized(all) /\ new \in all
  BY <1>1, <1>2, FS_AddElement DEF Sized
<1>4. all \ {new} = some
  OBVIOUS
<1> HIDE DEF all
<1>5. Bytes(all) = new.bytes + Bytes(some)
  BY <1>3, <1>4, BytesTake
<1>6. CASE new.bytes <= MaxSegment
  <2>1. Bytes(all) <= MaxTotal
    BY <1>1, <1>2, <1>5, <1>6, SegmentAssumption
  <2> QED  BY <2>1 DEF WithinLimit, all
<1>7. CASE ~(new.bytes <= MaxSegment)
  <2>1. new.bytes > MaxSegment /\ Len(new.batches) <= 1
    BY <1>2, <1>7, SegmentAssumption
  <2>2. Bytes(all \ {new}) + MaxSegment <= MaxTotal
    BY <1>4
  <2> QED  BY <1>3, <2>1, <2>2 DEF WithinLimit, all
<1> QED  BY <1>6, <1>7

(* The finished segments after the open one is finished, or may be. *)
LEMMA FinishGrows ==
  ASSUME NEW files, WellNamed(files), NEW ok \in BOOLEAN,
         \A f \in files : f.name = open => f.part
  PROVE  \/ Done(FinishIn(files, ok)) = Done(files)
         \/ \E g \in Files : g \notin files /\ Done(FinishIn(files, ok)) = Done(files) \cup {g}
<1>1. CASE ~ok \/ \A f \in files : f.name # open
  <2>1. FinishIn(files, ok) = files
    BY <1>1 DEF FinishIn
  <2> QED  BY <2>1
<1>2. ASSUME ok, NEW f \in files, f.name = open
      PROVE  \E g \in Files : g \notin files /\ Done(FinishIn(files, ok)) = Done(files) \cup {g}
  <2>1. FinishIn(files, ok) = (files \ {f}) \cup {Final(f)}
    <3>1. \A g \in files : g.name = open <=> g = f
      BY <1>2 DEF WellNamed
    <3> QED  BY <1>2, <3>1 DEF FinishIn, Final
  <2>2. /\ Final(f) \in Files /\ ~Final(f).part /\ Final(f).name = f.name
    BY FinalFile DEF WellNamed
  <2>3. Done(FinishIn(files, ok)) = Done(files) \cup {Final(f)}
    BY <1>2, <2>1, <2>2 DEF Done
  <2>4. Final(f) \notin files
    BY <1>2, <2>2 DEF WellNamed
  <2> QED  BY <2>2, <2>3, <2>4
<1> QED  BY <1>1, <1>2

(* The limit and the sizes it is compared with. *)
LEMMA Limits ==
  ASSUME IInv
  PROVE  /\ MaxTotal \in Nat /\ MaxSegment \in Nat /\ Bytes(Finished) \in Nat
         /\ Finished = Done(dir) /\ (MaxTotal # 0 => MaxTotal >= 2 * MaxSegment)
         /\ segment_bytes \in Nat /\ (open = NoName => segment_bytes = 0)
         /\ open # NoName => \A f \in dir : f.name = open => f.part
<1>1. Finished \in SUBSET dir
  BY DEF Finished
<1>2. Bytes(Finished) \in Nat
  BY <1>1, PartIsSized DEF IInv, DirInv
<1>3. open # NoName => \A f \in dir : f.name = open => f.part
  BY OpenFileExists DEF IInv
<1>4. segment_bytes \in Nat /\ (open = NoName => segment_bytes = 0)
  BY OpenFileExists DEF IInv, TypeOK
<1> QED  BY <1>2, <1>3, <1>4, SegmentAssumption DEF Finished, Done

(* No segment is open any more, and the finished ones fit. *)
LEMMA FinishTotal ==
  ASSUME IInv, TotalInv, pc # "down", UNCHANGED remove_failed,
         open # NoName \/ pc = "open", MaxTotal # 0, ~remove_failed',
         \/ Finished' = Finished
         \/ \E g \in Files : g \notin Finished /\ Finished' = Finished \cup {g},
         open' = NoName, pc' # "open"
  PROVE  TotalInv'
<1>1. Bytes(Finished) + MaxSegment <= MaxTotal /\ WithinLimit(Finished)
  BY DEF TotalInv
<1>2. WithinLimit(Finished')
  <2>1. CASE Finished' = Finished
    BY <1>1, <2>1
  <2>2. ASSUME NEW g \in Files, g \notin Finished, Finished' = Finished \cup {g}
        PROVE  WithinLimit(Finished')
    <3>1. WellNamed(dir) /\ Finished \in SUBSET dir
      BY DEF IInv, DirInv, Finished
    <3> QED  BY <1>1, <2>2, <3>1, OneMore
  <2> QED  BY <2>1, <2>2
<1> QED  BY <1>2, TotalPrimed DEF TotalInv

LEMMA WriteBatchTotal ==
  ASSUME IInv, TotalInv, NEW bytes \in BatchBytes, WriteBatch(bytes) PROVE TotalInv'
<1> SUFFICES ASSUME MaxTotal # 0, ~remove_failed' PROVE TotalInv'
  BY DEF TotalInv
<1>1. /\ pc = "idle" /\ pc' # "open" /\ UNCHANGED remove_failed
  BY DEF WriteBatch
<1>2. CASE UNCHANGED <<dir, open, segment_bytes, faults, irregular>>
  BY <1>1, <1>2, SameTotal DEF TotalInv
<1>3. CASE open # NoName /\ FinishSegment(dir)
  <2>1. PICK ok \in BOOLEAN : dir' = FinishIn(dir, ok) /\ open' = NoName
    BY <1>3 DEF FinishSegment
  <2>2. Finished' = Done(FinishIn(dir, ok)) /\ Finished = Done(dir) /\ Finished \in SUBSET dir
    BY <2>1 DEF Finished, Done
  <2>3. \/ Finished' = Finished
        \/ \E g \in Files : g \notin Finished /\ Finished' = Finished \cup {g}
    BY <1>3, <2>2, Limits, FinishGrows DEF IInv, DirInv
  <2> QED  BY <1>1, <1>3, <2>1, <2>3, FinishTotal
<1> QED  BY <1>2, <1>3 DEF WriteBatch

LEMMA EnforceTotal ==
  ASSUME IInv, TotalInv, Enforce PROVE TotalInv'
<1> SUFFICES ASSUME MaxTotal # 0, ~remove_failed' PROVE TotalInv'
  BY DEF TotalInv
<1>1. /\ pc' = "open" /\ open = NoName /\ segment_bytes = 0
      /\ EnforceTotalLimit(dir, segment_bytes, Reserve, 0)
  BY DEF Enforce, IInv, CallInv, TypeOK
<1>2. segment_bytes + Reserve <= MaxTotal /\ Reserve = MaxSegment /\ Reserve \in Nat
      /\ segment_bytes \in Nat
  BY <1>1, Limits DEF Reserve
<1>3. segment_bytes + Bytes(Finished') + Reserve <= MaxTotal /\ Bytes(Finished') \in Nat
  BY <1>1, <1>2, EnforceFits DEF IInv, DirInv
<1>4. Bytes(Finished') <= MaxTotal /\ Bytes(Finished') + MaxSegment <= MaxTotal
  BY <1>1, <1>2, <1>3, Limits
<1>5. WithinLimit(Finished')
  BY <1>4 DEF WithinLimit
<1> QED  BY <1>4, <1>5, TotalPrimed DEF TotalInv

LEMMA RestartTotal ==
  ASSUME IInv, TotalInv, Restart PROVE TotalInv'
<1> SUFFICES ASSUME MaxTotal # 0, ~remove_failed' PROVE TotalInv'
  BY DEF TotalInv
<1>1. PICK left \in SUBSET {f \in dir : f.part} :
        EnforceTotalLimit({IF f \in left THEN f ELSE [f EXCEPT !.part = FALSE] : f \in dir},
                          0, 0, Cardinality(left))
  BY DEF Restart
<1>2. pc' = "idle" /\ open' = NoName
  BY DEF Restart, IInv, CallInv
<1> DEFINE files == Renamed(dir, dir \ left)
<1>3. files = {IF f \in left THEN f ELSE [f EXCEPT !.part = FALSE] : f \in dir}
  BY DEF Renamed, After, Final
<1>4. EnforceTotalLimit(files, 0, 0, Cardinality(left))
  BY <1>1, <1>3
<1>5. WellNamed(files)
  BY RenamingKeeps DEF IInv, DirInv
<1> HIDE DEF files
<1>6. 0 + Bytes(Finished') + 0 <= MaxTotal /\ Bytes(Finished') \in Nat
  <2>1. 0 \in Nat /\ 0 + 0 <= MaxTotal
    BY Limits
  <2> QED  BY <1>4, <1>5, <2>1, EnforceFits
<1>7. WithinLimit(Finished')
  BY <1>6, Limits DEF WithinLimit
<1> QED  BY <1>2, <1>7, TotalPrimed DEF TotalInv

LEMMA OpenSegmentTotal ==
  ASSUME IInv, TotalInv, OpenSegment PROVE TotalInv'
<1> SUFFICES ASSUME MaxTotal # 0, ~remove_failed' PROVE TotalInv'
  BY DEF TotalInv
<1>1. pc = "open" /\ UNCHANGED remove_failed
  BY DEF OpenSegment
<1>2. /\ NewFile(HeaderBytes).part /\ \A f \in dir : f.name # <<clock, NextSequence>>
  <2>1. HeaderBytes \in SegmentSizes
    BY Sizes
  <2> QED  BY <2>1, NewFileIs DEF IInv
<1>3. dir' = dir \cup {NewFile(HeaderBytes)}
  BY <1>2 DEF OpenSegment
<1>4. Finished' = Finished
  BY <1>2, <1>3 DEF Finished
<1>5. WithinLimit(Finished') /\ Bytes(Finished') + MaxSegment <= MaxTotal
  BY <1>1, <1>4 DEF TotalInv
<1> QED  BY <1>5, TotalPrimed DEF TotalInv

LEMMA OpenSegmentFailsTotal ==
  ASSUME IInv, TotalInv, OpenSegmentFails PROVE TotalInv'
<1> SUFFICES ASSUME MaxTotal # 0, ~remove_failed' PROVE TotalInv'
  BY DEF TotalInv
<1>1. /\ pc = "open" /\ pc' = "idle" /\ UNCHANGED remove_failed /\ open' = NoName
  BY DEF OpenSegmentFails, IInv, CallInv
<1>2. CASE dir' = dir
  <2>1. Finished' = Finished
    BY <1>2 DEF Finished
  <2> QED  BY <1>1, <2>1, FinishTotal
<1>3. ASSUME NEW n \in 0 .. HeaderBytes - 1, NEW ok \in BOOLEAN,
             dir' = dir \cup {[NewFile(n) EXCEPT !.part = ~ok]}
      PROVE  TotalInv'
  <2> DEFINE new == [NewFile(n) EXCEPT !.part = ~ok]
  <2>1. n \in SegmentSizes
    BY Sizes
  <2>2. /\ NewFile(n) \in Files /\ NewFile(n).name = <<clock, NextSequence>>
        /\ \A f \in dir : f.name # <<clock, NextSequence>>
    BY <2>1, NewFileIs DEF IInv
  <2>3. new \in Files /\ new.name = <<clock, NextSequence>> /\ new.part = ~ok
    BY <2>2 DEF Files
  <2> HIDE DEF new
  <2>4. dir' = dir \cup {new} /\ new \notin dir
    BY <1>3, <2>2, <2>3 DEF new
  <2>5. CASE new.part
    <3>1. Finished' = Finished
      BY <2>4, <2>5 DEF Finished
    <3> QED  BY <1>1, <3>1, FinishTotal
  <2>6. CASE ~new.part
    <3>1. Finished' = Finished \cup {new} /\ new \notin Finished
      BY <2>4, <2>6 DEF Finished
    <3> QED  BY <1>1, <2>3, <3>1, FinishTotal
  <2> QED  BY <2>5, <2>6
<1> QED  BY <1>2, <1>3 DEF OpenSegmentFails

(* The segment being written is not a finished one, however large it is. *)
LEMMA GrownIsOpen ==
  ASSUME IInv, open # NoName, NEW n \in Nat, segment_bytes + n \in SegmentSizes,
         NEW batches \in Seq(1 .. MaxBatches),
         segment_bytes + n > MaxSegment => OpenFile.batches = <<>> /\ Len(batches) <= 1
  PROVE  /\ Done(Grown(n, batches)) = Finished
         /\ \A f \in Grown(n, batches) : f.name = open => f.part
<1>1. PICK g \in Files : Grown(n, batches) = (dir \ {OpenFile}) \cup {g} /\ g.part
  BY GrownIs DEF IInv
<1>2. /\ OpenFile \in dir /\ OpenFile.part
      /\ \A f \in dir : f.name = open => f = OpenFile
  BY OpenFileExists DEF IInv
<1> QED  BY <1>1, <1>2 DEF Done, Finished

LEMMA WriteTotal ==
  ASSUME IInv, TotalInv, Write PROVE TotalInv'
<1>1. /\ pc = "write" /\ pc' = "idle" /\ open # NoName /\ UNCHANGED <<open, remove_failed>>
      /\ dir' = Grown(batch.bytes, <<batch.id>>)
  BY DEF Write, IInv, CallInv
<1>2. batch.id \in 1 .. MaxBatches /\ batch.bytes \in Nat
  BY <1>1, BatchIs DEF IInv, TypeOK
<1>3. /\ <<batch.id>> \in Seq(1 .. MaxBatches)
      /\ segment_bytes + batch.bytes \in SegmentSizes
      /\ segment_bytes + batch.bytes > MaxSegment =>
           OpenFile.batches = <<>> /\ Len(<<batch.id>>) <= 1
  <2>1. batch.bytes \in 0 .. batch.bytes
    BY <1>2
  <2> QED  BY <1>1, <1>2, <2>1, WriteFits
<1>4. Done(dir') = Finished
  BY <1>1, <1>2, <1>3, GrownIsOpen
<1>5. Finished' = Finished
  BY <1>4 DEF Finished, Done
<1> QED  BY <1>1, <1>5, TotalPrimed DEF TotalInv

LEMMA WriteFailsTotal ==
  ASSUME IInv, TotalInv, WriteFails PROVE TotalInv'
<1> SUFFICES ASSUME MaxTotal # 0, ~remove_failed' PROVE TotalInv'
  BY DEF TotalInv
<1>1. PICK n \in 0 .. batch.bytes - 1, ok \in BOOLEAN : dir' = FinishIn(Grown(n, <<>>), ok)
  BY DEF WriteFails
<1>2. /\ pc = "write" /\ pc' = "idle" /\ open # NoName /\ open' = NoName
      /\ UNCHANGED remove_failed
  BY DEF WriteFails, IInv, CallInv
<1>3. /\ n \in Nat /\ segment_bytes + n \in SegmentSizes
      /\ segment_bytes + n > MaxSegment => OpenFile.batches = <<>> /\ Len(<<>>) <= 1
  <2>1. batch.bytes \in Nat
    BY <1>2, BatchIs DEF IInv, TypeOK
  <2>2. n \in 0 .. batch.bytes
    BY <2>1
  <2> QED  BY <1>2, <2>2, WriteFits, EmptySeq
<1>4. <<>> \in Seq(1 .. MaxBatches)
  BY EmptySeq
<1> DEFINE files == Grown(n, <<>>)
<1>5. Done(files) = Finished /\ \A f \in files : f.name = open => f.part
  BY <1>2, <1>3, <1>4, GrownIsOpen
<1>6. WellNamed(files)
  BY <1>2, CutOff
<1> HIDE DEF files
<1>7. Finished' = Done(FinishIn(files, ok)) /\ Done(files) \in SUBSET files
  BY <1>1 DEF Finished, Done, files
<1>8. \/ Finished' = Finished
      \/ \E g \in Files : g \notin Finished /\ Finished' = Finished \cup {g}
  BY <1>5, <1>6, <1>7, FinishGrows
<1> QED  BY <1>2, <1>8, FinishTotal

LEMMA RestTotal ==
  ASSUME IInv, TotalInv, Close \/ Crash \/ ClockTicks \/ ClockIsSetBack \/ UNCHANGED vars
  PROVE  TotalInv'
<1>1. CASE pc' = "down"
  BY <1>1 DEF TotalInv
<1>2. CASE UNCHANGED <<dir, open, pc, remove_failed>>
  BY <1>2, SameTotal DEF TotalInv
<1> QED  BY <1>1, <1>2 DEF Close, Crash, ClockTicks, ClockIsSetBack, vars

LEMMA NextKeepsTotalInv == IInv /\ TotalInv /\ [Next]_vars => TotalInv'
BY WriteBatchTotal, EnforceTotal, OpenSegmentTotal, OpenSegmentFailsTotal, WriteTotal,
   WriteFailsTotal, RestartTotal, RestTotal
   DEF Next

LEMMA TotalHolds ==
  ASSUME IInv, TotalInv PROVE TotalIsBounded
<1> SUFFICES ASSUME MaxTotal # 0, pc # "down", ~remove_failed
             PROVE  WithinLimit(Finished \cup {f \in dir : f.name = open})
  BY DEF TotalIsBounded
<1>1. CASE open = NoName
  <2>1. {f \in dir : f.name = open} = {}
    BY <1>1, NamesAreNames
  <2>2. Finished \cup {f \in dir : f.name = open} = Finished
    BY <2>1
  <2> QED  BY <2>2 DEF TotalInv
<1>2. CASE open # NoName
  <2>1. /\ OpenFile \in dir /\ OpenFile \in Files /\ OpenFile.part
        /\ {f \in dir : f.name = open} = {OpenFile}
    BY <1>2, OpenFileExists DEF IInv
  <2>2. Finished \in SUBSET dir /\ OpenFile \notin Finished /\ WellNamed(dir)
    BY <2>1 DEF Finished, IInv, DirInv
  <2>3. Bytes(Finished) + MaxSegment <= MaxTotal
    BY <1>2 DEF TotalInv
  <2> QED  BY <2>1, <2>2, <2>3, OneMore
<1> QED  BY <1>1, <1>2

(* The limit on the total holds for any limits, any sizes of batches and any
   number of segments, also across restarts, while the disk removes what it is
   asked to - but for what one segment, of a single batch that is too large
   for a segment, exceeds its own limit by. *)
THEOREM TheTotalIsBounded == Spec => []TotalIsBounded
<1>1. Init => TotalInv
  <2> SUFFICES ASSUME Init PROVE TotalInv
    OBVIOUS
  <2>1. Finished = {}
    BY DEF Init, Finished
  <2>2. Bytes(Finished) = 0
    BY <2>1, BytesOf, FS_EmptySet
  <2>3. WithinLimit(Finished)
    BY <2>2, SegmentAssumption DEF WithinLimit
  <2> QED  BY <2>3 DEF Init, TotalInv
<1>2. IInv /\ TotalInv => TotalIsBounded
  BY TotalHolds
<1> QED  BY <1>1, <1>2, IInvHolds, NextKeepsTotalInv, PTL DEF Spec
=============================================================================
