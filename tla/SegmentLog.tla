----------------------------- MODULE SegmentLog -----------------------------
(***************************************************************************)
(* The export segments on disk: SegmentWriter (src/ingest/segment.cpp) and *)
(* the directory it writes to, through crashes and restarts, a clock that  *)
(* is set back, and a disk that refuses to create, write, rename or remove *)
(* a file.  write_batch is taken apart where a crash leaves different      *)
(* files: finishing the full segment, enforcing the limit, opening the     *)
(* next one, and the write.                                                *)
(*                                                                         *)
(* A segment's name is its creation time and a sequence number, compared   *)
(* in that order as the file names are.  A batch is a number; a segment    *)
(* keeps the batches that are whole in it, and its size.                   *)
(***************************************************************************)
EXTENDS Integers, SequencesExt, FiniteSetsExt

CONSTANTS
  HeaderBytes, BatchBytes,     \* sizes of the header, and possible ones of a batch
  MaxSegment, MaxTotal,        \* max_segment_bytes, max_total_bytes (0: no limit)
  MaxTime, MaxBatches, MaxFaults, MaxCrashes, MaxStepsBack   \* bounds of a run

ASSUME SegmentAssumption ==
  /\ HeaderBytes \in Nat \ {0} /\ BatchBytes \subseteq Nat \ {0}
  /\ MaxSegment \in Nat /\ MaxTotal \in Nat
  /\ MaxTotal = 0 \/ MaxTotal >= 2 * MaxSegment
  /\ {MaxTime, MaxBatches, MaxFaults, MaxCrashes, MaxStepsBack} \subseteq Nat

VARIABLES
  clock,           \* system_clock, which may be set back
  dir,             \* the directory: the segment files in it
  sequence,        \* sequence_
  open,            \* the name of the segment out_ writes to, or NoName
  segment_bytes,   \* segment_bytes_
  pc,              \* where write_batch is; "down" when there is no process
  batch,           \* the batch being written: its number and size
  acked,           \* history: the batches write_batch returned for, in order
  deleted,         \* history: the batches in segments the limit removed
  remove_failed,   \* history: a removal failed in the last enforcement
  irregular,       \* history: the clock went back, or a rename or removal failed
  faults, crashes, steps_back

vars == <<clock, dir, sequence, open, segment_bytes, pc, batch, acked, deleted,
          remove_failed, irregular, faults, crashes, steps_back>>

NoName == <<>>
Idle == [id |-> 0, bytes |-> 0]
Names == (0 .. MaxTime) \X Nat
Whole(f) == {f.batches[i] : i \in DOMAIN f.batches}
SegmentSizes ==   \* only a segment's first batch may be larger than its limit
  {n \in Nat : n <= MaxSegment \/ \E first \in BatchBytes \cup {0} : n <= HeaderBytes + first}
Finished == {f \in dir : ~f.part}
Bytes(files) == MapThenSumSet(LAMBDA f : f.bytes, files)
OpenFile == CHOOSE f \in dir : f.name = open /\ f.part

TypeOK ==
  /\ clock \in 0 .. MaxTime /\ sequence \in Nat
  /\ \A f \in dir : /\ f.name \in Names /\ f.part \in BOOLEAN
                    /\ f.batches \in Seq(1 .. MaxBatches)
                    /\ f.bytes \in SegmentSizes
                    /\ f.bytes > MaxSegment => Len(f.batches) <= 1
  /\ \A f, g \in dir : f.name = g.name => f = g
  /\ open # NoName => /\ \E f \in dir : f.name = open /\ f.part
                      /\ segment_bytes = OpenFile.bytes
  /\ open = NoName => segment_bytes = 0
  /\ pc \in {"down", "idle", "enforce", "open", "write"}
  /\ batch = Idle \/ (batch.id \in 1 .. MaxBatches /\ batch.bytes \in BatchBytes)
  /\ (batch = Idle) <=> (pc \in {"down", "idle"})
  /\ acked \in Seq(1 .. MaxBatches) /\ deleted \subseteq 1 .. MaxBatches
  /\ {remove_failed, irregular} \subseteq BOOLEAN
  /\ faults \in 0 .. MaxFaults /\ crashes \in 0 .. MaxCrashes
  /\ steps_back \in 0 .. MaxStepsBack

Init ==
  /\ clock = 0 /\ dir = {} /\ sequence = 0 /\ open = NoName /\ segment_bytes = 0
  /\ pc = "idle" /\ batch = Idle /\ acked = <<>> /\ deleted = {}
  /\ remove_failed = FALSE /\ irregular = FALSE
  /\ faults = 0 /\ crashes = 0 /\ steps_back = 0

-----------------------------------------------------------------------------
(* Plausible mistakes: variants of the definitions below, not part of the
   specification.  Each is what some property is there to notice. *)

(* The segment is full when it has passed its size already. *)
IsFullWhenPast(bytes) == segment_bytes > MaxSegment

(* Only finished segments are looked at when a name is chosen. *)
NameTakenByFinished(name) == \E f \in Finished : f.name = name

(* Room is made for what there is, not for the segment to come. *)
NoReserve == 0

(* Age told by the sequence number. *)
OlderBySequence(f, g) == f.name[2] < g.name[2]

-----------------------------------------------------------------------------
IsFull(bytes) == segment_bytes + bytes > MaxSegment
NameTaken(name) == \E f \in dir : f.name = name
Reserve == MaxSegment
Older(f, g) == \/ f.name[1] < g.name[1]
               \/ f.name[1] = g.name[1] /\ f.name[2] < g.name[2]

(* finish_segment on these files, of which open is one: close and rename.
   The rename may fail, and nobody looks. *)
FinishIn(files, ok) ==
  IF ok THEN {IF f.name = open THEN [f EXCEPT !.part = FALSE] ELSE f : f \in files}
        ELSE files
FinishSegment(files) ==
  \E ok \in BOOLEAN :
    /\ ok \/ faults < MaxFaults
    /\ dir' = FinishIn(files, ok)
    /\ open' = NoName /\ segment_bytes' = 0
    /\ faults' = IF ok THEN faults ELSE faults + 1
    /\ irregular' = (irregular \/ ~ok)

(* The finished segments enforce_total_limit(reserve) removes, each in turn
   while the total is too large; those in stuck cannot be removed.  refused
   counts the faults of the same step. *)
Removed(files, stuck, in_use, reserve) ==
  {f \in {g \in files : ~g.part} :
     LET older == {g \in files : ~g.part /\ Older(g, f)}
     IN  /\ MaxTotal # 0 /\ f \notin stuck
         /\ in_use + Bytes({g \in files : ~g.part})
              - Bytes(older \ stuck) + reserve > MaxTotal}
EnforceTotalLimit(files, in_use, reserve, refused) ==
  \E stuck \in SUBSET {f \in files : ~f.part} :
    /\ Cardinality(stuck) <= MaxFaults - faults - refused
    /\ stuck \subseteq Removed(files, {}, in_use, reserve)
    /\ LET removed == Removed(files, stuck, in_use, reserve)
       IN  /\ dir' = files \ removed
           /\ deleted' = deleted \cup UNION {Whole(f) : f \in removed}
    /\ remove_failed' = (stuck # {})
    /\ irregular' = (irregular \/ stuck # {} \/ refused > 0)
    /\ faults' = faults + refused + Cardinality(stuck)

-----------------------------------------------------------------------------
(* write_batch: what comes first, by the state of the open segment. *)
WriteBatch(bytes) ==
  /\ pc = "idle"
  /\ LET id == Max({0} \cup ToSet(acked)) + 1
     IN  id <= MaxBatches /\ batch' = [id |-> id, bytes |-> bytes]
  /\ \/ /\ open = NoName /\ pc' = "enforce"
        /\ UNCHANGED <<dir, open, segment_bytes, faults, irregular>>
     \/ /\ open # NoName /\ IsFull(bytes) /\ pc' = "enforce" /\ FinishSegment(dir)
     \/ /\ open # NoName /\ ~IsFull(bytes) /\ pc' = "write"
        /\ UNCHANGED <<dir, open, segment_bytes, faults, irregular>>
  /\ UNCHANGED <<clock, sequence, acked, deleted, remove_failed, crashes, steps_back>>

Enforce ==
  /\ pc = "enforce" /\ pc' = "open"
  /\ EnforceTotalLimit(dir, segment_bytes, Reserve, 0)
  /\ UNCHANGED <<clock, sequence, open, segment_bytes, batch, acked, crashes,
                 steps_back>>

NextSequence == Min({n \in sequence + 1 .. sequence + Cardinality(dir) + 1 :
                       ~NameTaken(<<clock, n>>)})
NewFile(bytes) == [name |-> <<clock, NextSequence>>, part |-> TRUE,
                   batches |-> <<>>, bytes |-> bytes]

(* open_segment: a name no file has, the file truncated, its header. *)
OpenSegment ==
  /\ pc = "open" /\ sequence' = NextSequence
  /\ LET others == {f \in dir : ~(f.part /\ f.name = <<clock, NextSequence>>)}
     IN  /\ pc' = "write" /\ dir' = others \cup {NewFile(HeaderBytes)}
  /\ open' = <<clock, NextSequence>> /\ segment_bytes' = HeaderBytes
  /\ UNCHANGED <<clock, batch, acked, deleted, remove_failed, irregular, faults,
                 crashes, steps_back>>

(* It throws: the file is not created, or its header is cut short and the
   segment is finished as it is.  The batch is lost. *)
OpenSegmentFails ==
  /\ pc = "open" /\ faults < MaxFaults /\ sequence' = NextSequence
  /\ \/ dir' = dir /\ faults' = faults + 1 /\ UNCHANGED irregular
     \/ \E n \in 0 .. HeaderBytes - 1, ok \in BOOLEAN :
          /\ ok \/ faults + 1 < MaxFaults
          /\ dir' = dir \cup {[NewFile(n) EXCEPT !.part = ~ok]}
          /\ faults' = IF ok THEN faults + 1 ELSE faults + 2
          /\ irregular' = (irregular \/ ~ok)
  /\ pc' = "idle" /\ batch' = Idle
  /\ UNCHANGED <<clock, open, segment_bytes, acked, deleted, remove_failed,
                 crashes, steps_back>>

Grown(bytes, batches) ==
  (dir \ {OpenFile}) \cup
    {[OpenFile EXCEPT !.bytes = @ + bytes, !.batches = @ \o batches]}

Write ==
  /\ pc = "write" /\ pc' = "idle" /\ batch' = Idle
  /\ dir' = Grown(batch.bytes, <<batch.id>>)
  /\ segment_bytes' = segment_bytes + batch.bytes
  /\ acked' = Append(acked, batch.id)
  /\ UNCHANGED <<clock, sequence, open, deleted, remove_failed, irregular, faults,
                 crashes, steps_back>>

(* The batch is cut off; the segment is sealed and write_batch throws. *)
WriteFails ==
  /\ pc = "write" /\ faults < MaxFaults
  /\ \E n \in 0 .. batch.bytes - 1, ok \in BOOLEAN :
       /\ ok \/ faults + 1 < MaxFaults
       /\ dir' = FinishIn(Grown(n, <<>>), ok)
       /\ faults' = IF ok THEN faults + 1 ELSE faults + 2
       /\ irregular' = (irregular \/ ~ok)
  /\ open' = NoName /\ segment_bytes' = 0 /\ pc' = "idle" /\ batch' = Idle
  /\ UNCHANGED <<clock, sequence, acked, deleted, remove_failed, crashes,
                 steps_back>>

-----------------------------------------------------------------------------
(* close(), and the end of the process. *)
Close ==
  /\ pc = "idle" /\ pc' = "down"
  /\ \/ open # NoName /\ FinishSegment(dir)
     \/ open = NoName /\ UNCHANGED <<dir, open, segment_bytes, faults, irregular>>
  /\ UNCHANGED <<clock, sequence, batch, acked, deleted, remove_failed, crashes,
                 steps_back>>

(* The header or the batch being written may be in the file in part. *)
Crash ==
  /\ pc # "down" /\ crashes < MaxCrashes /\ crashes' = crashes + 1
  /\ pc' = "down" /\ batch' = Idle /\ open' = NoName /\ segment_bytes' = 0
  /\ \/ dir' = dir
     \/ pc = "open" /\ \E n \in 0 .. HeaderBytes - 1 : dir' = dir \cup {NewFile(n)}
     \/ pc = "write" /\ \E n \in 1 .. batch.bytes - 1 : dir' = Grown(n, <<>>)
  /\ UNCHANGED <<clock, sequence, acked, deleted, remove_failed, irregular, faults,
                 steps_back>>

(* The constructor, at a later time: leftovers are renamed (or not), the
   limit is enforced, and sequence numbers start again. *)
Restart ==
  /\ pc = "down" /\ clock < MaxTime /\ clock' = clock + 1
  /\ pc' = "idle" /\ sequence' = 0
  /\ \E left \in SUBSET {f \in dir : f.part} :
       /\ Cardinality(left) <= MaxFaults - faults
       /\ EnforceTotalLimit({IF f \in left THEN f ELSE [f EXCEPT !.part = FALSE] :
                              f \in dir}, 0, 0, Cardinality(left))
  /\ UNCHANGED <<open, segment_bytes, batch, acked, crashes, steps_back>>

ClockTicks ==
  /\ clock < MaxTime /\ clock' = clock + 1
  /\ UNCHANGED <<dir, sequence, open, segment_bytes, pc, batch, acked, deleted,
                 remove_failed, irregular, faults, crashes, steps_back>>

ClockIsSetBack ==
  /\ steps_back < MaxStepsBack /\ steps_back' = steps_back + 1
  /\ clock' \in 0 .. clock - 1 /\ irregular' = TRUE
  /\ UNCHANGED <<dir, sequence, open, segment_bytes, pc, batch, acked, deleted,
                 remove_failed, faults, crashes>>

Next ==
  \/ \E bytes \in BatchBytes : WriteBatch(bytes)
  \/ Enforce \/ OpenSegment \/ OpenSegmentFails \/ Write \/ WriteFails
  \/ Close \/ Crash \/ Restart \/ ClockTicks \/ ClockIsSetBack

Spec == Init /\ [][Next]_vars

-----------------------------------------------------------------------------
(* Properties. *)

InOrder(batches) ==
  \A i, j \in DOMAIN batches : i < j => batches[i] < batches[j]

(* Every batch write_batch returned for stays whole in exactly one segment
   file, once and in the order written (in which batches are numbered), until
   the size limit removes that segment: no restart, failed rename or repeated
   creation time lets one segment replace another (open_segment's choice of a
   name, the constructor's recovery). *)
NothingOverwritten ==
  /\ ToSet(acked) = deleted \cup UNION {Whole(f) : f \in dir}
  /\ \A f \in dir : /\ InOrder(f.batches) /\ Whole(f) \cap deleted = {}
                    /\ \A g \in dir : f # g => Whole(f) \cap Whole(g) = {}

(* The finished segments and the one being written stay within the limit,
   while the disk removes what it is asked to - also across restarts, which
   count what the previous run left behind.  The room made for a segment is
   MaxSegment, whatever the batch it is opened for: one whose first batch (or
   whose table of tags) is larger exceeds the limit by as much as it exceeds
   its own, until the next segment is begun, and it is the only one that may
   (write_batch, enforce_total_limit; "Upper bound for all segments in the
   directory together", segment.hpp:65). *)
WithinLimit(files) ==
  \/ Bytes(files) <= MaxTotal
  \/ \E f \in files : /\ f.bytes > MaxSegment /\ Len(f.batches) <= 1
                       /\ Bytes(files \ {f}) + MaxSegment <= MaxTotal
TotalIsBounded ==
  MaxTotal # 0 /\ pc # "down" /\ ~remove_failed =>
    WithinLimit(Finished \cup {f \in dir : f.name = open})

(* What the limit costs is always the oldest data: as long as the clock is
   not set back and the disk obeys, the batches still there are the last
   ones written, though sequence numbers restart with the process. *)
OldestGoFirst ==
  ~irregular => \A old \in deleted : \A f \in dir : \A b \in Whole(f) : old < b
=============================================================================
