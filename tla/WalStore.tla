------------------------------ MODULE WalStore ------------------------------
(***************************************************************************)
(* The telemetry store of one sensor: SeriesStore and its in-memory ring   *)
(* (storage/series_store.hpp, storage/ring_buffer.hpp) over the write-     *)
(* ahead log (storage/wal_writer.hpp), with what main.cpp does to it: the  *)
(* prune at startup, the maintenance timer and the order of the shutdown.  *)
(* Sensors share only the log's lock, so one of them is modelled.          *)
(*                                                                         *)
(* A flush is one write of at most a batch and is one step; pruning holds  *)
(* the lock from its flush to its rename, and the process may die between  *)
(* the steps.  A write the disk refuses keeps a prefix of whole records    *)
(* (records are 16 bytes, and files are extended by blocks of a multiple   *)
(* of that); the operating system outlives the process.                    *)
(***************************************************************************)
EXTENDS Integers, SequencesExt, FiniteSetsExt, Subsequence

CONSTANTS
  Capacity,     \* default_capacity_ of a series
  FlushBatch,   \* flush_batch_size_
  Retention,    \* retention, also replay_max_age_, in ticks of the clock
  MaxTime, MaxSamples, MaxFailures, MaxCrashes   \* bounds of a run

ASSUME WalAssumption ==
  /\ Capacity \in Nat \ {0} /\ FlushBatch \in Nat \ {0} /\ Retention \in Nat
  /\ MaxTime \in Nat /\ MaxSamples \in Nat /\ MaxFailures \in Nat
  /\ MaxCrashes \in Nat

VARIABLES
  clock,              \* system_clock
  main,               \* where main() is
  tick,               \* the maintenance handler: "idle", or past its g_running test
  locked,             \* a prune holds WalWriter::mutex_
  reader,             \* the poller's handler, on its way through record()
  in_hand,            \* the sample it carries
  known,              \* the series exists in series_
  data, write_index, size,   \* its RingBuffer
  pending,            \* pending_[sensor]
  file, tmp,          \* <sensor>.wal and <sensor>.wal.tmp
  recorded,           \* history: every sample ever pushed
  gone,               \* history: those a crash, an exit or a refused write lost
  damage, crashes     \* history: refused writes that had an effect, crashes

memory == <<known, data, write_index, size>>
disk   == <<file, tmp>>
vars == <<clock, main, tick, locked, reader, in_hand, memory, pending, disk,
          recorded, gone, damage, crashes>>

None == <<>>
Samples == [id : 1 .. MaxSamples, ts : 0 .. MaxTime]
Up == main \notin {"down", "stopped"}

TypeOK ==
  /\ clock \in 0 .. MaxTime /\ crashes \in 0 .. MaxCrashes
  /\ main \in {"down", "starting", "running", "stopping", "flushed", "stopped"}
  /\ tick \in {"idle", "due"} /\ locked \in BOOLEAN /\ known \in BOOLEAN
  /\ reader \in {"idle", "due", "received", "pushed"}
  /\ in_hand \in Samples \cup {None}
  /\ (in_hand # None) <=> (reader # "idle")
  /\ data \in [0 .. Capacity - 1 -> Samples \cup {None}]
  /\ write_index \in 0 .. Capacity - 1 /\ size \in 0 .. Capacity
  /\ pending \in Seq(Samples) /\ Len(pending) < FlushBatch
  /\ file \in Seq(Samples)
  /\ tmp = None \/ (tmp.samples \in Seq(Samples) /\ tmp.short \in BOOLEAN)
  /\ recorded \in Seq(Samples) /\ gone \subseteq 1 .. MaxSamples
  /\ damage \in 0 .. MaxFailures

-----------------------------------------------------------------------------
(* Helpers. *)

Ids(s) == {s[i].id : i \in DOMAIN s}
NotOlderThan(samples, time) == Only(samples, {x \in Samples : x.ts >= time})

-----------------------------------------------------------------------------
(* Plausible mistakes: variants of the definitions below, not part of the
   specification.  Each is what some property is there to notice. *)

(* The oldest samples' place computed from the end of the array. *)
RecentFromWriteIndex(count) ==
  LET n == Min({count, size})
  IN  [i \in 1 .. n |-> data[(write_index + i - 1) % Capacity]]

(* Retention counted from the wrong end: one tick too eager. *)
CutoffTooLate == clock - Retention + 1

(* The buffer is written when it is over, not at, the batch size. *)
BatchIsFullOneLate(buffer) == Len(buffer) > FlushBatch

(* append() does not take the lock that a prune holds. *)
MayAppendUnlocked == reader = "pushed"

-----------------------------------------------------------------------------
MayAppend == reader = "pushed" /\ ~locked
Cutoff == clock - Retention
BatchIsFull(buffer) == Len(buffer) >= FlushBatch

(* RingBuffer::recent(count), oldest first. *)
Recent(count) ==
  LET n == Min({count, size})
  IN  [i \in 1 .. n |-> data[(write_index + Capacity - n + i - 1) % Capacity]]

(* RingBuffer::push of each sample in turn, on an empty ring: replay_into. *)
Replayed == NotOlderThan(file, Cutoff)
AfterReplay(samples) ==
  /\ write_index' = Len(samples) % Capacity
  /\ size' = Min({Capacity, Len(samples)})
  /\ data' = [k \in 0 .. Capacity - 1 |->
       LET last == Max({0} \cup {i \in DOMAIN samples : (i - 1) % Capacity = k})
       IN  IF last = 0 THEN None ELSE samples[last]]

-----------------------------------------------------------------------------
Init ==
  /\ clock = 0 /\ main = "down" /\ tick = "idle" /\ locked = FALSE
  /\ reader = "idle" /\ in_hand = None
  /\ known = FALSE /\ data = [k \in 0 .. Capacity - 1 |-> None]
  /\ write_index = 0 /\ size = 0
  /\ pending = <<>> /\ file = <<>> /\ tmp = None
  /\ recorded = <<>> /\ gone = {} /\ damage = 0 /\ crashes = 0

(* What a write of these samples leaves on disk: all, or the first n of them
   and a stream in a failed state that nobody looks at. *)
Write(samples) ==
  \E n \in 0 .. Len(samples) :
    /\ n = Len(samples) \/ damage < MaxFailures
    /\ file' = file \o SubSeq(samples, 1, n)
    /\ damage' = IF n = Len(samples) THEN damage ELSE damage + 1
    /\ gone' = gone \cup Ids(SubSeq(samples, n + 1, Len(samples)))

(* flush_all, or the flush of read_since: the lock is taken and given back. *)
Flush == ~locked /\ Write(pending) /\ pending' = <<>>

AfterPrune == IF main = "starting" THEN "running" ELSE main

LosesMemory ==
  /\ tick' = "idle" /\ locked' = FALSE /\ reader' = "idle" /\ in_hand' = None
  /\ known' = FALSE /\ data' = [k \in 0 .. Capacity - 1 |-> None]
  /\ write_index' = 0 /\ size' = 0 /\ pending' = <<>>
  /\ gone' = gone \cup Ids(pending)
               \cup (IF reader = "pushed" THEN {in_hand.id} ELSE {})
  /\ UNCHANGED <<clock, disk, recorded, damage>>

-----------------------------------------------------------------------------
(* The poller's handler: finish_cycle, which gives the sample its time, then
   the subscriber's record(). *)

FinishCycle ==
  /\ main = "running" /\ reader = "idle" /\ Len(recorded) < MaxSamples
  /\ reader' = "due"
  /\ in_hand' = [id |-> Len(recorded) + 1, ts |-> clock]
  /\ UNCHANGED <<clock, main, tick, locked, memory, pending, disk, recorded, gone,
                 damage, crashes>>

(* get_or_create; it reads the file without the log's lock. *)
GetOrCreate ==
  /\ reader = "due" /\ reader' = "received"
  /\ \/ known /\ UNCHANGED memory
     \/ ~known /\ known' = TRUE /\ AfterReplay(Replayed)
  /\ UNCHANGED <<clock, main, tick, locked, in_hand, pending, disk, recorded,
                 gone, damage, crashes>>

Push ==
  /\ reader = "received" /\ reader' = "pushed"
  /\ data' = [data EXCEPT ![write_index] = in_hand]
  /\ write_index' = (write_index + 1) % Capacity
  /\ size' = Min({size + 1, Capacity})
  /\ recorded' = Append(recorded, in_hand)
  /\ UNCHANGED <<clock, main, tick, locked, in_hand, known, pending, disk, gone,
                 damage, crashes>>

(* WalWriter::append. *)
AppendToLog ==
  LET buffer == Append(pending, in_hand)
  IN  /\ MayAppend
      /\ reader' = "idle" /\ in_hand' = None
      /\ \/ ~BatchIsFull(buffer) /\ pending' = buffer
                                  /\ UNCHANGED <<file, gone, damage>>
         \/ BatchIsFull(buffer) /\ pending' = <<>> /\ Write(buffer)
      /\ UNCHANGED <<clock, main, tick, locked, memory, tmp, recorded, crashes>>

-----------------------------------------------------------------------------
(* Pruning, at startup and from the maintenance handler. *)

(* Up to the temporary file.  The test of the stream comes before the data
   leaves its buffer: a refused write is noticed (and the temporary removed)
   or not (and the temporary is short). *)
PruneBegin ==
  /\ ~locked /\ pending' = <<>>
  /\ Write(pending)
  /\ LET survivors == NotOlderThan(file', Cutoff)
     IN  IF Len(survivors) = Len(file')
         THEN UNCHANGED <<tmp, locked>> /\ main' = AfterPrune
         ELSE \/ /\ tmp' = [samples |-> survivors, short |-> FALSE]
                 /\ locked' = TRUE /\ main' = main
              \/ /\ tmp' = None /\ UNCHANGED locked /\ main' = AfterPrune
              \/ /\ damage' < MaxFailures /\ locked' = TRUE /\ main' = main
                 /\ \E n \in 0 .. Len(survivors) - 1 :
                      tmp' = [samples |-> SubSeq(survivors, 1, n), short |-> TRUE]

PruneAtStart ==
  /\ main = "starting" /\ PruneBegin
  /\ UNCHANGED <<clock, tick, reader, in_hand, memory, recorded, crashes>>

(* The rename, which may fail and leave the temporary behind. *)
PruneRename ==
  /\ locked /\ locked' = FALSE /\ main' = AfterPrune
  /\ \/ /\ file' = tmp.samples /\ tmp' = None
        /\ damage' = IF tmp.short THEN damage + 1 ELSE damage
        /\ gone' = IF tmp.short
                     THEN gone \cup (Ids(NotOlderThan(file, Cutoff))
                                       \ Ids(tmp.samples))
                     ELSE gone
     \/ UNCHANGED <<disk, damage, gone>>
  /\ UNCHANGED <<clock, tick, reader, in_hand, memory, pending, recorded, crashes>>

-----------------------------------------------------------------------------
(* The maintenance handler: its test of g_running, then the flush, with a
   prune when an hour has passed. *)

MaintenanceTimer ==
  /\ main = "running" /\ tick = "idle" /\ ~locked /\ tick' = "due"
  /\ UNCHANGED <<clock, main, locked, reader, in_hand, memory, pending, disk,
                 recorded, gone, damage, crashes>>

(* It flushes only when it prunes. *)
MaintainWithoutFlush ==
  /\ tick = "due" /\ tick' = "idle"
  /\ \/ UNCHANGED <<main, locked, pending, disk, gone, damage>> \/ PruneBegin
  /\ UNCHANGED <<clock, reader, in_hand, memory, recorded, crashes>>

Maintain ==
  /\ tick = "due" /\ tick' = "idle"
  /\ \/ Flush /\ UNCHANGED <<main, locked, tmp>>
     \/ PruneBegin
  /\ UNCHANGED <<clock, reader, in_hand, memory, recorded, crashes>>

(* GET /api/series: history() flushes what is pending and reads the file. *)
History ==
  /\ main \in {"starting", "running", "stopping"} /\ pending # <<>> /\ Flush
  /\ UNCHANGED <<clock, main, tick, locked, reader, in_hand, memory, tmp, recorded,
                 crashes>>

-----------------------------------------------------------------------------
(* main(): start, stop and die. *)

Start ==
  /\ main = "down" /\ main' = "starting"
  /\ UNCHANGED <<clock, tick, locked, reader, in_hand, memory, pending, disk,
                 recorded, gone, damage, crashes>>

(* SIGINT: g_running, the pollers' stop(), the timer's cancel(). *)
StopRequested ==
  /\ main = "running" /\ main' = "stopping"
  /\ UNCHANGED <<clock, tick, locked, reader, in_hand, memory, pending, disk,
                 recorded, gone, damage, crashes>>

FinalFlush ==
  /\ main = "stopping" /\ Flush /\ main' = "flushed"
  /\ UNCHANGED <<clock, tick, locked, reader, in_hand, memory, tmp, recorded, crashes>>

(* io_context.stop() and the join: handlers being executed are finished. *)
Join ==
  /\ main = "flushed" /\ reader = "idle" /\ tick = "idle" /\ ~locked
  /\ main' = "stopped"
  /\ UNCHANGED <<clock, tick, locked, reader, in_hand, memory, pending, disk,
                 recorded, gone, damage, crashes>>

Exit == main = "stopped" /\ main' = "down" /\ LosesMemory /\ UNCHANGED crashes

Crash == Up /\ crashes < MaxCrashes /\ crashes' = crashes + 1
            /\ main' = "down" /\ LosesMemory

ClockTicks ==
  /\ clock < MaxTime /\ clock' = clock + 1
  /\ UNCHANGED <<main, tick, locked, reader, in_hand, memory, pending, disk,
                 recorded, gone, damage, crashes>>

Handlers == GetOrCreate \/ Push \/ AppendToLog \/ PruneAtStart \/ PruneRename
              \/ Maintain
Next == \/ FinishCycle \/ Handlers \/ MaintenanceTimer \/ History
        \/ Start \/ StopRequested \/ FinalFlush \/ Join \/ Exit \/ Crash
        \/ ClockTicks

(* A handler or call that began is executed to its end, and the timer fires. *)
Fairness == /\ WF_vars(GetOrCreate) /\ WF_vars(Push) /\ WF_vars(AppendToLog)
            /\ WF_vars(PruneAtStart) /\ WF_vars(PruneRename)
            /\ WF_vars(Maintain) /\ WF_vars(MaintenanceTimer)
            /\ WF_vars(FinalFlush) /\ WF_vars(Join)

Spec == Init /\ [][Next]_vars /\ Fairness

-----------------------------------------------------------------------------
(* Properties. *)

(* Whatever the interleaving of record(), flush, prune and crash, the file
   and the pending batch behave like a journal: order is kept, fewer than a
   batch is at risk, a prune loses nothing appended while it runs, and only
   age or a refused write removes a sample (wal_writer.hpp, append, flush and
   prune_older_than). *)
Journal == INSTANCE TelemetryJournal
             WITH kept <- file, buffered <- pending, Batch <- FlushBatch,
                  Times <- (0 - Retention) .. MaxTime
ImplementsJournal == Journal!Spec

(* A sample within the retention period is in the log, in order, exactly
   once - also after any number of crashes, restarts and prunes - unless a
   crash took it from memory or the disk refused it.  It is what history()
   and the replay answer from. *)
YoungSamplesSurvive ==
  LET appended == file \o pending
                    \o (IF reader = "pushed" THEN <<in_hand>> ELSE <<>>)
  IN  NotOlderThan(appended, clock - Retention)
        = Only(recorded, {x \in Samples : x.ts >= clock - Retention /\ x.id \notin gone})

(* The ring shows an uninterrupted run of the samples that survive, ending
   in the newest, and leaves a young one out only when it is full: replay on
   the first touch and the records after it neither skip nor repeat a sample
   (series_store.hpp get_or_create and record). *)
MemoryFollowsLog ==
  LET shown == Recent(Capacity)
      survives(x) == x.id \notin gone
  IN  known =>
        /\ \A i \in 1 .. Len(shown) : shown[i] # None
        /\ \A i \in 1 .. Len(shown) - 1 : shown[i].id < shown[i + 1].id
        /\ \A x \in ToSet(recorded) :
             /\ survives(x) /\ shown # <<>> /\ x.id > shown[1].id => x \in ToSet(shown)
             /\ survives(x) /\ size < Capacity /\ x.ts >= clock - Retention
                  => x \in ToSet(shown)

(* The maintenance timer sees to it that no record stays unflushed while the
   engine runs, however few readings come (main.cpp, schedule_maintenance). *)
PendingIsFlushed ==
  (main = "running" /\ pending # <<>>) ~> (pending = <<>> \/ main # "running")

(* What wal_writer.hpp says of flush_all: called on shutdown, "so nothing
   sits unflushed indefinitely".  main.cpp calls it before it joins the
   threads that record. *)
NothingLeftUnflushed == main = "stopped" => pending = <<>>
=============================================================================
