--------------------------- MODULE ReadingExporter ---------------------------
(***************************************************************************)
(* The telemetry export pipeline: ReadingExporter                          *)
(* (src/ingest/reading_exporter.cpp) in front of Ingestor                  *)
(* (src/ingest/ingestor.cpp).                                              *)
(*                                                                         *)
(*   io threads --submit--> producer_mutex_ --> SPSC queue                 *)
(*                      --> consumer thread --batch--> sink (SegmentWriter)*)
(*                                                                         *)
(* The io threads, the consumer thread and the thread that starts and      *)
(* stops the exporter (main) interleave.  The queue is the one BoundedFifo *)
(* describes and SpscRing implements: push and pop take effect in a step,  *)
(* provided that one thread pushes and one pops (OneProducer below).  The  *)
(* steady clock is abstracted to flush_due: has flush_interval elapsed     *)
(* since last_flush.                                                       *)
(***************************************************************************)
EXTENDS Naturals, Sequences

CONSTANTS Producers,      \* the io threads that publish readings
          NoOne,          \* nobody holds producer_mutex_
          QueueCapacity,  \* queue_capacity
          BatchSize,      \* batch_size
          MaxSamples,     \* bound: submissions considered
          MaxStarts       \* bound: calls of start() considered

(* Ingestor's validate(). *)
ASSUME OptionsAssumption ==
  /\ QueueCapacity \in Nat \ {0, 1}
  /\ BatchSize \in 1 .. QueueCapacity
ASSUME BoundsAssumption == MaxSamples \in Nat /\ MaxStarts \in Nat
ASSUME NoOneAssumption == NoOne \notin Producers

VARIABLES
  accepting, mutex,            \* accepting_ and the holder of producer_mutex_
  running, stop_requested,     \* running_ and the consumer's stop token
  main,                        \* where the thread that starts and stops is
  ppc, sample,                 \* of each producer: where it is, what it submits
  queue,                       \* queue_, oldest sample first
  cpc, stopping, batch,        \* the consumer thread and its locals
  encoded,                     \* the samples of the batch the sink is writing
  flush_due,
  ingested, dropped, unknown_sensor, batches_sent, batches_failed,
  starts, submitted,           \* calls made so far (for the bounds)
  accepted, handed             \* history: samples queued, samples the sink got

mainVars == <<accepting, running, stop_requested, main, starts>>
producerVars == <<ppc, sample, ingested, dropped, unknown_sensor, submitted, accepted>>
consumerVars == <<cpc, stopping, batch, encoded, flush_due, batches_sent,
                  batches_failed, handed>>
vars == <<mutex, queue, mainVars, producerVars, consumerVars>>

Samples == 1 .. MaxSamples
NoSample == 0

MainTypeOK ==
  /\ accepting \in BOOLEAN /\ running \in BOOLEAN /\ stop_requested \in BOOLEAN
  /\ main \in {"off", "on", "refusing", "joining"}
  /\ starts \in 0 .. MaxStarts

ProducerTypeOK ==
  /\ mutex \in Producers \cup {NoOne}
  /\ ppc \in [Producers -> {"idle", "waiting", "checking", "pushing", "counting", "counting drop"}]
  /\ sample \in [Producers -> Samples \cup {NoSample}]
  /\ submitted \in 0 .. MaxSamples
  /\ ingested \in Nat /\ dropped \in Nat /\ unknown_sensor \in Nat
  /\ accepted \in Seq(Samples)

QueueTypeOK == queue \in Seq(Samples) /\ Len(queue) <= QueueCapacity

ConsumerTypeOK ==
  /\ cpc \in {"none", "top", "drain", "decide", "sink", "last sink", "done"}
  /\ stopping \in BOOLEAN /\ flush_due \in BOOLEAN
  /\ batch \in Seq(Samples) /\ Len(batch) <= BatchSize
  /\ encoded \in Seq(Samples) /\ Len(encoded) <= BatchSize
  /\ batches_sent \in Nat /\ batches_failed \in Nat
  /\ handed \in Seq(Samples)

TypeOK == MainTypeOK /\ ProducerTypeOK /\ QueueTypeOK /\ ConsumerTypeOK

Init ==
  /\ accepting = FALSE /\ mutex = NoOne
  /\ running = FALSE /\ stop_requested = FALSE
  /\ main = "off"
  /\ ppc = [p \in Producers |-> "idle"]
  /\ sample = [p \in Producers |-> NoSample]
  /\ queue = <<>>
  /\ cpc = "none" /\ stopping = FALSE /\ batch = <<>> /\ encoded = <<>>
  /\ flush_due = FALSE
  /\ ingested = 0 /\ dropped = 0 /\ unknown_sensor = 0
  /\ batches_sent = 0 /\ batches_failed = 0
  /\ starts = 0 /\ submitted = 0
  /\ accepted = <<>> /\ handed = <<>>

-----------------------------------------------------------------------------
(* Plausible mistakes: variants of the definitions below, not part of the
   specification.  Each is what some property is there to notice. *)

Skip == UNCHANGED mainVars /\ UNCHANGED consumerVars

(* The queue entered without waiting for the mutex. *)
LockWithoutWaiting(p) ==
  /\ ppc[p] = "waiting"
  /\ mutex' = p
  /\ ppc' = [ppc EXCEPT ![p] = "checking"]
  /\ UNCHANGED <<queue, sample, ingested, dropped, unknown_sensor, submitted, accepted>>
  /\ Skip

(* The mutex released before the counter is raised. *)
PushSampleReleasing(p) ==
  /\ ppc[p] = "pushing"
  /\ Len(queue) < QueueCapacity
  /\ queue' = Append(queue, sample[p])
  /\ accepted' = Append(accepted, sample[p])
  /\ ppc' = [ppc EXCEPT ![p] = "counting"]
  /\ mutex' = NoOne
  /\ UNCHANGED <<sample, ingested, dropped, unknown_sensor, submitted>>
  /\ Skip

(* The push that waits for room instead of dropping. *)
PushSampleWaiting(p) ==
  /\ ppc[p] = "pushing"
  /\ Len(queue) < QueueCapacity
  /\ queue' = Append(queue, sample[p])
  /\ accepted' = Append(accepted, sample[p])
  /\ ppc' = [ppc EXCEPT ![p] = "counting"]
  /\ UNCHANGED <<mutex, sample, ingested, dropped, unknown_sensor, submitted>>
  /\ Skip

(* accepting_ cleared without the mutex. *)
StopWithoutMutex ==
  /\ main = "on"
  /\ accepting' = FALSE
  /\ main' = "refusing"
  /\ UNCHANGED <<mutex, queue, running, stop_requested, starts>>
  /\ UNCHANGED producerVars /\ UNCHANGED consumerVars

(* The consumer joined without being asked to stop. *)
StopIngestorUnasked ==
  /\ main = "refusing"
  /\ running' = FALSE
  /\ main' = "joining"
  /\ UNCHANGED <<mutex, queue, accepting, stop_requested, starts>>
  /\ UNCHANGED producerVars /\ UNCHANGED consumerVars

(* The drain that does not look at batch_size. *)
PopSampleUnbounded ==
  /\ cpc = "drain"
  /\ queue # <<>>
  /\ batch' = Append(batch, Head(queue))
  /\ queue' = Tail(queue)
  /\ UNCHANGED <<mutex, cpc, stopping, encoded, flush_due, batches_sent,
                 batches_failed, handed>>
  /\ UNCHANGED mainVars /\ UNCHANGED producerVars

(* flush_interval ignored: only full batches are sent. *)
NeverDue == FALSE

(* batch.clear() forgotten. *)
HandBatchKeepingIt == encoded' = batch /\ UNCHANGED batch

(* The consumer that leaves with an unsent batch, and the one that always
   sends a last batch. *)
FinishDroppingRest ==
  /\ cpc = "decide"
  /\ ~(Len(batch) >= BatchSize) /\ stopping /\ queue = <<>>
  /\ cpc' = "done"
  /\ UNCHANGED <<mutex, queue, stopping, batch, encoded, flush_due, batches_sent,
                 batches_failed, handed>>
  /\ UNCHANGED mainVars /\ UNCHANGED producerVars

FinishAlwaysSending ==
  /\ cpc = "decide"
  /\ ~(Len(batch) >= BatchSize) /\ stopping /\ queue = <<>>
  /\ cpc' = "last sink" /\ encoded' = batch /\ batch' = <<>>
  /\ UNCHANGED <<mutex, queue, stopping, flush_due, batches_sent,
                 batches_failed, handed>>
  /\ UNCHANGED mainVars /\ UNCHANGED producerVars

-----------------------------------------------------------------------------
(* start() and stop(), called by one thread (main). *)

(* Under producer_mutex_, so it waits for a producer inside submit. *)
Start ==
  /\ main = "off" /\ starts < MaxStarts
  /\ mutex = NoOne
  /\ ~accepting
  /\ running' = TRUE /\ accepting' = TRUE
  /\ stop_requested' = FALSE
  /\ cpc' = "top" /\ stopping' = FALSE /\ batch' = <<>> /\ flush_due' = FALSE
  /\ main' = "on" /\ starts' = starts + 1
  /\ UNCHANGED <<mutex, queue, encoded, batches_sent, batches_failed, handed>>
  /\ UNCHANGED producerVars

(* accepting_ is cleared under producer_mutex_. *)
Stop ==
  /\ main = "on"
  /\ mutex = NoOne
  /\ accepting' = FALSE
  /\ main' = "refusing"
  /\ UNCHANGED <<mutex, queue, running, stop_requested, starts>>
  /\ UNCHANGED producerVars /\ UNCHANGED consumerVars

StopIngestor ==
  /\ main = "refusing"
  /\ running' = FALSE /\ stop_requested' = TRUE
  /\ main' = "joining"
  /\ UNCHANGED <<mutex, queue, accepting, starts>>
  /\ UNCHANGED producerVars /\ UNCHANGED consumerVars

(* The consumer is joined, then the writer closes its last segment. *)
JoinAndClose ==
  /\ main = "joining"
  /\ cpc = "done"
  /\ cpc' = "none"
  /\ main' = "off"
  /\ UNCHANGED <<mutex, queue, accepting, running, stop_requested, starts>>
  /\ UNCHANGED <<stopping, batch, encoded, flush_due, batches_sent, batches_failed, handed>>
  /\ UNCHANGED producerVars

-----------------------------------------------------------------------------
(* submit(), called by any io thread at any time. *)

Submit(p) ==
  /\ ppc[p] = "idle" /\ submitted < MaxSamples
  /\ submitted' = submitted + 1
  /\ ppc' = [ppc EXCEPT ![p] = "waiting"]
  /\ sample' = [sample EXCEPT ![p] = submitted + 1]
  /\ UNCHANGED <<mutex, queue, ingested, dropped, unknown_sensor, accepted>>
  /\ UNCHANGED mainVars /\ UNCHANGED consumerVars

(* A sensor without a tag is counted without taking the mutex. *)
SubmitUnknown(p) ==
  /\ ppc[p] = "idle" /\ submitted < MaxSamples
  /\ submitted' = submitted + 1
  /\ unknown_sensor' = unknown_sensor + 1
  /\ UNCHANGED <<mutex, queue, ppc, sample, ingested, dropped, accepted>>
  /\ UNCHANGED mainVars /\ UNCHANGED consumerVars

Lock(p) ==
  /\ ppc[p] = "waiting"
  /\ mutex = NoOne
  /\ mutex' = p
  /\ ppc' = [ppc EXCEPT ![p] = "checking"]
  /\ UNCHANGED <<queue, sample, ingested, dropped, unknown_sensor, submitted, accepted>>
  /\ UNCHANGED mainVars /\ UNCHANGED consumerVars

(* Leaving submit releases the mutex. *)
Return(p) ==
  /\ ppc' = [ppc EXCEPT ![p] = "idle"]
  /\ sample' = [sample EXCEPT ![p] = NoSample]
  /\ mutex' = NoOne

CheckAccepting(p) ==
  /\ ppc[p] = "checking"
  /\ IF accepting
       THEN ppc' = [ppc EXCEPT ![p] = "pushing"] /\ UNCHANGED <<mutex, sample>>
       ELSE Return(p)
  /\ UNCHANGED <<queue, ingested, dropped, unknown_sensor, submitted, accepted>>
  /\ UNCHANGED mainVars /\ UNCHANGED consumerVars

PushSample(p) ==
  /\ ppc[p] = "pushing"
  /\ IF Len(queue) < QueueCapacity
       THEN /\ queue' = Append(queue, sample[p])
            /\ accepted' = Append(accepted, sample[p])
            /\ ppc' = [ppc EXCEPT ![p] = "counting"]
       ELSE /\ ppc' = [ppc EXCEPT ![p] = "counting drop"]
            /\ UNCHANGED <<queue, accepted>>
  /\ UNCHANGED <<mutex, sample, ingested, dropped, unknown_sensor, submitted>>
  /\ UNCHANGED mainVars /\ UNCHANGED consumerVars

(* The counter follows the push: the sample may be on disk before it counts. *)
CountIngested(p) ==
  /\ ppc[p] = "counting"
  /\ ingested' = ingested + 1
  /\ Return(p)
  /\ UNCHANGED <<queue, dropped, unknown_sensor, submitted, accepted>>
  /\ UNCHANGED mainVars /\ UNCHANGED consumerVars

CountDropped(p) ==
  /\ ppc[p] = "counting drop"
  /\ dropped' = dropped + 1
  /\ Return(p)
  /\ UNCHANGED <<queue, ingested, unknown_sensor, submitted, accepted>>
  /\ UNCHANGED mainVars /\ UNCHANGED consumerVars

-----------------------------------------------------------------------------
(* consumer_loop(). *)

ReadStopFlag ==
  /\ cpc = "top"
  /\ stopping' = stop_requested
  /\ cpc' = "drain"
  /\ UNCHANGED <<mutex, queue, batch, encoded, flush_due, batches_sent,
                 batches_failed, handed>>
  /\ UNCHANGED mainVars /\ UNCHANGED producerVars

PopSample ==
  /\ cpc = "drain"
  /\ Len(batch) < BatchSize
  /\ queue # <<>>
  /\ batch' = Append(batch, Head(queue))
  /\ queue' = Tail(queue)
  /\ UNCHANGED <<mutex, cpc, stopping, encoded, flush_due, batches_sent,
                 batches_failed, handed>>
  /\ UNCHANGED mainVars /\ UNCHANGED producerVars

(* The drain ends with a full batch or a pop that misses. *)
EndDrain ==
  /\ cpc = "drain"
  /\ Len(batch) = BatchSize \/ queue = <<>>
  /\ cpc' = "decide"
  /\ UNCHANGED <<mutex, queue, stopping, batch, encoded, flush_due, batches_sent,
                 batches_failed, handed>>
  /\ UNCHANGED mainVars /\ UNCHANGED producerVars

Full == Len(batch) >= BatchSize
Due == batch # <<>> /\ flush_due

(* send_batch() up to the call of the sink; the batch is emptied first. *)
HandBatch == encoded' = batch /\ batch' = <<>>

SendBatch ==
  /\ cpc = "decide"
  /\ Full \/ Due
  /\ HandBatch
  /\ flush_due' = FALSE
  /\ cpc' = "sink"
  /\ UNCHANGED <<mutex, queue, stopping, batches_sent, batches_failed, handed>>
  /\ UNCHANGED mainVars /\ UNCHANGED producerVars

(* Nothing to send and no stop seen: back off.  Or a stop was seen, but a
   sample came after the pop that missed: keep draining. *)
NextRound ==
  /\ cpc = "decide"
  /\ ~Full /\ ~Due
  /\ ~stopping \/ queue # <<>>
  /\ cpc' = "top"
  /\ UNCHANGED <<mutex, queue, stopping, batch, encoded, flush_due, batches_sent,
                 batches_failed, handed>>
  /\ UNCHANGED mainVars /\ UNCHANGED producerVars

(* The stop was seen and the queue is empty: send what is left and end. *)
Finish ==
  /\ cpc = "decide"
  /\ ~Full /\ ~Due
  /\ stopping /\ queue = <<>>
  /\ IF batch = <<>>
       THEN cpc' = "done" /\ UNCHANGED <<batch, encoded>>
       ELSE cpc' = "last sink" /\ HandBatch
  /\ UNCHANGED <<mutex, queue, stopping, flush_due, batches_sent, batches_failed,
                 handed>>
  /\ UNCHANGED mainVars /\ UNCHANGED producerVars

(* The sink returns or throws; a failed batch is counted and not retried. *)
SinkAnswers ==
  /\ cpc \in {"sink", "last sink"}
  /\ \/ batches_sent' = batches_sent + 1 /\ UNCHANGED batches_failed
     \/ batches_failed' = batches_failed + 1 /\ UNCHANGED batches_sent
  /\ handed' = handed \o encoded
  /\ encoded' = <<>>
  /\ cpc' = IF cpc = "sink" THEN "top" ELSE "done"
  /\ UNCHANGED <<mutex, queue, stopping, batch, flush_due>>
  /\ UNCHANGED mainVars /\ UNCHANGED producerVars

(* The steady clock: flush_interval has elapsed since last_flush. *)
FlushIntervalElapses ==
  /\ cpc \notin {"none", "done"}
  /\ ~flush_due
  /\ flush_due' = TRUE
  /\ UNCHANGED <<mutex, queue, cpc, stopping, batch, encoded, batches_sent,
                 batches_failed, handed>>
  /\ UNCHANGED mainVars /\ UNCHANGED producerVars

-----------------------------------------------------------------------------
MainStep == Start \/ Stop \/ StopIngestor \/ JoinAndClose

InsideSubmit(p) == CheckAccepting(p) \/ PushSample(p) \/ CountIngested(p) \/ CountDropped(p)

ConsumerStep == ReadStopFlag \/ PopSample \/ EndDrain \/ SendBatch \/ NextRound \/ Finish

Next == \/ Start \/ Stop \/ StopIngestor \/ JoinAndClose
        \/ \E p \in Producers :
             \/ Submit(p) \/ SubmitUnknown(p) \/ Lock(p)
             \/ CheckAccepting(p) \/ PushSample(p) \/ CountIngested(p) \/ CountDropped(p)
        \/ ReadStopFlag \/ PopSample \/ EndDrain
        \/ SendBatch \/ NextRound \/ Finish
        \/ SinkAnswers
        \/ FlushIntervalElapses

SafeSpec == Init /\ [][Next]_vars

(* A thread inside a call runs on, and a thread waiting for the mutex is
   eventually granted it.  Nobody is obliged to submit. *)
ProducerFairness ==
  \A p \in Producers : WF_vars(InsideSubmit(p)) /\ SF_vars(Lock(p))

(* Nothing is assumed of the consumer's side: the disk may hang for ever. *)
Spec == SafeSpec /\ ProducerFairness

(* What the properties about the consumer's side assume: its thread runs, the
   clock advances, and a write to disk returns or fails ... *)
ConsumerFairness == /\ WF_vars(ConsumerStep)
                    /\ WF_vars(SinkAnswers)
                    /\ WF_vars(FlushIntervalElapses)

(* ... and main, once it has called stop(), carries it through. *)
MainFairness == WF_vars(StopIngestor \/ JoinAndClose)

-----------------------------------------------------------------------------
(* Properties. *)

(* The queue's contract: at most one thread is inside the queue's push, and
   none is once main stops the Ingestor ("submit must not be called from two
   threads at once", ingestor.hpp:34; reading_exporter.cpp:59-62). *)
OneProducer ==
  /\ \A p, q \in Producers :
       ppc[p] \notin {"idle", "waiting"} /\ ppc[q] \notin {"idle", "waiting"} => p = q
  /\ main \in {"joining", "off"} =>
       \A p \in Producers : ppc[p] \notin {"pushing", "counting", "counting drop"}

(* Every sample submit answered true for goes to the sink once and in the
   order it was queued, whatever fails and however often the exporter is
   restarted: what was accepted is what the sink got, what it is getting,
   the batch and the queue, in that order. *)
NothingLost == accepted = handed \o encoded \o batch \o queue

(* When stop() has returned the sink got everything that was accepted, the
   consumer thread is gone and nothing more is written after the segment was
   closed (reading_exporter.cpp:57-69, ingestor.cpp:122-126, 145-153). *)
StoppedIsDrained == main = "off" => cpc = "none" /\ handed = accepted

(* ReadingExporter::stats(): ingested lags the queue by the one sample whose
   push has not been counted yet, and is exact once the exporter stopped. *)
CountersFollow ==
  /\ ingested <= Len(accepted) /\ Len(accepted) <= ingested + 1
  /\ main = "off" => ingested = Len(accepted)

(* A batch that reached the sink held 1 .. batch_size samples: the encode
   buffer is sized once for batch_size (ingestor.cpp:114-117), and no empty
   batch is counted. *)
BatchesHoldSamples ==
  LET batches == batches_sent + batches_failed
  IN  /\ cpc \in {"sink", "last sink"} => Len(encoded) \in 1 .. BatchSize
      /\ batches <= Len(handed)
      /\ Len(handed) <= BatchSize * batches

(* An accepted sample does not wait for ever for its batch to fill. *)
SamplesReachSink ==
  ConsumerFairness => \A n \in Samples : Len(accepted) >= n ~> Len(handed) >= n

(* stop() returns, provided that writes to disk do. *)
StopReturns ==
  ConsumerFairness /\ MainFairness => (main = "refusing" ~> main = "off")

(* "A slow disk ... can never hold up polling" (reading_exporter.hpp): a
   submit returns even when the sink never does. *)
SubmitReturns == \A p \in Producers : ppc[p] # "idle" ~> ppc[p] = "idle"

-----------------------------------------------------------------------------
(* The inductive invariant behind the safety properties. *)

Inside(p) == ppc[p] \notin {"idle", "waiting"}
Pushing(p) == ppc[p] \in {"pushing", "counting", "counting drop"}

MutexIsHeld == \A p \in Producers : Inside(p) <=> mutex = p

SampleInHand == \A p \in Producers : ppc[p] # "idle" => sample[p] \in Samples

(* stop() clears accepting_ when nobody is inside, so that nobody is past the
   test of accepting_ from then on. *)
AcceptedWhileOn == /\ accepting => main = "on"
                   /\ \A p \in Producers : Pushing(p) => main = "on"

(* The consumer exists from start() to the end of stop(), and sees a stop only
   after one was asked for. *)
ConsumerFollowsMain == /\ cpc = "none" <=> main = "off"
                       /\ stopping => stop_requested
                       /\ stop_requested => main \in {"joining", "off"}

(* Past the last round nothing is left behind. *)
LastRoundIsLast ==
  /\ cpc \in {"last sink", "done"} => stopping
  /\ cpc \in {"last sink", "done", "none"} => queue = <<>> /\ batch = <<>>

SinkHoldsBatch == cpc \in {"sink", "last sink"} <=> encoded # <<>>

Uncounted == IF \E p \in Producers : ppc[p] = "counting" THEN 1 ELSE 0
AllButOneCounted == Len(accepted) = ingested + Uncounted

IInv == /\ TypeOK
        /\ MutexIsHeld
        /\ SampleInHand
        /\ AcceptedWhileOn
        /\ ConsumerFollowsMain
        /\ LastRoundIsLast
        /\ SinkHoldsBatch
        /\ AllButOneCounted
        /\ NothingLost
=============================================================================
