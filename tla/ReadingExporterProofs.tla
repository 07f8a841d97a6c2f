----------------------- MODULE ReadingExporterProofs -----------------------
(***************************************************************************)
(* Proofs about ReadingExporter: the safety properties its runs check, for *)
(* any set of io threads, any queue capacity and batch size the code       *)
(* accepts, and any number of submissions and starts.                      *)
(***************************************************************************)
EXTENDS ReadingExporter, SequenceTheorems, TLAPS

(* A sequence is its head before its tail. *)
LEMMA HeadThenTail ==
  ASSUME NEW S, NEW q \in Seq(S), q # <<>>
  PROVE  /\ Head(q) \in S /\ Tail(q) \in Seq(S)
         /\ Len(Tail(q)) = Len(q) - 1
         /\ q = <<Head(q)>> \o Tail(q)
<1>1. Len(q) \in Nat \ {0} /\ Head(q) = q[1]
  BY EmptySeq
<1>2. SubSeq(q, 1, Len(q)) = <<q[1]>> \o SubSeq(q, 1 + 1, Len(q))
  <2>1. 1 \in 1 .. Len(q) /\ Len(q) \in 1 .. Len(q)
    BY <1>1
  <2> QED  BY <2>1, SubSeqRecursiveFirst
<1>3. SubSeq(q, 1, Len(q)) = q /\ Tail(q) = SubSeq(q, 2, Len(q))
  BY SubSeqFull, TailIsSubSeq
<1> QED  BY <1>1, <1>2, <1>3, HeadTailProperties

-----------------------------------------------------------------------------
LEMMA InitIInv == Init => IInv
<1> SUFFICES ASSUME Init PROVE IInv
  OBVIOUS
<1> USE DEF Init
<1>1. <<>> \in Seq(Samples)
  OBVIOUS
<1>2. TypeOK
  <2>1. 0 <= QueueCapacity /\ 0 <= BatchSize /\ Len(<<>>) = 0
    BY OptionsAssumption
  <2>2. 0 \in 0 .. MaxStarts /\ 0 \in 0 .. MaxSamples
    BY BoundsAssumption
  <2>3. MainTypeOK
    BY <2>2 DEF MainTypeOK
  <2>4. ProducerTypeOK
    BY <1>1, <2>2 DEF ProducerTypeOK
  <2>5. QueueTypeOK /\ ConsumerTypeOK
    BY <1>1, <2>1 DEF QueueTypeOK, ConsumerTypeOK
  <2> QED  BY <2>3, <2>4, <2>5 DEF TypeOK
<1>3. /\ MutexIsHeld /\ SampleInHand /\ AcceptedWhileOn
      /\ ConsumerFollowsMain /\ LastRoundIsLast /\ SinkHoldsBatch
  BY NoOneAssumption
     DEF MutexIsHeld, Inside, SampleInHand, AcceptedWhileOn, Pushing,
         ConsumerFollowsMain, LastRoundIsLast, SinkHoldsBatch
<1>4. AllButOneCounted
  BY DEF AllButOneCounted, Uncounted
<1>5. NothingLost
  BY <1>1, ConcatEmptySeq DEF NothingLost
<1> QED  BY <1>2, <1>3, <1>4, <1>5 DEF IInv

-----------------------------------------------------------------------------
(* main *)

LEMMA StartInv ==
  ASSUME IInv, Start
  PROVE  IInv'
<1> USE DEF IInv, Start, producerVars
<1>1. queue = <<>> /\ batch = <<>> /\ encoded = <<>>
  BY DEF ConsumerFollowsMain, LastRoundIsLast, SinkHoldsBatch
<1>2. TypeOK'
  <2>1. starts' \in 0 .. MaxStarts
    BY BoundsAssumption DEF TypeOK, MainTypeOK
  <2>2. MainTypeOK' /\ ProducerTypeOK' /\ QueueTypeOK'
    BY <2>1 DEF TypeOK, MainTypeOK, ProducerTypeOK, QueueTypeOK
  <2>3. batch' \in Seq(Samples) /\ Len(batch') <= BatchSize
    BY OptionsAssumption
  <2>4. ConsumerTypeOK'
    BY <2>3 DEF TypeOK, ConsumerTypeOK
  <2> QED  BY <2>2, <2>4 DEF TypeOK
<1>3. MutexIsHeld' /\ SampleInHand' /\ AcceptedWhileOn'
  BY DEF MutexIsHeld, Inside, SampleInHand, AcceptedWhileOn, Pushing
<1>4. ConsumerFollowsMain' /\ LastRoundIsLast' /\ SinkHoldsBatch'
  BY <1>1 DEF ConsumerFollowsMain, LastRoundIsLast, SinkHoldsBatch
<1>5. AllButOneCounted' /\ NothingLost'
  BY <1>1 DEF AllButOneCounted, Uncounted, NothingLost
<1> QED  BY <1>2, <1>3, <1>4, <1>5

LEMMA StopInv ==
  ASSUME IInv, Stop
  PROVE  IInv'
<1> USE DEF IInv, Stop, producerVars, consumerVars
<1>1. TypeOK'
  BY DEF TypeOK, MainTypeOK, ProducerTypeOK, QueueTypeOK, ConsumerTypeOK
<1>2. MutexIsHeld' /\ SampleInHand' /\ AllButOneCounted' /\ NothingLost'
  BY DEF MutexIsHeld, Inside, SampleInHand, AllButOneCounted, Uncounted, NothingLost
(* The mutex is free, so nobody is inside submit. *)
<1>3. AcceptedWhileOn'
  BY NoOneAssumption DEF MutexIsHeld, Inside, AcceptedWhileOn, Pushing
<1>4. ConsumerFollowsMain' /\ LastRoundIsLast' /\ SinkHoldsBatch'
  BY DEF ConsumerFollowsMain, LastRoundIsLast, SinkHoldsBatch
<1> QED  BY <1>1, <1>2, <1>3, <1>4

LEMMA StopIngestorInv ==
  ASSUME IInv, StopIngestor
  PROVE  IInv'
<1> USE DEF IInv, StopIngestor, producerVars, consumerVars
<1>1. TypeOK'
  BY DEF TypeOK, MainTypeOK, ProducerTypeOK, QueueTypeOK, ConsumerTypeOK
<1>2. MutexIsHeld' /\ SampleInHand' /\ AllButOneCounted' /\ NothingLost'
  BY DEF MutexIsHeld, Inside, SampleInHand, AllButOneCounted, Uncounted, NothingLost
<1>3. AcceptedWhileOn' /\ ConsumerFollowsMain' /\ LastRoundIsLast' /\ SinkHoldsBatch'
  BY DEF AcceptedWhileOn, Pushing, ConsumerFollowsMain, LastRoundIsLast, SinkHoldsBatch
<1> QED  BY <1>1, <1>2, <1>3

LEMMA JoinAndCloseInv ==
  ASSUME IInv, JoinAndClose
  PROVE  IInv'
<1> USE DEF IInv, JoinAndClose, producerVars
<1>1. TypeOK'
  BY DEF TypeOK, MainTypeOK, ProducerTypeOK, QueueTypeOK, ConsumerTypeOK
<1>2. MutexIsHeld' /\ SampleInHand' /\ AllButOneCounted' /\ NothingLost'
  BY DEF MutexIsHeld, Inside, SampleInHand, AllButOneCounted, Uncounted, NothingLost
<1>3. AcceptedWhileOn' /\ ConsumerFollowsMain' /\ LastRoundIsLast' /\ SinkHoldsBatch'
  BY DEF AcceptedWhileOn, Pushing, ConsumerFollowsMain, LastRoundIsLast, SinkHoldsBatch
<1> QED  BY <1>1, <1>2, <1>3

-----------------------------------------------------------------------------
(* io threads *)

(* What a step of submit leaves alone. *)
LEMMA ConsumerUndisturbed ==
  ASSUME IInv, UNCHANGED <<mainVars, consumerVars, queue>>
  PROVE  /\ MainTypeOK' /\ QueueTypeOK' /\ ConsumerTypeOK'
         /\ ConsumerFollowsMain' /\ LastRoundIsLast' /\ SinkHoldsBatch'
<1> USE DEF IInv, mainVars, consumerVars
<1>1. MainTypeOK' /\ QueueTypeOK' /\ ConsumerTypeOK'
  BY DEF TypeOK, MainTypeOK, QueueTypeOK, ConsumerTypeOK
<1>2. ConsumerFollowsMain' /\ LastRoundIsLast' /\ SinkHoldsBatch'
  BY DEF ConsumerFollowsMain, LastRoundIsLast, SinkHoldsBatch
<1> QED  BY <1>1, <1>2

LEMMA SubmitInv ==
  ASSUME IInv, NEW p \in Producers, Submit(p)
  PROVE  IInv'
<1>1. submitted' \in Samples /\ submitted' \in 0 .. MaxSamples
  <2>1. submitted \in 0 .. MaxSamples
    BY DEF IInv, TypeOK, ProducerTypeOK
  <2>2. submitted' = submitted + 1 /\ submitted < MaxSamples
    BY DEF Submit
  <2> QED  BY <2>1, <2>2, BoundsAssumption DEF Samples
<1> USE DEF IInv, Submit, mainVars, consumerVars
<1>2. ProducerTypeOK'
  <2>1. sample' = [sample EXCEPT ![p] = submitted']
    OBVIOUS
  <2> QED  BY <1>1, <2>1 DEF TypeOK, ProducerTypeOK
<1>3. MutexIsHeld' /\ AcceptedWhileOn'
  BY DEF TypeOK, ProducerTypeOK, MutexIsHeld, Inside, AcceptedWhileOn, Pushing
<1>4. SampleInHand'
  BY <1>1 DEF TypeOK, ProducerTypeOK, SampleInHand
<1>5. AllButOneCounted' /\ NothingLost'
  BY DEF TypeOK, ProducerTypeOK, AllButOneCounted, Uncounted, NothingLost
<1> QED  BY <1>2, <1>3, <1>4, <1>5, ConsumerUndisturbed DEF TypeOK

LEMMA SubmitUnknownInv ==
  ASSUME IInv, NEW p \in Producers, SubmitUnknown(p)
  PROVE  IInv'
<1>0. submitted' \in 0 .. MaxSamples /\ unknown_sensor' \in Nat
  <2>1. submitted \in 0 .. MaxSamples /\ unknown_sensor \in Nat
    BY DEF IInv, TypeOK, ProducerTypeOK
  <2>2. /\ submitted' = submitted + 1 /\ submitted < MaxSamples
        /\ unknown_sensor' = unknown_sensor + 1
    BY DEF SubmitUnknown
  <2> QED  BY <2>1, <2>2, BoundsAssumption
<1> USE DEF IInv, SubmitUnknown, mainVars, consumerVars
<1>1. ProducerTypeOK'
  BY <1>0 DEF TypeOK, ProducerTypeOK
<1>2. MutexIsHeld' /\ SampleInHand' /\ AcceptedWhileOn'
  BY DEF MutexIsHeld, Inside, SampleInHand, AcceptedWhileOn, Pushing
<1>3. AllButOneCounted' /\ NothingLost'
  BY DEF AllButOneCounted, Uncounted, NothingLost
<1> QED  BY <1>1, <1>2, <1>3, ConsumerUndisturbed DEF TypeOK

LEMMA LockInv ==
  ASSUME IInv, NEW p \in Producers, Lock(p)
  PROVE  IInv'
<1> USE DEF IInv, Lock, mainVars, consumerVars
<1>1. ProducerTypeOK'
  BY DEF TypeOK, ProducerTypeOK
<1>2. MutexIsHeld'
  BY NoOneAssumption DEF TypeOK, ProducerTypeOK, MutexIsHeld, Inside
<1>3. SampleInHand' /\ AcceptedWhileOn'
  BY DEF TypeOK, ProducerTypeOK, SampleInHand, AcceptedWhileOn, Pushing
<1>4. AllButOneCounted' /\ NothingLost'
  BY DEF TypeOK, ProducerTypeOK, AllButOneCounted, Uncounted, NothingLost
<1> QED  BY <1>1, <1>2, <1>3, <1>4, ConsumerUndisturbed DEF TypeOK

LEMMA CheckAcceptingInv ==
  ASSUME IInv, NEW p \in Producers, CheckAccepting(p)
  PROVE  IInv'
<1> USE DEF IInv, CheckAccepting, Return, mainVars, consumerVars
<1>1. ProducerTypeOK'
  BY DEF TypeOK, ProducerTypeOK
<1>2. MutexIsHeld'
  BY NoOneAssumption DEF TypeOK, ProducerTypeOK, MutexIsHeld, Inside
<1>3. SampleInHand' /\ AcceptedWhileOn'
  BY DEF TypeOK, ProducerTypeOK, SampleInHand, AcceptedWhileOn, Pushing
<1>4. AllButOneCounted' /\ NothingLost'
  BY DEF TypeOK, ProducerTypeOK, AllButOneCounted, Uncounted, NothingLost
<1> QED  BY <1>1, <1>2, <1>3, <1>4, ConsumerUndisturbed DEF TypeOK

(* The thread inside the queue is alone there. *)
LEMMA AloneInside ==
  ASSUME IInv, NEW p \in Producers, Inside(p), NEW q \in Producers, Inside(q)
  PROVE  p = q
  BY DEF IInv, MutexIsHeld

LEMMA PushSampleInv ==
  ASSUME IInv, NEW p \in Producers, PushSample(p)
  PROVE  IInv'
<1> DEFINE before == (handed \o encoded) \o batch
<1>0. /\ accepted = before \o queue
      /\ before \in Seq(Samples)
      /\ Len(accepted) = ingested + Uncounted /\ ingested \in Nat
  <2>1. before \in Seq(Samples)
    BY ConcatProperties DEF IInv, TypeOK, ConsumerTypeOK
  <2> QED  BY <2>1 DEF IInv, TypeOK, ProducerTypeOK, NothingLost, AllButOneCounted
<1> HIDE DEF before
<1>a. (before \o queue) \o <<sample[p]>> = before \o (queue \o <<sample[p]>>)
  <2>1. before \in Seq(Samples)
    BY <1>0
  <2>2. sample[p] \in Samples /\ queue \in Seq(Samples)
    BY DEF IInv, TypeOK, QueueTypeOK, SampleInHand, PushSample
  <2>3. <<sample[p]>> \in Seq(Samples)
    BY <2>2
  <2> QED  BY <2>1, <2>2, <2>3, ConcatAssociative
<1> USE DEF IInv, PushSample, mainVars, consumerVars
<1>1. main = "on" /\ cpc \notin {"last sink", "done", "none"}
  BY DEF AcceptedWhileOn, Pushing, ConsumerFollowsMain, LastRoundIsLast
<1>2. sample[p] \in Samples
  BY DEF SampleInHand
<1>3. accepted \in Seq(Samples) /\ queue \in Seq(Samples)
  BY DEF TypeOK, ProducerTypeOK, QueueTypeOK
<1>4. Uncounted = 0
  BY AloneInside DEF Uncounted, Inside
<1>5. MainTypeOK' /\ ConsumerTypeOK' /\ ConsumerFollowsMain' /\ SinkHoldsBatch'
      /\ LastRoundIsLast'
  BY <1>1 DEF TypeOK, MainTypeOK, ConsumerTypeOK, ConsumerFollowsMain,
              SinkHoldsBatch, LastRoundIsLast
<1>6. SampleInHand' /\ MutexIsHeld' /\ AcceptedWhileOn'
  BY <1>1 DEF TypeOK, ProducerTypeOK, SampleInHand, MutexIsHeld, Inside,
              AcceptedWhileOn, Pushing
<1>7. CASE Len(queue) < QueueCapacity
  <2>1. /\ queue' = Append(queue, sample[p])
        /\ accepted' = Append(accepted, sample[p])
        /\ ppc' = [ppc EXCEPT ![p] = "counting"]
    BY <1>7
  <2>2. /\ queue' \in Seq(Samples) /\ Len(queue') = Len(queue) + 1
        /\ accepted' \in Seq(Samples) /\ Len(accepted') = Len(accepted) + 1
    BY <1>2, <1>3, <2>1, AppendProperties
  <2>3. ProducerTypeOK' /\ QueueTypeOK'
    <3>1. Len(queue') <= QueueCapacity
      BY <1>3, <1>7, <2>2, OptionsAssumption
    <3> QED  BY <2>1, <2>2, <3>1 DEF TypeOK, ProducerTypeOK, QueueTypeOK
  <2>4. AllButOneCounted'
    <3>1. ppc'[p] = "counting"
      BY <2>1 DEF TypeOK, ProducerTypeOK
    <3>2. Uncounted' = 1
      BY <3>1 DEF Uncounted
    <3>3. Len(accepted') = ingested' + 1
      <4> HIDE DEF IInv, PushSample
      <4>1. ingested' = ingested
        BY DEF PushSample
      <4> QED  BY <1>0, <1>4, <2>2, <4>1
    <3> QED  BY <3>2, <3>3 DEF AllButOneCounted
  <2>5. NothingLost'
    <3>1. accepted' = (before \o queue) \o <<sample[p]>>
      BY <1>0, <1>2, <1>3, <2>1, AppendIsConcat
    <3>2. queue' = queue \o <<sample[p]>>
      BY <1>2, <1>3, <2>1, AppendIsConcat
    <3>3. before' = before
      BY DEF before
    <3> QED  BY <1>a, <3>1, <3>2, <3>3 DEF before, NothingLost
  <2> QED  BY <1>5, <1>6, <2>3, <2>4, <2>5 DEF TypeOK
<1>8. CASE ~(Len(queue) < QueueCapacity)
  <2>1. UNCHANGED <<queue, accepted>> /\ ppc' = [ppc EXCEPT ![p] = "counting drop"]
    BY <1>8
  <2>2. ProducerTypeOK' /\ QueueTypeOK' /\ NothingLost'
    BY <2>1 DEF TypeOK, ProducerTypeOK, QueueTypeOK, NothingLost
  <2>3. AllButOneCounted'
    BY <2>1 DEF TypeOK, ProducerTypeOK, AllButOneCounted, Uncounted
  <2> QED  BY <1>5, <1>6, <2>2, <2>3 DEF TypeOK
<1> QED  BY <1>7, <1>8

LEMMA CountIngestedInv ==
  ASSUME IInv, NEW p \in Producers, CountIngested(p)
  PROVE  IInv'
<1>0. ingested' \in Nat
  <2>1. ingested \in Nat
    BY DEF IInv, TypeOK, ProducerTypeOK
  <2>2. ingested' = ingested + 1
    BY DEF CountIngested
  <2> QED  BY <2>1, <2>2
<1> USE DEF IInv, CountIngested, Return, mainVars, consumerVars
<1>1. ProducerTypeOK'
  BY <1>0 DEF TypeOK, ProducerTypeOK
<1>2. MutexIsHeld'
  BY NoOneAssumption DEF TypeOK, ProducerTypeOK, MutexIsHeld, Inside
<1>3. SampleInHand' /\ AcceptedWhileOn' /\ NothingLost'
  BY DEF TypeOK, ProducerTypeOK, SampleInHand, AcceptedWhileOn, Pushing, NothingLost
<1>4. AllButOneCounted'
  <2>1. Uncounted = 1
    BY DEF Uncounted
  <2>2. \A q \in Producers : ppc'[q] # "counting"
    BY AloneInside DEF TypeOK, ProducerTypeOK, Inside
  <2>3. Uncounted' = 0
    BY <2>2 DEF Uncounted
  <2>4. ingested' = ingested + 1 /\ ingested \in Nat /\ accepted' = accepted
    BY DEF TypeOK, ProducerTypeOK
  <2> QED  BY <2>1, <2>3, <2>4 DEF AllButOneCounted
<1> QED  BY <1>1, <1>2, <1>3, <1>4, ConsumerUndisturbed DEF TypeOK

LEMMA CountDroppedInv ==
  ASSUME IInv, NEW p \in Producers, CountDropped(p)
  PROVE  IInv'
<1>0. dropped' \in Nat
  <2>1. dropped \in Nat
    BY DEF IInv, TypeOK, ProducerTypeOK
  <2>2. dropped' = dropped + 1
    BY DEF CountDropped
  <2> QED  BY <2>1, <2>2
<1> USE DEF IInv, CountDropped, Return, mainVars, consumerVars
<1>1. ProducerTypeOK'
  BY <1>0 DEF TypeOK, ProducerTypeOK
<1>2. MutexIsHeld'
  BY NoOneAssumption DEF TypeOK, ProducerTypeOK, MutexIsHeld, Inside
<1>3. SampleInHand' /\ AcceptedWhileOn' /\ NothingLost'
  BY DEF TypeOK, ProducerTypeOK, SampleInHand, AcceptedWhileOn, Pushing, NothingLost
<1>4. AllButOneCounted'
  BY DEF TypeOK, ProducerTypeOK, AllButOneCounted, Uncounted
<1> QED  BY <1>1, <1>2, <1>3, <1>4, ConsumerUndisturbed DEF TypeOK


-----------------------------------------------------------------------------
(* the consumer *)

(* What a step of the consumer leaves alone. *)
LEMMA ProducersUndisturbed ==
  ASSUME IInv, UNCHANGED <<mainVars, producerVars, mutex>>
  PROVE  /\ MainTypeOK' /\ ProducerTypeOK'
         /\ MutexIsHeld' /\ SampleInHand' /\ AcceptedWhileOn' /\ AllButOneCounted'
<1> USE DEF IInv, mainVars, producerVars
<1>1. MainTypeOK' /\ ProducerTypeOK'
  BY DEF TypeOK, MainTypeOK, ProducerTypeOK
<1>2. MutexIsHeld' /\ SampleInHand' /\ AcceptedWhileOn' /\ AllButOneCounted'
  BY DEF MutexIsHeld, Inside, SampleInHand, AcceptedWhileOn, Pushing,
         AllButOneCounted, Uncounted
<1> QED  BY <1>1, <1>2

LEMMA ReadStopFlagInv ==
  ASSUME IInv, ReadStopFlag
  PROVE  IInv'
<1> USE DEF IInv, ReadStopFlag
<1>1. stopping' \in BOOLEAN
  BY DEF TypeOK, MainTypeOK
<1>2. QueueTypeOK' /\ ConsumerTypeOK'
  BY <1>1 DEF TypeOK, QueueTypeOK, ConsumerTypeOK
<1>3. ConsumerFollowsMain' /\ LastRoundIsLast' /\ SinkHoldsBatch' /\ NothingLost'
  BY DEF mainVars, producerVars, ConsumerFollowsMain, LastRoundIsLast,
         SinkHoldsBatch, NothingLost
<1> QED  BY <1>2, <1>3, ProducersUndisturbed DEF TypeOK

LEMMA PopSampleInv ==
  ASSUME IInv, PopSample
  PROVE  IInv'
<1> DEFINE before == handed \o encoded
<1>1. /\ queue \in Seq(Samples) /\ queue # <<>> /\ Len(queue) <= QueueCapacity
      /\ batch \in Seq(Samples) /\ Len(batch) < BatchSize
      /\ before \in Seq(Samples)
      /\ accepted = (before \o batch) \o queue
  BY ConcatProperties DEF IInv, TypeOK, QueueTypeOK, ConsumerTypeOK, NothingLost, PopSample
<1>2. batch' = Append(batch, Head(queue)) /\ queue' = Tail(queue) /\ before' = before
  BY DEF PopSample
<1> HIDE DEF before
<1>3. /\ Head(queue) \in Samples /\ queue' \in Seq(Samples)
      /\ Len(queue') = Len(queue) - 1
      /\ queue = <<Head(queue)>> \o queue'
  BY <1>1, <1>2, HeadThenTail
<1>4. <<Head(queue)>> \in Seq(Samples)
  BY <1>3
<1>5. /\ batch' \in Seq(Samples) /\ Len(batch') = Len(batch) + 1
      /\ batch' = batch \o <<Head(queue)>>
  BY <1>1, <1>2, <1>3, AppendProperties, AppendIsConcat
<1>6. accepted = (before \o batch') \o queue'
  <2>1. (before \o batch) \o queue = before \o (batch \o queue)
    BY <1>1, ConcatAssociative
  <2>2. (batch \o <<Head(queue)>>) \o queue' = batch \o (<<Head(queue)>> \o queue')
    BY <1>1, <1>3, <1>4, ConcatAssociative
  <2>3. (before \o batch') \o queue' = before \o (batch' \o queue')
    <3>1. before \in Seq(Samples) /\ batch' \in Seq(Samples) /\ queue' \in Seq(Samples)
      BY <1>1, <1>3, <1>5
    <3> QED  BY <3>1, ConcatAssociative
  <2>4. batch' \o queue' = batch \o queue
    BY <1>3, <1>5, <2>2, Zenon
  <2> QED  BY <1>1, <2>1, <2>3, <2>4, Zenon
<1>7. Len(queue') <= QueueCapacity /\ Len(batch') <= BatchSize
  BY <1>1, <1>3, <1>5, OptionsAssumption
<1>8. QueueTypeOK' /\ ConsumerTypeOK'
  BY <1>3, <1>5, <1>7 DEF IInv, PopSample, TypeOK, QueueTypeOK, ConsumerTypeOK
<1>9. ConsumerFollowsMain' /\ LastRoundIsLast' /\ SinkHoldsBatch'
  BY DEF IInv, PopSample, mainVars, ConsumerFollowsMain, LastRoundIsLast, SinkHoldsBatch
<1>10. NothingLost'
  BY <1>2, <1>6 DEF PopSample, producerVars, before, NothingLost
<1> QED  BY <1>8, <1>9, <1>10, ProducersUndisturbed DEF IInv, PopSample, TypeOK

LEMMA EndDrainInv ==
  ASSUME IInv, EndDrain
  PROVE  IInv'
<1> USE DEF IInv, EndDrain
<1>1. QueueTypeOK' /\ ConsumerTypeOK'
  BY DEF TypeOK, QueueTypeOK, ConsumerTypeOK
<1>2. ConsumerFollowsMain' /\ LastRoundIsLast' /\ SinkHoldsBatch' /\ NothingLost'
  BY DEF mainVars, producerVars, ConsumerFollowsMain, LastRoundIsLast,
         SinkHoldsBatch, NothingLost
<1> QED  BY <1>1, <1>2, ProducersUndisturbed DEF TypeOK

(* send_batch() hands over the whole batch. *)
LEMMA HandBatchKeepsAll ==
  ASSUME IInv, HandBatch, encoded = <<>>, UNCHANGED <<accepted, handed, queue>>
  PROVE  /\ batch' \in Seq(Samples) /\ Len(batch') <= BatchSize
         /\ encoded' \in Seq(Samples) /\ Len(encoded') <= BatchSize
         /\ NothingLost'
<1>1. /\ batch \in Seq(Samples) /\ Len(batch) <= BatchSize
      /\ handed \in Seq(Samples) /\ queue \in Seq(Samples)
  BY DEF IInv, TypeOK, QueueTypeOK, ConsumerTypeOK
<1>2. 0 <= BatchSize /\ <<>> \in Seq(Samples) /\ Len(<<>>) = 0
  BY OptionsAssumption
<1>3. encoded' = batch /\ batch' = <<>>
  BY DEF HandBatch
<1>4. (handed \o <<>>) \o batch = (handed \o batch) \o <<>>
  <2>1. handed \o batch \in Seq(Samples)
    BY <1>1, ConcatProperties
  <2> QED  BY <2>1, <1>1, ConcatEmptySeq
<1>5. NothingLost'
  BY <1>3, <1>4 DEF IInv, NothingLost
<1> QED  BY <1>1, <1>2, <1>3, <1>5

LEMMA SendBatchInv ==
  ASSUME IInv, SendBatch
  PROVE  IInv'
<1>1. encoded = <<>> /\ batch # <<>>
  <2>1. encoded = <<>>
    BY DEF IInv, SinkHoldsBatch, SendBatch
  <2>2. BatchSize > 0 /\ Len(<<>>) = 0
    BY OptionsAssumption
  <2>3. Len(batch) >= BatchSize \/ batch # <<>>
    BY DEF SendBatch, Full, Due
  <2>4. batch = <<>> => ~(Len(batch) >= BatchSize)
    BY <2>2, OptionsAssumption
  <2> QED  BY <2>1, <2>3, <2>4
<1> USE DEF IInv, SendBatch
<1>2. /\ batch' \in Seq(Samples) /\ Len(batch') <= BatchSize
      /\ encoded' \in Seq(Samples) /\ Len(encoded') <= BatchSize
      /\ NothingLost'
  BY <1>1, HandBatchKeepsAll DEF producerVars
<1>3. QueueTypeOK' /\ ConsumerTypeOK'
  BY <1>2 DEF TypeOK, QueueTypeOK, ConsumerTypeOK
<1>4. ConsumerFollowsMain' /\ LastRoundIsLast'
  BY DEF mainVars, ConsumerFollowsMain, LastRoundIsLast
<1>5. SinkHoldsBatch'
  BY <1>1 DEF SinkHoldsBatch, HandBatch
<1> QED  BY <1>2, <1>3, <1>4, <1>5, ProducersUndisturbed DEF TypeOK

LEMMA NextRoundInv ==
  ASSUME IInv, NextRound
  PROVE  IInv'
<1> USE DEF IInv, NextRound
<1>1. QueueTypeOK' /\ ConsumerTypeOK'
  BY DEF TypeOK, QueueTypeOK, ConsumerTypeOK
<1>2. ConsumerFollowsMain' /\ LastRoundIsLast' /\ SinkHoldsBatch' /\ NothingLost'
  BY DEF mainVars, producerVars, ConsumerFollowsMain, LastRoundIsLast,
         SinkHoldsBatch, NothingLost
<1> QED  BY <1>1, <1>2, ProducersUndisturbed DEF TypeOK

LEMMA FinishInv ==
  ASSUME IInv, Finish
  PROVE  IInv'
<1> USE DEF IInv, Finish
<1>1. encoded = <<>> /\ stopping /\ queue = <<>>
  BY DEF SinkHoldsBatch
<1>2. QueueTypeOK' /\ ConsumerFollowsMain'
  BY DEF TypeOK, QueueTypeOK, mainVars, ConsumerFollowsMain
<1>3. CASE batch = <<>>
  <2>1. cpc' = "done" /\ UNCHANGED <<batch, encoded>>
    BY <1>3
  <2>2. ConsumerTypeOK' /\ LastRoundIsLast' /\ SinkHoldsBatch' /\ NothingLost'
    BY <1>1, <1>3, <2>1 DEF TypeOK, ConsumerTypeOK, LastRoundIsLast,
       SinkHoldsBatch, producerVars, NothingLost
  <2> QED  BY <1>2, <2>2, ProducersUndisturbed DEF TypeOK
<1>4. CASE batch # <<>>
  <2>1. cpc' = "last sink" /\ HandBatch
    BY <1>4
  <2>2. /\ batch' \in Seq(Samples) /\ Len(batch') <= BatchSize
        /\ encoded' \in Seq(Samples) /\ Len(encoded') <= BatchSize
        /\ NothingLost'
    BY <1>1, <2>1, HandBatchKeepsAll DEF producerVars
  <2>3. ConsumerTypeOK'
    BY <2>1, <2>2 DEF TypeOK, ConsumerTypeOK
  <2>4. LastRoundIsLast' /\ SinkHoldsBatch'
    BY <1>1, <1>4, <2>1 DEF LastRoundIsLast, SinkHoldsBatch, HandBatch
  <2> QED  BY <1>2, <2>2, <2>3, <2>4, ProducersUndisturbed DEF TypeOK
<1> QED  BY <1>3, <1>4

LEMMA SinkAnswersInv ==
  ASSUME IInv, SinkAnswers
  PROVE  IInv'
<1>1. /\ handed \o encoded \in Seq(Samples)
      /\ (handed \o encoded) \o <<>> = handed \o encoded
  BY ConcatProperties, ConcatEmptySeq DEF IInv, TypeOK, ConsumerTypeOK
<1>2. batches_sent' \in Nat /\ batches_failed' \in Nat
  <2>1. batches_sent \in Nat /\ batches_failed \in Nat
    BY DEF IInv, TypeOK, ConsumerTypeOK
  <2>2. /\ batches_sent' \in {batches_sent, batches_sent + 1}
        /\ batches_failed' \in {batches_failed, batches_failed + 1}
    BY DEF SinkAnswers
  <2> QED  BY <2>1, <2>2
<1>3. 0 <= BatchSize /\ <<>> \in Seq(Samples) /\ Len(<<>>) = 0
  BY OptionsAssumption
<1> USE DEF IInv, SinkAnswers
<1>4. QueueTypeOK' /\ ConsumerTypeOK'
  BY <1>1, <1>2, <1>3 DEF TypeOK, QueueTypeOK, ConsumerTypeOK
<1>5. ConsumerFollowsMain' /\ LastRoundIsLast' /\ SinkHoldsBatch'
  BY DEF mainVars, ConsumerFollowsMain, LastRoundIsLast, SinkHoldsBatch
<1>6. NothingLost'
  BY <1>1 DEF producerVars, NothingLost
<1> QED  BY <1>4, <1>5, <1>6, ProducersUndisturbed DEF TypeOK

LEMMA FlushIntervalElapsesInv ==
  ASSUME IInv, FlushIntervalElapses
  PROVE  IInv'
<1> USE DEF IInv, FlushIntervalElapses
<1>1. QueueTypeOK' /\ ConsumerTypeOK'
  BY DEF TypeOK, QueueTypeOK, ConsumerTypeOK
<1>2. ConsumerFollowsMain' /\ LastRoundIsLast' /\ SinkHoldsBatch' /\ NothingLost'
  BY DEF mainVars, producerVars, ConsumerFollowsMain, LastRoundIsLast,
         SinkHoldsBatch, NothingLost
<1> QED  BY <1>1, <1>2, ProducersUndisturbed DEF TypeOK

-----------------------------------------------------------------------------
LEMMA NextIInv == IInv /\ [Next]_vars => IInv'
<1> SUFFICES ASSUME IInv, [Next]_vars PROVE IInv'
  OBVIOUS
<1>1. CASE Start \/ Stop \/ StopIngestor \/ JoinAndClose
  BY <1>1, StartInv, StopInv, StopIngestorInv, JoinAndCloseInv
<1>2. ASSUME NEW p \in Producers,
             Submit(p) \/ SubmitUnknown(p) \/ Lock(p) \/ CheckAccepting(p)
               \/ PushSample(p) \/ CountIngested(p) \/ CountDropped(p)
      PROVE  IInv'
  BY <1>2, SubmitInv, SubmitUnknownInv, LockInv, CheckAcceptingInv,
     PushSampleInv, CountIngestedInv, CountDroppedInv
<1>3. CASE ReadStopFlag \/ PopSample \/ EndDrain \/ SendBatch \/ NextRound
             \/ Finish \/ SinkAnswers \/ FlushIntervalElapses
  BY <1>3, ReadStopFlagInv, PopSampleInv, EndDrainInv, SendBatchInv,
     NextRoundInv, FinishInv, SinkAnswersInv, FlushIntervalElapsesInv
<1>4. CASE UNCHANGED vars
  <2>1. UNCHANGED <<mainVars, producerVars, consumerVars, mutex, queue>>
    BY <1>4 DEF vars
  <2>2. NothingLost'
    BY <2>1 DEF producerVars, consumerVars, IInv, NothingLost
  <2> QED  BY <2>1, <2>2, ProducersUndisturbed, ConsumerUndisturbed DEF IInv, TypeOK
<1> QED  BY <1>1, <1>2, <1>3, <1>4 DEF Next

LEMMA SpecIInv == Spec => []IInv
  BY InitIInv, NextIInv, PTL DEF Spec, SafeSpec

(* Every reachable state of the exporter is well typed; above all, neither the
   queue nor a batch outgrows its capacity (Ingestor, ingestor.cpp:58-166). *)
THEOREM TypeCorrect == Spec => []TypeOK
<1>1. IInv => TypeOK
  BY DEF IInv
<1> QED  BY <1>1, SpecIInv, PTL

(* However many io threads call submit, at most one is inside the
   single-producer queue, and none is when the Ingestor is stopped
   (ReadingExporter::submit and stop, reading_exporter.cpp:57-90). *)
THEOREM ProducersTakeTurns == Spec => []OneProducer
<1>1. IInv => OneProducer
  <2> SUFFICES ASSUME IInv PROVE OneProducer
    OBVIOUS
  <2>1. ASSUME NEW p \in Producers, NEW q \in Producers, Inside(p), Inside(q)
        PROVE  p = q
    BY <2>1, AloneInside
  <2>2. main \in {"joining", "off"} => \A p \in Producers : ~Pushing(p)
    BY DEF IInv, AcceptedWhileOn
  <2> QED  BY <2>1, <2>2 DEF OneProducer, Inside, Pushing
<1> QED  BY <1>1, SpecIInv, PTL

(* What submit accepted is, in order, what the sink got, what it is getting,
   the batch and the queue: nothing is lost, repeated or reordered between
   them (Ingestor::submit, consumer_loop and send_batch, ingestor.cpp:86-162). *)
THEOREM NothingIsLost == Spec => []NothingLost
<1>1. IInv => NothingLost
  BY DEF IInv
<1> QED  BY <1>1, SpecIInv, PTL

(* When stop has returned, the consumer is gone and the sink was handed every
   accepted sample (ReadingExporter::stop and the end of consumer_loop,
   reading_exporter.cpp:57-69, ingestor.cpp:145-151). *)
THEOREM StopDrains == Spec => []StoppedIsDrained
<1>1. IInv => StoppedIsDrained
  <2> SUFFICES ASSUME IInv, main = "off" PROVE cpc = "none" /\ handed = accepted
    BY DEF StoppedIsDrained
  <2>1. cpc = "none" /\ queue = <<>> /\ batch = <<>> /\ encoded = <<>>
    BY DEF IInv, ConsumerFollowsMain, LastRoundIsLast, SinkHoldsBatch
  <2>2. handed \in Seq(Samples) /\ accepted = ((handed \o <<>>) \o <<>>) \o <<>>
    BY <2>1 DEF IInv, TypeOK, ConsumerTypeOK, NothingLost
  <2>3. accepted = handed
    BY <2>2, ConcatEmptySeq
  <2> QED  BY <2>1, <2>3
<1> QED  BY <1>1, SpecIInv, PTL

(* The count of ingested readings is at most one behind what was queued, and
   exact when the exporter is stopped (stats, ingestor.cpp:88-91). *)
THEOREM CountersKeepUp == Spec => []CountersFollow
<1>1. IInv => CountersFollow
  <2> SUFFICES ASSUME IInv PROVE CountersFollow
    OBVIOUS
  <2>1. ingested \in Nat /\ Len(accepted) = ingested + Uncounted
    BY DEF IInv, TypeOK, ProducerTypeOK, AllButOneCounted
  <2>2. Uncounted \in {0, 1}
    BY DEF Uncounted
  <2>3. main = "off" => Uncounted = 0
    BY DEF IInv, AcceptedWhileOn, Pushing, Uncounted
  <2>4. CASE Uncounted = 0
    BY <2>1, <2>4 DEF CountersFollow
  <2>5. CASE Uncounted = 1
    BY <2>1, <2>3, <2>5 DEF CountersFollow
  <2> QED  BY <2>2, <2>4, <2>5
<1> QED  BY <1>1, SpecIInv, PTL

-----------------------------------------------------------------------------
(* The count of batches, on top of IInv. *)

LEMMA SinkHasSamples ==
  ASSUME IInv
  PROVE  cpc \in {"sink", "last sink"} => Len(encoded) \in 1 .. BatchSize
<1>1. encoded # <<>> => Len(encoded) \in 1 .. BatchSize
  <2>1. encoded # <<>> => Len(encoded) \in Nat \ {0}
    BY EmptySeq DEF IInv, TypeOK, ConsumerTypeOK
  <2>2. Len(encoded) <= BatchSize
    BY DEF IInv, TypeOK, ConsumerTypeOK
  <2>3. BatchSize \in Nat
    BY OptionsAssumption
  <2> QED  BY <2>1, <2>2, <2>3
<1> QED  BY <1>1 DEF IInv, SinkHoldsBatch

LEMMA NextBatches ==
  ASSUME IInv, IInv', BatchesHoldSamples, [Next]_vars
  PROVE  BatchesHoldSamples'
<1>1. cpc' \in {"sink", "last sink"} => (Len(encoded) \in 1 .. BatchSize)'
  <2>1. ASSUME IInv' PROVE (cpc \in {"sink", "last sink"} => Len(encoded) \in 1 .. BatchSize)'
    BY <2>1, SinkHasSamples, PTL
  <2> QED  BY <2>1
<1>2. CASE SinkAnswers
  <2> DEFINE batches == batches_sent + batches_failed
  <2>1. batches <= Len(handed) /\ Len(handed) <= BatchSize * batches
    BY DEF BatchesHoldSamples
  <2>2. Len(encoded) \in 1 .. BatchSize
    BY <1>2, SinkHasSamples DEF SinkAnswers
  <2>3. batches_sent \in Nat /\ batches_failed \in Nat /\ batches \in Nat
    <3>1. batches_sent \in Nat /\ batches_failed \in Nat
      BY DEF IInv, TypeOK, ConsumerTypeOK
    <3> QED  BY <3>1
  <2>4. batches' = batches + 1
    <3>1. \/ batches_sent' = batches_sent + 1 /\ batches_failed' = batches_failed
          \/ batches_failed' = batches_failed + 1 /\ batches_sent' = batches_sent
      BY <1>2 DEF SinkAnswers
    <3> QED  BY <3>1, <2>3
  <2>5. Len(handed') = Len(handed) + Len(encoded) /\ Len(handed) \in Nat
    <3>1. handed \in Seq(Samples) /\ encoded \in Seq(Samples)
      BY DEF IInv, TypeOK, ConsumerTypeOK
    <3>2. handed' = handed \o encoded
      BY <1>2 DEF SinkAnswers
    <3> QED  BY <3>1, <3>2, ConcatProperties, LenProperties
  <2> HIDE DEF batches
  <2>6. BatchSize * batches' = BatchSize * batches + BatchSize /\ BatchSize \in Nat
    BY <2>3, <2>4, OptionsAssumption
  <2>7. BatchSize * batches \in Nat
    BY <2>3, <2>6
  <2>8. batches' <= Len(handed') /\ Len(handed') <= BatchSize * batches'
    BY <2>1, <2>2, <2>3, <2>4, <2>5, <2>6, <2>7
  <2> QED  BY <1>1, <2>8 DEF batches, BatchesHoldSamples
<1>3. CASE UNCHANGED <<batches_sent, batches_failed, handed>>
  BY <1>1, <1>3 DEF BatchesHoldSamples
<1> USE DEF mainVars, producerVars, consumerVars
<1>4. ASSUME Start \/ Stop \/ StopIngestor \/ JoinAndClose
      PROVE  UNCHANGED <<batches_sent, batches_failed, handed>>
  BY <1>4 DEF Start, Stop, StopIngestor, JoinAndClose
<1>5. ASSUME NEW p \in Producers,
             Submit(p) \/ SubmitUnknown(p) \/ Lock(p) \/ CheckAccepting(p)
               \/ PushSample(p) \/ CountIngested(p) \/ CountDropped(p)
      PROVE  UNCHANGED <<batches_sent, batches_failed, handed>>
  BY <1>5 DEF Submit, SubmitUnknown, Lock, CheckAccepting, PushSample,
              CountIngested, CountDropped
<1>6. ASSUME ReadStopFlag \/ PopSample \/ EndDrain \/ SendBatch \/ NextRound
               \/ Finish \/ FlushIntervalElapses
      PROVE  UNCHANGED <<batches_sent, batches_failed, handed>>
  BY <1>6 DEF ReadStopFlag, PopSample, EndDrain, SendBatch, NextRound, Finish,
              FlushIntervalElapses
<1> QED  BY <1>2, <1>3, <1>4, <1>5, <1>6 DEF Next, vars

(* Every batch the sink was called with held at least one sample and at most
   batch_size of them, for which the encode buffer was sized (consumer_loop,
   ingestor.cpp:114-143). *)
THEOREM BatchesAreBounded == Spec => []BatchesHoldSamples
<1>1. Init => BatchesHoldSamples
  <2> SUFFICES ASSUME Init PROVE BatchesHoldSamples
    OBVIOUS
  <2>1. Len(handed) = 0 /\ batches_sent + batches_failed = 0
    BY DEF Init
  <2>2. BatchSize * 0 = 0
    BY OptionsAssumption
  <2> QED  BY <2>1, <2>2 DEF Init, BatchesHoldSamples
<1>2. IInv /\ IInv' /\ BatchesHoldSamples /\ [Next]_vars => BatchesHoldSamples'
  BY NextBatches
<1> QED  BY <1>1, <1>2, SpecIInv, PTL DEF Spec, SafeSpec
=============================================================================
