------------------------ MODULE AlertPipelineProofs ------------------------
(***************************************************************************)
(* Proofs about AlertPipeline, for any number of sensors, devices,         *)
(* detectors and channels, any cooldown, and any limits of the queue and   *)
(* of the attempts: alerts keep apart, and no attempt to deliver is made   *)
(* that deliver() has no reason for.                                       *)
(***************************************************************************)
EXTENDS AlertPipeline, FiniteSetTheorems, SequenceTheorems, TLAPS

-----------------------------------------------------------------------------
(* The inductive invariant. *)

(* What the rule engine remembers is what an observer has seen. *)
MemoryIsTrue ==
  \A s \in Sensors : /\ limit_state[s] = excursion[s].side
                     /\ told[s]["limit"].age = since_limit_alert[s]
                     /\ told[s]["statistical"].age = since_statistical_alert[s]

(* The channel's answers so far, at each place of run() and deliver(). *)
AttemptsSoFar ==
  /\ worker \in {"next", "calling", "backoff"} =>
       Len(attempts) < MaxAttempts /\ \A i \in 1 .. Len(attempts) : attempts[i] = "retry"
  /\ worker = "answered" =>
       attempts # <<>> /\ \A i \in 1 .. Len(attempts) - 1 : attempts[i] = "retry"
  /\ worker \in {"waiting", "exited"} => attempts = <<>>

IInv == /\ TypeOK
        /\ MemoryIsTrue /\ AlertsAreSpaced
        /\ AttemptsSoFar

-----------------------------------------------------------------------------
(* The rule engine's state. *)

RuleInv == RuleTypeOK /\ MemoryIsTrue /\ AlertsAreSpaced

LEMMA ObserveKeepsRuleInv ==
  ASSUME RuleInv, NEW s \in Sensors, NEW side \in Sides, NEW votes, Observe(s, side, votes)
  PROVE  RuleInv'
<1> DEFINE alerts == AlertsOf(s, side, votes)
           limit == IF "limit" \in alerts THEN 1 ELSE 0
<1> USE RuleAssumption DEF RuleInv, Ages
<1>1. /\ "limit" \in alerts <=> LimitAlert(s, side)
      /\ "statistical" \in alerts <=> StatisticalAlert(s, votes)
  BY DEF AlertsOf, Kinds
<1>2. /\ limit_state' = [limit_state EXCEPT ![s] = side]
      /\ since_limit_alert' =
           [since_limit_alert EXCEPT ![s] = IF "limit" \in alerts THEN 0 ELSE @]
      /\ since_statistical_alert' =
           [since_statistical_alert EXCEPT ![s] = IF "statistical" \in alerts THEN 0 ELSE @]
      /\ Witness(s, side, alerts)
  BY DEF Observe
<1> HIDE DEF alerts
(* An alert finds the one of its kind before it a cooldown old. *)
<1>3. \A k \in alerts \cap Kinds : told[s][k].age = Cooldown
  BY <1>1 DEF LimitAlert, StatisticalAlert, MemoryIsTrue, Kinds
<1>4. told' = [told EXCEPT ![s] = [k \in Kinds |->
                 IF k \in alerts THEN [age |-> 0, gap |-> told[s][k].age] ELSE told[s][k]]]
  BY <1>2 DEF Witness
<1>5. told[s] \in [Kinds -> [age : Ages, gap : Ages]] /\ s \in DOMAIN told
  BY DEF RuleTypeOK
<1>6. ASSUME NEW k \in Kinds
      PROVE  /\ told'[s][k] \in [age : Ages, gap : Ages]
             /\ told'[s][k].gap = Cooldown
             /\ told'[s][k].age = IF k \in alerts THEN 0 ELSE told[s][k].age
  <2>1. told'[s][k] = IF k \in alerts THEN [age |-> 0, gap |-> told[s][k].age] ELSE told[s][k]
    BY <1>4, <1>5
  <2>2. told[s][k] \in [age : Ages, gap : Ages] /\ told[s][k].gap = Cooldown
    BY <1>5 DEF AlertsAreSpaced
  <2> QED  BY <1>3, <2>1, <2>2
<1>7. \A t \in Sensors : t # s => told'[t] = told[t]
  BY <1>4 DEF RuleTypeOK
(* The sensor's stay, after the reading. *)
<1> DEFINE e == excursion[s]
           same == side = e.side
           due == \/ same /\ e.due
                  \/ side # "inside" /\ told[s]["limit"].age = Cooldown
<1>8. excursion' = [excursion EXCEPT ![s] =
        [side |-> side, alerts |-> IF same THEN e.alerts + limit ELSE limit, due |-> due]]
  BY <1>2 DEF Witness
<1>9. e \in [side : Sides, alerts : Nat, due : BOOLEAN] /\ limit_state[s] = e.side
  BY DEF RuleTypeOK, MemoryIsTrue
<1>10. /\ excursion'[s] \in [side : Sides, alerts : Nat, due : BOOLEAN]
       /\ excursion'[s].side = side
       /\ excursion'[s].alerts <= IF side = "inside" THEN 0 ELSE 1
  <2>1. due \in BOOLEAN
    BY <1>9
  <2> HIDE DEF due
  <2>2. excursion'[s] = [side |-> side, alerts |-> IF same THEN e.alerts + limit ELSE limit,
                         due |-> due]
    BY <1>8 DEF RuleTypeOK
  <2>3. CASE same
    <3>1. limit = 0
      BY <1>1, <1>9, <2>3 DEF LimitAlert
    <3>2. e.alerts <= IF e.side = "inside" THEN 0 ELSE 1
      BY DEF AlertsAreSpaced
    <3> QED  BY <1>9, <2>1, <2>2, <2>3, <3>1, <3>2
  <2>4. CASE ~same
    <3>1. side = "inside" => limit = 0
      BY <1>1 DEF LimitAlert
    <3> QED  BY <2>1, <2>2, <2>4, <3>1
  <2> QED  BY <2>3, <2>4
<1>11. \A t \in Sensors : t # s => excursion'[t] = excursion[t]
  BY <1>8 DEF RuleTypeOK
<1>12. RuleTypeOK'
  <2>1. limit_state' \in [Sensors -> Sides]
    BY <1>2 DEF RuleTypeOK
  <2>2. 0 \in Ages
    OBVIOUS
  <2>3. since_limit_alert' \in [Sensors -> Ages] /\ since_statistical_alert' \in [Sensors -> Ages]
    BY <1>2, <2>2 DEF RuleTypeOK
  <2>4. told' \in [Sensors -> [Kinds -> [age : Ages, gap : Ages]]]
    <3>1. [k \in Kinds |-> IF k \in alerts THEN [age |-> 0, gap |-> told[s][k].age]
                           ELSE told[s][k]] \in [Kinds -> [age : Ages, gap : Ages]]
      BY <1>5, <2>2
    <3> QED  BY <1>4, <3>1 DEF RuleTypeOK
  <2>5. excursion' \in [Sensors -> [side : Sides, alerts : Nat, due : BOOLEAN]]
    <3>1. excursion' = [t \in Sensors |-> excursion'[t]]
      BY <1>8 DEF RuleTypeOK
    <3>2. \A t \in Sensors : excursion'[t] \in [side : Sides, alerts : Nat, due : BOOLEAN]
      BY <1>10, <1>11 DEF RuleTypeOK
    <3> QED  BY <3>1, <3>2
  <2> QED  BY <2>1, <2>3, <2>4, <2>5 DEF RuleTypeOK
<1>13. MemoryIsTrue'
  <2> SUFFICES ASSUME NEW t \in Sensors
               PROVE  /\ limit_state'[t] = excursion'[t].side
                      /\ told'[t]["limit"].age = since_limit_alert'[t]
                      /\ told'[t]["statistical"].age = since_statistical_alert'[t]
    BY DEF MemoryIsTrue
  <2>1. CASE t = s
    <3>1. /\ limit_state'[s] = side
          /\ since_limit_alert'[s] = IF "limit" \in alerts THEN 0 ELSE since_limit_alert[s]
          /\ since_statistical_alert'[s] =
               IF "statistical" \in alerts THEN 0 ELSE since_statistical_alert[s]
      BY <1>2 DEF RuleTypeOK
    <3>2. {"limit", "statistical"} \subseteq Kinds
      BY DEF Kinds
    <3> QED  BY <1>6, <1>10, <2>1, <3>1, <3>2 DEF MemoryIsTrue
  <2>2. CASE t # s
    BY <1>2, <1>7, <1>11, <2>2 DEF MemoryIsTrue, RuleTypeOK
  <2> QED  BY <2>1, <2>2
<1>14. AlertsAreSpaced'
  BY <1>6, <1>7, <1>10, <1>11 DEF AlertsAreSpaced
<1> QED  BY <1>12, <1>13, <1>14

LEMMA TimePassesKeepsRuleInv ==
  ASSUME RuleInv, TimePasses PROVE RuleInv'
<1> USE RuleAssumption DEF RuleInv, TimePasses
<1>1. \A age \in Ages : Older(age) \in Ages
  BY DEF Ages, Older
<1>2. ASSUME NEW t \in Sensors, NEW k \in Kinds
      PROVE  /\ told[t][k] \in [age : Ages, gap : Ages]
             /\ told'[t][k] = [told[t][k] EXCEPT !.age = Older(told[t][k].age)]
  BY DEF RuleTypeOK
<1>3. told' \in [Sensors -> [Kinds -> [age : Ages, gap : Ages]]]
  <2>1. \A t \in Sensors, k \in Kinds :
          [told[t][k] EXCEPT !.age = Older(told[t][k].age)] \in [age : Ages, gap : Ages]
    BY <1>1, <1>2
  <2> QED  BY <2>1
<1>4. RuleTypeOK'
  BY <1>1, <1>3 DEF RuleTypeOK
<1>5. \A t \in Sensors, k \in Kinds :
        told'[t][k].age = Older(told[t][k].age) /\ told'[t][k].gap = told[t][k].gap
  BY <1>2
<1>6. MemoryIsTrue'
  BY <1>5 DEF MemoryIsTrue, RuleTypeOK, Kinds
<1>7. AlertsAreSpaced'
  BY <1>5 DEF AlertsAreSpaced
<1> QED  BY <1>4, <1>6, <1>7

-----------------------------------------------------------------------------
(* The queue and the answers. *)

LEMMA AnswersAreSequences ==
  /\ \A s : s \in AnswersOf <=> s \in Seq(Answers) /\ Len(s) <= MaxAttempts
  /\ <<>> \in AnswersOf /\ Len(<<>>) = 0
<1> SUFFICES ASSUME NEW s
             PROVE  /\ s \in AnswersOf <=> s \in Seq(Answers) /\ Len(s) <= MaxAttempts
                    /\ <<>> \in AnswersOf /\ Len(<<>>) = 0
  OBVIOUS
<1>1. ASSUME NEW m \in 0 .. MaxAttempts, s \in [1 .. m -> Answers]
      PROVE  s \in Seq(Answers) /\ Len(s) = m
  BY <1>1
<1>2. ASSUME s \in Seq(Answers), Len(s) <= MaxAttempts
      PROVE  Len(s) \in 0 .. MaxAttempts /\ s \in [1 .. Len(s) -> Answers]
  BY <1>2, NotifierAssumption, LenProperties
<1>3. s \in AnswersOf <=> s \in Seq(Answers) /\ Len(s) <= MaxAttempts
  BY <1>1, <1>2 DEF AnswersOf, BoundedSeq, SeqOf
<1>4. <<>> \in [1 .. 0 -> Answers] /\ 0 \in 0 .. MaxAttempts /\ Len(<<>>) = 0
  BY NotifierAssumption, EmptySeq
<1>5. <<>> \in AnswersOf
  BY <1>4 DEF AnswersOf, BoundedSeq, SeqOf
<1> QED  BY <1>3, <1>4, <1>5

QueueTypeOK == /\ queue \in Seq(Notifications) /\ Len(queue) <= MaxQueue
               /\ lost \in [Devices -> BOOLEAN]

LEMMA EnqueueKeepsType ==
  ASSUME QueueTypeOK, NEW n \in Notifications, Enqueue(n) PROVE QueueTypeOK'
<1> USE NotifierAssumption DEF QueueTypeOK
<1>1. CASE stopping
  BY <1>1 DEF Enqueue
<1>2. CASE ~stopping
  <2> DEFINE kept == MakeRoom(queue)
  <2>1. Len(queue) \in Nat
    BY LenProperties
  <2>2. kept \in Seq(Notifications) /\ Len(kept) \in Nat /\ Len(kept) < MaxQueue
    <3>1. CASE Len(queue) >= MaxQueue
      <4>1. queue # <<>>
        BY <2>1, <3>1, EmptySeq
      <4>2. Tail(queue) \in Seq(Notifications) /\ Len(Tail(queue)) = Len(queue) - 1
        BY <4>1, HeadTailProperties
      <4> QED  BY <2>1, <3>1, <4>2 DEF MakeRoom
    <3>2. CASE ~(Len(queue) >= MaxQueue)
      BY <2>1, <3>2 DEF MakeRoom
    <3> QED  BY <3>1, <3>2
  <2>3. Append(kept, n) \in Seq(Notifications) /\ Len(Append(kept, n)) = Len(kept) + 1
    BY <2>2, AppendProperties
  <2>4. queue' = Append(kept, n) /\ lost' \in [Devices -> BOOLEAN]
    BY <1>2 DEF Enqueue
  <2> QED  BY <2>2, <2>3, <2>4
<1> QED  BY <1>1, <1>2

-----------------------------------------------------------------------------
(* The notifier: types, and the worker's account of its attempts. *)

NotifierInv == NotifierTypeOK /\ AttemptsSoFar

LEMMA EnqueueKeepsNotifierInv ==
  ASSUME NotifierInv, NEW n \in Notifications, Enqueue(n),
         UNCHANGED <<stopping, deadline, notified_offline, worker, Delivering, reported, last_word>>,
         to_enqueue' \in [Devices -> Notices \cup {None}]
  PROVE  NotifierInv'
<1> USE DEF NotifierInv
<1>1. QueueTypeOK'
  BY EnqueueKeepsType DEF QueueTypeOK, NotifierTypeOK
<1>2. NotifierTypeOK'
  BY <1>1 DEF QueueTypeOK, NotifierTypeOK, Delivering
<1>3. AttemptsSoFar'
  BY DEF AttemptsSoFar, Delivering
<1> QED  BY <1>2, <1>3

(* One lemma per step of the notifier. *)

LEMMA OnDeviceStatusKeepsInv ==
  ASSUME NotifierInv, NEW d \in Devices, NEW online \in BOOLEAN, OnDeviceStatus(d, online)
  PROVE  NotifierInv'
<1> USE DEF NotifierInv, OnDeviceStatus
<1>1. /\ notified_offline' \in [Devices -> BOOLEAN]
      /\ to_enqueue' \in [Devices -> Notices \cup {None}]
  <2>1. Notice(d, online) \in Notices
    BY DEF Notices
  <2> QED  BY <2>1 DEF NotifierTypeOK, Mark
<1>2. reported' \in [Devices -> {"unknown", "online", "offline"}]
  BY DEF NotifierTypeOK
<1>3. NotifierTypeOK'
  BY <1>1, <1>2 DEF NotifierTypeOK
<1>4. AttemptsSoFar'
  BY DEF AttemptsSoFar
<1> QED  BY <1>3, <1>4

LEMMA EnqueueStatusKeepsInv ==
  ASSUME NotifierInv, NEW d \in Devices, EnqueueStatus(d) PROVE NotifierInv'
<1>1. to_enqueue[d] \in Notifications /\ to_enqueue' \in [Devices -> Notices \cup {None}]
  BY DEF NotifierInv, NotifierTypeOK, EnqueueStatus, Notifications
<1> QED  BY <1>1, EnqueueKeepsNotifierInv DEF EnqueueStatus, Delivering

LEMMA TakeKeepsInv ==
  ASSUME NotifierInv, Take PROVE NotifierInv'
<1> USE NotifierAssumption DEF NotifierInv, Take
<1>1. /\ Head(queue) \in Notifications /\ Tail(queue) \in Seq(Notifications)
      /\ Len(Tail(queue)) = Len(queue) - 1 /\ Len(queue) \in Nat
  BY HeadTailProperties DEF NotifierTypeOK
<1>2. <<>> \in AnswersOf /\ Len(<<>>) = 0
  BY AnswersAreSequences
<1>3. NotifierTypeOK'
  BY <1>1, <1>2 DEF NotifierTypeOK
<1>4. AttemptsSoFar'
  BY <1>2 DEF AttemptsSoFar
<1> QED  BY <1>3, <1>4

LEMMA ExitKeepsInv ==
  ASSUME NotifierInv, Exit PROVE NotifierInv'
<1> USE DEF NotifierInv, Exit, Delivering
<1>1. NotifierTypeOK'
  BY DEF NotifierTypeOK
<1>2. AttemptsSoFar'
  BY DEF AttemptsSoFar
<1> QED  BY <1>1, <1>2

LEMMA CallKeepsInv ==
  ASSUME NotifierInv, Call PROVE NotifierInv'
<1> USE DEF NotifierInv, Call, Delivering
<1>1. NotifierTypeOK'
  BY DEF NotifierTypeOK
<1>2. AttemptsSoFar'
  BY DEF AttemptsSoFar
<1> QED  BY <1>1, <1>2

LEMMA AnswerKeepsInv ==
  ASSUME NotifierInv, NEW a \in Answers, Answer(a) PROVE NotifierInv'
<1> USE DEF NotifierInv, Answer
<1>1. attempts \in Seq(Answers) /\ Len(attempts) \in Nat /\ Len(attempts) < MaxAttempts
  BY AnswersAreSequences, LenProperties DEF NotifierTypeOK, AttemptsSoFar
<1>2. attempts' \in Seq(Answers) /\ Len(attempts') = Len(attempts) + 1
  BY <1>1, AppendProperties
<1>3. attempts' \in AnswersOf
  <2>1. Len(attempts') <= MaxAttempts
    BY <1>1, <1>2, NotifierAssumption
  <2> HIDE DEF Answer
  <2> QED  BY <1>2, <2>1, AnswersAreSequences
<1>4. attempts' # <<>> /\ \A i \in 1 .. Len(attempts') - 1 : attempts'[i] = "retry"
  BY <1>1, <1>2, EmptySeq, AppendProperties DEF AttemptsSoFar
<1>5. NotifierTypeOK'
  BY <1>3 DEF NotifierTypeOK
<1>6. AttemptsSoFar'
  BY <1>4 DEF AttemptsSoFar
<1> QED  BY <1>5, <1>6

(* deliver() returns, after its last call or from a wait. *)
LEMMA ChannelDoneKeepsInv ==
  ASSUME NotifierInv, worker \in {"answered", "backoff"}, ChannelDone,
         UNCHANGED <<queue, stopping, deadline, notified_offline, to_enqueue, reported>>
  PROVE  NotifierInv'
<1> USE NotifierAssumption DEF NotifierInv, ChannelDone
<1>1. <<>> \in AnswersOf /\ Len(<<>>) = 0
  BY AnswersAreSequences
<1>2. channel' \in 1 .. Channels /\ worker' \in {"next", "waiting"}
      /\ current' \in Notifications \cup {None}
  BY DEF NotifierTypeOK
<1>3. /\ last_word' \in [Devices -> {"unknown", "online", "offline"}]
      /\ lost' \in [Devices -> BOOLEAN]
  BY DEF NotifierTypeOK, Word
<1>4. NotifierTypeOK'
  BY <1>1, <1>2, <1>3 DEF NotifierTypeOK
<1>5. AttemptsSoFar'
  BY <1>1, <1>2 DEF AttemptsSoFar
<1> QED  BY <1>4, <1>5

LEMMA EvaluateKeepsInv ==
  ASSUME NotifierInv, Evaluate PROVE NotifierInv'
<1>1. CASE ChannelDone
  BY <1>1, ChannelDoneKeepsInv DEF Evaluate
<1>2. CASE ~ChannelDone
  <2> USE DEF NotifierInv
  <2>1. /\ worker = "answered" /\ worker' = "backoff"
        /\ UNCHANGED <<Delivering, last_word, queue, stopping, deadline, notified_offline,
                       to_enqueue, reported, lost>>
        /\ ~IsFinal(Last(attempts)) /\ Len(attempts) # MaxAttempts
    BY <1>2 DEF Evaluate
  <2>2. NotifierTypeOK'
    BY <2>1 DEF NotifierTypeOK, Delivering
  <2>3. /\ attempts \in Seq(Answers) /\ Len(attempts) \in Nat /\ Len(attempts) # 0
        /\ Len(attempts) < MaxAttempts
    BY <2>1, NotifierAssumption, AnswersAreSequences, LenProperties, EmptySeq
       DEF NotifierTypeOK, AttemptsSoFar
  <2>4. attempts[Len(attempts)] = "retry"
    BY <2>1, <2>3, ElementOfSeq DEF IsFinal, Last, Answers
  <2>5. AttemptsSoFar'
    BY <2>1, <2>3, <2>4 DEF AttemptsSoFar, Delivering
  <2> QED  BY <2>2, <2>5
<1> QED  BY <1>1, <1>2

LEMMA BackoffEndsKeepsInv ==
  ASSUME NotifierInv, BackoffEnds PROVE NotifierInv'
<1>1. CASE ChannelDone
  BY <1>1, ChannelDoneKeepsInv DEF BackoffEnds
<1>2. CASE ~ChannelDone
  <2> USE DEF NotifierInv
  <2>1. /\ worker = "backoff" /\ worker' = "next" /\ deadline # "passed"
        /\ UNCHANGED <<Delivering, last_word, queue, stopping, deadline, notified_offline,
                       to_enqueue, reported, lost>>
    BY <1>2 DEF BackoffEnds
  <2>2. NotifierTypeOK'
    BY <2>1 DEF NotifierTypeOK, Delivering
  <2>3. AttemptsSoFar'
    BY <2>1 DEF AttemptsSoFar, Delivering
  <2> QED  BY <2>2, <2>3
<1> QED  BY <1>1, <1>2

LEMMA StopKeepsInv ==
  ASSUME NotifierInv, StopRequested \/ DeadlinePasses PROVE NotifierInv'
<1> USE DEF NotifierInv, StopRequested, DeadlinePasses, Delivering
<1>1. NotifierTypeOK'
  BY DEF NotifierTypeOK
<1>2. AttemptsSoFar'
  BY DEF AttemptsSoFar, NotifierTypeOK
<1> QED  BY <1>1, <1>2

-----------------------------------------------------------------------------
(* The composition. *)

LEMMA AlertIsNotification == Alert \in Notifications
BY DEF Notifications

(* The rule engine's state changes by its own steps, the notifier's by its. *)
LEMMA NextKeepsIInv == IInv /\ [Next]_vars => IInv'
<1> SUFFICES ASSUME IInv, [Next]_vars PROVE IInv'
  OBVIOUS
<1>1. RuleInv /\ NotifierInv /\ publishing \in [Sensors -> SUBSET Kinds]
  BY DEF IInv, TypeOK, RuleInv, NotifierInv
<1>2. UNCHANGED ruleVars => RuleInv'
  <2> SUFFICES ASSUME UNCHANGED ruleVars PROVE RuleInv'
    OBVIOUS
  <2>1. RuleTypeOK' /\ MemoryIsTrue' /\ AlertsAreSpaced'
    BY <1>1 DEF RuleInv, ruleVars, RuleTypeOK, MemoryIsTrue, AlertsAreSpaced
  <2> QED  BY <2>1 DEF RuleInv
<1>3. UNCHANGED notifierVars => NotifierInv'
  <2> SUFFICES ASSUME UNCHANGED notifierVars PROVE NotifierInv'
    OBVIOUS
  <2>1. NotifierTypeOK' /\ AttemptsSoFar'
    BY <1>1 DEF NotifierInv, notifierVars, NotifierTypeOK, AttemptsSoFar
  <2> QED  BY <2>1 DEF NotifierInv
<1>4. ASSUME NEW s \in Sensors, Reading(s)
      PROVE  RuleInv' /\ NotifierInv' /\ publishing' \in [Sensors -> SUBSET Kinds]
  <2>1. PICK side \in Sides, votes \in 0 .. Detectors :
          /\ Observe(s, side, votes)
          /\ publishing' = [publishing EXCEPT ![s] = AlertsOf(s, side, votes) \cap Notified]
    BY <1>4 DEF Reading
  <2>2. AlertsOf(s, side, votes) \cap Notified \in SUBSET Kinds
    BY DEF AlertsOf
  <2> QED  BY <1>1, <1>3, <1>4, <2>1, <2>2, ObserveKeepsRuleInv DEF Reading
<1>5. ASSUME NEW s \in Sensors, Publish(s)
      PROVE  RuleInv' /\ NotifierInv' /\ publishing' \in [Sensors -> SUBSET Kinds]
  <2>1. PICK k \in publishing[s] :
          /\ publishing' = [publishing EXCEPT ![s] = @ \ {k}]
          /\ Enqueue(Alert)
          /\ UNCHANGED <<ruleVars, stopping, deadline, notified_offline, to_enqueue, worker,
                         Delivering, reported, last_word>>
    BY <1>5 DEF Publish
  <2>2. to_enqueue' \in [Devices -> Notices \cup {None}]
    BY <1>1, <2>1 DEF NotifierInv, NotifierTypeOK
  <2>3. NotifierInv'
    BY <1>1, <2>1, <2>2, AlertIsNotification, EnqueueKeepsNotifierInv
  <2>4. publishing' \in [Sensors -> SUBSET Kinds]
    BY <1>1, <2>1
  <2> QED  BY <1>2, <2>1, <2>3, <2>4
<1>6. CASE ClockTicks
  BY <1>1, <1>3, <1>6, TimePassesKeepsRuleInv DEF ClockTicks, IInv, TypeOK, RuleInv, NotifierInv
<1>7. CASE OfNotifier
  <2>1. NotifierInv'
    BY <1>1, <1>7, OnDeviceStatusKeepsInv, EnqueueStatusKeepsInv, TakeKeepsInv, ExitKeepsInv,
       CallKeepsInv, AnswerKeepsInv, EvaluateKeepsInv, BackoffEndsKeepsInv, StopKeepsInv
       DEF OfNotifier
  <2> QED  BY <1>1, <1>2, <1>7, <2>1 DEF OfNotifier, IInv, TypeOK, RuleInv, NotifierInv
<1>8. CASE UNCHANGED vars
  BY <1>1, <1>2, <1>3, <1>8 DEF vars, IInv, TypeOK, RuleInv, NotifierInv
<1>9. ASSUME RuleInv', NotifierInv', publishing' \in [Sensors -> SUBSET Kinds] PROVE IInv'
  BY <1>9 DEF IInv, TypeOK, RuleInv, NotifierInv
<1> QED  BY <1>4, <1>5, <1>6, <1>7, <1>8, <1>9 DEF Next

LEMMA InitIInv == Init => IInv
<1> SUFFICES ASSUME Init PROVE IInv
  OBVIOUS
<1> USE NotifierAssumption DEF Init, NotifierInit
<1>1. RuleTypeOK /\ MemoryIsTrue /\ AlertsAreSpaced
  BY RuleAssumption DEF RuleInit, RuleTypeOK, MemoryIsTrue, AlertsAreSpaced, Sides, Kinds, Ages
<1>2. queue \in Seq(Notifications) /\ Len(queue) = 0 /\ attempts \in AnswersOf
  BY AnswersAreSequences, EmptySeq
<1>3. channel \in 1 .. Channels /\ Len(queue) <= MaxQueue
  BY <1>2
<1>4. NotifierTypeOK
  BY <1>2, <1>3 DEF NotifierTypeOK
<1>5. AttemptsSoFar
  BY DEF AttemptsSoFar
<1> QED  BY <1>1, <1>4, <1>5 DEF IInv, TypeOK

LEMMA InductiveInvariant == Spec => []IInv
BY InitIInv, NextKeepsIInv, PTL DEF Spec

(* Type correctness.  It is not inductive by itself: that an answer fits the
   list of attempts needs the rest. *)
THEOREM TypeCorrectness == Spec => []TypeOK
<1>1. IInv => TypeOK
  BY DEF IInv
<1> QED  BY <1>1, InductiveInvariant, PTL

(* No stay beyond a limit raises a second limit alert, however often the
   cooldown runs out while it lasts, and two alerts of a kind about a sensor
   are never closer than the cooldown, although each kind is timed by itself,
   on however many sensors and whatever the detectors say. *)
THEOREM AlertsKeepApart == Spec => []AlertsAreSpaced
<1>1. IInv => AlertsAreSpaced
  BY DEF IInv
<1> QED  BY <1>1, InductiveInvariant, PTL

(* deliver() tries a channel again only after an answer that may be retried,
   at most MaxAttempts times, and gives up only for a reason: a final answer,
   the last attempt, or stop()'s deadline. *)
THEOREM RetriesAreJustified == Spec => AttemptsAreJustified
<1>1. IInv /\ [Next]_vars =>
        [/\ Len(attempts') > Len(attempts) =>
              Len(attempts') <= MaxAttempts /\ ToSet(attempts) \subseteq {"retry"}
         /\ attempts # <<>> /\ attempts' = <<>> =>
              \/ Last(attempts) # "retry" \/ Len(attempts) = MaxAttempts
              \/ deadline = "passed"]_vars
  <2> SUFFICES ASSUME IInv, Next
               PROVE  /\ Len(attempts') > Len(attempts) =>
                           Len(attempts') <= MaxAttempts /\ ToSet(attempts) \subseteq {"retry"}
                      /\ attempts # <<>> /\ attempts' = <<>> =>
                           \/ Last(attempts) # "retry" \/ Len(attempts) = MaxAttempts
                           \/ deadline = "passed"
    OBVIOUS
  <2>1. IInv'
    BY NextKeepsIInv
  <2>2. Len(attempts') <= MaxAttempts
    BY <2>1, AnswersAreSequences DEF IInv, TypeOK, NotifierTypeOK
  <2>3. /\ attempts \in Seq(Answers) /\ Len(attempts) \in Nat
        /\ DOMAIN attempts = 1 .. Len(attempts)
    BY AnswersAreSequences, LenProperties DEF IInv, TypeOK, NotifierTypeOK
  <2>4. \/ UNCHANGED attempts
        \/ Take
        \/ \E a \in Answers : Answer(a)
        \/ Evaluate /\ ChannelDone
        \/ BackoffEnds /\ ChannelDone
    BY DEF Next, Reading, Publish, ClockTicks, OfNotifier, notifierVars, Delivering,
           OnDeviceStatus, EnqueueStatus, Exit, Call, Evaluate, BackoffEnds, StopRequested,
           DeadlinePasses
  <2>5. CASE UNCHANGED attempts
    BY <2>2, <2>3, <2>5
  <2>6. CASE Take
    BY <2>2, <2>6, EmptySeq DEF Take, IInv, AttemptsSoFar
  <2>7. CASE \E a \in Answers : Answer(a)
    <3>1. \A i \in 1 .. Len(attempts) : attempts[i] = "retry"
      BY <2>7 DEF Answer, IInv, AttemptsSoFar
    <3>2. ToSet(attempts) \subseteq {"retry"}
      BY <2>3, <3>1 DEF ToSet
    <3>3. attempts' # <<>>
      BY <2>3, <2>7, AppendProperties, EmptySeq DEF Answer
    <3> QED  BY <2>2, <3>2, <3>3
  <2>8. CASE Evaluate /\ ChannelDone
    <3>1. Last(attempts) # "retry" \/ Len(attempts) = MaxAttempts
      <4>1. IsFinal(Last(attempts)) \/ Len(attempts) = MaxAttempts
        BY <2>8 DEF Evaluate, ChannelDone
      <4> QED  BY <4>1 DEF IsFinal
    <3>2. ~(Len(attempts') > Len(attempts))
      BY <2>3, <2>8, EmptySeq DEF ChannelDone
    <3> QED  BY <2>2, <3>1, <3>2
  <2>9. CASE BackoffEnds /\ ChannelDone
    <3>1. deadline = "passed" \/ UNCHANGED attempts
      BY <2>9 DEF BackoffEnds, Delivering
    <3>2. ~(Len(attempts') > Len(attempts))
      BY <2>3, <2>9, EmptySeq DEF ChannelDone
    <3> QED  BY <2>2, <3>1, <3>2
  <2> QED  BY <2>4, <2>5, <2>6, <2>7, <2>8, <2>9
<1> QED  BY <1>1, InductiveInvariant, PTL DEF Spec, AttemptsAreJustified
=============================================================================
