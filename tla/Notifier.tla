------------------------------ MODULE Notifier ------------------------------
(***************************************************************************)
(* Notifier (src/notify/notifier.cpp): the bounded queue that alerts and   *)
(* status changes enter on the publishing thread, and the worker thread    *)
(* that delivers each notification to every channel, retrying, until       *)
(* stop() and its deadline.  A transport call is two steps, as it may take *)
(* long; what it answers is left open.                                     *)
(***************************************************************************)
EXTENDS Integers, SequencesExt

CONSTANTS
  Devices,
  Channels,      \* number of channels, at least one (enabled())
  MaxQueue,      \* kMaxQueue
  MaxAttempts    \* kMaxAttempts

ASSUME NotifierAssumption ==
  {Channels, MaxQueue, MaxAttempts} \subseteq Nat \ {0}

VARIABLES
  queue,               \* queue_
  stopping, deadline,  \* stopping_; drain_deadline_: "none", "ahead" or "passed"
  notified_offline,    \* notified_offline_
  to_enqueue,          \* what on_device_status has decided to enqueue
  worker,              \* where run() and deliver() are
  current, channel,    \* the notification being delivered, and the channel
  attempts,            \* history: the channel's answers for this notification
  reported,            \* history: what each device's status was last said to be
  last_word,           \* history: the last status of each a channel has taken
  lost                 \* history: the newest notice of the device reached nobody

notifierVars == <<queue, stopping, deadline, notified_offline, to_enqueue, worker,
                  current, channel, attempts, reported, last_word, lost>>

None == <<>>
Alert == [about |-> "alert", online |-> FALSE]
Notice(d, online) == [about |-> d, online |-> online]
Word(notice) == IF notice.online THEN "online" ELSE "offline"
Notices == {Notice(d, online) : d \in Devices, online \in BOOLEAN}
Notifications == {Alert} \cup Notices
Answers == {"delivered", "refused", "retry"}   \* 2xx; 4xx but 429; 0, 429 and others
AnswersOf == BoundedSeq(Answers, MaxAttempts)

NotifierTypeOK ==
  /\ queue \in Seq(Notifications) /\ Len(queue) <= MaxQueue
  /\ stopping \in BOOLEAN /\ deadline \in {"none", "ahead", "passed"}
  /\ stopping <=> (deadline # "none")
  /\ notified_offline \in [Devices -> BOOLEAN]
  /\ to_enqueue \in [Devices -> Notices \cup {None}]
  /\ worker \in {"waiting", "next", "calling", "answered", "backoff",
                "exited"}
  /\ current \in Notifications \cup {None} /\ channel \in 1 .. Channels
  /\ attempts \in AnswersOf
  /\ {reported, last_word} \subseteq [Devices -> {"unknown", "online", "offline"}]
  /\ lost \in [Devices -> BOOLEAN]

NotifierInit ==
  /\ queue = <<>> /\ stopping = FALSE /\ deadline = "none"
  /\ notified_offline = [d \in Devices |-> FALSE]
  /\ to_enqueue = [d \in Devices |-> None]
  /\ worker = "waiting" /\ current = None /\ channel = 1
  /\ attempts = <<>>
  /\ reported = [d \in Devices |-> "unknown"]
  /\ last_word = [d \in Devices |-> "unknown"]
  /\ lost = [d \in Devices |-> FALSE]

-----------------------------------------------------------------------------
(* Plausible mistakes, not part of the specification. *)

(* Room is made one notification too late. *)
MakeRoomOneLate(q) == IF Len(q) > MaxQueue THEN Tail(q) ELSE q

(* Every answer but a success is retried. *)
IsFinalOnlyWhenDelivered(answer) == answer = "delivered"

(* A device that came back is not marked, so its next failure is not news. *)
MarkStaysOffline(d, online) == [notified_offline EXCEPT ![d] = @ \/ ~online]

-----------------------------------------------------------------------------
(* The queue. *)

MakeRoom(q) == IF Len(q) >= MaxQueue THEN Tail(q) ELSE q

NoneAbout(d, notifications) ==
  \A i \in DOMAIN notifications : notifications[i].about # d

(* enqueue: nothing once stopping; the oldest makes room. *)
Enqueue(n) ==
  IF stopping THEN UNCHANGED <<queue, lost>>
  ELSE LET kept == MakeRoom(queue)
       IN  /\ queue' = Append(kept, n)
           /\ lost' = [d \in Devices |->
                IF n.about = d THEN FALSE
                ELSE \/ lost[d]
                     \/ /\ kept # queue /\ Head(queue).about = d
                        /\ NoneAbout(d, kept)]

-----------------------------------------------------------------------------
(* The publishing threads: a device's strand reports a change of status. *)

Mark(d, online) == [notified_offline EXCEPT ![d] = ~online]

(* on_device_status, under status_mutex_. *)
OnDeviceStatus(d, online) ==
  /\ to_enqueue[d] = None
  /\ reported[d] # (IF online THEN "online" ELSE "offline")
  /\ reported' = [reported EXCEPT ![d] = IF online THEN "online" ELSE "offline"]
  /\ \/ online = ~notified_offline[d] /\ UNCHANGED <<notified_offline, to_enqueue>>
     \/ /\ online = notified_offline[d]
        /\ notified_offline' = Mark(d, online)
        /\ to_enqueue' = [to_enqueue EXCEPT ![d] = Notice(d, online)]
  /\ UNCHANGED <<queue, stopping, deadline, worker, current, channel, attempts,
                 last_word, lost>>

(* ... and the rest of it, under mutex_. *)
EnqueueStatus(d) ==
  /\ to_enqueue[d] # None /\ Enqueue(to_enqueue[d])
  /\ to_enqueue' = [to_enqueue EXCEPT ![d] = None]
  /\ UNCHANGED <<stopping, deadline, notified_offline, worker, current, channel,
                 attempts, reported, last_word>>

-----------------------------------------------------------------------------
(* The worker thread. *)

Delivering == <<current, channel, attempts>>

Take ==
  /\ worker = "waiting" /\ queue # <<>> /\ deadline # "passed"
  /\ worker' = "next" /\ current' = Head(queue) /\ queue' = Tail(queue)
  /\ channel' = 1 /\ attempts' = <<>>
  /\ UNCHANGED <<stopping, deadline, notified_offline, to_enqueue, reported,
                 last_word, lost>>

Exit ==
  /\ worker = "waiting" /\ stopping /\ (queue = <<>> \/ deadline = "passed")
  /\ worker' = "exited"
  /\ UNCHANGED <<queue, stopping, deadline, notified_offline, to_enqueue, Delivering,
                 reported, last_word, lost>>

(* transport_(request) is called. *)
Call ==
  /\ worker = "next" /\ worker' = "calling"
  /\ UNCHANGED <<queue, stopping, deadline, notified_offline, to_enqueue, Delivering,
                 reported, last_word, lost>>

Answer(answer) ==
  /\ worker = "calling" /\ worker' = "answered"
  /\ attempts' = Append(attempts, answer)
  /\ UNCHANGED <<queue, stopping, deadline, notified_offline, to_enqueue, current,
                 channel, reported, last_word, lost>>

(* deliver returns, TRUE if the channel took the notification: the next
   channel, or the end. *)
ChannelDone ==
  LET ok == Last(attempts) = "delivered"
  IN  /\ attempts' = <<>>
      /\ last_word' = [d \in Devices |->
           IF ok /\ current.about = d THEN Word(current) ELSE last_word[d]]
      /\ IF channel < Channels
         THEN channel' = channel + 1 /\ worker' = "next" /\ UNCHANGED <<current, lost>>
         ELSE /\ channel' = 1 /\ worker' = "waiting" /\ current' = None
              /\ lost' = [d \in Devices |->
                   \/ lost[d]
                   \/ /\ current.about = d /\ NoneAbout(d, queue)
                      /\ last_word'[d] # Word(current)]

IsFinal(answer) == answer \in {"delivered", "refused"}

(* What deliver makes of the answer. *)
Evaluate ==
  /\ worker = "answered"
  /\ IF IsFinal(Last(attempts)) \/ Len(attempts) = MaxAttempts
     THEN ChannelDone
     ELSE worker' = "backoff" /\ UNCHANGED <<Delivering, last_word, lost>>
  /\ UNCHANGED <<queue, stopping, deadline, notified_offline, to_enqueue, reported>>

(* The wait ends: for good when the deadline has passed. *)
BackoffEnds ==
  /\ worker = "backoff"
  /\ \/ deadline = "passed" /\ ChannelDone
     \/ /\ deadline # "passed" /\ worker' = "next"
        /\ UNCHANGED <<Delivering, last_word, lost>>
  /\ UNCHANGED <<queue, stopping, deadline, notified_offline, to_enqueue, reported>>

(* stop(): main sets the flag; it returns when the worker has exited. *)
StopRequested ==
  /\ ~stopping /\ stopping' = TRUE /\ deadline' = "ahead"
  /\ UNCHANGED <<queue, notified_offline, to_enqueue, worker, Delivering,
                 reported, last_word, lost>>

DeadlinePasses ==
  /\ deadline = "ahead" /\ deadline' = "passed"
  /\ UNCHANGED <<queue, stopping, notified_offline, to_enqueue, worker, Delivering,
                 reported, last_word, lost>>

Worker == Take \/ Exit \/ Call \/ (\E a \in Answers : Answer(a)) \/ Evaluate \/ BackoffEnds
=============================================================================
