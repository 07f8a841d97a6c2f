--------------------------- MODULE AlertPipeline ---------------------------
(***************************************************************************)
(* From a reading to a message: the rule engine and the notifier as        *)
(* main.cpp wires them over the event bus.  Publishing is synchronous, so  *)
(* the thread that observes a reading carries its alerts to the notifier's *)
(* queue, after the rule engine's lock is released and while other threads *)
(* report devices and the worker delivers.                                 *)
(***************************************************************************)
EXTENDS RuleEngine, Notifier

CONSTANT Notified   \* the kinds of alert of at least min_severity

VARIABLE publishing   \* alerts of a sensor's reading still to be published

vars == <<ruleVars, notifierVars, publishing>>

ASSUME NotifiedAssumption == Notified \subseteq Kinds

TypeOK == /\ RuleTypeOK /\ NotifierTypeOK
          /\ publishing \in [Sensors -> SUBSET Kinds]

Init == /\ RuleInit /\ NotifierInit
        /\ publishing = [s \in Sensors |-> {}]

(* The reading's subscriber calls observe().  main stops the pollers before
   the notifier; what a thread still observes after that cannot be told. *)
Reading(s) ==
  /\ publishing[s] = {} /\ ~stopping
  /\ \E side \in Sides, votes \in 0 .. Detectors :
       /\ Observe(s, side, votes)
       /\ publishing' = [publishing EXCEPT ![s] = AlertsOf(s, side, votes) \cap Notified]
  /\ UNCHANGED notifierVars

(* The alert's subscriber calls on_alert(): limit alerts come first, and
   those below min_severity change nothing here. *)
Publish(s) ==
  \E k \in publishing[s] :
    /\ k = "statistical" => "limit" \notin publishing[s]
    /\ publishing' = [publishing EXCEPT ![s] = @ \ {k}]
    /\ Enqueue(Alert)
    /\ UNCHANGED <<ruleVars, stopping, deadline, notified_offline, to_enqueue, worker,
                   Delivering, reported, last_word>>

ClockTicks == ~stopping /\ TimePasses /\ UNCHANGED <<notifierVars, publishing>>

OfNotifier ==
  /\ \/ \E d \in Devices, online \in BOOLEAN : ~stopping /\ OnDeviceStatus(d, online)
     \/ \E d \in Devices : EnqueueStatus(d)
     \/ Take \/ Exit \/ Call \/ (\E a \in Answers : Answer(a))
     \/ Evaluate \/ BackoffEnds
     \/ StopRequested \/ DeadlinePasses
  /\ UNCHANGED <<ruleVars, publishing>>

Next == \/ \E s \in Sensors : Reading(s) \/ Publish(s)
        \/ ClockTicks \/ OfNotifier

(* Threads go on, a transport call returns (its timeouts), a wait ends. *)
Fairness ==
  /\ WF_vars(Worker /\ UNCHANGED <<ruleVars, publishing>>)
  /\ \A d \in Devices : WF_vars(EnqueueStatus(d) /\ UNCHANGED <<ruleVars, publishing>>)

Spec == Init /\ [][Next]_vars /\ Fairness

-----------------------------------------------------------------------------
(* Properties. *)

(* No storm: a stay beyond one limit raises at most one alert, a stay inside
   the limits none, and two alerts of one kind about a sensor are a cooldown
   apart, whatever alerts of the other kind come between (check_limits,
   run_detectors; rule_engine.hpp:45-46). *)
AlertsAreSpaced ==
  \A s \in Sensors :
    /\ excursion[s].alerts <= IF excursion[s].side = "inside" THEN 0 ELSE 1
    /\ \A k \in Kinds : told[s][k].gap = Cooldown

(* A sustained excursion produces one notification (rule_engine.hpp:45-46,
   config.hpp:50-51): a stay beyond a limit that lasts until the cooldown is
   over has been alerted.  check_limits does not do so: the first reading of
   a stay changes limit_state also when the cooldown suppresses its alert,
   and later readings of it are no news. *)
SustainedExcursionIsAlerted ==
  \A s \in Sensors : excursion[s].due => excursion[s].alerts = 1

(* A channel is tried at most MaxAttempts times, again only after an answer
   that may be retried, and given up early only past the deadline (deliver). *)
AttemptsAreJustified ==
  [][/\ Len(attempts') > Len(attempts) =>
          Len(attempts') <= MaxAttempts /\ ToSet(attempts) \subseteq {"retry"}
     /\ attempts # <<>> /\ attempts' = <<>> =>
          \/ Last(attempts) # "retry" \/ Len(attempts) = MaxAttempts
          \/ deadline = "passed"]_vars

(* The last notice about a device that any channel took becomes true of one
   that stays as it is: after the one that it is offline comes the one that
   it is back, and its failure is not missed - unless the newest notice about
   it reached nobody, dropped by the full queue or taken by no channel, or
   the engine stops (on_device_status, enqueue, run, deliver). *)
Agrees(d) == (reported[d] = "offline") <=> (last_word[d] = "offline")
LastWordIsTrue ==
  \A d \in Devices : \A now \in {"online", "offline"} :
    (reported[d] = now) ~> (Agrees(d) \/ reported[d] # now \/ lost[d] \/ stopping)
=============================================================================
