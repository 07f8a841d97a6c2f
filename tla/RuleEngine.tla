----------------------------- MODULE RuleEngine -----------------------------
(***************************************************************************)
(* RuleEngine (analytics/rule_engine.hpp): the limit check and the vote of *)
(* the detectors that every reading of a sensor goes through, each with a  *)
(* cooldown of its own.  A reading is where its value lies against the     *)
(* limits and how many detectors call it anomalous.  Instead of the time   *)
(* of the last alert of each kind its age is kept, up to the cooldown.     *)
(***************************************************************************)
EXTENDS Integers

CONSTANTS
  Sensors,
  Detectors,      \* how many strategies a sensor has
  VotesRequired,  \* votes_required, as register_sensor resolved it
  Cooldown        \* in ticks of the clock

ASSUME RuleAssumption ==
  /\ Detectors \in Nat /\ VotesRequired \in Nat \ {0} /\ Cooldown \in Nat

VARIABLES
  limit_state,             \* limit_state
  since_limit_alert,       \* age of last_limit_alert; Cooldown: none, or as old
  since_statistical_alert,
  told,                    \* history: the last alert of each kind, and how
                           \* long after the one before it came
  excursion                \* history: the present stay inside or beyond a limit

ruleVars == <<limit_state, since_limit_alert, since_statistical_alert, told,
              excursion>>

Sides == {"inside", "above", "below"}
Kinds == {"limit", "statistical"}
Ages == 0 .. Cooldown

RuleTypeOK ==
  /\ limit_state \in [Sensors -> Sides]
  /\ since_limit_alert \in [Sensors -> Ages]
  /\ since_statistical_alert \in [Sensors -> Ages]
  /\ told \in [Sensors -> [Kinds -> [age : Ages, gap : Ages]]]
  /\ excursion \in [Sensors -> [side : Sides, alerts : Nat, due : BOOLEAN]]

RuleInit ==
  /\ limit_state = [s \in Sensors |-> "inside"]
  /\ since_limit_alert = [s \in Sensors |-> Cooldown]
  /\ since_statistical_alert = [s \in Sensors |-> Cooldown]
  /\ told = [s \in Sensors |-> [k \in Kinds |-> [age |-> Cooldown, gap |-> Cooldown]]]
  /\ excursion = [s \in Sensors |-> [side |-> "inside", alerts |-> 0, due |-> FALSE]]

-----------------------------------------------------------------------------
(* Plausible mistakes, not part of the specification. *)

(* Every reading beyond a limit is news, not only the first of a stay. *)
LimitAlertAtEveryReading(s, side) ==
  side # "inside" /\ since_limit_alert[s] = Cooldown

-----------------------------------------------------------------------------
(* check_limits: edge-triggered, and quiet during the cooldown. *)
LimitAlert(s, side) ==
  side # "inside" /\ side # limit_state[s] /\ since_limit_alert[s] = Cooldown

(* run_detectors. *)
StatisticalAlert(s, votes) ==
  /\ Detectors > 0 /\ votes >= VotesRequired
  /\ since_statistical_alert[s] = Cooldown

AlertsOf(s, side, votes) ==
  {k \in Kinds : \/ k = "limit" /\ LimitAlert(s, side)
                 \/ k = "statistical" /\ StatisticalAlert(s, votes)}

(* What an observer makes of the reading and the alerts it raised.  A stay
   beyond a limit is due an alert once a reading of it finds the last limit
   alert at least a cooldown old. *)
Witness(s, side, alerts) ==
  LET before == excursion[s]
      same   == side = before.side
      limit  == IF "limit" \in alerts THEN 1 ELSE 0
  IN  /\ told' = [told EXCEPT ![s] = [k \in Kinds |->
            IF k \in alerts THEN [age |-> 0, gap |-> @[k].age] ELSE @[k]]]
      /\ excursion' = [excursion EXCEPT ![s] =
            [side   |-> side,
             alerts |-> IF same THEN before.alerts + limit ELSE limit,
             due    |-> \/ same /\ before.due
                        \/ side # "inside" /\ told[s]["limit"].age = Cooldown]]

(* observe(), up to the publishing of its alerts. *)
Observe(s, side, votes) ==
  LET alerts == AlertsOf(s, side, votes)
  IN  /\ limit_state' = [limit_state EXCEPT ![s] = side]
      /\ since_limit_alert' =
           [since_limit_alert EXCEPT ![s] = IF "limit" \in alerts THEN 0 ELSE @]
      /\ since_statistical_alert' =
           [since_statistical_alert EXCEPT ![s] =
              IF "statistical" \in alerts THEN 0 ELSE @]
      /\ Witness(s, side, alerts)

Older(age) == IF age < Cooldown THEN age + 1 ELSE age
TimePasses ==
  /\ since_limit_alert' = [s \in Sensors |-> Older(since_limit_alert[s])]
  /\ since_statistical_alert' = [s \in Sensors |-> Older(since_statistical_alert[s])]
  /\ told' = [s \in Sensors |-> [k \in Kinds |->
                [told[s][k] EXCEPT !.age = Older(@)]]]
  /\ UNCHANGED <<limit_state, excursion>>
=============================================================================
