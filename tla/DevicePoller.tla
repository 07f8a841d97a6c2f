---------------------------- MODULE DevicePoller ----------------------------
(***************************************************************************)
(* DevicePoller (src/protocol/device_poller.cpp) driving its ModbusClient. *)
(* The poller has a strand of its own: the client's callbacks post their   *)
(* result to it (results), and the timer queues run_cycle on it.  stop()   *)
(* is called by main from outside any strand.                              *)
(*                                                                         *)
(* A handler that publishes to the bus is two actions: the test of         *)
(* stopped_ and what leads to finish_cycle or fail_cycle, then that        *)
(* function.  stop() can come in between.  When a timer armed by           *)
(* schedule_next expires is left open; so are the values themselves.       *)
(***************************************************************************)
EXTENDS ModbusClient

CONSTANT Blocks   \* the number of register blocks of a cycle (plan_reads)

(* A device has at least one sensor (config.cpp:296-312). *)
ASSUME BlocksAssumption == Blocks \in Nat \ {0}

VARIABLES
  started, stopped,   \* start() was called; stopped_
  cycle,              \* what starts the next cycle: "timer", or it is "queued"
  cancelling,         \* stop()'s timer_.cancel() waits to run on the strand
  block,              \* the block asked for; 0 while connecting
  values,             \* what the cycle has read, block by block
  running,            \* the second half of the handler being executed
  last_status,        \* last_status_
  heard               \* history: a frame of the device arrived in this cycle

pollerVars == <<started, stopped, cycle, cancelling, block, values, running,
                last_status, heard>>
vars == <<clientVars, pollerVars>>

(* The client's state a call or a taken result leaves alone. *)
connectionVars == <<socket, connected, op, done, deadlineVars, txVars,
                    read_buffer, deviceVars>>

BlockIndex == 1 .. Blocks
NoValues == [b \in BlockIndex |-> "none"]

TypeOK ==
  /\ ClientTypeOK
  /\ started \in BOOLEAN /\ stopped \in BOOLEAN /\ cancelling \in BOOLEAN
  /\ cycle \in {"none", "timer", "queued"}
  /\ block \in 0 .. Blocks
  /\ values \in [BlockIndex -> {"none", "fresh", "late"}]
  /\ running \in {"none", "finish", "fail"}
  /\ last_status \in {"unknown", "online", "offline"}
  /\ heard \in BOOLEAN

Init ==
  /\ ClientInit
  /\ started = FALSE /\ stopped = FALSE /\ cancelling = FALSE
  /\ cycle = "none" /\ block = 0 /\ values = NoValues
  /\ running = "none" /\ last_status = "unknown" /\ heard = FALSE

-----------------------------------------------------------------------------
(* Plausible mistakes: variants of the definitions below, not part of the
   specification.  Each is what some property is there to notice. *)

(* One block too many. *)
ReadBlockOffByOne(b) ==
  IF b > Blocks + 1
    THEN running' = "finish" /\ UNCHANGED <<calls, block>>
    ELSE block' = b /\ calls' = calls \cup {"read"} /\ UNCHANGED running

(* A failed cycle that schedules no next one. *)
FailCycleForGood ==
  /\ running = "fail"
  /\ running' = "none"
  /\ last_status' = IF connected THEN "online" ELSE "offline"
  /\ UNCHANGED <<clientVars, started, stopped, cycle, cancelling, block, values, heard>>

-----------------------------------------------------------------------------
(* Called by main. *)

Start ==
  /\ ~started /\ ~stopped
  /\ started' = TRUE
  /\ cycle' = "queued"
  /\ UNCHANGED <<clientVars, stopped, cancelling, block, values, running,
                 last_status, heard>>

(* stopped_ is set, the timer's cancellation and the client's close are
   dispatched to the two strands. *)
Stop ==
  /\ ~stopped
  /\ stopped' = TRUE
  /\ cancelling' = TRUE
  /\ calls' = calls \cup {"close"}
  /\ UNCHANGED <<connectionVars, results, started, cycle, block, values,
                 running, last_status, heard>>

-----------------------------------------------------------------------------
(* Handlers on the poller's strand. *)

(* An expired timer cannot be cancelled: its handler is queued. *)
CancelTimer ==
  /\ running = "none"
  /\ cancelling
  /\ cancelling' = FALSE
  /\ cycle' = IF cycle = "timer" THEN "none" ELSE cycle
  /\ UNCHANGED <<clientVars, started, stopped, block, values, running,
                 last_status, heard>>

(* read_block: past the last block the cycle is finished. *)
ReadBlock(b) ==
  IF b > Blocks
    THEN running' = "finish" /\ UNCHANGED <<calls, block>>
    ELSE block' = b /\ calls' = calls \cup {"read"} /\ UNCHANGED running

RunCycle ==
  /\ running = "none"
  /\ cycle = "queued"
  /\ cycle' = "none"
  /\ IF stopped
       THEN UNCHANGED <<calls, block, values, running, heard>>
       ELSE /\ values' = NoValues
            /\ heard' = FALSE
            /\ IF connected
                 THEN ReadBlock(1)
                 ELSE block' = 0 /\ calls' = calls \cup {"connect"} /\ UNCHANGED running
  /\ UNCHANGED <<connectionVars, results, started, stopped, cancelling, last_status>>

RunResult ==
  /\ running = "none"
  /\ results # <<>>
  /\ results' = Tail(results)
  /\ LET result == Head(results) IN
       CASE stopped ->
              UNCHANGED <<calls, block, values, running>>
         [] ~stopped /\ result.kind \in {"not_connected", "error"} ->
              running' = "fail" /\ UNCHANGED <<calls, block, values>>
         [] ~stopped /\ result.kind = "connected" ->
              ReadBlock(1) /\ UNCHANGED values
         [] ~stopped /\ result.kind = "registers" ->
              /\ values' = [values EXCEPT ![block] =
                              IF result.late THEN "late" ELSE "fresh"]
              /\ ReadBlock(block + 1)
  /\ UNCHANGED <<connectionVars, started, stopped, cycle, cancelling, last_status, heard>>

(* A new timer, unless stop() was called meanwhile. *)
ScheduleNext == cycle' = IF stopped THEN cycle ELSE "timer"

(* finish_cycle publishes the status and then one reading per sensor. *)
FinishCycle ==
  /\ running = "finish"
  /\ running' = "none"
  /\ last_status' = "online"
  /\ ScheduleNext
  /\ UNCHANGED <<clientVars, started, stopped, cancelling, block, values, heard>>

(* The device counts as online if it is still connected after the failure. *)
FailCycle ==
  /\ running = "fail"
  /\ running' = "none"
  /\ last_status' = IF connected THEN "online" ELSE "offline"
  /\ ScheduleNext
  /\ UNCHANGED <<clientVars, started, stopped, cancelling, block, values, heard>>

TimerExpires ==
  /\ cycle = "timer"
  /\ cycle' = "queued"
  /\ UNCHANGED <<clientVars, started, stopped, cancelling, block, values, running,
                 last_status, heard>>

-----------------------------------------------------------------------------
(* A step of the client, its timer or the network. *)
ClientStep(action) ==
  /\ action
  /\ heard' = (heard \/ (op = "body" /\ done' = "success"))
  /\ UNCHANGED <<started, stopped, cycle, cancelling, block, values, running, last_status>>

Next == \/ Start \/ Stop
        \/ CancelTimer \/ RunCycle \/ RunResult \/ FinishCycle \/ FailCycle
        \/ TimerExpires
        \/ ClientStep(Handler) \/ ClientStep(DeadlineExpires) \/ ClientStep(Network)

SafeSpec == Init /\ [][Next]_vars

(* io threads run what is ready on either strand and timers expire; the
   device may never answer, but the operating system ends the resolution of a
   name and an attempt to connect, with a result or an error of its own. *)
Fairness == /\ HandlerFairness
            /\ WF_vars(CancelTimer)
            /\ WF_vars(RunCycle)
            /\ WF_vars(RunResult)
            /\ WF_vars(FinishCycle \/ FailCycle)
            /\ WF_vars(TimerExpires)

Spec == SafeSpec /\ Fairness /\ WF_clientVars(ConnectOpCompletes)

(* A network that may stay silent for good, even while a name is resolved or a
   connection attempted; stop() is not called. *)
NextWithoutStop == Next /\ ~stopped'
SilentNetworkSpec == Init /\ [][NextWithoutStop]_vars /\ Fairness

-----------------------------------------------------------------------------
(* Properties. *)

(* Modbus TCP allows a single outstanding request: at any time the poller has
   one thing going on, a timer, a call to the client, a result to handle or a
   handler, so cycles never overlap (device_poller.hpp:20-23). *)
OneThingAtATime ==
  Cardinality(calls \cap {"connect", "read"}) + Len(results)
    + Cardinality({x \in {<<"op", op>>, <<"cycle", cycle>>, <<"running", running>>} :
                     x[2] # "none"}) <= 1

(* The readings published with one timestamp are complete and were all read
   in this cycle (device_poller.hpp:20-23). *)
ReadingsAreWhole ==
  running = "finish" => \A b \in BlockIndex : values[b] = "fresh"

(* The device is announced online only in a cycle in which it answered, and
   offline only when its connection is closed, so that the next cycle connects
   again (device_poller.cpp:109-137). *)
StatusIsEarned ==
  [][last_status' # last_status =>
       /\ last_status' = "online" => heard
       /\ last_status' = "offline" => ~connected]_vars

Quiet == /\ cycle = "none" /\ running = "none" /\ results = <<>>
         /\ op = "none" /\ calls = {}

(* After stop() the poller and its client come to rest for good. *)
StopQuiesces == stopped ~> []Quiet

(* A device that accepts connections and never answers does not stall polling:
   cycles go on until stop() (modbus_client.hpp:33-36). *)
PollingContinues == started ~> []<>(cycle = "queued" \/ stopped)
=============================================================================
