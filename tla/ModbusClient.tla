---------------------------- MODULE ModbusClient ----------------------------
(***************************************************************************)
(* ModbusClient (src/protocol/modbus_client.cpp): the asynchronous client  *)
(* of one device.  DevicePoller, its caller, completes the specification.  *)
(*                                                                         *)
(* Everything the client does runs as a handler on its strand, one at a    *)
(* time, so an action is a handler.  What interleaves is what makes the    *)
(* handlers ready: public methods dispatched from other threads (calls),   *)
(* the completion of the one I/O operation in flight (op, done), and the   *)
(* deadline, whose handler may already be queued when it is disarmed       *)
(* (expired).  Handlers that are ready run in any order: io threads race   *)
(* to put them on the strand.  A callback runs on the strand and hands its *)
(* argument to the caller, who takes it from results later.                *)
(*                                                                         *)
(* The deadline's generation matters only in "is it the current one?", so  *)
(* a queued expiry is "current" until the deadline is armed or disarmed    *)
(* again and "stale" from then on.  The wording of errors, and timed_out_, *)
(* which only words them, are left out.                                    *)
(***************************************************************************)
EXTENDS Naturals, Sequences, FiniteSets

CONSTANTS TxModulus,      \* transaction ids are counted modulo this (2^16)
          CancelOutcomes, \* what cancelling does to a lookup under way: "error"
                          \* ends it, "no" lets it run on to its result
          MaxStream       \* bound: frames of the device waiting to be read

(* The device model below answers the last request or the one before it. *)
ASSUME TxAssumption == TxModulus \in Nat /\ TxModulus >= 3
ASSUME CancelAssumption == CancelOutcomes \subseteq {"no", "error"} /\ CancelOutcomes # {}
ASSUME StreamAssumption == MaxStream \in Nat \ {0}

VARIABLES
  socket,               \* "closed" or "open" (being connected included)
  connected,            \* connected_
  op, done,             \* the operation in flight; how it completed, if it has
  deadline, expired,    \* is the timer running; expiries queued on the strand
  next_transaction_id,
  transaction_id,       \* of the request in flight
  calls,                \* methods called and not yet run on the strand
  results,              \* arguments of callbacks not yet taken by the caller
  read_buffer,          \* the frame whose header was read last
  received, stream      \* device: requests it knows, frames it has sent

deadlineVars == <<deadline, expired>>
deviceVars == <<received, stream>>
txVars == <<next_transaction_id, transaction_id>>
clientVars == <<socket, connected, op, done, deadlineVars, txVars,
                calls, results, read_buffer, deviceVars>>

TxIds == 0 .. TxModulus - 1

(* What a device may send: the registers asked for, fewer of them, a Modbus
   exception, a frame decode_response refuses, or a header whose length field
   no Modbus frame can have. *)
FrameKinds == {"registers", "short", "exception", "undecodable", "malformed"}
(* late: the frame answers a request older than the last one sent. *)
Frame == [transaction_id : TxIds, late : BOOLEAN, kind : FrameKinds]
Request == [transaction_id : TxIds, late : BOOLEAN]

Connected == [kind |-> "connected", late |-> FALSE]
NotConnected == [kind |-> "not_connected", late |-> FALSE]
ModbusError == [kind |-> "error", late |-> FALSE]
Registers(frame) == [kind |-> "registers", late |-> frame.late]
Result == {Connected, NotConnected, ModbusError}
            \cup [kind : {"registers"}, late : BOOLEAN]

ConnectOps == {"resolving", "connecting"}
RequestOps == {"writing", "header", "body"}

ClientTypeOK ==
  /\ socket \in {"closed", "open"} /\ connected \in BOOLEAN
  /\ op \in ConnectOps \cup RequestOps \cup {"none"}
  /\ done \in {"no", "success", "error"}
  /\ op = "none" => done = "no"
  /\ deadline \in {"off", "armed"} /\ expired \subseteq {"current", "stale"}
  /\ next_transaction_id \in TxIds /\ transaction_id \in TxIds
  /\ calls \subseteq {"connect", "read", "close"}
  /\ results \in Seq(Result)
  /\ read_buffer \in Frame
  /\ received \subseteq Request
  /\ stream \in Seq(Frame) /\ Len(stream) <= MaxStream

ClientInit ==
  /\ socket = "closed" /\ connected = FALSE
  /\ op = "none" /\ done = "no"
  /\ deadline = "off" /\ expired = {}
  /\ next_transaction_id = 1 /\ transaction_id = 0
  /\ calls = {} /\ results = <<>>
  /\ read_buffer = [transaction_id |-> 0, late |-> FALSE, kind |-> "undecodable"]
  /\ received = {} /\ stream = <<>>

-----------------------------------------------------------------------------
(* Pieces of handlers. *)

(* Arming or disarming raises the generation: queued expiries become stale.
   A wait that has not expired yet is cancelled. *)
Outdate == expired' = IF expired = {} THEN {} ELSE {"stale"}
ArmDeadline == deadline' = "armed" /\ Outdate
DisarmDeadline == deadline' = "off" /\ Outdate

(* Closing fails the operation in flight on the socket unless its completion
   is queued already, and the peer sees the connection end.  A resolve is not
   on the socket. *)
CloseSocketDuring(o, d) ==
  /\ socket' = "closed" /\ connected' = FALSE
  /\ received' = {} /\ stream' = <<>>
  /\ op' = o
  /\ done' = IF o \in RequestOps \cup {"connecting"} /\ d = "no" THEN "error" ELSE d

CloseSocket == CloseSocketDuring("none", "no")

(* How the operation in flight stands after resolver_.cancel(). *)
CancelledResolve == IF op = "resolving" /\ done = "no" THEN CancelOutcomes ELSE {done}

(* The operation in flight is over and its callback has run. *)
Callback(result) == results' = Append(results, result)

(* A socket operation begins; on a closed socket it fails at once. *)
Begin(o) == op' = o /\ done' = IF socket = "open" THEN "no" ELSE "error"

-----------------------------------------------------------------------------
(* Plausible mistakes: variants of the definitions below, not part of the
   specification.  Each is what some property is there to notice. *)

(* An answer taken without looking at its transaction id. *)
InStepAnyAnswer == done = "success" /\ read_buffer.kind # "undecodable"

(* A failed request after which the connection is kept. *)
GiveUpKeepingSocket ==
  /\ DisarmDeadline
  /\ op' = "none" /\ done' = "no"
  /\ Callback(ModbusError)
  /\ UNCHANGED <<socket, connected, deviceVars>>

(* The deadline's handler without the test of the generation, and the one
   that answers the caller itself. *)
RunDeadlineAnyGeneration ==
  \E age \in expired :
    /\ expired' = expired \ {age}
    /\ \E d \in CancelledResolve : CloseSocketDuring(op, d)
    /\ UNCHANGED <<deadline, txVars, calls, results, read_buffer>>

RunDeadlineAnswering ==
  \E age \in expired :
    /\ expired' = expired \ {age}
    /\ IF age = "current"
         THEN CloseSocketDuring(op, done) /\ Callback(ModbusError)
         ELSE UNCHANGED <<socket, connected, op, done, deviceVars, results>>
    /\ UNCHANGED <<deadline, txVars, calls, read_buffer>>

(* The request sent without a deadline. *)
SendRequestUnbounded ==
  /\ IF connected
       THEN Begin("writing") /\ UNCHANGED results
       ELSE Callback(ModbusError) /\ UNCHANGED <<op, done>>
  /\ UNCHANGED deadlineVars

(* close() that only disarms the deadline. *)
RunCloseKeepingSocket ==
  /\ "close" \in calls
  /\ calls' = calls \ {"close"}
  /\ DisarmDeadline
  /\ UNCHANGED <<socket, connected, op, done, deviceVars, txVars, results, read_buffer>>

-----------------------------------------------------------------------------
(* Handlers on the strand: the public methods. *)

RunConnect ==
  /\ "connect" \in calls
  /\ calls' = calls \ {"connect"}
  /\ CloseSocketDuring("resolving", "no")
  /\ ArmDeadline
  /\ UNCHANGED <<txVars, results, read_buffer>>

(* send_request. *)
SendRequest ==
  IF connected
  THEN ArmDeadline /\ Begin("writing") /\ UNCHANGED results
  ELSE Callback(ModbusError) /\ UNCHANGED <<op, done, deadlineVars>>

(* read_registers. *)
RunRead ==
  /\ "read" \in calls
  /\ calls' = calls \ {"read"}
  /\ next_transaction_id' = (next_transaction_id + 1) % TxModulus
  /\ transaction_id' = next_transaction_id
  /\ SendRequest
  /\ UNCHANGED <<socket, connected, read_buffer, deviceVars>>

RunClose ==
  /\ "close" \in calls
  /\ calls' = calls \ {"close"}
  /\ DisarmDeadline
  /\ CloseSocketDuring(op, done)
  /\ UNCHANGED <<txVars, results, read_buffer>>

-----------------------------------------------------------------------------
(* Handlers on the strand: the deadline and the completions. *)

(* Only the current generation acts: it cancels the resolve, or closes the
   socket under the other operations. *)
RunDeadline ==
  \E age \in expired :
    /\ expired' = expired \ {age}
    /\ IF age = "current"
         THEN \E d \in CancelledResolve : CloseSocketDuring(op, d)
         ELSE UNCHANGED <<socket, connected, op, done, deviceVars>>
    /\ UNCHANGED <<deadline, txVars, calls, results, read_buffer>>

(* The connection attempt opens the socket afresh; the deadline armed by
   connect is the one that is to bound it. *)
RunResolved ==
  /\ op = "resolving" /\ done # "no"
  /\ IF done = "error"
       THEN /\ DisarmDeadline
            /\ Callback(NotConnected)
            /\ op' = "none" /\ done' = "no"
            /\ UNCHANGED <<socket, connected, deviceVars>>
       ELSE /\ op' = "connecting" /\ done' = "no" /\ socket' = "open"
            /\ UNCHANGED <<connected, deadlineVars, results, deviceVars>>
  /\ UNCHANGED <<txVars, calls, read_buffer>>

RunConnected ==
  /\ op = "connecting" /\ done # "no"
  /\ DisarmDeadline
  /\ IF done = "error"
       THEN CloseSocket /\ Callback(NotConnected)
       ELSE /\ connected' = TRUE
            /\ op' = "none" /\ done' = "no"
            /\ Callback(Connected)
            /\ UNCHANGED <<socket, deviceVars>>
  /\ UNCHANGED <<txVars, calls, read_buffer>>

(* The request fails: the connection is given up with it. *)
GiveUp == DisarmDeadline /\ CloseSocket /\ Callback(ModbusError)

RunWritten ==
  /\ op = "writing" /\ done # "no"
  /\ IF done = "error"
       THEN GiveUp
       ELSE /\ Begin("header")
            /\ UNCHANGED <<socket, connected, deadlineVars, results, deviceVars>>
  /\ UNCHANGED <<txVars, calls, read_buffer>>

RunHeader ==
  /\ op = "header" /\ done # "no"
  /\ IF done = "error" \/ read_buffer.kind = "malformed"
       THEN GiveUp
       ELSE /\ Begin("body")
            /\ UNCHANGED <<socket, connected, deadlineVars, results, deviceVars>>
  /\ UNCHANGED <<txVars, calls, read_buffer>>

(* An exception or a short response leaves the stream in step, so the
   connection is kept; any other failure gives it up. *)
InStep == /\ done = "success"
          /\ read_buffer.kind # "undecodable"
          /\ read_buffer.transaction_id = transaction_id

RunBody ==
  /\ op = "body" /\ done # "no"
  /\ IF ~InStep
       THEN GiveUp
       ELSE /\ DisarmDeadline
            /\ op' = "none" /\ done' = "no"
            /\ Callback(IF read_buffer.kind = "registers"
                          THEN Registers(read_buffer) ELSE ModbusError)
            /\ UNCHANGED <<socket, connected, deviceVars>>
  /\ UNCHANGED <<txVars, calls, read_buffer>>

-----------------------------------------------------------------------------
(* The timer, the operating system and the device. *)

DeadlineExpires ==
  /\ deadline = "armed"
  /\ deadline' = "off"
  /\ expired' = expired \cup {"current"}
  /\ UNCHANGED <<socket, connected, op, done, txVars, calls, results, read_buffer,
                 deviceVars>>

Unchanged == UNCHANGED <<socket, connected, op, deadlineVars, txVars, calls, results>>

(* The name is resolved, the peer accepts, or either fails. *)
ConnectOpCompletes ==
  /\ op \in ConnectOps /\ done = "no"
  /\ done' \in {"success", "error"}
  /\ UNCHANGED <<read_buffer, deviceVars>>
  /\ Unchanged

(* The connection breaks under a write or a read. *)
ConnectionBreaks ==
  /\ op \in RequestOps /\ done = "no"
  /\ done' = "error"
  /\ UNCHANGED <<read_buffer, deviceVars>>
  /\ Unchanged

(* The request is sent: whatever the device sent before is late now, and so is
   what it may still send for the request before. *)
RequestIsWritten ==
  /\ op = "writing" /\ done = "no"
  /\ done' = "success"
  /\ received' = {[transaction_id |-> transaction_id, late |-> FALSE]}
                   \cup {[r EXCEPT !.late = TRUE] : r \in {q \in received : ~q.late}}
  /\ stream' = [i \in DOMAIN stream |-> [stream[i] EXCEPT !.late = TRUE]]
  /\ UNCHANGED read_buffer
  /\ Unchanged

(* The device answers at any time, in any way, and perhaps twice. *)
DeviceAnswers ==
  /\ Len(stream) < MaxStream
  /\ \E r \in received, kind \in FrameKinds :
       stream' = Append(stream, [transaction_id |-> r.transaction_id,
                                 late |-> r.late, kind |-> kind])
  /\ UNCHANGED <<done, read_buffer, received>>
  /\ Unchanged

HeaderArrives ==
  /\ op = "header" /\ done = "no" /\ stream # <<>>
  /\ done' = "success"
  /\ read_buffer' = Head(stream)
  /\ stream' = Tail(stream)
  /\ UNCHANGED received
  /\ Unchanged

BodyArrives ==
  /\ op = "body" /\ done = "no"
  /\ done' = "success"
  /\ UNCHANGED <<read_buffer, deviceVars>>
  /\ Unchanged

Network == \/ ConnectOpCompletes \/ ConnectionBreaks \/ RequestIsWritten
           \/ DeviceAnswers \/ HeaderArrives \/ BodyArrives

Handler == \/ RunConnect \/ RunRead \/ RunClose
           \/ RunDeadline
           \/ RunResolved \/ RunConnected
           \/ RunWritten \/ RunHeader \/ RunBody

(* io threads run what is ready, and the timer expires.  Nothing obliges the
   network or the device to answer. *)
HandlerFairness ==
  /\ WF_clientVars(RunConnect) /\ WF_clientVars(RunRead) /\ WF_clientVars(RunClose)
  /\ WF_clientVars(RunDeadline)
  /\ WF_clientVars(RunResolved) /\ WF_clientVars(RunConnected)
  /\ WF_clientVars(RunWritten) /\ WF_clientVars(RunHeader) /\ WF_clientVars(RunBody)
  /\ WF_clientVars(DeadlineExpires)

-----------------------------------------------------------------------------
(* Properties. *)

(* "A cancelled wait, or one that expired at the same moment the operation
   completed ... must not touch the connection" (modbus_client.cpp:40-42): an
   idle connection ends only by a call. *)
IdleConnectionIsKept ==
  [][connected /\ op = "none" /\ ~connected' => calls' # calls]_clientVars

(* "Every connect and request is bounded by a timeout" (modbus_client.hpp:33):
   a request ends, and the caller is told, even when nothing ever answers. *)
RequestIsBounded == op \in RequestOps ~> op = "none"

(* The same for connect. *)
ConnectIsBounded == op \in ConnectOps ~> op = "none"
=============================================================================
