------------------------- MODULE DevicePollerProofs -------------------------
(***************************************************************************)
(* Proofs about DevicePoller and its ModbusClient, for any number of       *)
(* blocks, any number of frames on their way and transaction ids of any    *)
(* modulus from three on: the two never have more than one thing going on, *)
(* what they publish is whole, and the connection and the announced status *)
(* are what they ought to be.                                              *)
(***************************************************************************)
EXTENDS DevicePoller, FiniteSetTheorems, SequenceTheorems, TLAPS

-----------------------------------------------------------------------------
(* The inductive invariant. *)

(* OneThingAtATime, without counting. *)
OnlyOneActivity ==
  /\ Len(results) <= 1
  /\ ~("connect" \in calls /\ "read" \in calls)
  /\ ("connect" \in calls \/ "read" \in calls) =>
       results = <<>> /\ op = "none" /\ cycle = "none" /\ running = "none"
  /\ results # <<>> => op = "none" /\ cycle = "none" /\ running = "none"
  /\ op # "none" => cycle = "none" /\ running = "none"
  /\ cycle # "none" => running = "none"

NothingBeforeStart ==
  ~started => /\ calls \cap {"connect", "read"} = {} /\ results = <<>>
              /\ op = "none" /\ cycle = "none" /\ running = "none"

(* The deadline runs, or its expiry is queued, only beside an operation. *)
DeadlineHasOperation == deadline = "armed" \/ "current" \in expired => op # "none"

(* What socket_, connected_ and the operation say of each other. *)
ConnectionState ==
  /\ ~connected => received = {} /\ stream = <<>>
  /\ socket = "open" /\ op # "connecting" => connected
  /\ op \in ConnectOps => ~connected
  /\ op \in RequestOps /\ done = "no" => socket = "open"

(* Transaction ids before and after another; the last one the device got. *)
IdBefore(i) == IF i = 0 THEN TxModulus - 1 ELSE i - 1
IdAfter(i) == IF i = TxModulus - 1 THEN 0 ELSE i + 1
LastSent == IF op = "writing" /\ done # "success" THEN IdBefore(transaction_id)
                                                  ELSE transaction_id

(* The device knows the last request and perhaps the one before. *)
DeviceKnows ==
  /\ next_transaction_id = IdAfter(transaction_id)
  /\ \A r \in received :
       r.transaction_id = IF r.late THEN IdBefore(LastSent) ELSE LastSent

(* Since the request was sent no header was read but of a late frame. *)
OldFramesMayWait ==
  \/ op = "writing" /\ done = "success"
  \/ op = "header" /\ done # "success"
  \/ (op = "header" \/ op = "body") /\ read_buffer.late

(* Frames answer the last request, or the one before; or, if nothing on time
   is in front of them, the one before that. *)
StreamIsRecent ==
  \A i \in 1 .. Len(stream) :
    \/ ~stream[i].late /\ stream[i].transaction_id = LastSent
    \/ stream[i].late /\ stream[i].transaction_id = IdBefore(LastSent)
    \/ /\ stream[i].late /\ stream[i].transaction_id = IdBefore(IdBefore(LastSent))
       /\ OldFramesMayWait /\ \A j \in 1 .. i : stream[j].late

(* What the test of the transaction id relies on. *)
LateFrameIsTold ==
  (op = "header" /\ done = "success") \/ op = "body" =>
    (read_buffer.late => read_buffer.transaction_id # transaction_id)

(* The cycle has read every block before the present one. *)
BlocksAreRead ==
  /\ \A b \in 1 .. block - 1 : values[b] = "fresh"
  /\ \A i \in 1 .. Len(results) : results[i].kind = "registers" => ~results[i].late
  /\ ("read" \in calls \/ op \in RequestOps) => block # 0
  /\ results # <<>> /\ results[1].kind = "registers" => block # 0

(* Where the status of the cycle comes from. *)
StatusHasCause ==
  /\ op = "body" /\ done = "success" => heard
  /\ running = "finish" => heard
  /\ results # <<>> /\ results[1].kind = "registers" => heard
  /\ running = "fail" => ~connected \/ heard
  /\ results # <<>> /\ results[1].kind \in {"error", "not_connected"} => ~connected \/ heard

IInv == /\ TypeOK
        /\ OnlyOneActivity
        /\ NothingBeforeStart
        /\ DeadlineHasOperation
        /\ ConnectionState
        /\ DeviceKnows
        /\ StreamIsRecent
        /\ LateFrameIsTold
        /\ BlocksAreRead
        /\ StatusHasCause
        /\ ReadingsAreWhole
-----------------------------------------------------------------------------
(* Types, sequences and transaction ids. *)

LEMMA IdArithmetic ==
  ASSUME NEW i \in TxIds
  PROVE  /\ IdBefore(i) \in TxIds /\ IdAfter(i) \in TxIds
         /\ (i + 1) % TxModulus = IdAfter(i)
         /\ IdBefore(IdAfter(i)) = i
         /\ IdBefore(i) # i /\ IdBefore(IdBefore(i)) # i
<1> USE TxAssumption DEF TxIds, IdBefore, IdAfter
<1>1. CASE i = TxModulus - 1
  <2>1. (i + 1) % TxModulus = 0
    BY <1>1
  <2> QED  BY <1>1, <2>1
<1>2. CASE i # TxModulus - 1
  <2>1. (i + 1) % TxModulus = i + 1
    BY <1>2
  <2> QED  BY <1>2, <2>1
<1> QED  BY <1>1, <1>2

LEMMA InitIInv == Init => IInv
<1> SUFFICES ASSUME Init PROVE IInv
  OBVIOUS
<1> USE DEF Init, ClientInit
<1>1. TypeOK
  <2>1. ClientTypeOK
    <3>1. results \in Seq(Result) /\ stream \in Seq(Frame) /\ Len(stream) <= MaxStream
      BY StreamAssumption, EmptySeq
    <3>2. read_buffer \in Frame /\ next_transaction_id \in TxIds /\ transaction_id \in TxIds
      BY TxAssumption DEF TxIds, Frame, FrameKinds
    <3> QED  BY <3>1, <3>2 DEF ClientTypeOK, ConnectOps, RequestOps
  <2>2. values \in [BlockIndex -> {"none", "fresh", "late"}]
    BY DEF NoValues
  <2>3. block \in 0 .. Blocks
    BY BlocksAssumption
  <2> QED  BY <2>1, <2>2, <2>3 DEF TypeOK
<1>2. OnlyOneActivity /\ NothingBeforeStart /\ DeadlineHasOperation
  BY DEF OnlyOneActivity, NothingBeforeStart, DeadlineHasOperation
<1>3. ConnectionState /\ StreamIsRecent /\ LateFrameIsTold
  BY DEF ConnectionState, StreamIsRecent, LateFrameIsTold, ConnectOps, RequestOps
<1>4. DeviceKnows
  BY TxAssumption DEF DeviceKnows, IdAfter
<1>5. BlocksAreRead /\ StatusHasCause /\ ReadingsAreWhole
  BY DEF BlocksAreRead, StatusHasCause, ReadingsAreWhole, RequestOps
<1> QED  BY <1>1, <1>2, <1>3, <1>4, <1>5 DEF IInv

-----------------------------------------------------------------------------
(* A callback leaves one result, and the poller takes it. *)

LEMMA CallbackIsOnlyResult ==
  ASSUME results = <<>>, NEW r, Callback(r)
  PROVE  Len(results') = 1 /\ results' # <<>> /\ results'[1] = r
BY DEF Callback

LEMMA TakenResultWasOnly ==
  ASSUME TypeOK, Len(results) <= 1, results # <<>>, results' = Tail(results)
  PROVE  /\ results' = <<>> /\ Len(results') = 0
         /\ Head(results) = results[1] /\ results[1] \in Result /\ Len(results) = 1
<1>1. results \in Seq(Result)
  BY DEF TypeOK, ClientTypeOK
<1>2. Len(results) \in Nat /\ Len(results) # 0
  BY <1>1, LenProperties, EmptySeq
<1>3. Len(results) = 1
  <2>1. \A n \in Nat : n # 0 /\ n <= 1 => n = 1
    OBVIOUS
  <2> QED  BY <1>2, <2>1
<1>4. Tail(results) \in Seq(Result) /\ Len(Tail(results)) = 0
  BY <1>1, <1>3, HeadTailProperties
<1>5. Tail(results) = <<>>
  BY <1>4, EmptySeq
<1>6. results[1] \in Result
  BY <1>1, <1>3, ElementOfSeq
<1> QED  BY <1>3, <1>4, <1>5, <1>6

(* One of the four kinds RunResult tells apart. *)
LEMMA TakenResultIsKnown ==
  ASSUME TypeOK, results # <<>>
  PROVE  Head(results).kind \in {"connected", "not_connected", "error", "registers"}
<1>1. Head(results) \in Result
  BY HeadTailProperties DEF TypeOK, ClientTypeOK
<1> QED  BY <1>1 DEF Result, Connected, NotConnected, ModbusError

-----------------------------------------------------------------------------
(* Every step keeps the invariant: one lemma per action. *)

(* A request that fails takes its connection with it. *)
LEMMA GiveUpKeepsIInv ==
  ASSUME IInv, TypeOK', op \in RequestOps, GiveUp, heard \in BOOLEAN, heard' = TRUE \/ heard' = heard,
         UNCHANGED <<txVars, calls, read_buffer>>,
         UNCHANGED <<started, stopped, cycle, cancelling, block, values, running, last_status>>
  PROVE  IInv'
<1> USE DEF IInv
<1>1. results = <<>> /\ cycle = "none" /\ running = "none"
      /\ ~("connect" \in calls) /\ ~("read" \in calls)
  BY DEF OnlyOneActivity, RequestOps
<1>2. Len(results') = 1 /\ results' # <<>> /\ results'[1] = ModbusError
  BY <1>1, CallbackIsOnlyResult DEF GiveUp
<1>3. /\ op' = "none" /\ done' = "no" /\ socket' = "closed" /\ connected' = FALSE
      /\ received' = {} /\ stream' = <<>> /\ deadline' = "off" /\ "current" \notin expired'
  BY DEF GiveUp, DisarmDeadline, Outdate, CloseSocket, CloseSocketDuring, RequestOps
<1>4. OnlyOneActivity' /\ NothingBeforeStart' /\ DeadlineHasOperation'
  BY <1>1, <1>2, <1>3
     DEF OnlyOneActivity, NothingBeforeStart, DeadlineHasOperation, RequestOps
<1>5. ConnectionState' /\ LateFrameIsTold'
  BY <1>3 DEF ConnectionState, LateFrameIsTold, ConnectOps, RequestOps
<1>6. DeviceKnows' /\ StreamIsRecent'
  BY <1>3 DEF DeviceKnows, StreamIsRecent, txVars
<1>7. BlocksAreRead' /\ StatusHasCause' /\ ReadingsAreWhole'
  BY <1>1, <1>2, <1>3 DEF BlocksAreRead, StatusHasCause, ReadingsAreWhole, ModbusError, RequestOps
<1> QED  BY <1>4, <1>5, <1>6, <1>7

LEMMA RunConnectKeepsIInv ==
  ASSUME IInv, TypeOK', ClientStep(RunConnect) PROVE IInv'
<1> USE DEF IInv
<1>1. OnlyOneActivity'
  BY DEF ClientStep, RunConnect, CloseSocketDuring, ArmDeadline, txVars,
         Outdate, OnlyOneActivity
<1>2. NothingBeforeStart'
  BY DEF ClientStep, RunConnect, CloseSocketDuring, ArmDeadline, txVars,
         Outdate, NothingBeforeStart
<1>3. DeadlineHasOperation'
  BY DEF ClientStep, RunConnect, CloseSocketDuring, ArmDeadline, txVars,
         Outdate, DeadlineHasOperation
<1>4. ConnectionState'
  BY DEF ClientStep, RunConnect, CloseSocketDuring, ArmDeadline, txVars,
         Outdate, ConnectionState, OnlyOneActivity, ConnectOps, RequestOps
<1>5. DeviceKnows'
  BY DEF ClientStep, RunConnect, CloseSocketDuring, ArmDeadline, txVars,
         Outdate, DeviceKnows, LastSent
<1>6. StreamIsRecent'
  BY DEF ClientStep, RunConnect, CloseSocketDuring, ArmDeadline, txVars,
         Outdate, StreamIsRecent, LastSent, OldFramesMayWait
<1>7. LateFrameIsTold'
  BY DEF ClientStep, RunConnect, CloseSocketDuring, ArmDeadline, txVars,
         Outdate, LateFrameIsTold
<1>8. BlocksAreRead'
  BY DEF ClientStep, RunConnect, CloseSocketDuring, ArmDeadline, txVars,
         Outdate, BlocksAreRead, OnlyOneActivity, ConnectOps, RequestOps
<1>9. StatusHasCause'
  BY DEF ClientStep, RunConnect, CloseSocketDuring, ArmDeadline, txVars,
         Outdate, StatusHasCause, OnlyOneActivity, ConnectionState, ConnectOps,
         RequestOps
<1>10. ReadingsAreWhole'
  BY DEF ClientStep, RunConnect, CloseSocketDuring, ArmDeadline, txVars,
         Outdate, ReadingsAreWhole
<1> QED  BY <1>1, <1>2, <1>3, <1>4, <1>5, <1>6, <1>7, <1>8, <1>9, <1>10

LEMMA RunReadKeepsIInv ==
  ASSUME IInv, TypeOK', ClientStep(RunRead) PROVE IInv'
<1> USE DEF IInv, ClientStep, RunRead, SendRequest
<1>1. results = <<>> /\ op = "none" /\ cycle = "none" /\ running = "none" /\ "connect" \notin calls
  BY DEF OnlyOneActivity
<1>2. /\ started /\ block # 0 /\ heard' = heard
      /\ "read" \notin calls' /\ "connect" \notin calls'
  <2>1. "read" \notin calls' /\ "connect" \notin calls'
    BY <1>1
  <2>2. started
    BY DEF NothingBeforeStart, TypeOK
  <2>3. block # 0
    BY DEF BlocksAreRead
  <2>4. heard' = heard
    BY <1>1 DEF TypeOK, RequestOps
  <2> QED  BY <2>1, <2>2, <2>3, <2>4
<1>3. /\ transaction_id' = next_transaction_id
      /\ next_transaction_id' = IdAfter(next_transaction_id)
      /\ IdBefore(transaction_id') = transaction_id
  BY IdArithmetic DEF TypeOK, ClientTypeOK, DeviceKnows
<1>4. CASE ~connected
  <2>1. Len(results') = 1 /\ results' # <<>> /\ results'[1] = ModbusError
    BY <1>1, <1>4, CallbackIsOnlyResult
  <2>2. UNCHANGED <<op, done, deadline, expired, socket, connected, read_buffer, received, stream>>
    BY <1>4 DEF deadlineVars, deviceVars
  <2>3. received = {} /\ stream = <<>>
    BY <1>4 DEF ConnectionState
  <2>4. OnlyOneActivity' /\ NothingBeforeStart' /\ DeadlineHasOperation'
    BY <1>1, <1>2, <2>1, <2>2 DEF OnlyOneActivity, NothingBeforeStart, DeadlineHasOperation
  <2>5. ConnectionState' /\ LateFrameIsTold'
    BY <1>1, <2>2 DEF ConnectionState, LateFrameIsTold
  <2>6. DeviceKnows' /\ StreamIsRecent'
    BY <1>3, <2>2, <2>3 DEF DeviceKnows, StreamIsRecent
  <2>7. BlocksAreRead' /\ StatusHasCause' /\ ReadingsAreWhole'
    BY <1>1, <1>2, <1>4, <2>1, <2>2
       DEF BlocksAreRead, StatusHasCause, ReadingsAreWhole, ModbusError, RequestOps
  <2> QED  BY <2>4, <2>5, <2>6, <2>7
<1>5. CASE connected
  <2>1. /\ op' = "writing" /\ done' = (IF socket = "open" THEN "no" ELSE "error")
        /\ deadline' = "armed" /\ results' = <<>>
        /\ UNCHANGED <<socket, connected, read_buffer, received, stream>>
    BY <1>1, <1>5 DEF ArmDeadline, Begin, deviceVars
  <2>2. LastSent' = LastSent
    BY <1>1, <1>3, <2>1 DEF LastSent
  <2>3. OnlyOneActivity' /\ NothingBeforeStart' /\ DeadlineHasOperation'
    BY <1>1, <1>2, <2>1 DEF OnlyOneActivity, NothingBeforeStart, DeadlineHasOperation
  <2>4. ConnectionState' /\ LateFrameIsTold'
    BY <1>5, <2>1 DEF ConnectionState, LateFrameIsTold, ConnectOps, RequestOps
  <2>5. DeviceKnows'
    BY <1>3, <2>1, <2>2 DEF DeviceKnows
  <2>6. ~OldFramesMayWait
    BY <1>1 DEF OldFramesMayWait
  <2>7. StreamIsRecent'
    BY <2>1, <2>2, <2>6 DEF StreamIsRecent
  <2>8. BlocksAreRead' /\ StatusHasCause' /\ ReadingsAreWhole'
    BY <1>1, <1>2, <2>1 DEF BlocksAreRead, StatusHasCause, ReadingsAreWhole, RequestOps
  <2> QED  BY <2>3, <2>4, <2>5, <2>7, <2>8
<1> QED  BY <1>4, <1>5 DEF TypeOK, ClientTypeOK

LEMMA RunCloseKeepsIInv ==
  ASSUME IInv, TypeOK', ClientStep(RunClose) PROVE IInv'
<1> USE DEF IInv
<1>1. OnlyOneActivity'
  BY DEF ClientStep, RunClose, DisarmDeadline, CloseSocketDuring, txVars,
         Outdate, OnlyOneActivity
<1>2. NothingBeforeStart'
  BY DEF ClientStep, RunClose, DisarmDeadline, CloseSocketDuring, txVars,
         Outdate, NothingBeforeStart
<1>3. DeadlineHasOperation'
  BY DEF ClientStep, RunClose, DisarmDeadline, CloseSocketDuring, txVars,
         Outdate, DeadlineHasOperation
<1>4. ConnectionState'
  BY DEF ClientStep, RunClose, DisarmDeadline, CloseSocketDuring, txVars,
         Outdate, ConnectionState, OnlyOneActivity, ConnectOps, RequestOps
<1>5. DeviceKnows'
  BY DEF ClientStep, RunClose, DisarmDeadline, CloseSocketDuring, txVars,
         Outdate, DeviceKnows, LastSent
<1>6. StreamIsRecent'
  BY DEF ClientStep, RunClose, DisarmDeadline, CloseSocketDuring, txVars,
         Outdate, StreamIsRecent, LastSent, OldFramesMayWait
<1>7. LateFrameIsTold'
  BY DEF ClientStep, RunClose, DisarmDeadline, CloseSocketDuring, txVars,
         Outdate, LateFrameIsTold
<1>8. BlocksAreRead'
  BY DEF ClientStep, RunClose, DisarmDeadline, CloseSocketDuring, txVars,
         Outdate, BlocksAreRead, OnlyOneActivity, ConnectOps, RequestOps
<1>9. StatusHasCause'
  BY DEF ClientStep, RunClose, DisarmDeadline, CloseSocketDuring, txVars,
         Outdate, StatusHasCause, OnlyOneActivity, ConnectionState, ConnectOps,
         RequestOps
<1>10. ReadingsAreWhole'
  BY DEF ClientStep, RunClose, DisarmDeadline, CloseSocketDuring, txVars,
         Outdate, ReadingsAreWhole
<1> QED  BY <1>1, <1>2, <1>3, <1>4, <1>5, <1>6, <1>7, <1>8, <1>9, <1>10

LEMMA RunDeadlineKeepsIInv ==
  ASSUME IInv, TypeOK', ClientStep(RunDeadline) PROVE IInv'
<1> USE DEF IInv
<1>1. OnlyOneActivity'
  BY DEF ClientStep, RunDeadline, CancelledResolve, CloseSocketDuring,
         deviceVars, txVars, OnlyOneActivity
<1>2. NothingBeforeStart'
  BY DEF ClientStep, RunDeadline, CancelledResolve, CloseSocketDuring,
         deviceVars, txVars, NothingBeforeStart
<1>3. DeadlineHasOperation'
  BY DEF ClientStep, RunDeadline, CancelledResolve, CloseSocketDuring,
         deviceVars, txVars, DeadlineHasOperation
<1>4. ConnectionState'
  BY DEF ClientStep, RunDeadline, CancelledResolve, CloseSocketDuring,
         deviceVars, txVars, ConnectionState, OnlyOneActivity, ConnectOps,
         RequestOps
<1>5. DeviceKnows'
  BY DEF ClientStep, RunDeadline, CancelledResolve, CloseSocketDuring,
         deviceVars, txVars, DeviceKnows, LastSent
<1>6. StreamIsRecent'
  BY DEF ClientStep, RunDeadline, CancelledResolve, CloseSocketDuring,
         deviceVars, txVars, StreamIsRecent, LastSent, OldFramesMayWait
<1>7. LateFrameIsTold'
  BY DEF ClientStep, RunDeadline, CancelledResolve, CloseSocketDuring,
         deviceVars, txVars, LateFrameIsTold
<1>8. BlocksAreRead'
  BY DEF ClientStep, RunDeadline, CancelledResolve, CloseSocketDuring,
         deviceVars, txVars, BlocksAreRead, OnlyOneActivity, ConnectOps,
         RequestOps
<1>9. StatusHasCause'
  BY DEF ClientStep, RunDeadline, CancelledResolve, CloseSocketDuring,
         deviceVars, txVars, StatusHasCause, OnlyOneActivity, ConnectionState,
         ConnectOps, RequestOps
<1>10. ReadingsAreWhole'
  BY DEF ClientStep, RunDeadline, CancelledResolve, CloseSocketDuring,
         deviceVars, txVars, ReadingsAreWhole
<1> QED  BY <1>1, <1>2, <1>3, <1>4, <1>5, <1>6, <1>7, <1>8, <1>9, <1>10

LEMMA RunResolvedKeepsIInv ==
  ASSUME IInv, TypeOK', ClientStep(RunResolved) PROVE IInv'
<1> USE DEF IInv, ClientStep, RunResolved
<1>1. /\ results = <<>> /\ cycle = "none" /\ running = "none"
      /\ "connect" \notin calls /\ "read" \notin calls /\ started /\ calls' = calls
  BY DEF OnlyOneActivity, NothingBeforeStart, TypeOK
<1>2. ~connected /\ connected' = connected /\ received = {} /\ stream = <<>>
      /\ received' = {} /\ stream' = <<>>
  BY DEF ConnectionState, ConnectOps, deviceVars
<1>3. DeviceKnows' /\ StreamIsRecent'
  BY <1>2 DEF DeviceKnows, StreamIsRecent, txVars
<1>4. CASE done = "error"
  <2>1. Len(results') = 1 /\ results' # <<>> /\ results'[1] = NotConnected
    BY <1>1, <1>4, CallbackIsOnlyResult
  <2>2. op' = "none" /\ done' = "no" /\ deadline' = "off" /\ "current" \notin expired' /\ socket' = socket
    BY <1>4 DEF DisarmDeadline, Outdate
  <2>3. OnlyOneActivity' /\ NothingBeforeStart' /\ DeadlineHasOperation'
    BY <1>1, <2>1, <2>2 DEF OnlyOneActivity, NothingBeforeStart, DeadlineHasOperation
  <2>4. ConnectionState' /\ LateFrameIsTold'
    BY <1>2, <2>2 DEF ConnectionState, LateFrameIsTold, ConnectOps, RequestOps
  <2>5. results'[1].kind = "not_connected" /\ ~results'[1].late
    BY <2>1 DEF NotConnected
  <2>6. BlocksAreRead' /\ StatusHasCause' /\ ReadingsAreWhole'
    BY <1>1, <1>2, <2>1, <2>2, <2>5 DEF BlocksAreRead, StatusHasCause, ReadingsAreWhole, RequestOps
  <2> QED  BY <1>3, <2>3, <2>4, <2>6
<1>5. CASE done # "error"
  <2>1. op' = "connecting" /\ done' = "no" /\ results' = results /\ UNCHANGED <<deadline, expired>>
    BY <1>5 DEF deadlineVars
  <2>2. OnlyOneActivity' /\ NothingBeforeStart' /\ DeadlineHasOperation'
    BY <1>1, <2>1 DEF OnlyOneActivity, NothingBeforeStart, DeadlineHasOperation
  <2>3. ConnectionState' /\ LateFrameIsTold'
    BY <1>2, <2>1 DEF ConnectionState, LateFrameIsTold, ConnectOps, RequestOps
  <2>4. BlocksAreRead' /\ StatusHasCause' /\ ReadingsAreWhole'
    BY <1>1, <1>2, <2>1 DEF BlocksAreRead, StatusHasCause, ReadingsAreWhole, RequestOps
  <2> QED  BY <1>3, <2>2, <2>3, <2>4
<1> QED  BY <1>4, <1>5

LEMMA RunConnectedKeepsIInv ==
  ASSUME IInv, TypeOK', ClientStep(RunConnected) PROVE IInv'
<1> USE DEF IInv, ClientStep, RunConnected
<1>1. /\ results = <<>> /\ cycle = "none" /\ running = "none"
      /\ "connect" \notin calls /\ "read" \notin calls /\ started /\ calls' = calls
  BY DEF OnlyOneActivity, NothingBeforeStart, TypeOK
<1>2. received' = {} /\ stream' = <<>>
  BY DEF ConnectionState, ConnectOps, deviceVars, CloseSocket, CloseSocketDuring
<1>3. /\ op' = "none" /\ done' = "no" /\ deadline' = "off" /\ "current" \notin expired'
      /\ connected' \/ socket' = "closed"
  BY DEF DisarmDeadline, Outdate, CloseSocket, CloseSocketDuring, RequestOps
<1>4. /\ Len(results') = 1 /\ results' # <<>>
      /\ results'[1] = Connected \/ (results'[1] = NotConnected /\ ~connected')
  BY <1>1, CallbackIsOnlyResult DEF CloseSocket, CloseSocketDuring
<1>5. OnlyOneActivity' /\ NothingBeforeStart' /\ DeadlineHasOperation'
  BY <1>1, <1>3, <1>4 DEF OnlyOneActivity, NothingBeforeStart, DeadlineHasOperation
<1>6. ConnectionState' /\ LateFrameIsTold'
  BY <1>2, <1>3 DEF ConnectionState, LateFrameIsTold, ConnectOps, RequestOps
<1>7. DeviceKnows' /\ StreamIsRecent'
  BY <1>2 DEF DeviceKnows, StreamIsRecent, txVars
<1>8. /\ ~results'[1].late
      /\ \/ results'[1].kind = "connected"
         \/ results'[1].kind = "not_connected" /\ ~connected'
  BY <1>4 DEF Connected, NotConnected
<1>9. BlocksAreRead'
  BY <1>1, <1>3, <1>4, <1>8 DEF BlocksAreRead, RequestOps
<1>10. StatusHasCause' /\ ReadingsAreWhole'
  BY <1>1, <1>3, <1>4, <1>8 DEF StatusHasCause, ReadingsAreWhole
<1> QED  BY <1>5, <1>6, <1>7, <1>9, <1>10

LEMMA RunWrittenKeepsIInv ==
  ASSUME IInv, TypeOK', ClientStep(RunWritten) PROVE IInv'
<1> USE DEF IInv, ClientStep, RunWritten
<1>1. op \in RequestOps /\ (heard' = TRUE \/ heard' = heard) /\ heard \in BOOLEAN
  BY DEF RequestOps, TypeOK
<1>2. CASE done = "error"
  BY <1>1, <1>2, GiveUpKeepsIInv
<1>3. CASE ~(done = "error")
  <2>1. /\ op' = "header" /\ done' = (IF socket = "open" THEN "no" ELSE "error") /\ done = "success"
        /\ results' = results /\ calls' = calls /\ heard' = heard
        /\ UNCHANGED <<socket, connected, deadline, expired, received, stream, read_buffer>>
    BY <1>3 DEF Begin, deadlineVars, deviceVars, TypeOK, ClientTypeOK
  <2>2. OnlyOneActivity' /\ NothingBeforeStart' /\ DeadlineHasOperation'
    BY <2>1 DEF OnlyOneActivity, NothingBeforeStart, DeadlineHasOperation
  <2>3. ConnectionState' /\ LateFrameIsTold'
    BY <2>1 DEF ConnectionState, LateFrameIsTold, ConnectOps, RequestOps, txVars
  <2>4. LastSent' = LastSent /\ (OldFramesMayWait => OldFramesMayWait')
    BY <2>1 DEF LastSent, OldFramesMayWait, txVars
  <2>5. DeviceKnows' /\ StreamIsRecent'
    BY <2>1, <2>4 DEF DeviceKnows, StreamIsRecent, txVars
  <2>6. BlocksAreRead' /\ StatusHasCause' /\ ReadingsAreWhole'
    BY <2>1 DEF BlocksAreRead, StatusHasCause, ReadingsAreWhole, RequestOps, OnlyOneActivity
  <2> QED  BY <2>2, <2>3, <2>5, <2>6
<1> QED  BY <1>2, <1>3

LEMMA RunHeaderKeepsIInv ==
  ASSUME IInv, TypeOK', ClientStep(RunHeader) PROVE IInv'
<1> USE DEF IInv, ClientStep, RunHeader
<1>1. op \in RequestOps /\ (heard' = TRUE \/ heard' = heard) /\ heard \in BOOLEAN
  BY DEF RequestOps, TypeOK
<1>2. CASE done = "error" \/ read_buffer.kind = "malformed"
  BY <1>1, <1>2, GiveUpKeepsIInv
<1>3. CASE ~(done = "error" \/ read_buffer.kind = "malformed")
  <2>1. /\ op' = "body" /\ done' = (IF socket = "open" THEN "no" ELSE "error") /\ done = "success"
        /\ results' = results /\ calls' = calls /\ heard' = heard
        /\ UNCHANGED <<socket, connected, deadline, expired, received, stream, read_buffer>>
    BY <1>3 DEF Begin, deadlineVars, deviceVars, TypeOK, ClientTypeOK
  <2>2. OnlyOneActivity' /\ NothingBeforeStart' /\ DeadlineHasOperation'
    BY <2>1 DEF OnlyOneActivity, NothingBeforeStart, DeadlineHasOperation
  <2>3. ConnectionState' /\ LateFrameIsTold'
    BY <2>1 DEF ConnectionState, LateFrameIsTold, ConnectOps, RequestOps, txVars
  <2>4. LastSent' = LastSent /\ (OldFramesMayWait => OldFramesMayWait')
    BY <2>1 DEF LastSent, OldFramesMayWait, txVars
  <2>5. DeviceKnows' /\ StreamIsRecent'
    BY <2>1, <2>4 DEF DeviceKnows, StreamIsRecent, txVars
  <2>6. BlocksAreRead' /\ StatusHasCause' /\ ReadingsAreWhole'
    BY <2>1 DEF BlocksAreRead, StatusHasCause, ReadingsAreWhole, RequestOps, OnlyOneActivity
  <2> QED  BY <2>2, <2>3, <2>5, <2>6
<1> QED  BY <1>2, <1>3

LEMMA RunBodyKeepsIInv ==
  ASSUME IInv, TypeOK', ClientStep(RunBody) PROVE IInv'
<1> USE DEF IInv, ClientStep, RunBody
<1>1. op \in RequestOps /\ (heard' = TRUE \/ heard' = heard) /\ heard \in BOOLEAN
  BY DEF RequestOps, TypeOK
<1>2. CASE ~InStep
  BY <1>1, <1>2, GiveUpKeepsIInv
<1>3. CASE InStep
  <2> DEFINE r == IF read_buffer.kind = "registers" THEN Registers(read_buffer) ELSE ModbusError
  <2>1. /\ results = <<>> /\ cycle = "none" /\ running = "none" /\ calls' = calls
        /\ "connect" \notin calls /\ "read" \notin calls /\ started
    BY DEF OnlyOneActivity, NothingBeforeStart, TypeOK
  <2>2. Len(results') = 1 /\ results' # <<>> /\ results'[1] = r
    BY <1>3, <2>1, CallbackIsOnlyResult
  <2>3. /\ op' = "none" /\ done' = "no" /\ deadline' = "off" /\ "current" \notin expired'
        /\ UNCHANGED <<socket, connected, received, stream>>
    BY <1>3 DEF DisarmDeadline, Outdate, deviceVars
  <2>4. ~read_buffer.late /\ heard /\ heard'
    BY <1>3 DEF InStep, LateFrameIsTold, StatusHasCause
  <2>5. block # 0
    BY DEF BlocksAreRead, RequestOps
  <2>6. r.kind \in {"error", "registers"} /\ ~r.late
    BY <2>4 DEF ModbusError, Registers
  <2> HIDE DEF r
  <2>7. OnlyOneActivity' /\ NothingBeforeStart' /\ DeadlineHasOperation'
    BY <2>1, <2>2, <2>3 DEF OnlyOneActivity, NothingBeforeStart, DeadlineHasOperation
  <2>8. ConnectionState' /\ LateFrameIsTold'
    BY <2>3 DEF ConnectionState, LateFrameIsTold, ConnectOps, RequestOps
  <2>9. LastSent' = LastSent /\ ~OldFramesMayWait
    BY <2>3, <2>4 DEF LastSent, OldFramesMayWait, txVars
  <2>10. DeviceKnows' /\ StreamIsRecent'
    BY <2>3, <2>9 DEF DeviceKnows, StreamIsRecent, txVars
  <2>11. BlocksAreRead'
    BY <2>1, <2>2, <2>3, <2>5, <2>6 DEF BlocksAreRead, RequestOps
  <2>12. StatusHasCause' /\ ReadingsAreWhole'
    BY <2>1, <2>3, <2>4 DEF StatusHasCause, ReadingsAreWhole
  <2> QED  BY <2>7, <2>8, <2>10, <2>11, <2>12
<1> QED  BY <1>2, <1>3

LEMMA DeadlineExpiresKeepsIInv ==
  ASSUME IInv, TypeOK', ClientStep(DeadlineExpires) PROVE IInv'
<1> USE DEF IInv
<1>1. OnlyOneActivity'
  BY DEF ClientStep, DeadlineExpires, txVars, deviceVars, OnlyOneActivity
<1>2. NothingBeforeStart'
  BY DEF ClientStep, DeadlineExpires, txVars, deviceVars, NothingBeforeStart
<1>3. DeadlineHasOperation'
  BY DEF ClientStep, DeadlineExpires, txVars, deviceVars, DeadlineHasOperation
<1>4. ConnectionState'
  BY DEF ClientStep, DeadlineExpires, txVars, deviceVars, ConnectionState,
         OnlyOneActivity, ConnectOps, RequestOps
<1>5. DeviceKnows'
  BY DEF ClientStep, DeadlineExpires, txVars, deviceVars, DeviceKnows, LastSent
<1>6. StreamIsRecent'
  BY DEF ClientStep, DeadlineExpires, txVars, deviceVars, StreamIsRecent,
         LastSent, OldFramesMayWait
<1>7. LateFrameIsTold'
  BY DEF ClientStep, DeadlineExpires, txVars, deviceVars, LateFrameIsTold
<1>8. BlocksAreRead'
  BY DEF ClientStep, DeadlineExpires, txVars, deviceVars, BlocksAreRead,
         OnlyOneActivity, ConnectOps, RequestOps
<1>9. StatusHasCause'
  BY DEF ClientStep, DeadlineExpires, txVars, deviceVars, StatusHasCause,
         OnlyOneActivity, ConnectionState, ConnectOps, RequestOps
<1>10. ReadingsAreWhole'
  BY DEF ClientStep, DeadlineExpires, txVars, deviceVars, ReadingsAreWhole
<1> QED  BY <1>1, <1>2, <1>3, <1>4, <1>5, <1>6, <1>7, <1>8, <1>9, <1>10

LEMMA ConnectOpCompletesKeepsIInv ==
  ASSUME IInv, TypeOK', ClientStep(ConnectOpCompletes) PROVE IInv'
<1> USE DEF IInv
<1>1. OnlyOneActivity'
  BY DEF ClientStep, ConnectOpCompletes, deviceVars, Unchanged, deadlineVars,
         txVars, OnlyOneActivity
<1>2. NothingBeforeStart'
  BY DEF ClientStep, ConnectOpCompletes, deviceVars, Unchanged, deadlineVars,
         txVars, NothingBeforeStart
<1>3. DeadlineHasOperation'
  BY DEF ClientStep, ConnectOpCompletes, deviceVars, Unchanged, deadlineVars,
         txVars, DeadlineHasOperation
<1>4. ConnectionState'
  BY DEF ClientStep, ConnectOpCompletes, deviceVars, Unchanged, deadlineVars,
         txVars, ConnectionState, OnlyOneActivity, ConnectOps, RequestOps
<1>5. DeviceKnows'
  <2>1. received = {} /\ received' = {}
    BY DEF ClientStep, ConnectOpCompletes, deviceVars, ConnectionState
  <2> QED
    BY <2>1 DEF ClientStep, ConnectOpCompletes, Unchanged, txVars, DeviceKnows
<1>6. StreamIsRecent'
  <2>1. stream' = <<>>
    BY DEF ClientStep, ConnectOpCompletes, deviceVars, ConnectionState
  <2> QED
    BY <2>1 DEF StreamIsRecent
<1>7. LateFrameIsTold'
  BY DEF ClientStep, ConnectOpCompletes, Unchanged, LateFrameIsTold, ConnectOps
<1>8. BlocksAreRead'
  BY DEF ClientStep, ConnectOpCompletes, deviceVars, Unchanged, deadlineVars,
         txVars, BlocksAreRead, OnlyOneActivity, ConnectOps, RequestOps
<1>9. StatusHasCause'
  BY DEF ClientStep, ConnectOpCompletes, deviceVars, Unchanged, deadlineVars,
         txVars, StatusHasCause, OnlyOneActivity, ConnectionState, ConnectOps,
         RequestOps
<1>10. ReadingsAreWhole'
  BY DEF ClientStep, ConnectOpCompletes, deviceVars, Unchanged, deadlineVars,
         txVars, ReadingsAreWhole
<1> QED  BY <1>1, <1>2, <1>3, <1>4, <1>5, <1>6, <1>7, <1>8, <1>9, <1>10

LEMMA ConnectionBreaksKeepsIInv ==
  ASSUME IInv, TypeOK', ClientStep(ConnectionBreaks) PROVE IInv'
<1> USE DEF IInv
<1>1. OnlyOneActivity'
  BY DEF ClientStep, ConnectionBreaks, deviceVars, Unchanged, deadlineVars,
         txVars, OnlyOneActivity
<1>2. NothingBeforeStart'
  BY DEF ClientStep, ConnectionBreaks, deviceVars, Unchanged, deadlineVars,
         txVars, NothingBeforeStart
<1>3. DeadlineHasOperation'
  BY DEF ClientStep, ConnectionBreaks, deviceVars, Unchanged, deadlineVars,
         txVars, DeadlineHasOperation
<1>4. ConnectionState'
  BY DEF ClientStep, ConnectionBreaks, deviceVars, Unchanged, deadlineVars,
         txVars, ConnectionState, OnlyOneActivity, ConnectOps, RequestOps
<1>5. DeviceKnows'
  BY DEF ClientStep, ConnectionBreaks, deviceVars, Unchanged, deadlineVars,
         txVars, DeviceKnows, LastSent
<1>6. StreamIsRecent'
  BY DEF ClientStep, ConnectionBreaks, deviceVars, Unchanged, deadlineVars,
         txVars, StreamIsRecent, LastSent, OldFramesMayWait
<1>7. LateFrameIsTold'
  BY DEF ClientStep, ConnectionBreaks, deviceVars, Unchanged, deadlineVars,
         txVars, LateFrameIsTold
<1>8. BlocksAreRead'
  BY DEF ClientStep, ConnectionBreaks, deviceVars, Unchanged, deadlineVars,
         txVars, BlocksAreRead, OnlyOneActivity, ConnectOps, RequestOps
<1>9. StatusHasCause'
  BY DEF ClientStep, ConnectionBreaks, deviceVars, Unchanged, deadlineVars,
         txVars, StatusHasCause, OnlyOneActivity, ConnectionState, ConnectOps,
         RequestOps
<1>10. ReadingsAreWhole'
  BY DEF ClientStep, ConnectionBreaks, deviceVars, Unchanged, deadlineVars,
         txVars, ReadingsAreWhole
<1> QED  BY <1>1, <1>2, <1>3, <1>4, <1>5, <1>6, <1>7, <1>8, <1>9, <1>10

LEMMA RequestIsWrittenKeepsIInv ==
  ASSUME IInv, TypeOK', ClientStep(RequestIsWritten) PROVE IInv'
<1> USE DEF IInv
<1>1. OnlyOneActivity'
  BY DEF ClientStep, RequestIsWritten, Unchanged, deadlineVars, txVars,
         OnlyOneActivity
<1>2. NothingBeforeStart'
  BY DEF ClientStep, RequestIsWritten, Unchanged, deadlineVars, txVars,
         NothingBeforeStart
<1>3. DeadlineHasOperation'
  BY DEF ClientStep, RequestIsWritten, Unchanged, deadlineVars, txVars,
         DeadlineHasOperation
<1>4. ConnectionState'
  BY DEF ClientStep, RequestIsWritten, Unchanged, deadlineVars, txVars,
         ConnectionState, OnlyOneActivity, ConnectOps, RequestOps
<1>5. DeviceKnows'
  <2>1. LastSent = IdBefore(transaction_id) /\ LastSent' = transaction_id
    BY DEF ClientStep, RequestIsWritten, Unchanged, txVars, LastSent
  <2>2. \A q \in received : q \in Request
    BY DEF TypeOK, ClientTypeOK
  <2> QED
    BY <2>1, <2>2 DEF ClientStep, RequestIsWritten, Unchanged, txVars, DeviceKnows, Request, IdBefore
<1>6. StreamIsRecent'
  <2>1. LastSent = IdBefore(transaction_id) /\ LastSent' = transaction_id
        /\ OldFramesMayWait' /\ ~OldFramesMayWait
    BY DEF ClientStep, RequestIsWritten, Unchanged, txVars, LastSent, OldFramesMayWait
  <2>2. /\ stream \in Seq(Frame) /\ DOMAIN stream = 1 .. Len(stream) /\ Len(stream) \in Nat
        /\ \A i \in 1 .. Len(stream) : stream[i] \in Frame
    BY LenProperties, ElementOfSeq DEF TypeOK, ClientTypeOK
  <2>3. stream' = [i \in 1 .. Len(stream) |-> [stream[i] EXCEPT !.late = TRUE]]
    BY <2>2 DEF ClientStep, RequestIsWritten
  <2>4. Len(stream') = Len(stream)
    BY <2>2, <2>3
  <2>5. \A i \in 1 .. Len(stream) : /\ stream'[i].late
                                    /\ stream'[i].transaction_id = stream[i].transaction_id
    BY <2>2, <2>3 DEF Frame
  <2> QED
    BY <2>1, <2>4, <2>5 DEF StreamIsRecent, IdBefore
<1>7. LateFrameIsTold'
  BY DEF ClientStep, RequestIsWritten, Unchanged, deadlineVars, txVars,
         LateFrameIsTold
<1>8. BlocksAreRead'
  BY DEF ClientStep, RequestIsWritten, Unchanged, deadlineVars, txVars,
         BlocksAreRead, OnlyOneActivity, ConnectOps, RequestOps
<1>9. StatusHasCause'
  BY DEF ClientStep, RequestIsWritten, Unchanged, deadlineVars, txVars,
         StatusHasCause, OnlyOneActivity, ConnectionState, ConnectOps,
         RequestOps
<1>10. ReadingsAreWhole'
  BY DEF ClientStep, RequestIsWritten, Unchanged, deadlineVars, txVars,
         ReadingsAreWhole
<1> QED  BY <1>1, <1>2, <1>3, <1>4, <1>5, <1>6, <1>7, <1>8, <1>9, <1>10

LEMMA DeviceAnswersKeepsIInv ==
  ASSUME IInv, TypeOK', ClientStep(DeviceAnswers) PROVE IInv'
<1> USE DEF IInv
<1>1. OnlyOneActivity'
  BY DEF ClientStep, DeviceAnswers, Unchanged, deadlineVars, txVars,
         OnlyOneActivity
<1>2. NothingBeforeStart'
  BY DEF ClientStep, DeviceAnswers, Unchanged, deadlineVars, txVars,
         NothingBeforeStart
<1>3. DeadlineHasOperation'
  BY DEF ClientStep, DeviceAnswers, Unchanged, deadlineVars, txVars,
         DeadlineHasOperation
<1>4. ConnectionState'
  BY DEF ClientStep, DeviceAnswers, Unchanged, deadlineVars, txVars,
         ConnectionState, OnlyOneActivity, ConnectOps, RequestOps
<1>5. DeviceKnows'
  BY DEF ClientStep, DeviceAnswers, Unchanged, deadlineVars, txVars,
         DeviceKnows, LastSent
<1>6. StreamIsRecent'
  <2>1. PICK r \in received, kind \in FrameKinds :
          stream' = Append(stream, [transaction_id |-> r.transaction_id,
                                    late |-> r.late, kind |-> kind])
    BY DEF ClientStep, DeviceAnswers
  <2> DEFINE frame == [transaction_id |-> r.transaction_id, late |-> r.late, kind |-> kind]
  <2>2. frame \in Frame
    BY DEF TypeOK, ClientTypeOK, Request, Frame
  <2>3. /\ Len(stream') = Len(stream) + 1 /\ stream'[Len(stream) + 1] = frame
        /\ \A i \in 1 .. Len(stream) : stream'[i] = stream[i]
        /\ Len(stream) \in Nat
    BY <2>1, <2>2, AppendProperties DEF TypeOK, ClientTypeOK
  <2>4. LastSent' = LastSent /\ OldFramesMayWait' = OldFramesMayWait
    BY DEF ClientStep, DeviceAnswers, Unchanged, txVars, LastSent, OldFramesMayWait
  <2>5. /\ frame.late \in BOOLEAN
        /\ frame.transaction_id = IF frame.late THEN IdBefore(LastSent) ELSE LastSent
    BY DEF DeviceKnows, TypeOK, ClientTypeOK, Request
  <2> HIDE DEF frame
  <2> QED
    BY <2>3, <2>4, <2>5 DEF StreamIsRecent
<1>7. LateFrameIsTold'
  BY DEF ClientStep, DeviceAnswers, Unchanged, deadlineVars, txVars,
         LateFrameIsTold
<1>8. BlocksAreRead'
  BY DEF ClientStep, DeviceAnswers, Unchanged, deadlineVars, txVars,
         BlocksAreRead, OnlyOneActivity, ConnectOps, RequestOps
<1>9. StatusHasCause'
  BY DEF ClientStep, DeviceAnswers, Unchanged, deadlineVars, txVars,
         StatusHasCause, OnlyOneActivity, ConnectionState, ConnectOps,
         RequestOps
<1>10. ReadingsAreWhole'
  BY DEF ClientStep, DeviceAnswers, Unchanged, deadlineVars, txVars,
         ReadingsAreWhole
<1> QED  BY <1>1, <1>2, <1>3, <1>4, <1>5, <1>6, <1>7, <1>8, <1>9, <1>10

LEMMA HeaderArrivesKeepsIInv ==
  ASSUME IInv, TypeOK', ClientStep(HeaderArrives) PROVE IInv'
<1> USE DEF IInv
<1>1. OnlyOneActivity'
  BY DEF ClientStep, HeaderArrives, Unchanged, deadlineVars, txVars,
         OnlyOneActivity
<1>2. NothingBeforeStart'
  BY DEF ClientStep, HeaderArrives, Unchanged, deadlineVars, txVars,
         NothingBeforeStart
<1>3. DeadlineHasOperation'
  BY DEF ClientStep, HeaderArrives, Unchanged, deadlineVars, txVars,
         DeadlineHasOperation
<1>4. ConnectionState'
  BY DEF ClientStep, HeaderArrives, Unchanged, deadlineVars, txVars,
         ConnectionState, OnlyOneActivity, ConnectOps, RequestOps
<1>5. DeviceKnows'
  BY DEF ClientStep, HeaderArrives, Unchanged, deadlineVars, txVars,
         DeviceKnows, LastSent
<1>6. StreamIsRecent'
  <2>1. /\ Len(stream') = Len(stream) - 1 /\ Len(stream) \in Nat \ {0}
        /\ \A i \in 1 .. Len(stream') : stream'[i] = stream[i + 1]
        /\ read_buffer' = stream[1] /\ stream[1].late \in BOOLEAN
    BY HeadTailProperties, EmptySeq, ElementOfSeq
       DEF ClientStep, HeaderArrives, TypeOK, ClientTypeOK, Frame
  <2>2. LastSent' = LastSent /\ OldFramesMayWait' = stream[1].late /\ OldFramesMayWait
    BY <2>1 DEF ClientStep, HeaderArrives, Unchanged, txVars, LastSent, OldFramesMayWait
  <2>3. ASSUME NEW i \in 1 .. Len(stream')
        PROVE  \/ ~stream'[i].late /\ stream'[i].transaction_id = LastSent'
               \/ stream'[i].late /\ stream'[i].transaction_id = IdBefore(LastSent)'
               \/ /\ stream'[i].late /\ stream'[i].transaction_id = IdBefore(IdBefore(LastSent))'
                  /\ OldFramesMayWait' /\ \A j \in 1 .. i : stream'[j].late
    <3>1. i + 1 \in 1 .. Len(stream) /\ stream'[i] = stream[i + 1]
      BY <2>1
    <3>2. CASE /\ stream[i + 1].late
               /\ stream[i + 1].transaction_id = IdBefore(IdBefore(LastSent))
               /\ \A j \in 1 .. i + 1 : stream[j].late
      <4>1. ASSUME NEW j \in 1 .. i PROVE stream'[j].late
        <5>1. j + 1 \in 1 .. i + 1 /\ j \in 1 .. Len(stream')
          BY <2>1
        <5> QED  BY <2>1, <3>2, <5>1
      <4> QED  BY <2>1, <2>2, <3>1, <3>2, <4>1 DEF IdBefore
    <3> QED  BY <2>2, <3>1, <3>2 DEF StreamIsRecent, IdBefore
  <2> QED  BY <2>3 DEF StreamIsRecent
<1>7. LateFrameIsTold'
  <2>1. Len(stream) \in Nat \ {0} /\ read_buffer' = stream[1]
    BY EmptySeq DEF ClientStep, HeaderArrives, TypeOK, ClientTypeOK
  <2>2. LastSent = transaction_id /\ transaction_id' = transaction_id
    BY DEF ClientStep, HeaderArrives, Unchanged, txVars, LastSent
  <2>3. stream[1].late => stream[1].transaction_id # transaction_id
    BY <2>1, <2>2, IdArithmetic DEF StreamIsRecent, TypeOK, ClientTypeOK
  <2> QED  BY <2>1, <2>2, <2>3 DEF LateFrameIsTold
<1>8. BlocksAreRead'
  BY DEF ClientStep, HeaderArrives, Unchanged, deadlineVars, txVars,
         BlocksAreRead, OnlyOneActivity, ConnectOps, RequestOps
<1>9. StatusHasCause'
  BY DEF ClientStep, HeaderArrives, Unchanged, deadlineVars, txVars,
         StatusHasCause, OnlyOneActivity, ConnectionState, ConnectOps,
         RequestOps
<1>10. ReadingsAreWhole'
  BY DEF ClientStep, HeaderArrives, Unchanged, deadlineVars, txVars,
         ReadingsAreWhole
<1> QED  BY <1>1, <1>2, <1>3, <1>4, <1>5, <1>6, <1>7, <1>8, <1>9, <1>10

LEMMA BodyArrivesKeepsIInv ==
  ASSUME IInv, TypeOK', ClientStep(BodyArrives) PROVE IInv'
<1> USE DEF IInv
<1>1. OnlyOneActivity'
  BY DEF ClientStep, BodyArrives, deviceVars, Unchanged, deadlineVars, txVars,
         OnlyOneActivity
<1>2. NothingBeforeStart'
  BY DEF ClientStep, BodyArrives, deviceVars, Unchanged, deadlineVars, txVars,
         NothingBeforeStart
<1>3. DeadlineHasOperation'
  BY DEF ClientStep, BodyArrives, deviceVars, Unchanged, deadlineVars, txVars,
         DeadlineHasOperation
<1>4. ConnectionState'
  BY DEF ClientStep, BodyArrives, deviceVars, Unchanged, deadlineVars, txVars,
         ConnectionState, OnlyOneActivity, ConnectOps, RequestOps
<1>5. DeviceKnows'
  BY DEF ClientStep, BodyArrives, deviceVars, Unchanged, deadlineVars, txVars,
         DeviceKnows, LastSent
<1>6. StreamIsRecent'
  BY DEF ClientStep, BodyArrives, deviceVars, Unchanged, deadlineVars, txVars,
         StreamIsRecent, LastSent, OldFramesMayWait
<1>7. LateFrameIsTold'
  BY DEF ClientStep, BodyArrives, deviceVars, Unchanged, deadlineVars, txVars,
         LateFrameIsTold
<1>8. BlocksAreRead'
  BY DEF ClientStep, BodyArrives, deviceVars, Unchanged, deadlineVars, txVars,
         BlocksAreRead, OnlyOneActivity, ConnectOps, RequestOps
<1>9. StatusHasCause'
  BY DEF ClientStep, BodyArrives, deviceVars, Unchanged, deadlineVars, txVars,
         StatusHasCause, OnlyOneActivity, ConnectionState, ConnectOps,
         RequestOps
<1>10. ReadingsAreWhole'
  BY DEF ClientStep, BodyArrives, deviceVars, Unchanged, deadlineVars, txVars,
         ReadingsAreWhole
<1> QED  BY <1>1, <1>2, <1>3, <1>4, <1>5, <1>6, <1>7, <1>8, <1>9, <1>10

LEMMA StartKeepsIInv ==
  ASSUME IInv, TypeOK', Start PROVE IInv'
<1> USE DEF IInv
<1>1. OnlyOneActivity'
  BY DEF Start, clientVars, NothingBeforeStart, OnlyOneActivity, TypeOK
<1>2. NothingBeforeStart'
  BY DEF Start, clientVars, deadlineVars, txVars, deviceVars,
         NothingBeforeStart
<1>3. DeadlineHasOperation'
  BY DEF Start, clientVars, deadlineVars, txVars, deviceVars,
         DeadlineHasOperation
<1>4. ConnectionState'
  BY DEF Start, clientVars, deadlineVars, txVars, deviceVars, ConnectionState,
         OnlyOneActivity, ConnectOps, RequestOps
<1>5. DeviceKnows'
  BY DEF Start, clientVars, deadlineVars, txVars, deviceVars, DeviceKnows,
         LastSent
<1>6. StreamIsRecent'
  BY DEF Start, clientVars, deadlineVars, txVars, deviceVars, StreamIsRecent,
         LastSent, OldFramesMayWait
<1>7. LateFrameIsTold'
  BY DEF Start, clientVars, deadlineVars, txVars, deviceVars, LateFrameIsTold
<1>8. BlocksAreRead'
  BY DEF Start, clientVars, deadlineVars, txVars, deviceVars, BlocksAreRead,
         OnlyOneActivity, ConnectOps, RequestOps
<1>9. StatusHasCause'
  BY DEF Start, clientVars, deadlineVars, txVars, deviceVars, StatusHasCause,
         OnlyOneActivity, ConnectionState, ConnectOps, RequestOps
<1>10. ReadingsAreWhole'
  BY DEF Start, clientVars, deadlineVars, txVars, deviceVars, ReadingsAreWhole
<1> QED  BY <1>1, <1>2, <1>3, <1>4, <1>5, <1>6, <1>7, <1>8, <1>9, <1>10

LEMMA StopKeepsIInv ==
  ASSUME IInv, TypeOK', Stop PROVE IInv'
<1> USE DEF IInv
<1>1. OnlyOneActivity'
  BY DEF Stop, connectionVars, deadlineVars, txVars, deviceVars,
         OnlyOneActivity
<1>2. NothingBeforeStart'
  BY DEF Stop, connectionVars, deadlineVars, txVars, deviceVars,
         NothingBeforeStart
<1>3. DeadlineHasOperation'
  BY DEF Stop, connectionVars, deadlineVars, txVars, deviceVars,
         DeadlineHasOperation
<1>4. ConnectionState'
  BY DEF Stop, connectionVars, deadlineVars, txVars, deviceVars,
         ConnectionState, OnlyOneActivity, ConnectOps, RequestOps
<1>5. DeviceKnows'
  BY DEF Stop, connectionVars, deadlineVars, txVars, deviceVars, DeviceKnows,
         LastSent
<1>6. StreamIsRecent'
  BY DEF Stop, connectionVars, deadlineVars, txVars, deviceVars,
         StreamIsRecent, LastSent, OldFramesMayWait
<1>7. LateFrameIsTold'
  BY DEF Stop, connectionVars, deadlineVars, txVars, deviceVars,
         LateFrameIsTold
<1>8. BlocksAreRead'
  BY DEF Stop, connectionVars, deadlineVars, txVars, deviceVars, BlocksAreRead,
         OnlyOneActivity, ConnectOps, RequestOps
<1>9. StatusHasCause'
  BY DEF Stop, connectionVars, deadlineVars, txVars, deviceVars,
         StatusHasCause, OnlyOneActivity, ConnectionState, ConnectOps,
         RequestOps
<1>10. ReadingsAreWhole'
  BY DEF Stop, connectionVars, deadlineVars, txVars, deviceVars,
         ReadingsAreWhole
<1> QED  BY <1>1, <1>2, <1>3, <1>4, <1>5, <1>6, <1>7, <1>8, <1>9, <1>10

LEMMA CancelTimerKeepsIInv ==
  ASSUME IInv, TypeOK', CancelTimer PROVE IInv'
<1> USE DEF IInv
<1>1. OnlyOneActivity'
  BY DEF CancelTimer, clientVars, deadlineVars, txVars, deviceVars,
         OnlyOneActivity
<1>2. NothingBeforeStart'
  BY DEF CancelTimer, clientVars, deadlineVars, txVars, deviceVars,
         NothingBeforeStart
<1>3. DeadlineHasOperation'
  BY DEF CancelTimer, clientVars, deadlineVars, txVars, deviceVars,
         DeadlineHasOperation
<1>4. ConnectionState'
  BY DEF CancelTimer, clientVars, deadlineVars, txVars, deviceVars,
         ConnectionState, OnlyOneActivity, ConnectOps, RequestOps
<1>5. DeviceKnows'
  BY DEF CancelTimer, clientVars, deadlineVars, txVars, deviceVars,
         DeviceKnows, LastSent
<1>6. StreamIsRecent'
  BY DEF CancelTimer, clientVars, deadlineVars, txVars, deviceVars,
         StreamIsRecent, LastSent, OldFramesMayWait
<1>7. LateFrameIsTold'
  BY DEF CancelTimer, clientVars, deadlineVars, txVars, deviceVars,
         LateFrameIsTold
<1>8. BlocksAreRead'
  BY DEF CancelTimer, clientVars, deadlineVars, txVars, deviceVars,
         BlocksAreRead, OnlyOneActivity, ConnectOps, RequestOps
<1>9. StatusHasCause'
  BY DEF CancelTimer, clientVars, deadlineVars, txVars, deviceVars,
         StatusHasCause, OnlyOneActivity, ConnectionState, ConnectOps,
         RequestOps
<1>10. ReadingsAreWhole'
  BY DEF CancelTimer, clientVars, deadlineVars, txVars, deviceVars,
         ReadingsAreWhole
<1> QED  BY <1>1, <1>2, <1>3, <1>4, <1>5, <1>6, <1>7, <1>8, <1>9, <1>10

LEMMA RunCycleKeepsIInv ==
  ASSUME IInv, TypeOK', RunCycle PROVE IInv'
<1> USE DEF IInv, RunCycle
<1>1. /\ results = <<>> /\ op = "none" /\ running = "none"
      /\ "connect" \notin calls /\ "read" \notin calls
      /\ cycle' = "none" /\ running' = "none" /\ results' = results /\ op' = op
      /\ started /\ started' = started
  BY BlocksAssumption
     DEF OnlyOneActivity, NothingBeforeStart, ReadBlock, connectionVars, TypeOK
<1>2. /\ \/ calls' = calls
         \/ calls' = calls \cup {"read"} /\ block' # 0
         \/ calls' = calls \cup {"connect"}
      /\ \/ block' = block /\ values' = values
         \/ block' \in {0, 1}
  BY BlocksAssumption DEF ReadBlock
<1>3. OnlyOneActivity' /\ NothingBeforeStart'
  BY <1>1, <1>2 DEF OnlyOneActivity, NothingBeforeStart
<1>4. DeadlineHasOperation' /\ ConnectionState' /\ DeviceKnows' /\ LateFrameIsTold'
  BY DEF DeadlineHasOperation, ConnectionState, DeviceKnows, LastSent, LateFrameIsTold,
         connectionVars, deadlineVars, txVars, deviceVars
<1>5. StreamIsRecent'
  BY DEF StreamIsRecent, LastSent, OldFramesMayWait, connectionVars, txVars, deviceVars
<1>6. Len(results') = 0
  BY <1>1, EmptySeq
<1>7. BlocksAreRead'
  BY <1>1, <1>2, <1>6 DEF BlocksAreRead, RequestOps
<1>8. StatusHasCause' /\ ReadingsAreWhole'
  BY <1>1 DEF StatusHasCause, ReadingsAreWhole
<1> QED  BY <1>3, <1>4, <1>5, <1>7, <1>8

LEMMA RunResultKeepsIInv ==
  ASSUME IInv, TypeOK', RunResult PROVE IInv'
<1> USE DEF IInv
<1>0. /\ running = "none" /\ results # <<>> /\ results' = Tail(results)
      /\ UNCHANGED <<connectionVars, started, stopped, cycle, cancelling, last_status, heard>>
  BY DEF RunResult
<1>1. /\ results' = <<>> /\ Len(results') = 0 /\ Head(results) = results[1]
      /\ results[1] \in Result /\ Len(results) = 1
  BY <1>0, TakenResultWasOnly DEF OnlyOneActivity
<1>2. /\ op = "none" /\ op' = op /\ cycle = "none" /\ cycle' = cycle /\ running = "none"
      /\ "connect" \notin calls /\ "read" \notin calls /\ started /\ started' = started
      /\ connected' = connected /\ heard' = heard
  BY <1>0 DEF OnlyOneActivity, NothingBeforeStart, TypeOK, connectionVars
<1>3. DeadlineHasOperation' /\ ConnectionState' /\ DeviceKnows' /\ LateFrameIsTold'
  BY <1>0 DEF DeadlineHasOperation, ConnectionState, DeviceKnows, LastSent, LateFrameIsTold,
         connectionVars, deadlineVars, txVars, deviceVars
<1>4. StreamIsRecent'
  BY <1>0 DEF StreamIsRecent, LastSent, OldFramesMayWait, connectionVars, txVars, deviceVars
<1>5. CASE stopped
  <2>1. UNCHANGED <<calls, block, values, running>>
    BY <1>5 DEF RunResult
  <2>2. OnlyOneActivity' /\ NothingBeforeStart'
    BY <1>1, <1>2, <2>1 DEF OnlyOneActivity, NothingBeforeStart
  <2>3. BlocksAreRead' /\ StatusHasCause' /\ ReadingsAreWhole'
    BY <1>1, <1>2, <2>1 DEF BlocksAreRead, StatusHasCause, ReadingsAreWhole, RequestOps
  <2> QED  BY <1>3, <1>4, <2>2, <2>3
<1>6. CASE ~stopped /\ results[1].kind \in {"not_connected", "error"}
  <2>1. running' = "fail" /\ UNCHANGED <<calls, block, values>>
    BY <1>1, <1>6 DEF RunResult
  <2>2. OnlyOneActivity' /\ NothingBeforeStart'
    BY <1>1, <1>2, <2>1 DEF OnlyOneActivity, NothingBeforeStart
  <2>3. BlocksAreRead'
    BY <1>1, <1>2, <2>1 DEF BlocksAreRead, RequestOps
  <2>4. StatusHasCause' /\ ReadingsAreWhole'
    BY <1>1, <1>2, <1>6, <2>1 DEF StatusHasCause, ReadingsAreWhole
  <2> QED  BY <1>3, <1>4, <2>2, <2>3, <2>4
<1>7. CASE ~stopped /\ results[1].kind = "connected"
  <2>0. ReadBlock(1) /\ UNCHANGED values
    BY <1>1, <1>7 DEF RunResult
  <2>1. block' = 1 /\ calls' = calls \cup {"read"} /\ UNCHANGED <<values, running>>
    BY <2>0, BlocksAssumption DEF ReadBlock
  <2>2. OnlyOneActivity' /\ NothingBeforeStart'
    BY <1>1, <1>2, <2>1 DEF OnlyOneActivity, NothingBeforeStart
  <2>3. BlocksAreRead' /\ StatusHasCause' /\ ReadingsAreWhole'
    BY <1>1, <1>2, <2>1 DEF BlocksAreRead, StatusHasCause, ReadingsAreWhole, RequestOps
  <2> QED  BY <1>3, <1>4, <2>2, <2>3
<1>8. CASE ~stopped /\ results[1].kind = "registers"
  <2>1. values' = [values EXCEPT ![block] = IF results[1].late THEN "late" ELSE "fresh"]
        /\ ReadBlock(block + 1)
    BY <1>1, <1>8 DEF RunResult
  <2>2. heard /\ block \in BlockIndex /\ ~results[1].late
    BY <1>0, <1>1, <1>8, BlocksAssumption DEF BlocksAreRead, StatusHasCause, TypeOK, BlockIndex
  <2>3. /\ block' \in Nat
        /\ \A b \in 1 .. block : values'[b] = "fresh"
    BY <2>1, <2>2, BlocksAssumption DEF BlocksAreRead, TypeOK, BlockIndex, ReadBlock
  <2>4. \/ /\ block = Blocks /\ running' = "finish"
           /\ UNCHANGED <<calls, block>>
        \/ block' = block + 1 /\ calls' = calls \cup {"read"} /\ UNCHANGED running
    BY <2>1, <2>2, BlocksAssumption DEF ReadBlock, BlockIndex
  <2>5. OnlyOneActivity' /\ NothingBeforeStart'
    BY <1>1, <1>2, <2>4 DEF OnlyOneActivity, NothingBeforeStart
  <2>6. BlocksAreRead'
    <3>1. \A b \in 1 .. block' - 1 : values'[b] = "fresh"
      <4>1. block \in Nat /\ (block' = block \/ block' = block + 1)
        BY <2>2, <2>4, BlocksAssumption DEF BlockIndex
      <4>2. 1 .. block' - 1 \subseteq 1 .. block
        BY <4>1
      <4> QED  BY <2>3, <4>2
    <3>2. block' # 0
      BY <2>2, <2>4, BlocksAssumption DEF BlockIndex
    <3> QED  BY <1>1, <1>2, <3>1, <3>2 DEF BlocksAreRead, RequestOps
  <2>7. StatusHasCause' /\ ReadingsAreWhole'
    BY <1>1, <1>2, <2>2, <2>3, <2>4 DEF StatusHasCause, ReadingsAreWhole, BlockIndex
  <2> QED  BY <1>3, <1>4, <2>5, <2>6, <2>7
<1>9. results[1].kind \in {"connected", "not_connected", "error", "registers"}
  BY <1>1 DEF Result, Connected, NotConnected, ModbusError
<1> QED  BY <1>5, <1>6, <1>7, <1>8, <1>9

LEMMA FinishCycleKeepsIInv ==
  ASSUME IInv, TypeOK', FinishCycle PROVE IInv'
<1> USE DEF IInv
<1>1. OnlyOneActivity'
  BY DEF FinishCycle, ScheduleNext, clientVars, deadlineVars, txVars,
         deviceVars, OnlyOneActivity
<1>2. NothingBeforeStart'
  BY DEF FinishCycle, ScheduleNext, clientVars, deadlineVars, txVars,
         deviceVars, NothingBeforeStart
<1>3. DeadlineHasOperation'
  BY DEF FinishCycle, ScheduleNext, clientVars, deadlineVars, txVars,
         deviceVars, DeadlineHasOperation
<1>4. ConnectionState'
  BY DEF FinishCycle, ScheduleNext, clientVars, deadlineVars, txVars,
         deviceVars, ConnectionState, OnlyOneActivity, ConnectOps, RequestOps
<1>5. DeviceKnows'
  BY DEF FinishCycle, ScheduleNext, clientVars, deadlineVars, txVars,
         deviceVars, DeviceKnows, LastSent
<1>6. StreamIsRecent'
  BY DEF FinishCycle, ScheduleNext, clientVars, deadlineVars, txVars,
         deviceVars, StreamIsRecent, LastSent, OldFramesMayWait
<1>7. LateFrameIsTold'
  BY DEF FinishCycle, ScheduleNext, clientVars, deadlineVars, txVars,
         deviceVars, LateFrameIsTold
<1>8. BlocksAreRead'
  BY DEF FinishCycle, ScheduleNext, clientVars, deadlineVars, txVars,
         deviceVars, BlocksAreRead, OnlyOneActivity, ConnectOps, RequestOps
<1>9. StatusHasCause'
  BY DEF FinishCycle, ScheduleNext, clientVars, deadlineVars, txVars,
         deviceVars, StatusHasCause, OnlyOneActivity, ConnectionState,
         ConnectOps, RequestOps
<1>10. ReadingsAreWhole'
  BY DEF FinishCycle, ScheduleNext, clientVars, deadlineVars, txVars,
         deviceVars, ReadingsAreWhole
<1> QED  BY <1>1, <1>2, <1>3, <1>4, <1>5, <1>6, <1>7, <1>8, <1>9, <1>10

LEMMA FailCycleKeepsIInv ==
  ASSUME IInv, TypeOK', FailCycle PROVE IInv'
<1> USE DEF IInv
<1>1. OnlyOneActivity'
  BY DEF FailCycle, ScheduleNext, clientVars, deadlineVars, txVars, deviceVars,
         OnlyOneActivity
<1>2. NothingBeforeStart'
  BY DEF FailCycle, ScheduleNext, clientVars, deadlineVars, txVars, deviceVars,
         NothingBeforeStart
<1>3. DeadlineHasOperation'
  BY DEF FailCycle, ScheduleNext, clientVars, deadlineVars, txVars, deviceVars,
         DeadlineHasOperation
<1>4. ConnectionState'
  BY DEF FailCycle, ScheduleNext, clientVars, deadlineVars, txVars, deviceVars,
         ConnectionState, OnlyOneActivity, ConnectOps, RequestOps
<1>5. DeviceKnows'
  BY DEF FailCycle, ScheduleNext, clientVars, deadlineVars, txVars, deviceVars,
         DeviceKnows, LastSent
<1>6. StreamIsRecent'
  BY DEF FailCycle, ScheduleNext, clientVars, deadlineVars, txVars, deviceVars,
         StreamIsRecent, LastSent, OldFramesMayWait
<1>7. LateFrameIsTold'
  BY DEF FailCycle, ScheduleNext, clientVars, deadlineVars, txVars, deviceVars,
         LateFrameIsTold
<1>8. BlocksAreRead'
  BY DEF FailCycle, ScheduleNext, clientVars, deadlineVars, txVars, deviceVars,
         BlocksAreRead, OnlyOneActivity, ConnectOps, RequestOps
<1>9. StatusHasCause'
  BY DEF FailCycle, ScheduleNext, clientVars, deadlineVars, txVars, deviceVars,
         StatusHasCause, OnlyOneActivity, ConnectionState, ConnectOps,
         RequestOps
<1>10. ReadingsAreWhole'
  BY DEF FailCycle, ScheduleNext, clientVars, deadlineVars, txVars, deviceVars,
         ReadingsAreWhole
<1> QED  BY <1>1, <1>2, <1>3, <1>4, <1>5, <1>6, <1>7, <1>8, <1>9, <1>10

LEMMA TimerExpiresKeepsIInv ==
  ASSUME IInv, TypeOK', TimerExpires PROVE IInv'
<1> USE DEF IInv
<1>1. OnlyOneActivity'
  BY DEF TimerExpires, clientVars, deadlineVars, txVars, deviceVars,
         OnlyOneActivity
<1>2. NothingBeforeStart'
  BY DEF TimerExpires, clientVars, deadlineVars, txVars, deviceVars,
         NothingBeforeStart
<1>3. DeadlineHasOperation'
  BY DEF TimerExpires, clientVars, deadlineVars, txVars, deviceVars,
         DeadlineHasOperation
<1>4. ConnectionState'
  BY DEF TimerExpires, clientVars, deadlineVars, txVars, deviceVars,
         ConnectionState, OnlyOneActivity, ConnectOps, RequestOps
<1>5. DeviceKnows'
  BY DEF TimerExpires, clientVars, deadlineVars, txVars, deviceVars,
         DeviceKnows, LastSent
<1>6. StreamIsRecent'
  BY DEF TimerExpires, clientVars, deadlineVars, txVars, deviceVars,
         StreamIsRecent, LastSent, OldFramesMayWait
<1>7. LateFrameIsTold'
  BY DEF TimerExpires, clientVars, deadlineVars, txVars, deviceVars,
         LateFrameIsTold
<1>8. BlocksAreRead'
  BY DEF TimerExpires, clientVars, deadlineVars, txVars, deviceVars,
         BlocksAreRead, OnlyOneActivity, ConnectOps, RequestOps
<1>9. StatusHasCause'
  BY DEF TimerExpires, clientVars, deadlineVars, txVars, deviceVars,
         StatusHasCause, OnlyOneActivity, ConnectionState, ConnectOps,
         RequestOps
<1>10. ReadingsAreWhole'
  BY DEF TimerExpires, clientVars, deadlineVars, txVars, deviceVars,
         ReadingsAreWhole
<1> QED  BY <1>1, <1>2, <1>3, <1>4, <1>5, <1>6, <1>7, <1>8, <1>9, <1>10

LEMMA NextKeepsIInv ==
  ASSUME IInv, TypeOK', [Next]_vars PROVE IInv'
<1>1. CASE Next
  <2>1. ASSUME ClientStep(Handler) PROVE IInv'
    BY <2>1, RunConnectKeepsIInv, RunReadKeepsIInv, RunCloseKeepsIInv, RunDeadlineKeepsIInv,
       RunResolvedKeepsIInv, RunConnectedKeepsIInv, RunWrittenKeepsIInv, RunHeaderKeepsIInv,
       RunBodyKeepsIInv
       DEF Handler, ClientStep
  <2>2. ASSUME ClientStep(Network) PROVE IInv'
    BY <2>2, ConnectOpCompletesKeepsIInv, ConnectionBreaksKeepsIInv, RequestIsWrittenKeepsIInv,
       DeviceAnswersKeepsIInv, HeaderArrivesKeepsIInv, BodyArrivesKeepsIInv
       DEF Network, ClientStep
  <2> QED
    BY <1>1, <2>1, <2>2, DeadlineExpiresKeepsIInv, StartKeepsIInv, StopKeepsIInv,
       CancelTimerKeepsIInv, RunCycleKeepsIInv, RunResultKeepsIInv, FinishCycleKeepsIInv,
       FailCycleKeepsIInv, TimerExpiresKeepsIInv
       DEF Next
<1>2. CASE UNCHANGED vars
  <2> USE <1>2 DEF IInv, vars, clientVars, pollerVars, deadlineVars, deviceVars, txVars
  <2>1. OnlyOneActivity' /\ NothingBeforeStart' /\ DeadlineHasOperation'
    BY DEF OnlyOneActivity, NothingBeforeStart, DeadlineHasOperation
  <2>2. ConnectionState' /\ LateFrameIsTold'
    BY DEF ConnectionState, LateFrameIsTold
  <2>3. DeviceKnows' /\ StreamIsRecent'
    BY DEF DeviceKnows, StreamIsRecent, LastSent, OldFramesMayWait
  <2>4. BlocksAreRead'
    BY DEF BlocksAreRead
  <2>5. StatusHasCause' /\ ReadingsAreWhole'
    BY DEF StatusHasCause, ReadingsAreWhole
  <2> QED  BY <2>1, <2>2, <2>3, <2>4, <2>5
<1> QED  BY <1>1, <1>2

-----------------------------------------------------------------------------
(* Type correctness. *)

LEMMA ResultsType ==
  ASSUME TypeOK, [Next]_vars PROVE results' \in Seq(Result)
<1> USE DEF TypeOK, ClientTypeOK
<1>1. CASE UNCHANGED results
  BY <1>1
<1>2. ASSUME NEW r \in Result, Callback(r) PROVE results' \in Seq(Result)
  BY <1>2, AppendProperties DEF Callback
<1>3. CASE results # <<>> /\ results' = Tail(results)
  BY <1>3, HeadTailProperties
<1>4. Connected \in Result /\ NotConnected \in Result /\ ModbusError \in Result
      /\ Registers(read_buffer) \in Result
  BY DEF Result, Registers, Frame
<1>5. GiveUp => results' \in Seq(Result)
  BY <1>2, <1>4 DEF GiveUp
<1>6. Handler => results' \in Seq(Result)
  BY <1>1, <1>2, <1>4, <1>5
     DEF Handler, RunConnect, RunRead, SendRequest, RunClose, RunDeadline, RunResolved, RunConnected,
         RunWritten, RunHeader, RunBody
<1>7. DeadlineExpires \/ Network => UNCHANGED results
  BY DEF DeadlineExpires, Network, ConnectOpCompletes, ConnectionBreaks, RequestIsWritten,
         DeviceAnswers, HeaderArrives, BodyArrives, Unchanged
<1>8. CASE UNCHANGED vars
  BY <1>1, <1>8 DEF vars, clientVars
<1>9. CASE Next
  BY <1>1, <1>3, <1>6, <1>7, <1>9
     DEF Next, ClientStep, Start, Stop, CancelTimer, RunCycle, RunResult, FinishCycle,
         FailCycle, TimerExpires, clientVars
<1> QED  BY <1>8, <1>9

(* What the device knows and has sent, and the frame being read. *)
LEMMA DeviceType ==
  ASSUME TypeOK, [Next]_vars
  PROVE  /\ received' \subseteq Request /\ read_buffer' \in Frame
         /\ stream' \in Seq(Frame) /\ Len(stream') <= MaxStream
<1> DEFINE Typed == /\ received' \subseteq Request /\ read_buffer' \in Frame
                    /\ stream' \in Seq(Frame) /\ Len(stream') <= MaxStream
<1> USE DEF TypeOK, ClientTypeOK
<1>1. UNCHANGED <<deviceVars, read_buffer>> => Typed
  BY DEF deviceVars
<1>2. ASSUME NEW o, NEW d, CloseSocketDuring(o, d), UNCHANGED read_buffer PROVE Typed
  BY <1>2, StreamAssumption, EmptySeq DEF CloseSocketDuring
<1>3. CASE RequestIsWritten
  <2>1. received' \subseteq Request /\ read_buffer' \in Frame
    <3>1. [transaction_id |-> transaction_id, late |-> FALSE] \in Request
      BY DEF Request
    <3>2. \A r \in received : [r EXCEPT !.late = TRUE] \in Request
      BY DEF Request
    <3> QED  BY <1>3, <3>1, <3>2 DEF RequestIsWritten
  <2>2. /\ DOMAIN stream = 1 .. Len(stream) /\ Len(stream) \in Nat
        /\ \A i \in 1 .. Len(stream) : stream[i] \in Frame
    BY LenProperties, ElementOfSeq
  <2>3. /\ stream' = [i \in 1 .. Len(stream) |-> [stream[i] EXCEPT !.late = TRUE]]
        /\ \A i \in 1 .. Len(stream) : [stream[i] EXCEPT !.late = TRUE] \in Frame
    BY <1>3, <2>2 DEF RequestIsWritten, Frame
  <2>4. stream' \in Seq(Frame) /\ Len(stream') = Len(stream)
    BY <2>2, <2>3
  <2> QED  BY <2>1, <2>4
<1>4. CASE DeviceAnswers
  <2>1. received' \subseteq Request /\ read_buffer' \in Frame
    BY <1>4 DEF DeviceAnswers
  <2>2. PICK r \in received, kind \in FrameKinds :
          stream' = Append(stream, [transaction_id |-> r.transaction_id,
                                    late |-> r.late, kind |-> kind])
    BY <1>4 DEF DeviceAnswers
  <2>3. [transaction_id |-> r.transaction_id, late |-> r.late, kind |-> kind] \in Frame
    BY DEF Request, Frame
  <2>4. stream' \in Seq(Frame) /\ Len(stream') = Len(stream) + 1 /\ Len(stream) \in Nat
    BY <2>2, <2>3, AppendProperties
  <2>5. Len(stream) < MaxStream
    BY <1>4 DEF DeviceAnswers
  <2> QED  BY <2>1, <2>4, <2>5, StreamAssumption
<1>5. CASE HeaderArrives
  <2>1. /\ stream # <<>> /\ stream' = Tail(stream) /\ read_buffer' = Head(stream)
        /\ received' = received
    BY <1>5 DEF HeaderArrives
  <2>2. /\ Tail(stream) \in Seq(Frame) /\ Len(Tail(stream)) = Len(stream) - 1
        /\ Head(stream) \in Frame /\ Len(stream) \in Nat
    BY <2>1, HeadTailProperties
  <2> QED  BY <2>1, <2>2, StreamAssumption
<1>6. ConnectOpCompletes \/ ConnectionBreaks \/ BodyArrives => Typed
  BY <1>1 DEF ConnectOpCompletes, ConnectionBreaks, BodyArrives
<1>7. GiveUp /\ UNCHANGED read_buffer => Typed
  BY <1>2 DEF GiveUp, CloseSocket
<1>8. Handler => Typed
  <2> HIDE DEF Typed
  <2>1. RunConnect \/ RunClose \/ RunDeadline \/ RunConnected => Typed
    BY <1>1, <1>2 DEF RunConnect, RunClose, RunDeadline, RunConnected, CloseSocket, deviceVars
  <2>2. RunRead \/ RunResolved => Typed
    BY <1>1 DEF RunRead, SendRequest, RunResolved
  <2>3. RunWritten \/ RunHeader \/ RunBody => Typed
    BY <1>1, <1>7 DEF RunWritten, RunHeader, RunBody
  <2> QED  BY <2>1, <2>2, <2>3 DEF Handler
<1>9. CASE UNCHANGED vars
  BY <1>1, <1>9 DEF vars, clientVars, deviceVars
<1>10. CASE Next
  <2> HIDE DEF Typed
  <2>1. DeadlineExpires => Typed
    BY <1>1 DEF DeadlineExpires
  <2>2. ClientStep(Handler) \/ ClientStep(DeadlineExpires) \/ ClientStep(Network) => Typed
    BY <1>3, <1>4, <1>5, <1>6, <1>8, <2>1 DEF ClientStep, Network, Typed
  <2>3. Start \/ CancelTimer \/ FinishCycle \/ FailCycle \/ TimerExpires => Typed
    BY <1>1 DEF Start, CancelTimer, FinishCycle, FailCycle, TimerExpires, clientVars
  <2>4. Stop \/ RunCycle \/ RunResult => Typed
    BY <1>1 DEF Stop, RunCycle, RunResult, connectionVars
  <2> QED  BY <1>10, <2>2, <2>3, <2>4 DEF Next, Typed
<1> QED  BY <1>9, <1>10

(* The client's other variables. *)
LEMMA ConnectionType ==
  ASSUME TypeOK, [Next]_vars
  PROVE  /\ socket' \in {"closed", "open"} /\ connected' \in BOOLEAN
         /\ op' \in ConnectOps \cup RequestOps \cup {"none"}
         /\ done' \in {"no", "success", "error"} /\ (op' = "none" => done' = "no")
         /\ deadline' \in {"off", "armed"} /\ expired' \subseteq {"current", "stale"}
         /\ next_transaction_id' \in TxIds /\ transaction_id' \in TxIds
         /\ calls' \subseteq {"connect", "read", "close"}
<1> DEFINE Typed == /\ socket' \in {"closed", "open"} /\ connected' \in BOOLEAN
                    /\ op' \in ConnectOps \cup RequestOps \cup {"none"}
                    /\ done' \in {"no", "success", "error"} /\ (op' = "none" => done' = "no")
                    /\ deadline' \in {"off", "armed"} /\ expired' \subseteq {"current", "stale"}
                    /\ next_transaction_id' \in TxIds /\ transaction_id' \in TxIds
                    /\ calls' \subseteq {"connect", "read", "close"}
<1> USE DEF TypeOK, ClientTypeOK, ConnectOps, RequestOps
<1>1. RunConnect \/ RunClose => Typed
  BY DEF RunConnect, RunClose, CloseSocketDuring, ArmDeadline, DisarmDeadline, Outdate, txVars
<1>2. RunRead => Typed
  BY IdArithmetic DEF RunRead, SendRequest, ArmDeadline, Outdate, Begin, deadlineVars
<1>3. RunDeadline => Typed
  BY CancelAssumption DEF RunDeadline, CancelledResolve, CloseSocketDuring, txVars
<1>4. RunResolved \/ RunConnected => Typed
  BY DEF RunResolved, RunConnected, DisarmDeadline, Outdate, CloseSocket, CloseSocketDuring,
         deadlineVars, txVars
<1>5. RunWritten \/ RunHeader \/ RunBody => Typed
  BY DEF RunWritten, RunHeader, RunBody, GiveUp, Begin, DisarmDeadline, Outdate, CloseSocket,
         CloseSocketDuring, deadlineVars, txVars
<1>6. DeadlineExpires => Typed
  BY DEF DeadlineExpires, txVars
<1>7. Network => Typed
  BY DEF Network, ConnectOpCompletes, ConnectionBreaks, RequestIsWritten, DeviceAnswers,
         HeaderArrives, BodyArrives, Unchanged, deadlineVars, txVars
<1>8. UNCHANGED <<connectionVars, calls>> => Typed
  BY DEF connectionVars, deadlineVars, txVars
<1>9. UNCHANGED clientVars => Typed
  BY DEF clientVars, deadlineVars, txVars
<1>10. UNCHANGED connectionVars /\ calls' \subseteq {"connect", "read", "close"} => Typed
  BY DEF connectionVars, deadlineVars, txVars
<1>11. Stop \/ RunCycle \/ RunResult => Typed
  <2> HIDE DEF Typed
  <2>1. Stop \/ RunCycle => Typed
    BY <1>10 DEF Stop, RunCycle, ReadBlock
  <2>2. RunResult => calls' \subseteq {"connect", "read", "close"}
    <3>1. \A b : ReadBlock(b) => calls' \subseteq {"connect", "read", "close"}
      BY DEF ReadBlock
    <3> QED  BY <3>1, TakenResultIsKnown DEF RunResult
  <2> QED  BY <1>10, <2>1, <2>2 DEF RunResult
<1>12. CASE UNCHANGED vars
  BY <1>9, <1>12 DEF vars
<1>13. CASE Next
  <2> HIDE DEF Typed
  <2>1. Start \/ CancelTimer \/ FinishCycle \/ FailCycle \/ TimerExpires => Typed
    BY <1>9 DEF Start, CancelTimer, FinishCycle, FailCycle, TimerExpires
  <2>2. ClientStep(Handler) \/ ClientStep(DeadlineExpires) \/ ClientStep(Network) => Typed
    BY <1>1, <1>2, <1>3, <1>4, <1>5, <1>6, <1>7 DEF ClientStep, Handler
  <2> QED  BY <1>11, <1>13, <2>1, <2>2 DEF Next, Typed
<1> QED  BY <1>12, <1>13

LEMMA PollerType ==
  ASSUME TypeOK, [Next]_vars
  PROVE  /\ started' \in BOOLEAN /\ stopped' \in BOOLEAN /\ cancelling' \in BOOLEAN
         /\ cycle' \in {"none", "timer", "queued"}
         /\ block' \in 0 .. Blocks
         /\ values' \in [BlockIndex -> {"none", "fresh", "late"}]
         /\ running' \in {"none", "finish", "fail"}
         /\ last_status' \in {"unknown", "online", "offline"}
         /\ heard' \in BOOLEAN
<1> DEFINE Typed == /\ started' \in BOOLEAN /\ stopped' \in BOOLEAN /\ cancelling' \in BOOLEAN
                    /\ cycle' \in {"none", "timer", "queued"}
                    /\ block' \in 0 .. Blocks
                    /\ values' \in [BlockIndex -> {"none", "fresh", "late"}]
                    /\ running' \in {"none", "finish", "fail"}
                    /\ last_status' \in {"unknown", "online", "offline"}
                    /\ heard' \in BOOLEAN
<1> USE DEF TypeOK
<1>1. Start \/ Stop \/ CancelTimer \/ TimerExpires => Typed
  BY DEF Start, Stop, CancelTimer, TimerExpires
<1>2. FinishCycle \/ FailCycle => Typed
  BY DEF FinishCycle, FailCycle, ScheduleNext
<1>3. ASSUME NEW b \in Nat \ {0}, ReadBlock(b)
      PROVE  block' \in 0 .. Blocks /\ running' \in {"none", "finish", "fail"}
  BY <1>3, BlocksAssumption DEF ReadBlock
<1>4. RunCycle => Typed
  <2>1. 1 \in Nat \ {0} /\ 0 \in 0 .. Blocks /\ NoValues \in [BlockIndex -> {"none", "fresh", "late"}]
    BY BlocksAssumption DEF NoValues
  <2>2. RunCycle => block' \in 0 .. Blocks /\ running' \in {"none", "finish", "fail"}
    BY <1>3, <2>1 DEF RunCycle
  <2> QED  BY <2>1, <2>2 DEF RunCycle
<1>5. RunResult => Typed
  <2> SUFFICES ASSUME RunResult PROVE Typed
    OBVIOUS
  <2>1. values' \in [BlockIndex -> {"none", "fresh", "late"}]
    BY TakenResultIsKnown DEF RunResult
  <2>2. block' \in 0 .. Blocks /\ running' \in {"none", "finish", "fail"}
    <3>1. block + 1 \in Nat \ {0} /\ 1 \in Nat \ {0}
      BY BlocksAssumption
    <3> QED  BY <1>3, <3>1, TakenResultIsKnown DEF RunResult
  <2> QED  BY <2>1, <2>2 DEF RunResult
<1>6. ClientStep(Handler) \/ ClientStep(DeadlineExpires) \/ ClientStep(Network) => Typed
  BY DEF ClientStep
<1>7. CASE UNCHANGED vars
  BY <1>7 DEF vars, pollerVars
<1> QED  BY <1>1, <1>2, <1>4, <1>5, <1>6, <1>7 DEF Next

LEMMA NextKeepsTypeOK == TypeOK /\ [Next]_vars => TypeOK'
<1> SUFFICES ASSUME TypeOK, [Next]_vars PROVE TypeOK'
  OBVIOUS
<1> QED
  BY ResultsType, DeviceType, ConnectionType, PollerType DEF TypeOK, ClientTypeOK

-----------------------------------------------------------------------------
(* The theorems. *)

(* Type correctness: every member of ModbusClient and DevicePoller keeps to
   the values its declaration and the handlers' logic allow. *)
THEOREM TypeCorrectness == Spec => []TypeOK
<1>1. Init => TypeOK
  BY InitIInv DEF IInv
<1> QED  BY <1>1, NextKeepsTypeOK, PTL DEF Spec, SafeSpec

LEMMA InductiveInvariant == SafeSpec => []IInv
<1>1. IInv /\ [Next]_vars => IInv'
  BY NextKeepsTypeOK, NextKeepsIInv DEF IInv
<1> QED  BY <1>1, InitIInv, PTL DEF SafeSpec

(* The poller has at most one thing going on, whatever the order in which the
   client's callbacks, the timer, the network and stop() come: a call, an
   operation of the client, its result, the timer or a handler in two parts. *)
THEOREM SingleActivity == Spec => []OneThingAtATime
<1>1. IInv => OneThingAtATime
  <2> DEFINE Pending == calls \cap {"connect", "read"}
             Parts == {<<"op", op>>, <<"cycle", cycle>>, <<"running", running>>}
             Busy == {x \in Parts : x[2] # "none"}
  <2> SUFFICES ASSUME IInv PROVE Cardinality(Pending) + Len(results) + Cardinality(Busy) <= 1
    BY DEF OneThingAtATime
  <2> USE DEF IInv, OnlyOneActivity
  <2>1. Len(results) \in Nat /\ (results = <<>> <=> Len(results) = 0)
    BY LenProperties, EmptySeq DEF TypeOK, ClientTypeOK
  <2>2. \/ Pending = {} \/ Pending = {"connect"} \/ Pending = {"read"}
    OBVIOUS
  <2>3. Cardinality(Pending) \in {0, 1} /\ (Cardinality(Pending) = 1 => Pending # {})
    BY <2>2, FS_EmptySet, FS_Singleton
  <2>4. \/ Busy = {} \/ Busy = {<<"op", op>>} \/ Busy = {<<"cycle", cycle>>}
        \/ Busy = {<<"running", running>>}
    OBVIOUS
  <2>5. Cardinality(Busy) \in {0, 1}
    BY <2>4, FS_EmptySet, FS_Singleton
  <2>6. op = "none" /\ cycle = "none" /\ running = "none" => Busy = {}
    OBVIOUS
  <2> HIDE DEF Busy, Parts
  <2>7. Pending # {} => results = <<>> /\ Cardinality(Busy) = 0
    BY <2>6, FS_EmptySet
  <2>8. results # <<>> => Cardinality(Busy) = 0
    BY <2>6, FS_EmptySet
  <2> HIDE DEF Pending
  <2> QED  BY <2>1, <2>3, <2>5, <2>7, <2>8
<1> QED  BY <1>1, InductiveInvariant, PTL DEF Spec

(* What a cycle publishes was read block by block in that cycle, none of it
   from a frame that answers an older request: finish_cycle finds every block
   fresh, however answers are delayed, repeated or lost. *)
THEOREM PublishedReadingsAreWhole == Spec => []ReadingsAreWhole
<1>1. IInv => ReadingsAreWhole
  BY DEF IInv
<1> QED  BY <1>1, InductiveInvariant, PTL DEF Spec

(* The status changes only in finish_cycle, after an answer of this cycle, and
   in fail_cycle: to online if the device is still connected, which after a
   failure it is only if it answered. *)
THEOREM AnnouncedStatusIsEarned == Spec => StatusIsEarned
<1>1. IInv /\ [Next]_vars =>
        [last_status' # last_status =>
           /\ last_status' = "online" => heard
           /\ last_status' = "offline" => ~connected]_vars
  <2> SUFFICES ASSUME IInv, Next, last_status' # last_status
               PROVE  /\ last_status' = "online" => heard
                      /\ last_status' = "offline" => ~connected
    BY DEF vars, pollerVars
  <2>1. FinishCycle \/ FailCycle
    BY DEF Next, Start, Stop, CancelTimer, RunCycle, RunResult, TimerExpires, ClientStep
  <2>2. connected \in BOOLEAN /\ heard \in BOOLEAN
    BY DEF IInv, TypeOK, ClientTypeOK
  <2> QED  BY <2>1, <2>2 DEF IInv, StatusHasCause, FinishCycle, FailCycle
<1> QED  BY <1>1, InductiveInvariant, PTL DEF Spec, SafeSpec, StatusIsEarned

(* No deadline left over from an operation that is done ever closes the
   connection: the generation count makes its handler do nothing. *)
THEOREM LeftoverDeadlinesAreHarmless == Spec => IdleConnectionIsKept
<1>1. IInv /\ [Next]_vars =>
        [connected /\ op = "none" /\ ~connected' => calls' # calls]_clientVars
  <2> SUFFICES ASSUME IInv, [Next]_vars, connected, op = "none", ~connected'
               PROVE  calls' # calls
    OBVIOUS
  <2> USE DEF IInv
  <2>1. ~RunDeadline
    BY DEF RunDeadline, DeadlineHasOperation
  <2>2. CASE RunConnect \/ RunRead \/ RunClose
    BY <2>2 DEF RunConnect, RunRead, SendRequest, RunClose
  <2>3. ~(Next /\ ~(RunConnect \/ RunRead \/ RunClose)) /\ ~UNCHANGED vars
    BY <2>1 DEF Next, ClientStep, Handler, Network, RunResolved, RunConnected, RunWritten,
         RunHeader, RunBody, DeadlineExpires, ConnectOpCompletes, ConnectionBreaks,
         RequestIsWritten, DeviceAnswers, HeaderArrives, BodyArrives, Unchanged,
         Start, Stop, CancelTimer, RunCycle, RunResult, FinishCycle, FailCycle, TimerExpires,
         connectionVars, clientVars, vars
  <2> QED  BY <2>2, <2>3
<1> QED  BY <1>1, InductiveInvariant, PTL DEF Spec, SafeSpec, IdleConnectionIsKept
=============================================================================
