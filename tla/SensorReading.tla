---------------------------- MODULE SensorReading ----------------------------
(***************************************************************************)
(* One cycle of a poller, without its timing: the planned blocks are asked *)
(* for one after the other, the bytes of each answer are framed and decoded, *)
(* and every sensor takes its value from its block (read_block of           *)
(* device_poller.cpp over modbus_client.cpp).  Any answer that is not usable *)
(* fails the whole cycle.                                                   *)
(*                                                                         *)
(* The device is external: it answers the request it finds in the bytes it  *)
(* is sent, in one of the ways of AnswerKinds.                              *)
(***************************************************************************)
EXTENDS RegisterPlan, FrameCodec

\* A request or a cycle that failed: no registers, no values.
Failed == <<>>

AnswerKinds == {"whole", "long", "short", "exception", "odd", "otherProtocol"}

\* What the device's registers hold: a word for a function code and an address.
CONSTANT Contents(_, _)

ASSUME ContentsAssumption ==
    \A function \in Functions, address \in 0..U16 + 1 : Contents(function, address) \in 0..U16

\* The bytes of an answer with n registers from start on.
Registers(function, start, n) ==
    FlattenSeq([i \in 1..n |-> PushU16(Contents(function, start + i - 1))])

Answer(kind, request) ==
    LET function == request[8]
        start    == ReadU16(request, 8)
        quantity == ReadU16(request, 10)
        n        == CASE kind = "long" -> quantity + 1
                      [] kind = "short" -> quantity - 1
                      [] OTHER -> quantity
        pdu      == CASE kind = "exception" -> <<function + ExceptionBit, 2>>
                      [] kind = "odd" -> <<function, 2 * n - 1>> \o Registers(function, start, n)
                      [] OTHER -> <<function, 2 * n>> \o Registers(function, start, n)
    IN  SubSeq(request, 1, 2) \o PushU16(IF kind = "otherProtocol" THEN 1 ELSE 0)
            \o PushU16(1 + Len(pdu)) \o <<request[7]>> \o pdu

-----------------------------------------------------------------------------
(***************************************************************************)
(* read_response over the bytes that arrive: the header, then as many bytes *)
(* as it announces.                                                         *)
(***************************************************************************)
FrameOf(stream) ==
    LET total == ExpectedFrameLength(SubSeq(stream, 1, HeaderLength))
    IN  IF total \in HeaderLength + 1..HeaderLength + 253
        THEN SubSeq(stream, 1, total) ELSE <<>>

\* One request: the registers, or Failed.  Fewer than asked for are refused.
ReadRegisters(block, kind) ==
    LET request  == EncodeRequest(1, 1, FunctionCode[block.register_type],
                                  block.start, block.quantity)
        response == DecodeResponse(FrameOf(Answer(kind, request)))
    IN  IF \/ response = Malformed
           \/ response.exception
           \/ Len(response.registers) < block.quantity
        THEN Failed ELSE response.registers

(***************************************************************************)
(* read_block for every block of the plan: the value of each sensor, or    *)
(* Failed.                                                                  *)
(***************************************************************************)
ReadCycle(sensors, plan, kind) ==
    LET answers == [b \in DOMAIN plan |-> ReadRegisters(plan[b], kind)]
        block(i) == CHOOSE b \in DOMAIN plan : \E k \in DOMAIN plan[b].indices :
                                                    plan[b].indices[k] = i
    IN  IF \E b \in DOMAIN plan : answers[b] = Failed
        THEN Failed
        ELSE [i \in DOMAIN sensors |->
                 IF \E b \in DOMAIN plan : i \in {plan[b].indices[k] : k \in DOMAIN plan[b].indices}
                 THEN ExtractValue(plan[block(i)], answers[block(i)], sensors[i])
                 ELSE NoValue]

=============================================================================
