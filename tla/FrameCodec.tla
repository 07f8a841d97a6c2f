----------------------------- MODULE FrameCodec -----------------------------
(***************************************************************************)
(* The Modbus TCP frames of frame_codec.cpp as sequences of bytes: the     *)
(* request, how much of an answer is to be read, and what an answer says.   *)
(* Reading past the end of the buffer has no value here: TLC stops at it.   *)
(***************************************************************************)
EXTENDS Integers, Sequences

\* No answer that can be used: std::nullopt.
Malformed == [malformed |-> TRUE]

HeaderLength == 7
ExceptionBit == 128

FunctionCode == [holding |-> 3, input |-> 4, write |-> 6]
Functions == {FunctionCode[f] : f \in DOMAIN FunctionCode}

\* push_u16 and read_u16; offsets count from 0 as in the code.
PushU16(word) == <<word \div 256, word % 256>>
ReadU16(bytes, offset) == bytes[offset + 1] * 256 + bytes[offset + 2]

\* Unit byte, function, start address and quantity (or value).
EncodeRequest(transaction, unit, function, start, quantity) ==
    PushU16(transaction) \o PushU16(0) \o PushU16(6)
        \o <<unit, function>> \o PushU16(start) \o PushU16(quantity)

\* The whole length of the frame its header announces, or 0 for a header
\* that is not acceptable.
ExpectedFrameLength(bytes) ==
    IF /\ Len(bytes) >= HeaderLength
       /\ ReadU16(bytes, 2) = 0
       /\ ReadU16(bytes, 4) \in 2..254
    THEN 6 + ReadU16(bytes, 4)
    ELSE 0

\* The answer to a read: its byte count must be even, in range and the rest
\* of the frame.
ReadAnswerIsWhole(bytes) ==
    /\ Len(bytes) >= 9
    /\ bytes[9] \in 1..250
    /\ bytes[9] % 2 = 0
    /\ Len(bytes) = 9 + bytes[9]

\* decode_response.
DecodeResponse(bytes) ==
    LET function == bytes[8] % ExceptionBit
        answer(exception, code, registers) ==
            [transaction |-> ReadU16(bytes, 0), unit |-> bytes[7], function |-> function,
             exception |-> exception, code |-> code, registers |-> registers]
    IN  IF ExpectedFrameLength(bytes) = 0 \/ Len(bytes) # ExpectedFrameLength(bytes)
        THEN Malformed
        ELSE IF function \notin Functions
        THEN Malformed
        ELSE IF bytes[8] >= ExceptionBit
        THEN IF Len(bytes) = 9 THEN answer(TRUE, bytes[9], <<>>) ELSE Malformed
        ELSE IF function = FunctionCode.write
        THEN IF Len(bytes) = 12 THEN answer(FALSE, 0, <<ReadU16(bytes, 10)>>) ELSE Malformed
        ELSE IF ReadAnswerIsWhole(bytes)
        THEN answer(FALSE, 0, [i \in 1..bytes[9] \div 2 |-> ReadU16(bytes, 7 + 2 * i)])
        ELSE Malformed

=============================================================================
