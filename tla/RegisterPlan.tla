---------------------------- MODULE RegisterPlan ----------------------------
(***************************************************************************)
(* How a device's sensors become read requests and how the answers become  *)
(* values: plan_reads, decode_raw and extract_value of                      *)
(* register_decoder.cpp.  A sensor is a record with its register_type,      *)
(* address, data_type and word_order; a block is a record with its          *)
(* register_type, start, quantity and the indices of its sensors.           *)
(*                                                                         *)
(* Scaling is left out: a value is the words of the number, the most        *)
(* significant first and signed where the type is, with its data type.      *)
(***************************************************************************)
EXTENDS Integers, SequencesExt, FiniteSetsExt, ConfigTypes

\* No value, std::nullopt: a number has one word or two.
NoValue == <<>>

First(sensor) == sensor.address
End(sensor) == sensor.address + RegisterCount(sensor.data_type)

(***************************************************************************)
(* The orders std::sort may leave the sensors of one register type in: it  *)
(* is not stable, so sensors at one address come in either order.           *)
(***************************************************************************)
SortedBy(sensors, type) ==
    LET members == {i \in DOMAIN sensors : sensors[i].register_type = type}
    IN  {order \in SetToSeqs(members) :
            \A i, j \in DOMAIN order :
                   i < j => First(sensors[order[i]]) <= First(sensors[order[j]])}

\* A new block that holds the sensor alone.
OpenBlock(sensors, i) ==
    [register_type |-> sensors[i].register_type,
     start         |-> First(sensors[i]),
     quantity      |-> End(sensors[i]) - First(sensors[i]),
     indices       |-> <<i>>]

\* As a bug would have it: the block ends where its last sensor does.
MergedEndOfLast(block, sensor) == End(sensor)

\* A sensor may end before the one it overlaps with.
MergedEnd(block, sensor) == Max({block.start + block.quantity, End(sensor)})

\* The condition under which the open block takes the next sensor.
Fits(block, sensor, maxQuantity, maxGap) ==
    /\ First(sensor) - (block.start + block.quantity) <= maxGap
    /\ MergedEnd(block, sensor) - block.start <= maxQuantity

\* The blocks after one more sensor: the last of them, which is open, takes
\* it, or it opens a block of its own.
Extended(blocks, sensors, i, maxQuantity, maxGap) ==
    LET open == blocks[Len(blocks)]
    IN  IF blocks # <<>> /\ Fits(open, sensors[i], maxQuantity, maxGap)
        THEN [blocks EXCEPT ![Len(blocks)] =
                 [open EXCEPT !.quantity = MergedEnd(open, sensors[i]) - open.start,
                              !.indices = Append(@, i)]]
        ELSE Append(blocks, OpenBlock(sensors, i))

\* One pass over the sensors of a register type, in their sorted order.
BlocksOf(sensors, order, maxQuantity, maxGap) ==
    LET after[n \in 0..Len(order)] ==
            IF n = 0 THEN <<>>
            ELSE Extended(after[n - 1], sensors, order[n], maxQuantity, maxGap)
    IN  after[Len(order)]

\* plan_reads: the plans it may return, one for each way the sorts may end.
Plans(sensors, maxQuantity, maxGap) ==
    {BlocksOf(sensors, h, maxQuantity, maxGap) \o BlocksOf(sensors, i, maxQuantity, maxGap) :
        h \in SortedBy(sensors, "holding"), i \in SortedBy(sensors, "input")}

-----------------------------------------------------------------------------

\* A 16-bit word read as two's complement.
Signed(word) == IF word >= 32768 THEN word - 65536 ELSE word

\* The words of a number, the most significant first.
DecodeRaw(registers, type, wordOrder) ==
    LET words == IF Len(registers) = 1 \/ wordOrder = "big"
                 THEN registers ELSE Reverse(registers)
    IN  IF type \in {"int16", "int32"}
        THEN [words EXCEPT ![1] = Signed(@)] ELSE words

\* std::isfinite of a float: an exponent of all ones is infinity or NaN.
IsFinite(type, words) == type = "float32" => (words[1] % 32768) \div 128 # 255

(***************************************************************************)
(* extract_value.  sensor.address - block.start_address is computed before *)
(* it is known not to be negative, but used only after.                     *)
(***************************************************************************)
ExtractValue(block, registers, sensor) ==
    LET offset == sensor.address - block.start
        count  == RegisterCount(sensor.data_type)
        words  == DecodeRaw(SubSeq(registers, offset + 1, offset + count),
                            sensor.data_type, sensor.word_order)
    IN  IF \/ offset < 0
           \/ offset + count > Len(registers)
           \/ ~IsFinite(sensor.data_type, words)
        THEN NoValue
        ELSE words

=============================================================================
