---------------------------- MODULE ConfigTypes ----------------------------
(***************************************************************************)
(* What a sensor's settings may be (RegisterType, DataType and WordOrder   *)
(* of config.hpp) and how many registers a value takes.                     *)
(***************************************************************************)
EXTENDS Naturals

\* The largest value of a register, an address and a field of 16 bits.
U16 == 65535

RegisterTypes == {"holding", "input"}
DataTypes == {"uint16", "int16", "uint32", "int32", "float32"}
WordOrders == {"big", "little"}

\* register_count.
RegisterCount(type) == IF type \in {"uint16", "int16"} THEN 1 ELSE 2

=============================================================================
