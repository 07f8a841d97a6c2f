------------------------------ MODULE SpscRing ------------------------------
(***************************************************************************)
(* SpscRingBuffer (include/ironpulse/ingest/ring_buffer.hpp): the lock-    *)
(* free queue between the threads that submit telemetry samples and the    *)
(* ingest consumer thread.                                                 *)
(*                                                                         *)
(* A step is one access to memory the other thread also accesses: a load   *)
(* or store of the other side's index, or the construction or the move out *)
(* of an element of the buffer.  Indices are unsigned machine words: they  *)
(* count modulo Modulus (2^64 in the build) and are masked on access.  An  *)
(* acquire load is taken to return the last value stored.                  *)
(***************************************************************************)
EXTENDS Integers, Sequences

CONSTANTS Values,    \* elements the producer pushes
          NoItem,    \* marks a vacant slot and the absence of an element
          Capacity,  \* capacity_
          Modulus    \* one more than the largest index (2^64)

ASSUME NoItemAssumption == NoItem \notin Values
(* A power of two of at least 2 that fits the word divides the word's range
   at least twice; that is all the algorithm needs of it. *)
ASSUME CapacityAssumption ==
  /\ Capacity \in Nat \ {0, 1}
  /\ Modulus \in Nat
  /\ \E laps \in 2 .. Modulus : Modulus = laps * Capacity

VARIABLES buffer,       \* the slots; NoItem where nothing is constructed
          tail,         \* tail_, stored by the producer
          head_cached,  \* head_cached_, the producer's last view of head
          head,         \* head_, stored by the consumer
          tail_cached,  \* tail_cached_, the consumer's last view of tail
          ppc,          \* where the producer is
          item,         \* the element being pushed
          pushed,       \* the answer of the last push
          cpc,          \* where the consumer is
          out,          \* the element moved out by the pop in progress
          popped        \* what the last pop delivered, or NoItem for false

producerVars == <<tail, head_cached, ppc, item, pushed>>
consumerVars == <<head, tail_cached, cpc, out, popped>>
vars == <<buffer, tail, head_cached, head, tail_cached,
          ppc, item, pushed, cpc, out, popped>>

Index == 0 .. Modulus - 1
Slots == 0 .. Capacity - 1

(* index + 1, tail - head and index & mask_ in unsigned arithmetic. *)
Succ(i) == IF i = Modulus - 1 THEN 0 ELSE i + 1
Distance(from, to) == IF from <= to THEN to - from ELSE to - from + Modulus
Slot(i) == i % Capacity

TypeOK == /\ buffer \in [Slots -> Values \cup {NoItem}]
          /\ tail \in Index /\ head_cached \in Index
          /\ head \in Index /\ tail_cached \in Index
          /\ ppc \in {"idle", "reload", "construct", "publish"}
          /\ item \in Values \cup {NoItem}
          /\ (ppc = "idle") <=> (item = NoItem)
          /\ pushed \in BOOLEAN
          /\ cpc \in {"idle", "reload", "move", "advance"}
          /\ out \in Values \cup {NoItem}
          /\ (cpc = "advance") <=> (out # NoItem)
          /\ popped \in Values \cup {NoItem}

Init == /\ buffer = [s \in Slots |-> NoItem]
        /\ tail = 0 /\ head_cached = 0
        /\ head = 0 /\ tail_cached = 0
        /\ ppc = "idle" /\ item = NoItem /\ pushed = FALSE
        /\ cpc = "idle" /\ out = NoItem /\ popped = NoItem

-----------------------------------------------------------------------------
(* Plausible mistakes: variants of the definitions below, not part of the
   specification.  Each is what some property is there to notice. *)

(* The push that gives up on a stale view of head. *)
ReloadHeadForgotten ==
  /\ ppc = "reload"
  /\ ppc' = "idle" /\ item' = NoItem /\ pushed' = FALSE
  /\ UNCHANGED <<buffer, tail, head_cached>>
  /\ UNCHANGED consumerVars

(* The second test forgotten: the slot is used whatever head is. *)
ReloadHeadUntested ==
  /\ ppc = "reload"
  /\ head_cached' = head
  /\ ppc' = "construct"
  /\ UNCHANGED <<buffer, tail, item, pushed>>
  /\ UNCHANGED consumerVars

(* The same mistake in pop: it takes what was never constructed. *)
ReloadTailUntested ==
  /\ cpc = "reload"
  /\ tail_cached' = tail
  /\ cpc' = "move"
  /\ UNCHANGED <<buffer, head, out, popped>>
  /\ UNCHANGED producerVars

-----------------------------------------------------------------------------
(* The producer: emplace. *)

(* The first test uses only what the producer owns. *)
Push(v) == /\ ppc = "idle"
           /\ item' = v
           /\ ppc' = IF Distance(head_cached, tail) >= Capacity
                       THEN "reload" ELSE "construct"
           /\ UNCHANGED <<buffer, tail, head_cached, pushed>>
           /\ UNCHANGED consumerVars

ReloadHead == /\ ppc = "reload"
              /\ head_cached' = head
              /\ IF Distance(head, tail) >= Capacity
                   THEN ppc' = "idle" /\ item' = NoItem /\ pushed' = FALSE
                   ELSE ppc' = "construct" /\ UNCHANGED <<item, pushed>>
              /\ UNCHANGED <<buffer, tail>>
              /\ UNCHANGED consumerVars

Construct == /\ ppc = "construct"
             /\ buffer' = [buffer EXCEPT ![Slot(tail)] = item]
             /\ ppc' = "publish"
             /\ UNCHANGED <<tail, head_cached, item, pushed>>
             /\ UNCHANGED consumerVars

Publish == /\ ppc = "publish"
           /\ tail' = Succ(tail)
           /\ ppc' = "idle" /\ item' = NoItem /\ pushed' = TRUE
           /\ UNCHANGED <<buffer, head_cached>>
           /\ UNCHANGED consumerVars

-----------------------------------------------------------------------------
(* The consumer: pop. *)

Pop == /\ cpc = "idle"
       /\ cpc' = IF head = tail_cached THEN "reload" ELSE "move"
       /\ UNCHANGED <<buffer, head, tail_cached, out, popped>>
       /\ UNCHANGED producerVars

ReloadTail == /\ cpc = "reload"
              /\ tail_cached' = tail
              /\ IF head = tail
                   THEN cpc' = "idle" /\ popped' = NoItem
                   ELSE cpc' = "move" /\ UNCHANGED popped
              /\ UNCHANGED <<buffer, head, out>>
              /\ UNCHANGED producerVars

(* The element is moved from and destroyed: its slot is vacant again. *)
MoveOut == /\ cpc = "move"
           /\ out' = buffer[Slot(head)]
           /\ buffer' = [buffer EXCEPT ![Slot(head)] = NoItem]
           /\ cpc' = "advance"
           /\ UNCHANGED <<head, tail_cached, popped>>
           /\ UNCHANGED producerVars

Advance == /\ cpc = "advance"
           /\ head' = Succ(head)
           /\ cpc' = "idle" /\ out' = NoItem /\ popped' = out
           /\ UNCHANGED <<buffer, tail_cached>>
           /\ UNCHANGED producerVars

-----------------------------------------------------------------------------
ProducerStep == ReloadHead \/ Construct \/ Publish
ConsumerStep == ReloadTail \/ MoveOut \/ Advance

Next == \/ \E v \in Values : Push(v)
        \/ ReloadHead \/ Construct \/ Publish
        \/ Pop
        \/ ReloadTail \/ MoveOut \/ Advance

SafeSpec == Init /\ [][Next]_vars

(* A thread inside a call keeps running; nobody has to make another call. *)
Spec == SafeSpec /\ WF_vars(ProducerStep) /\ WF_vars(ConsumerStep)

-----------------------------------------------------------------------------
(* Properties. *)

(* Whatever the two threads do in between, the producer never constructs
   over an element that is still there, the consumer never moves from a slot
   nothing was constructed in, and the two are never at one slot together
   (emplace's placement new, ring_buffer.hpp:80; pop's move, :104-106). *)
SlotOwnership ==
  /\ ppc = "construct" => buffer[Slot(tail)] = NoItem
  /\ cpc = "move" => buffer[Slot(head)] # NoItem
  /\ ppc \in {"construct", "publish"} /\ cpc \in {"move", "advance"}
       => Slot(tail) # Slot(head)

(* A cached index may be stale but only to the safe side: it lies between
   the other side's past and present, across the wrap of the index word. *)
CachedIndicesLag ==
  /\ Distance(head_cached, tail) <= Capacity
  /\ Distance(head_cached, head) <= Distance(head_cached, tail)
  /\ Distance(head, tail_cached) <= Distance(head, tail)

(* Offset(s): how far slot s lies after the slot of head. *)
Offset(s) == IF s >= Slot(head) THEN s - Slot(head)
                                ELSE s - Slot(head) + Capacity

(* The inductive invariant behind the properties above.  Size is what is
   published and not yet taken; it ties the two index words to the slots. *)
Size == Distance(head, tail)

SlotsFollowIndices ==
  Slot(tail) = IF Slot(head) + Size < Capacity
                 THEN Slot(head) + Size ELSE Slot(head) + Size - Capacity

ThereIsRoom ==
  ppc \in {"construct", "publish"} => Distance(head_cached, tail) < Capacity

ThereIsAnElement ==
  cpc \in {"move", "advance"} => Distance(head, tail_cached) > 0

(* A slot holds an element exactly when it lies between head and tail, up to
   the one just moved out and the one just constructed. *)
Occupied(s) == \/ Offset(s) < Size /\ ~(cpc = "advance" /\ Offset(s) = 0)
               \/ Offset(s) = Size /\ ppc = "publish"

SlotsAreOccupied == \A s \in Slots : (buffer[s] # NoItem) <=> Occupied(s)

ItemIsConstructed == ppc = "publish" => buffer[Slot(tail)] = item

IInv == /\ TypeOK
        /\ CachedIndicesLag
        /\ SlotsFollowIndices
        /\ ThereIsRoom
        /\ ThereIsAnElement
        /\ SlotsAreOccupied
        /\ ItemIsConstructed

(* The elements between head and tail, oldest first.  Moving the first one
   out does not remove it yet: pop takes effect when head is stored. *)
Contents ==
  [k \in 1 .. Distance(head, tail) |->
     IF k = 1 /\ cpc = "advance" THEN out ELSE buffer[Slot(head + k - 1)]]

(* The ring implements the queue its users rely on: first in first out,
   nothing lost, duplicated or invented, false only when full or empty, and
   every call returns (push and pop of ring_buffer.hpp). *)
Fifo == INSTANCE BoundedFifo WITH
          queue <- Contents,
          pushing <- item,
          popping <- cpc # "idle"

ImplementsFifo == Fifo!Spec
=============================================================================
