---------------------------- MODULE BoundedFifo ----------------------------
(***************************************************************************)
(* What SpscRingBuffer promises its two users (ring_buffer.hpp, and the    *)
(* comments over push and pop): a first-in first-out queue of at most      *)
(* Capacity elements.  One producer calls push, which either appends the   *)
(* element or, when the queue is full, answers false and changes nothing.  *)
(* One consumer calls pop, which either takes the oldest element or, when  *)
(* the queue is empty, answers false.  Each call takes effect in one step  *)
(* between the call and its return, and every call returns.                *)
(***************************************************************************)
EXTENDS Naturals, Sequences

CONSTANTS Values,    \* what the producer may push
          NoItem,    \* "no element": an idle producer, a pop that answered false
          Capacity   \* the number of elements the queue holds

VARIABLES queue,     \* the elements pushed and not yet popped, oldest first
          pushing,   \* the element of the push being executed, or NoItem
          pushed,    \* the answer of the last finished push
          popping,   \* is a pop being executed
          popped     \* what the last finished pop took, or NoItem

fifoVars == <<queue, pushing, pushed, popping, popped>>

Init == /\ queue = <<>>
        /\ pushing = NoItem
        /\ pushed = FALSE
        /\ popping = FALSE
        /\ popped = NoItem

Push(v) == /\ pushing = NoItem
           /\ pushing' = v
           /\ UNCHANGED <<queue, pushed, popping, popped>>

Accept == /\ pushing # NoItem
          /\ Len(queue) < Capacity
          /\ queue' = Append(queue, pushing)
          /\ pushing' = NoItem
          /\ pushed' = TRUE
          /\ UNCHANGED <<popping, popped>>

Reject == /\ pushing # NoItem
          /\ Len(queue) = Capacity
          /\ pushing' = NoItem
          /\ pushed' = FALSE
          /\ UNCHANGED <<queue, popping, popped>>

Pop == /\ ~popping
       /\ popping' = TRUE
       /\ UNCHANGED <<queue, pushing, pushed, popped>>

Take == /\ popping
        /\ queue # <<>>
        /\ queue' = Tail(queue)
        /\ popping' = FALSE
        /\ popped' = Head(queue)
        /\ UNCHANGED <<pushing, pushed>>

Miss == /\ popping
        /\ queue = <<>>
        /\ popping' = FALSE
        /\ popped' = NoItem
        /\ UNCHANGED <<queue, pushing, pushed>>

Next == \/ \E v \in Values : Push(v)
        \/ Accept
        \/ Reject
        \/ Pop
        \/ Take
        \/ Miss

SafeSpec == Init /\ [][Next]_fifoVars

(* Both operations are wait-free: a call returns whatever the other side does. *)
Spec == /\ SafeSpec
        /\ WF_fifoVars(Accept \/ Reject)
        /\ WF_fifoVars(Take \/ Miss)
=============================================================================
