-------------------------- MODULE TelemetryJournal --------------------------
(***************************************************************************)
(* What the write-ahead log promises for one sensor, whatever files, locks *)
(* and temporaries it is made of: samples are kept in the order they were  *)
(* appended, fewer than Batch of them are at risk of a crash, and a kept   *)
(* sample leaves only by growing too old.  A write the disk refuses may    *)
(* damage the log; each such write is counted.                             *)
(***************************************************************************)
EXTENDS Integers, SequencesExt, Subsequence

CONSTANTS Batch, Samples, Times

VARIABLES kept, buffered, damage

vars == <<kept, buffered, damage>>

NotOlderThan(samples, time) == Only(samples, {x \in Samples : x.ts >= time})

Init == kept = <<>> /\ buffered = <<>> /\ damage = 0

Append1(x) ==
  /\ \/ Len(buffered) + 1 < Batch /\ buffered' = Append(buffered, x)
                                  /\ kept' = kept
     \/ buffered' = <<>> /\ kept' = kept \o Append(buffered, x)
  /\ UNCHANGED damage

Persist == kept' = kept \o buffered /\ buffered' = <<>> /\ UNCHANGED damage

(* Retention, which persists what is buffered before it removes anything. *)
Expire(time) == /\ kept' = NotOlderThan(kept \o buffered, time)
                /\ buffered' = <<>> /\ UNCHANGED damage

Crash == buffered' = <<>> /\ UNCHANGED <<kept, damage>>

(* A refused write: what is kept afterwards is a prefix of what should be. *)
Damage ==
  /\ damage' = damage + 1 /\ buffered' = <<>>
  /\ \E x \in Samples \cup {<<>>}, time \in Times :
       IsPrefix(kept', NotOlderThan(kept \o buffered
                                      \o (IF x = <<>> THEN <<>> ELSE <<x>>), time))

Next == \/ \E x \in Samples : Append1(x)
        \/ \E time \in Times : Expire(time)
        \/ Persist \/ Crash \/ Damage

Spec == Init /\ [][Next]_vars
=============================================================================
