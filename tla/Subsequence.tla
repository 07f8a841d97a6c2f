---------------------------- MODULE Subsequence ----------------------------
(***************************************************************************)
(* The elements of a sequence that are in a set, in their order: what a    *)
(* loop over records leaves that copies the wanted ones.  SelectSeq with a *)
(* set for its test, as a recursive function, which proofs can expand.     *)
(***************************************************************************)
EXTENDS Integers, Sequences

Only(s, wanted) ==
  LET copied[i \in 0 .. Len(s)] ==
        IF i = 0 THEN <<>>
        ELSE IF s[i] \in wanted THEN Append(copied[i - 1], s[i])
                                ELSE copied[i - 1]
  IN  copied[Len(s)]
=============================================================================
