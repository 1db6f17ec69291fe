------------------------------ MODULE Keeping ------------------------------
(***************************************************************************)
(* What is left of a sequence when only the elements of a set are kept,    *)
(* and how often an element is in a sequence.                              *)
(*                                                                         *)
(* Keep is the test of executionMsg()'s filter made of one element after   *)
(* the other; it is written without an operator for the test, so that      *)
(* theorems about it can be stated once and used for every set.            *)
(***************************************************************************)
EXTENDS Naturals, Sequences, FiniteSets

(* The elements of s that are in S, in their order.                        *)
Keep(s, S) ==
    LET kept[n \in 0..Len(s)] ==
            IF n = 0 THEN << >>
            ELSE IF s[n] \in S THEN Append(kept[n - 1], s[n])
            ELSE kept[n - 1]
    IN  kept[Len(s)]

(* How often x is in s.                                                    *)
Times(x, s) == Cardinality({k \in 1..Len(s) : s[k] = x})
=============================================================================
