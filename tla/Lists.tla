-------------------------------- MODULE Lists --------------------------------
(* Two forms in which the code builds its lists: what is pushed under a    *)
(* condition, and what a filter leaves.                                    *)
EXTENDS Integers, Sequences, SequencesExt

When(condition, actions) == IF condition THEN actions ELSE << >>

(* The elements of s that are in S, in the order of s.                     *)
Only(s, S) == FlattenSeq([n \in 1..Len(s) |-> When(s[n] \in S, <<s[n]>>)])
=============================================================================
