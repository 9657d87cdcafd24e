------------------------------- MODULE Filters -------------------------------
(***************************************************************************)
(* What an observer makes of a sequence: a part of it, or a sum.  All are  *)
(* folds and take a set or a function where SelectSeq and FoldLeft take an *)
(* operator, so that theorems can be proved about them.                    *)
(***************************************************************************)
EXTENDS Integers, SequencesExt

\* The elements that are in the set, in the order of the sequence.
Only(seq, set) ==
    FoldLeft(LAMBDA kept, x : IF x \in set THEN Append(kept, x) ELSE kept,
             <<>>, seq)

\* Where the step, a function of a state and an element, leads from base.
FoldBy(step, base, seq) == FoldLeft(LAMBDA state, x : step[<<state, x>>], base, seq)

\* The weights of the elements, added up.
SumBy(weight, seq) ==
    FoldBy([t \in Nat \X DOMAIN weight |-> t[1] + weight[t[2]]], 0, seq)
=============================================================================
