------------------------------ MODULE Journal ------------------------------
(***************************************************************************)
(* What LogStore and the code that drives it promise together              *)
(* (packages/shared/src/logging.ts): a line taken down is kept, once, in   *)
(* the order the lines were taken down, until retention drops it, and      *)
(* retention drops the oldest.                                             *)
(***************************************************************************)
EXTENDS Naturals, SequencesExt

VARIABLE journal    \* lines [at, text], on disk or on their way there

Init == journal = <<>>

Keeps(before, after) == IsStrictPrefix(before, after) /\ IsInjective(after)

\* The oldest go, and what is left is in its order.
Drops(before, after) ==
    /\ ToSet(before) \ ToSet(after) # {} /\ IsInjective(after)
    /\ \A i, j \in DOMAIN after : i <= j =>
          \E k, l \in DOMAIN before : k <= l /\ before[k] = after[i] /\ before[l] = after[j]
    /\ \A old \in ToSet(before) \ ToSet(after), l \in ToSet(after) : old.at < l.at

Next == Keeps(journal, journal') \/ Drops(journal, journal')

Spec == Init /\ [][Next]_journal

=============================================================================
