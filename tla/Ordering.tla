----------------------------- MODULE Ordering -----------------------------
(* What the analysis and the fields share: the missing value, finite sets   *)
(* in a strict total order as sequences, and what a slice s[:n] keeps.      *)
EXTENDS Integers, Sequences, FiniteSets

CONSTANT None   \* Python's None: no elevation, no number, no unit, no value

Ordered(S, Before(_, _)) ==
  [i \in 1 .. Cardinality(S) |-> CHOOSE x \in S : Cardinality({y \in S : Before(y, x)}) = i - 1]
Take(s, n) == SubSeq(s, 1, IF n < Len(s) THEN n ELSE Len(s))
=============================================================================
