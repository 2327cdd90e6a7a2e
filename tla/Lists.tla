-------------------------------- MODULE Lists --------------------------------
(***************************************************************************)
(* Lists, by the positions that they are made from: what the ranking and   *)
(* the budget of a question keep of their candidates, and in which order.  *)
(***************************************************************************)
EXTENDS Integers, Sequences, FiniteSets

\* The n-th of a set of numbers.
Nth(I, n) == CHOOSE i \in I : Cardinality({j \in I : j < i}) = n - 1

\* What stands at the positions I, in order.
Sublist(list, I) == [n \in 1..Cardinality(I) |-> list[Nth(I, n)]]

Prefix(list, n) == SubSeq(list, 1, IF n < Len(list) THEN n ELSE Len(list))

\* One list after the other.
Joined(lists) ==
  LET run[n \in 0..Len(lists)] == IF n = 0 THEN <<>> ELSE run[n - 1] \o lists[n]
  IN run[Len(lists)]

\* The sum of a list of numbers.
Total(list) ==
  LET run[n \in 0..Len(list)] == IF n = 0 THEN 0 ELSE run[n - 1] + list[n]
  IN run[Len(list)]

Largest(S) == CHOOSE x \in S : \A y \in S : y <= x
=============================================================================
