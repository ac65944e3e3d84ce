-------------------------------- MODULE Slices --------------------------------
(***************************************************************************)
(* JavaScript's slice and filter, which the phone's queues are kept with.  *)
(* The elements that filter keeps are named by their indices.              *)
(***************************************************************************)
EXTENDS Naturals, Sequences, FiniteSets

(* s.slice(-n), for n > 0                                                  *)
LastOf(s, n) == IF Len(s) <= n THEN s ELSE SubSeq(s, Len(s) - n + 1, Len(s))

Before(kept, i) == {k \in kept : k < i}
Nth(kept, n) == CHOOSE i \in kept : Cardinality(Before(kept, i)) = n - 1

(* s.filter                                                                *)
Filter(s, kept) == [n \in 1..Cardinality(kept) |-> s[Nth(kept, n)]]
=============================================================================
