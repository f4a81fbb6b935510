------------------------------- MODULE Places -------------------------------
(***************************************************************************)
(* The elements of a sequence at some of its places, in their order: what  *)
(* a loop is to take of the lines it passes.                               *)
(***************************************************************************)
EXTENDS Integers, Sequences, FiniteSets

(* How many of the places are not behind k; the nth of the places. *)
Rank(k, places) == Cardinality({i \in places : i <= k})
Nth(n, places) == CHOOSE k \in places : Rank(k, places) = n

AtPlaces(seq, places) == [n \in 1..Cardinality(places) |-> seq[Nth(n, places)]]
=============================================================================
