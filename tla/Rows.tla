-------------------------------- MODULE Rows --------------------------------
(***************************************************************************)
(* Lists of rows, as queries return them: helpers for the modules that     *)
(* read the index.  A list is filtered by the places that are kept, in     *)
(* their order; the provers have no rules for SelectSeq or SortSeq.        *)
(***************************************************************************)
EXTENDS Integers, Sequences, FiniteSets, SequencesExt

IsList(s) == s \in Seq(ToSet(s))

(* The numbers of S in increasing order. *)
InOrder(S) == [n \in 1..Cardinality(S) |-> CHOOSE i \in S : Cardinality({j \in S : j < i}) = n - 1]

OnlyAt(s, places) == LET at == InOrder(places) IN [n \in 1..Cardinality(places) |-> s[at[n]]]

Where(s, Test(_)) == OnlyAt(s, {i \in DOMAIN s : Test(s[i])})

(* s without the rows whose key an earlier row has. *)
DistinctBy(s, Key(_)) == OnlyAt(s, {i \in DOMAIN s : \A j \in 1..(i - 1) : Key(s[j]) # Key(s[i])})

Distinct(s) == LET self(x) == x IN DistinctBy(s, self)

Take(s, n) == IF Len(s) > n THEN SubSeq(s, 1, n) ELSE s
=============================================================================
