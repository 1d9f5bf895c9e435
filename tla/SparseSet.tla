------------------------------ MODULE SparseSet ------------------------------
(***************************************************************************)
(* sparse.Set (sparse/set.go): the trigrams of the file being indexed.     *)
(* Reset only shortens dense, so that sparse keeps entries of earlier      *)
(* contents; whether x is a member is decided by an entry of sparse that   *)
(* may be left from before a Reset, or may never have been written.        *)
(* Positions of dense count from 1 here, the numbers in sparse from 0.     *)
(***************************************************************************)
EXTENDS Integers, Sequences

CONSTANT Max             \* the argument of NewSet and Init

ASSUME MaxAssumption == Max \in Nat

VARIABLES dense, sparse

vars == <<dense, sparse>>

Values == 0..Max-1

Init ==
  /\ dense = <<>>
  /\ sparse = [x \in Values |-> 0]

\* Mutant: an entry in range is believed without looking at dense.
HasUnchecked(x) == sparse[x] < Len(dense)

Has(x) == sparse[x] < Len(dense) /\ dense[sparse[x] + 1] = x

Reset ==
  /\ dense' = <<>>
  /\ UNCHANGED sparse

\* Mutant: the value is appended without looking.
AddBlind(x) ==
  /\ dense' = Append(dense, x)
  /\ sparse' = [sparse EXCEPT ![x] = Len(dense)]

Add(x) ==
  IF Has(x) THEN UNCHANGED vars
  ELSE /\ dense' = Append(dense, x)
       /\ sparse' = [sparse EXCEPT ![x] = Len(dense)]

Next == Reset \/ \E x \in Values : Add(x)

Spec == Init /\ [][Next]_vars

-----------------------------------------------------------------------------
\* Type correctness.
TypeOK ==
  /\ dense \in Seq(Values)
  /\ sparse \in [Values -> Nat]

\* Has answers membership in what was added since the last Reset, whatever
\* entries earlier contents have left in sparse.
HasIsMembership == \A x \in Values : Has(x) <=> \E i \in 1..Len(dense) : dense[i] = x

\* No value is listed twice, so that dense stays within the capacity.
DenseIsInjective == \A i, j \in 1..Len(dense) : dense[i] = dense[j] => i = j

\* The set implements its abstract specification with Dense() as the order
\* in which the values were added.
Abstract == INSTANCE InsertionOrder WITH order <- dense

\* Every behaviour of the sparse set is one of a set in insertion order.
ImplementsOrder == Abstract!Spec
=============================================================================
