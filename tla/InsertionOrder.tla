--------------------------- MODULE InsertionOrder ---------------------------
(***************************************************************************)
(* What sparse.Set promises: a set of numbers below max that remembers in  *)
(* which order they were first added, can be emptied, and answers          *)
(* membership.                                                             *)
(***************************************************************************)
EXTENDS Naturals, Sequences

CONSTANT Max             \* the argument of NewSet and Init

VARIABLE order           \* the members, in the order they were added

Members == {order[i] : i \in 1..Len(order)}

Init == order = <<>>

Reset == order' = <<>>

Add(x) == order' = IF x \in Members THEN order ELSE Append(order, x)

Next == Reset \/ \E x \in 0..Max-1 : Add(x)

Spec == Init /\ [][Next]_order
=============================================================================
