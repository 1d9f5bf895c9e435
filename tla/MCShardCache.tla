---------------------------- MODULE MCShardCache ----------------------------
(* Instances of ShardCache for TLC. *)
EXTENDS ShardCache, TLC

CONSTANTS c1, c2, c3, k1, k2, k3, l1, l2, l3, l4, l5

TwoClients == {c1, c2}
ThreeClients == {c1, c2, c3}
TwoKeys == {k1, k2}
FourLoads == {l1, l2, l3, l4}
FiveLoads == {l1, l2, l3, l4, l5}

\* Each content one token long, as in TestRacingLoad.
UnitSize == [k \in Keys |-> 1]
\* Contents of different lengths.
MixedSize == [k \in Keys |-> IF k = k1 THEN 1 ELSE 2]

BothLimits == BOOLEAN
Enforced == {FALSE}

Symmetry == Permutations(Clients)
=============================================================================
