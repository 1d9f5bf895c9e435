----------------------------- MODULE MCMetadata -----------------------------
(* Instances of Metadata for TLC: Calls and the sets of names are model     *)
(* values given in the configurations.                                      *)
EXTENDS Metadata, TLC

\* Calls are interchangeable, and so are shards, trees and sums.
Symmetry == Permutations(Calls) \cup Permutations(ShardIDs)
=============================================================================
