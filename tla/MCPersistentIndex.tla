-------------------------- MODULE MCPersistentIndex --------------------------
(* TLC instances of PersistentIndex. *)
EXTENDS PersistentIndex, TLC

(* Keys, hashes and bands are only compared, so each may be permuted. *)
Symmetry == Permutations(Key) \cup Permutations(Hash) \cup Permutations(Band)

=============================================================================
