--------------------------- MODULE MCRedisBackend ---------------------------
(* TLC instances of RedisBackend. *)
EXTENDS RedisBackend, TLC

CONSTANTS d1, d2

(* One configuration with a retention of two seconds. *)
OneRetention == d1 :> 2

(* A configuration with a retention and one without. *)
TwoRetentions == (d1 :> 2) @@ (d2 :> 0)

(* Handles, keys, hashes and bands are only compared. *)
Symmetry ==
  Permutations(Handle) \cup Permutations(Key) \cup Permutations(Hash) \cup Permutations(Band)

=============================================================================
