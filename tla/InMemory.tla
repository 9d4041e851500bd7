------------------------------ MODULE InMemory ---------------------------------
(***************************************************************************)
(* The parts that live in memory: sketches and batches of them, the LSH    *)
(* index with its query counters and bucket statistics, and grouping.      *)
(* part is the module a behaviour is about, chosen in the initial state.   *)
(* The modules share no state, so following them one at a time loses       *)
(* nothing; variables that only other modules have are Unused.             *)
(***************************************************************************)
EXTENDS Naturals

CONSTANTS
  Width, Shift, Factor, Seed, Draw, MaxPerm, Value, Name, None,      \* of sketches
  Call, MaxRows, MinRows, Available, AutoMax, MaxFaults, Automatic, Sequential,  \* of batches
  Key, Band, Hash, Absent, NoId, Incompatible, MaxItems, MaxBatch,   \* of the index
  Thread, Items, MaxQueries, MaxCalls,                               \* of its counters
  MaxSize, MaxBuckets,                                               \* of its statistics
  Keys, Bands, Hashes, Requests, MaxPairs                            \* of grouping

VARIABLES part, sketch, added, rows, threads, cached, built, pool, pc, waiting, running,
  chunks, result, faults, buckets, key_to_id, id_to_key, band_hashes, pending, report,
  enabled, counters, recording, snapshot, observed, started, calls, sizes, mode, slots,
  accepted, todo, work, uf, edges, iterator, emitted, min_size, groups

vars == <<part, sketch, added, rows, threads, cached, built, pool, pc, waiting, running,
          chunks, result, faults, buckets, key_to_id, id_to_key, band_hashes, pending,
          report, enabled, counters, recording, snapshot, observed, started, calls, sizes,
          mode, slots, accepted, todo, work, uf, edges, iterator, emitted, min_size, groups>>

Unused == "unused"

Sketch == INSTANCE MinHash
Batch == INSTANCE SketchBatch
Memory == INSTANCE MemoryIndex
Observation == INSTANCE QueryObservation
Distribution == INSTANCE BucketDistribution
Groups == INSTANCE Grouping

ASSUME Assumptions ==
  /\ Sketch!MinHashAssumption
  /\ Batch!BatchAssumption
  /\ Memory!MemoryAssumption
  /\ Absent \notin Memory!Row
  /\ Observation!ObservationAssumption
  /\ Distribution!DistributionAssumption
  /\ Groups!GroupingAssumption

Init ==
  \/ /\ part = "sketch" /\ Sketch!Init
     /\ rows = Unused /\ threads = Unused /\ cached = Unused /\ built = Unused
     /\ pool = Unused /\ pc = Unused /\ waiting = Unused /\ running = Unused
     /\ chunks = Unused /\ result = Unused /\ faults = Unused /\ buckets = Unused
     /\ key_to_id = Unused /\ id_to_key = Unused /\ band_hashes = Unused /\ pending = Unused
     /\ report = Unused /\ enabled = Unused /\ counters = Unused /\ recording = Unused
     /\ snapshot = Unused /\ observed = Unused /\ started = Unused /\ calls = Unused
     /\ sizes = Unused /\ mode = Unused /\ slots = Unused /\ accepted = Unused
     /\ todo = Unused /\ work = Unused /\ uf = Unused /\ edges = Unused /\ iterator = Unused
     /\ emitted = Unused /\ min_size = Unused /\ groups = Unused
  \/ /\ part = "batch" /\ Batch!Init
     /\ sketch = Unused /\ added = Unused /\ buckets = Unused /\ key_to_id = Unused
     /\ id_to_key = Unused /\ band_hashes = Unused /\ pending = Unused /\ report = Unused
     /\ enabled = Unused /\ counters = Unused /\ recording = Unused /\ snapshot = Unused
     /\ observed = Unused /\ started = Unused /\ calls = Unused /\ sizes = Unused
     /\ mode = Unused /\ slots = Unused /\ accepted = Unused /\ todo = Unused
     /\ work = Unused /\ uf = Unused /\ edges = Unused /\ iterator = Unused
     /\ emitted = Unused /\ min_size = Unused /\ groups = Unused
  \/ /\ part = "memory" /\ Memory!Init
     /\ sketch = Unused /\ added = Unused /\ rows = Unused /\ threads = Unused
     /\ cached = Unused /\ built = Unused /\ pool = Unused /\ pc = Unused
     /\ waiting = Unused /\ running = Unused /\ chunks = Unused /\ result = Unused
     /\ faults = Unused /\ enabled = Unused /\ counters = Unused /\ recording = Unused
     /\ snapshot = Unused /\ observed = Unused /\ started = Unused /\ calls = Unused
     /\ sizes = Unused /\ mode = Unused /\ slots = Unused /\ accepted = Unused
     /\ todo = Unused /\ work = Unused /\ uf = Unused /\ edges = Unused /\ iterator = Unused
     /\ emitted = Unused /\ min_size = Unused /\ groups = Unused
  \/ /\ part = "observation" /\ Observation!Init
     /\ sketch = Unused /\ added = Unused /\ rows = Unused /\ threads = Unused
     /\ cached = Unused /\ built = Unused /\ pool = Unused /\ pc = Unused
     /\ waiting = Unused /\ running = Unused /\ chunks = Unused /\ result = Unused
     /\ faults = Unused /\ buckets = Unused /\ key_to_id = Unused /\ id_to_key = Unused
     /\ band_hashes = Unused /\ pending = Unused /\ report = Unused /\ sizes = Unused
     /\ mode = Unused /\ slots = Unused /\ accepted = Unused /\ todo = Unused
     /\ work = Unused /\ uf = Unused /\ edges = Unused /\ iterator = Unused
     /\ emitted = Unused /\ min_size = Unused /\ groups = Unused
  \/ /\ part = "distribution" /\ Distribution!Init
     /\ sketch = Unused /\ added = Unused /\ rows = Unused /\ threads = Unused
     /\ cached = Unused /\ built = Unused /\ pool = Unused /\ pc = Unused
     /\ waiting = Unused /\ running = Unused /\ chunks = Unused /\ result = Unused
     /\ faults = Unused /\ buckets = Unused /\ key_to_id = Unused /\ id_to_key = Unused
     /\ band_hashes = Unused /\ pending = Unused /\ report = Unused /\ enabled = Unused
     /\ counters = Unused /\ recording = Unused /\ snapshot = Unused /\ observed = Unused
     /\ started = Unused /\ calls = Unused /\ mode = Unused /\ slots = Unused
     /\ accepted = Unused /\ todo = Unused /\ work = Unused /\ uf = Unused /\ edges = Unused
     /\ iterator = Unused /\ emitted = Unused /\ min_size = Unused /\ groups = Unused
  \/ /\ part = "groups" /\ Groups!Init
     /\ sketch = Unused /\ added = Unused /\ threads = Unused /\ cached = Unused
     /\ built = Unused /\ pool = Unused /\ waiting = Unused /\ running = Unused
     /\ chunks = Unused /\ result = Unused /\ faults = Unused /\ buckets = Unused
     /\ key_to_id = Unused /\ id_to_key = Unused /\ band_hashes = Unused /\ pending = Unused
     /\ report = Unused /\ enabled = Unused /\ counters = Unused /\ recording = Unused
     /\ snapshot = Unused /\ observed = Unused /\ started = Unused /\ calls = Unused
     /\ sizes = Unused

Next ==
  \/ /\ part = "sketch" /\ Sketch!Next
     /\ UNCHANGED <<part, rows, threads, cached, built, pool, pc, waiting, running, chunks,
                    result, faults, buckets, key_to_id, id_to_key, band_hashes, pending,
                    report, enabled, counters, recording, snapshot, observed, started,
                    calls, sizes, mode, slots, accepted, todo, work, uf, edges, iterator,
                    emitted, min_size, groups>>
  \/ /\ part = "batch" /\ Batch!Next
     /\ UNCHANGED <<part, sketch, added, buckets, key_to_id, id_to_key, band_hashes,
                    pending, report, enabled, counters, recording, snapshot, observed,
                    started, calls, sizes, mode, slots, accepted, todo, work, uf, edges,
                    iterator, emitted, min_size, groups>>
  \/ /\ part = "memory" /\ Memory!Next
     /\ UNCHANGED <<part, sketch, added, rows, threads, cached, built, pool, pc, waiting,
                    running, chunks, result, faults, enabled, counters, recording,
                    snapshot, observed, started, calls, sizes, mode, slots, accepted, todo,
                    work, uf, edges, iterator, emitted, min_size, groups>>
  \/ /\ part = "observation" /\ Observation!Next
     /\ UNCHANGED <<part, sketch, added, rows, threads, cached, built, pool, pc, waiting,
                    running, chunks, result, faults, buckets, key_to_id, id_to_key,
                    band_hashes, pending, report, sizes, mode, slots, accepted, todo, work,
                    uf, edges, iterator, emitted, min_size, groups>>
  \/ /\ part = "distribution" /\ Distribution!Next
     /\ UNCHANGED <<part, sketch, added, rows, threads, cached, built, pool, pc, waiting,
                    running, chunks, result, faults, buckets, key_to_id, id_to_key,
                    band_hashes, pending, report, enabled, counters, recording, snapshot,
                    observed, started, calls, mode, slots, accepted, todo, work, uf, edges,
                    iterator, emitted, min_size, groups>>
  \/ /\ part = "groups" /\ Groups!Next
     /\ UNCHANGED <<part, sketch, added, threads, cached, built, pool, waiting, running,
                    chunks, result, faults, buckets, key_to_id, id_to_key, band_hashes,
                    pending, report, enabled, counters, recording, snapshot, observed,
                    started, calls, sizes>>

Spec == Init /\ [][Next]_vars

-----------------------------------------------------------------------------
(* A sketch is a function of the set it stands for, whatever the order of  *)
(* updates, merges, resets and trips through a stored signature; and two   *)
(* compatible sketches agree exactly where the same element comes first in *)
(* both sets, so no agreement comes from a collision.                      *)
SketchesExact ==
  /\ part = "sketch" => Sketch!SketchOfSet
  /\ part = "sketch" => Sketch!AgreementIsShared

(* A batch built in parallel is the batch built row by row, although       *)
(* chunks end in any order and calls replace the cached pool; and it runs  *)
(* on a pool of the size it asked for.                                     *)
BatchExact ==
  /\ part = "batch" => Batch!BatchInOrder
  /\ part = "batch" => Batch!WithinThreads

(* Whatever the order of inserts, removals and re-inserts, and half-way    *)
(* through a batch: keys and slots of the index name each other, a bucket  *)
(* holds exactly the identifiers whose row falls into it, no batch         *)
(* overruns the identifier space, and what is left of a validated batch    *)
(* stays insertable.                                                       *)
SlotsConsistent == part = "memory" => Memory!IInv

(* A query returns exactly the live keys that share a band with the probe. *)
QueryExact == part = "memory" => Memory!QueryExact

(* The index is a map from keys to rows that changes as SimilarityIndex    *)
(* says, and no identifier ever resolves to a second key.                  *)
ImplementsContents ==
  /\ part = "memory" => Memory!Contents!Init
  /\ [][part = "memory" =>
          /\ Memory!Contents!Next \/ Memory!LiveRows' = Memory!LiveRows
          /\ Memory!KeepsSlots]_vars

(* Concurrent record calls lose nothing: once the queries have returned,   *)
(* the counters are their totals, and a snapshot taken meanwhile counts    *)
(* everything recorded before it and nothing that was not queried. The     *)
(* percentiles are the smallest sizes that enough of the non-empty buckets *)
(* do not exceed, also around multiples of 100 buckets.                    *)
StatisticsExact ==
  /\ part = "observation" => Observation!TotalsExact
  /\ part = "observation" => Observation!SnapshotBounded
  /\ part = "distribution" => Distribution!PercentilesExact

(* The groups are the connected components of the candidate graph, in      *)
(* whatever order buckets and pairs arrive; the pair iterator returns each *)
(* colliding pair of live keys once, although a pair may collide in        *)
(* several bands; ranks grow towards the root, so find ends.               *)
GroupingExact ==
  /\ part = "groups" => Groups!GroupsAreComponents
  /\ part = "groups" => Groups!PairsExact
  /\ part = "groups" => Groups!RankBounded

===============================================================================
