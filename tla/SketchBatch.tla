----------------------------- MODULE SketchBatch -----------------------------
(***************************************************************************)
(* crates/pari-core: from_batch_with of MinHash32 and MinHash64, which     *)
(* builds the sketches of many rows on a pool of worker threads.  The pool *)
(* is cached for the whole process, by its number of threads; calls that   *)
(* overlap may share it or replace it under each other, and a pool lives   *)
(* as long as somebody holds it.                                           *)
(*                                                                         *)
(* A row stands for its sketch.  par_chunks gives whole chunks to the      *)
(* workers in any order (external: rayon) and collects them by position.   *)
(***************************************************************************)
EXTENDS Naturals, SequencesExt, FiniteSets

CONSTANTS
  Call,       \* overlapping calls, each with a batch of its own
  MaxRows,    \* bound: rows of a batch
  MinRows,    \* PARALLEL_BATCH_MIN_ROWS
  Available,  \* thread::available_parallelism
  AutoMax,    \* AUTO_BATCH_MAX_THREADS
  MaxFaults,  \* bound: pools that cannot be built
  Automatic, Sequential,  \* BatchThreads
  None               \* no pool

BatchAssumption == {MaxRows, MinRows, Available, AutoMax, MaxFaults} \subseteq Nat

(* BatchThreads: Auto, Sequential, and the number of Max. *)
Threads == {Automatic, Sequential} \cup (1..(Available + 1))

VARIABLES
  rows, threads,  \* the arguments of each call
  cached,         \* BATCH_POOL: the size and the number of the cached pool
  built,          \* pools built so far
  pool,           \* the pool each call runs on
  pc,
  waiting, running, chunks,  \* chunk numbers, and the finished chunks by number
  result,
  faults

vars == <<rows, threads, cached, built, pool, pc, waiting, running, chunks, result, faults>>
arguments == <<rows, threads>>
work == <<waiting, running, chunks>>

Least(S) == CHOOSE x \in S : \A y \in S : x <= y

(* effective_threads: Max may ask for more than there are; the result is   *)
(* never 0.                                                                *)
EffectiveThreads(choice, n) ==
  IF n < MinRows \/ choice = Sequential THEN 1
  ELSE LET requested == IF choice = Automatic THEN Least({Available, AutoMax}) ELSE choice
           capped == Least({requested, Available, n})
       IN IF capped = 0 THEN 1 ELSE capped

Effective(c) == EffectiveThreads(threads[c], rows[c])

(* rows.len().div_ceil(effective_threads), and the chunk at a position;    *)
(* the last one may be shorter.                                            *)
DivCeil(n, d) == (n + d - 1) \div d
ChunkSize(c) == DivCeil(rows[c], Effective(c))
ChunkNumbers(c) == 1..DivCeil(rows[c], ChunkSize(c))
Chunk(c, i) ==
  [j \in 1..Least({ChunkSize(c), rows[c] - (i - 1) * ChunkSize(c)}) |-> (i - 1) * ChunkSize(c) + j]

Init ==
  /\ rows \in [Call -> 0..MaxRows] /\ threads \in [Call -> Threads]
  /\ cached = None /\ built = 0
  /\ pool = [c \in Call |-> None] /\ pc = [c \in Call |-> "start"]
  /\ waiting = [c \in Call |-> {}] /\ running = [c \in Call |-> {}]
  /\ chunks = [c \in Call |-> <<>>]
  /\ result = [c \in Call |-> <<>>]
  /\ faults = 0

(* One effective thread: the caller builds the sketches itself. *)
BuildInline(c) ==
  /\ pc[c] = "start" /\ Effective(c) = 1
  /\ pc' = [pc EXCEPT ![c] = "done"]
  /\ result' = [result EXCEPT ![c] = [j \in 1..rows[c] |-> j]]
  /\ UNCHANGED <<arguments, cached, built, pool, work, faults>>

(* batch_pool, under the lock of the cache, then install. *)
AnyCached(c) == cached # None
Fits(c) == cached # None /\ cached.threads = Effective(c)

Install(c, p) ==
  /\ pc' = [pc EXCEPT ![c] = "install"]
  /\ pool' = [pool EXCEPT ![c] = p]
  /\ waiting' = [waiting EXCEPT ![c] = ChunkNumbers(c)]
  /\ chunks' = [chunks EXCEPT ![c] = [i \in ChunkNumbers(c) |-> <<>>]]
  /\ UNCHANGED <<arguments, running, result>>

ReusePool(c) ==
  /\ pc[c] = "start" /\ Effective(c) > 1 /\ Fits(c)
  /\ Install(c, cached)
  /\ UNCHANGED <<cached, built, faults>>

BuildPool(c) ==
  LET new == [threads |-> Effective(c), number |-> built + 1] IN
  /\ pc[c] = "start" /\ Effective(c) > 1 /\ ~Fits(c)
  /\ Install(c, new)
  /\ built' = built + 1 /\ cached' = new
  /\ UNCHANGED faults

(* The error leaves the cached pool to the other calls. *)
PoolFails(c) ==
  /\ pc[c] = "start" /\ Effective(c) > 1 /\ ~Fits(c)
  /\ faults < MaxFaults /\ faults' = faults + 1
  /\ pc' = [pc EXCEPT ![c] = "failed"]
  /\ UNCHANGED <<arguments, cached, built, pool, work, result>>

Busy(p) == UNION {{<<c, i>> : i \in running[c]} : c \in {d \in Call : pool[d] = p}}

(* A worker of the pool takes a chunk and finishes it. *)
TakeChunk(c, i) ==
  /\ pc[c] = "install" /\ i \in waiting[c]
  /\ Cardinality(Busy(pool[c])) < pool[c].threads
  /\ waiting' = [waiting EXCEPT ![c] = @ \ {i}]
  /\ running' = [running EXCEPT ![c] = @ \cup {i}]
  /\ UNCHANGED <<arguments, cached, built, pool, pc, chunks, result, faults>>

(* collect puts a chunk at its position, not behind the last one. *)
FirstHole(c, i) == CHOOSE j \in DOMAIN chunks[c] : chunks[c][j] = <<>> /\ \A k \in 1..(j - 1) : chunks[c][k] # <<>>
Place(c, i) == i

FinishChunk(c, i) ==
  /\ pc[c] = "install" /\ i \in running[c]
  /\ running' = [running EXCEPT ![c] = @ \ {i}]
  /\ chunks' = [chunks EXCEPT ![c][Place(c, i)] = Chunk(c, i)]
  /\ UNCHANGED <<arguments, cached, built, pool, pc, waiting, result, faults>>

(* install returns when every chunk is there; the chunks are flattened. *)
Collect(c) ==
  /\ pc[c] = "install" /\ waiting[c] = {} /\ running[c] = {}
  /\ pc' = [pc EXCEPT ![c] = "done"]
  /\ result' = [result EXCEPT ![c] = FlattenSeq(chunks[c])]
  /\ pool' = [pool EXCEPT ![c] = None]
  /\ chunks' = [chunks EXCEPT ![c] = <<>>]
  /\ UNCHANGED <<arguments, cached, built, waiting, running, faults>>

Next ==
  \E c \in Call :
    \/ BuildInline(c) \/ ReusePool(c) \/ BuildPool(c) \/ PoolFails(c) \/ Collect(c)
    \/ \E i \in 1..MaxRows : TakeChunk(c, i) \/ FinishChunk(c, i)

Spec == Init /\ [][Next]_vars

-----------------------------------------------------------------------------
(* Properties                                                              *)

(* The batch is "ordered" (doc comment of from_batch): sketch j is that of *)
(* row j, each row is built once and none is missing, whatever the number  *)
(* of threads, the length of the last chunk, the order in which chunks end *)
(* and the pool another call leaves in the cache.                          *)
BatchInOrder == \A c \in Call : pc[c] = "done" => result[c] = [j \in 1..rows[c] |-> j]

(* "Use at most this many process-visible CPUs" (BatchThreads::Max): a     *)
(* call never waits on a pool of another size than it asked for, and its   *)
(* chunks are no more than its threads.                                    *)
WithinThreads ==
  \A c \in Call : pc[c] = "install" =>
    /\ pool[c].threads = Effective(c)
    /\ Cardinality(ChunkNumbers(c)) <= Effective(c)
    /\ Effective(c) <= Available
    /\ threads[c] \notin {Automatic, Sequential} => Effective(c) <= threads[c]

=============================================================================
