# Verification of pari

pari is a MinHash/LSH similarity index in Rust with Python bindings: an in-memory index, a
single-writer local index file, a bounded external builder, a lazy reader, and an index shared
through Redis. This directory holds TLA+ models of its parts, the TLC configurations that check
them, and TLAPS proofs. `PROJECT.json` lists components, runs, mutants, the
definition-to-source map, findings, hazards and theorems.

    tlc -workers 2 -config MCPersistentIndex.cfg MCPersistentIndex
    tlapm PersistentIndexProofs.tla

## 1. The system

| Part | State | Operations | Depends on |
|---|---|---|---|
| persistent index (`pari-store`) | file at a path; handle: `base`, `overlay_buckets`, `overlay_keys`, `suppressed_base_keys`, `key_hashes`, `dirty` | open, insert_many, remove, query, flush, sync, close | file system, format |
| index creation (`pari-store`) | destination name, temporary names, `NEXT_TEMPORARY_FILE`, `OwnedTemporaryFile` | create | file system; raced by other processes |
| shared backend (`pari-backend`) | three Redis keys with TTLs; each handle's descriptor | create, open, insert_many, remove_many, query_many, cleanup | Redis, Lua scripts |
| in-memory backend, storage contract (`pari-backend`) | descriptor, records, buckets; the handle's count and metrics | the `StorageBackend` trait, `BackendIndex32` | - |
| in-memory index (`pari-index`) | append-only ids, band hashes, buckets, query counters | insert_many, remove, query_many, stats | - |
| grouping (`pari-index`) | union-find | candidate pairs, duplicate groups with a verifier | in-memory index |
| signatures (`pari-core`) | hash values, the cached worker pool | new, update, merge, clear, jaccard, from_batch | rayon |
| external builder (`pari-store-build`) | spill runs, descriptors, memberships, commit file | build_external | format, file system |
| lazy reader (`pari-store-lazy`) | open file, bucket directory | build_from_snapshot, open, query, verify | format, file system |
| command line (`pari-cli`) | staged index, output transaction | index, search, dedup, verify, plan, explain, stats | persistent index, publication |
| Python bindings (`pari-py`) | `Arc<Mutex<Option<...>>>` around each index | every operation, with the GIL released | persistent index, in-memory index |
| deduplication engine (`pari-py`, `dedupe.py`) | in-memory index and optional store behind one mutex; the list of records | add_many, groups, sync, close | both indexes, Python callbacks |
| staged outputs (`_outputs.py`) | staged and published paths | enter, exit | file system |
| file format (`pari-format`) | none | encode, decode, layout, bucket segments | - |
| planner, benchmarks, wrappers | none that outlives a call | - | - |

What is hard in it:

* a commit is five steps (stage, close the base, rename, sync the directory, reopen), each of
  which may fail or be cut off, and after each failure the handle must still answer exactly
  and be able to commit;
* answers merge three structures that change at different moments (committed buckets, overlay,
  suppressed keys);
* four separate pieces of code publish files without replacing any, race other creators and
  other programs for names, and have rollbacks that can fail half-way;
* Redis clients interleave, keys expire, replies get lost, handles outlive the index they
  opened, and a pipelined query is not a snapshot;
* Python callbacks run under the engine's mutex, the GIL is a second lock, and list, index and
  store are updated one after the other;
* two container readers and two segment builders were written separately and must agree;
* results depend neither on the order of hash maps nor on that of worker threads.

For each part, what makes it correct: the **persistent index** answers exactly, keeps
mutations through failed commits, reports durability only when it holds and never exposes a
torn file; **creation** and the other publishers have at most one winner, whose file stays, and
losers leave nothing; the **shared backend** keeps records and memberships together, bounds
what a query may return, and retains all keys equally; the **builder** and the **lazy reader**
produce the buckets of the in-memory construction, whatever the spill size; the **in-memory
index** and the **reference backend** implement a map from keys to rows; **grouping** computes
connected components independently of order; a **sketch** is a function of its set; the
**commands** and **staged outputs** publish everything or nothing; the **engine** keeps list,
index and store aligned and never deadlocks on re-entrance.

## 2. Modules

| Module | Models |
|---|---|
| `IndexTypes` | rows, bucket tables and the reference answer of a query |
| `SimilarityIndex` | the promise of an index: a map from keys to rows |
| `PersistentIndex` | `PersistentIndexCore` and its commit, with I/O faults, crashes and power loss |
| `DurableIndex` | what the persistent index promises, without overlays, temporaries or renames |
| `InitialPublication` | `create` by several processes: temporary names, hard link, rollback, cleanup |
| `RedisBackend` | `BackendIndex32` over Redis: scripts, pipelines, expiry, lost replies, stale handles |
| `BackendIndex` | `BackendIndex32` over `MemoryBackend`: the handle's count, shared bucket reads, metrics, raw primitives |
| `BackendDescriptor` | the descriptor of a namespace: validation, encoding, decoding |
| `MinHash` | `MinHash32/64`: permutations, update, merge, clear, stored signatures |
| `SketchBatch` | `from_batch_with` on the cached worker pool |
| `MemoryIndex` | `IndexData` behind `LshIndex32/64` |
| `QueryObservation` | `QueryObserver`: counters of concurrent queries and snapshots |
| `BucketDistribution` | the bucket-size summary and its percentile ranks |
| `Grouping` | candidate pairs, duplicate groups, `group_pairs`, union-find |
| `BucketSegments` | the bucket stream of both builders: records, segments, their checks |
| `ExternalBuild` | `build_external`: source checks, sorted runs, merge, segments (over `BucketSegments`) |
| `BuildPublication` | the builder's temporary files, publication, recovery and `Drop` |
| `LazyIndex` | the lazy reader over a file that may be damaged (over `BucketSegments`); `pari verify` |
| `LazyPublication` | publication of a conversion to a lazy index |
| `ContainerFormat` | header, section frames, encoder, both readers |
| `InputLines` | the lines the commands read: blank, good, malformed; sketches of them |
| `IndexCommand`, `SearchCommand`, `DedupCommand` | `pari index`, `search`, `dedup` (over `InputLines`) |
| `PythonIndex` | `Index` behind its mutex and the GIL |
| `DedupeEngine` | `DedupeIndex` and `_DedupeEngine` |
| `StagedOutputs` | `StagedOutputs` of `_outputs.py` |
| `Publication` | the four publication protocols and the external build, one at a time |
| `Storage` | container, descriptor, lazy reader and reference backend, one at a time |
| `Python` | `PythonIndex`, `DedupeEngine` and the retrying owner of a store, one at a time |
| `Commands` | the three commands, one at a time |
| `InMemory` | the six in-memory modules, one at a time |
| `PersistentIndexProofs`, `RedisBackendProofs`, `InitialPublicationProofs` | proofs about one module |
| `InMemoryProofs`, `PublicationProofs`, `StorageProofs`, `PythonProofs`, `CommandsProofs` | proofs about the modules of `InMemory`, `Publication`, `Storage`, `Python`, `Commands` |
| `MCPersistentIndex`, `MCInitialPublication`, `MCRedisBackend`, `MCPublication`, `MCCommands`, `MCInMemory` | constants and inputs for TLC, with symmetry where it is sound; `Storage` and `Python` are checked as they are |

Beyond `MinHash`, a sketch reaches the stores only as one hash per band, so it is a row
`[Band -> Hash]` there. Buckets are sets where queries sort and deduplicate. The bytes of a
file are abstracted to its rows and buckets in `PersistentIndex`, where a file whose bytes did
not all reach the disk is `Torn`; `ContainerFormat` and `BucketSegments` model the layout.

**The modules with several parts.** `Publication`, `Storage`, `Python`, `Commands` and
`InMemory` instantiate several modules and let a behaviour follow one of them, chosen by `part`
in the initial state. The modules of one such file have no variable in common (names that coincide are used by one part
at a time), so no interleaving is lost; variables of the other parts are `Unused`. A property
`part = "x" => X!P` says of the module X what P says. `Foreign` and `Race`
are two instances of one module with different constants; the parts `handle` and `raw` of
`Storage` are one instance of `BackendIndex` with and without the raw primitives.

**PersistentIndex.** Variables carry the names of the fields of `PersistentIndexCore`. `target`
is what the path names, `recoverable` what it may name after a power loss: a rename adds a
generation, a directory sync leaves only the present one. `pc` is the position of a commit:
`Stage` (`stage_snapshot`), `Publish` (closing the base and `publish_replace`),
`SyncParentDirectory`, `Refresh` (`refresh_after_commit`), each with its failing twin. Since a
commit holds `&mut self`, nothing but faults happens inside it. `call` tells flush, sync, the
consuming Rust close and the Python close apart. A query changes nothing, so it is the
operator `Query`, evaluated in every idle state for every probe. `temporaries` counts the temporary
names beside the index and `temp` is the one the commit owns. `CleanupAfter` is the removal after
a failed step: it removes the name, or fails too and says so in the error; names that stay after
that, a crash or a power loss are counted in `abandoned`, and there is no other way to leave one.
Bounds: `MaxBatch`, `MaxFaults`, `MaxUnsynced` (generations between two directory syncs).

**Publication.** In `InitialPublication`, `BuildPublication` and `LazyPublication` each creator
is a process with a program counter; every check of a name and every use of it are separate
steps, and every step has its failing twin. Files are identified by the creator that made them
(the code compares device and inode through a handle it keeps open). The three protocols differ
where the code does: the store compares identities before it removes a temporary, the builder
removes by name and draws a nonce, the conversion claims names made of its process id and a
counter of that process. Temporary names
of the store are sequence numbers alone, since process ids repeat across restarts and pid
namespaces. `StagedOutputs` links several files in order and withdraws them by identity, while
other programs write the same names. `IndexCommand` composes the staging file, the batches
committed into it and the command's own link-and-roll-back; it ends with the summary, whose
printing fails (`PrintSummaryFails`) with the index published. The builder tracks a name before it
creates the file (`TrackedAt`), those of descriptors and memberships together. Its `Drop` ignores
removals that fail; a temporary left that way (`leaked`) is reported nowhere, and
`FailedLeavesNothing` exempts it. Bounds: `Attempts`, `MaxFaults`,
`MaxForeign`.

Two processes may have one process id (pid namespaces, a shared directory), and two builders one
nonce. Three may not: with three builders that share a nonce, or three processes with one id, a
cleanup by name removes the name of a second, which the third claims at once, and the second
links what the third has only begun to write. `OnlyComplete` is false then, so the condition is
written where it belongs: `NoThreeShare` in the properties of `BuildPublication`, and a conjunct
of `ConversionAssumption`. The proofs showed that it is exactly what the argument needs. A nonce
is the clock in nanoseconds combined with the process id (`build_nonce`), so three equal ones are
remote. Three converting processes with one id are not excluded by the code (containers that share
a volume may all run as process 1); the failing case also needs a failed directory sync. It is an
assumption of the three publication theorems, and no property catches it.

**RedisBackend.** A Lua script is one step. `Reply` covers an answer that arrives and one that
is lost after the script ran, which costs the caller its connection. `BeginQuery`, `ReadBucket`
and `Answer` are the separate reads of a pipeline; the histories `always` and `ever` in a
pipeline record which keys matched throughout and at some moment. One probe stands for
`query_many`. `Tick` is expiry. Rejected calls change nothing and are stuttering steps. A
connection remembers a retention (`retention`) of its own, which `create`, `open` and
`load_descriptor` set and `cleanup` clears; scripts are sent with that one. So a mutation on a bare
connection (before `create`, after `into_backend`) or through `backend_mut` after a cleanup behind
the handle refreshes no TTL (`Raw`). It is allowed in every state; from then on, until the namespace
is created again, `through` is "raw" and the statements about retention and layout, which are about
`BackendIndex32`, do not apply, while those about buckets and queries do.
`written`, `touched` and `through` are history variables. Bounds: `MaxBatch`, `MaxLost`, `Horizon`;
`Forever` is the deadline of a key without a TTL.

**BackendIndex.** The same handle over the reference backend, step by step what the trait does
to descriptor, records and buckets, with `known_items` and the metrics that `RedisBackend`
leaves out. `HandleNext` is an owner who uses only the handle; `Next` adds the primitives
reached through `backend_mut`.

**In memory.** `MemoryIndex` keeps `id_to_key`, `key_to_id`, `band_hashes` and `buckets`; a batch
is validated and then inserted key by key, so the states inside a batch are states of the
model. `QueryObservation` makes each relaxed atomic addition and each load of a snapshot a
step. `Grouping` starts from any index of four slots, removed slots included, and visits
buckets in any order; the verifier is any symmetric relation. `MinHash` works on three-bit
words with shifts and odd factors of that width, so its injectivity argument is checked over
all words; `added` is a history variable. In `SketchBatch` a row stands for its sketch.

**Files.** `ExternalBuild` sorts, spills, merges and cuts record by record; the reference is
the construction of `build_from_snapshot` in `BucketSegments`. `LazyIndex` opens a file built
so, and storage may change a section before or after open; a checksum fails on a changed
section. `ContainerFormat` gives both readers every body of up to `MaxBody` cells.

**Python.** In `PythonIndex` a call takes the mutex with the GIL released (`py.detach`),
and the `closed` getter takes it with the GIL held; both locks are variables. The steps inside are
steps of the model: a method finds the store or that it is closed, works on it, and `close` commits
and then drops it; that no write falls in between is due to the mutex (without it
`AcceptedSurvives` fails). `Index64` repeats the same methods over the other store. `DedupeEngine`
has the list of `dedupe.py`, the engine's index, the mirror and the mutex; a verifier callback
may call the engine again.

## 3. Runs

| Run | Instance | Shows |
|---|---|---|
| `commit` | 2 keys, 1 band, 2 hashes, 2 faults | types and every temporary name accounted for, `QueryExact`, `CleanMeansCommitted`, `NeverTorn`, `DurableReport`, `CommitKeepsMutations`, refinement of `DurableIndex` |
| `redis` | 2 connections, bare or with a handle, 2 keys, 2 bands, one configuration, a lost reply | `BucketsMatchRecords`, `QueryBounds`, `SameRetention`, `RetentionSinceMutation` |
| `publication` | 2 faults in each part: 3 creators in 2 processes; 2 creators and another program; 2 builders, 2 nonces; 3 conversions in 2 processes with one process id; 3 outputs, 2 foreign files; merge of up to 4 items in 2 bands with a buffer of up to 3 | `OnlyComplete`, `ReportedIsPublished`, `FailedLeavesNothing`, `MergeMatchesReference`, `OthersKept`, `SomeoneIsPublished` |
| `in_memory` | 3 keys, 2 bands, 4 identifiers; 2 sketches of 2 permutations; 2 overlapping batches of up to 5 rows on up to 3 threads; 2 querying threads; up to 105 buckets of each size; all indexes of 4 slots | `SketchesExact`, `BatchExact`, `SlotsConsistent`, `QueryExact`, `ImplementsContents`, `StatisticsExact`, `GroupingExact` |
| `storage` | every body of 10 cells; 2 items and 2 damages; every descriptor of small words; 2 keys, 2 bands and batches of 2 through the handle and past it | `FormatsAgree`, `AnswersExact`, `VerifyCovers`, `HandleCounts`, `BackendConsistent`, `ImplementsContents` |
| `commands` | 2 index commands, batches of 2; 4 lines and a replaced index for search; dedup with aliases; 1 fault each | `IndexAllOrNothing`, `AnswersInOrder`, `DedupWhole`, `UsableIsIndexed` |
| `python` | 2 threads, 3 calls on an index or 2 on an engine, 1 fault; a store with 3 faults | `AcceptedSurvives`, `EngineAligned`, `GroupsNameRecords`, `CallsReturn`, `SyncRetrySucceeds` |
| `create_rollback`, `redis_retention`, `redis_layout`, `observation_rate`, `backend_rate` | as in section 6 | **violations** |

A property that is a conjunction over parts has a mutant for each module it speaks of.

Bounds. Two keys are enough for one key to be hidden by the state of another; two hashes let a
re-inserted key change its bucket; two faults allow a failure followed by a failure of the
retry or by a power loss; two unsynced generations let a power loss skip one. Three creators
let one win, one collide and one fail. Four identifiers for three keys let a churn of removals
and re-inserts exhaust the identifier space while a key is free. A merge of four items with a
buffer of one to three records has one run, several, and a last partial one. Up to 210 buckets
cross the multiples of 100 at which the split percentile computation could round differently.
A body of ten cells holds two sections and a piece of a third. A horizon one beyond the
retention lets an index expire and be created again. Five rows on two or three threads give
equal chunks, a shorter last chunk and fewer chunks than threads. Runs whose actors all return
do not check deadlock; that nobody waits for ever is `CallsReturn`.

Fairness. A commit that was called runs to its return: weak fairness of its steps, which is how
a synchronous call behaves. The owner of a dirty handle keeps calling sync: strong fairness of
that call, because other calls of the same owner may come in between; it is an assumption on
the caller, the one `python/tests/test_close_recovery.py` exercises, and the property says that
such a caller is never stuck. Creators, builders and index commands run until they return, and
a Python thread that can take its next step inside a call takes it (weak fairness per thread).
Weak fairness is enough for the mutex and the GIL because calls are bounded. Faults are finite
in number.

## 4. Proofs

TLAPS proves for every choice of the constants:

* `PersistentIndexProofs`: `TypeCorrect`, `QueriesExact`, `CleanCommitted`, `NoTornFile`,
  `SyncIsDurable`, `MutationsKept` and `Refinement` (every step of `PersistentIndex` is a step
  of `DurableIndex` or leaves its variables alone).
* `RedisBackendProofs`: `TypeCorrect`, `BucketsConsistent`, `QueriesBounded`; and for one
  retention `RetentionShared` and `RetentionExact`.
* `InMemoryProofs`: `SketchesAreExact`, `BatchesAreExact`, `SlotsAgree`, `QueriesExact`,
  `StatisticsAreExact`, `GroupingIsExact` and `ImplementsMap` (every step of `MemoryIndex` is a
  step of `SimilarityIndex` or leaves its map alone, and no identifier is reused): all properties
  of the run `in_memory`.
* `InitialPublicationProofs`: `DestinationComplete`, `CreateIsAtomic`, `CreationPreservesOthers`.
* `PublicationProofs`: `ConversionIsAtomic`, `OutputsAreAtomic` and `BuildIsAtomic` for one
  protocol each; `DestinationsComplete`, `PublicationIsDurable`, `FailureLeavesNothing` and
  `ForeignFilesKept`, the properties of the run `publication`, for all of them.
* `StorageProofs`: `FormatsAreExact` (the container and its two readers, the descriptor);
  `BucketsConsistent`, `CountsExact` and `BackendImplements` (a step of `BackendIndex` is a step
  of `SimilarityIndex` or leaves its map alone).
* `PythonProofs`: `AddsSurvive`, `EngineStaysAligned`, `GroupsAreExact`.
* `CommandsProofs`: `IndexIsAllOrNothing`, `SearchAnswersInOrder` and `DedupIsWholeInput`, the
  safety properties of the run `commands`.

*Persistent index.* `QueryExact` is not inductive: it speaks of answers, not of how the three
structures share the keys. The invariant `IInv` says that (1) every file that is or may become
the target is complete and its buckets are those of its rows (`FilesWellFormed`); (2) the
overlay tables are exactly those of the overlay keys (`OverlayExact`); (3) outside the
suppressed keys, the base holds exactly the live keys that are not in the overlay, and a
suppressed key is live only through the overlay (`BaseExact`); (4) at each step of a commit the
staged or published file holds the live rows, and only a completed directory sync lets the
commit report durability (`CommitProgress`); (5) a commit owns a temporary exactly while it is
staged (`StagedOwns`), so that a rename, a cleanup and a failed cleanup each account for one name
and the names are those abandoned and the one owned (`TypeOK`). Point 3 is what a removal, a re-insertion under
another row and a failed commit each preserve for a different reason, hence the case analysis
by action. The refinement maps a file to its rows and uses the same invariant.

*Shared backend.* `QueryBounds` needs a statement about a pipeline half-way (`PipelineSound`):
what it read did match at some moment, and a key that matched throughout was read or still
waits in a bucket not yet read. A mutation preserves this because no script changes the row of
a key that stays live. `BucketsMatchRecords` under expiry needs `ExpireTogether`: the scripts
refresh records and buckets together and Redis drops both when the last member goes, so no tick
takes one without the other. `IInv` joins the two. Since the theorems hold for every set of
bands and of configurations, they also cover stale handles, for which no separate run is kept.

*In-memory index.* `QueryExact` follows from a statement about slots (`SlotsMatchKeys`,
`BucketsMatchSlots`). It is inductive only together with `PendingIsNew`: while a validated batch
is inserted item by item, its remaining keys must still be new and distinct, or an insert would
leave a slot the key map no longer reaches. The refinement uses the same invariant: an insert
adds a key that was not live, and a removal empties a slot no other key has.

*Induction.* The library's induction theorems take an operator as a parameter, which the provers
cannot instantiate. `InMemoryProofs` and `StorageProofs` start from the well-foundedness of `<` on the naturals
instead: every non-empty set of numbers has a least one (`LeastNumber`), so a set that holds 0
and is closed under successor is all of `Nat` (`Induction`). A property is put as a set of
numbers, and a recursive function is handled in two steps: a function with the required values
exists (`RecursionExists`), hence the `CHOOSE` behind the definition has them. Powers of two, bits,
running totals, the walk of `find` and the walk over a file are known that way.

*Sketches.* The invariant gives each sketch as the coordinatewise minimum over `added`. That
agreement is never a collision needs every permutation to be one-to-one: an exclusive or with
the own right shift is, because the high bits are unchanged and give the others back one by one
from the top; a product with an odd factor modulo a power of two is, because an odd divisor of a
multiple of 2^n takes no factor two away; a sum modulo 2^n is. Neither the width nor the factors
of the code matter beyond being positive and odd.

*Batches.* An installed call has a pool of its own size and every chunk that no worker holds and
none has still to take is in its place; `div_ceil` cuts n rows into at most as many chunks as
threads, which follow one another and end at n, so joining them in order is the identity.

*Counters.* `TotalsExact` speaks of moments without a query. The invariant says for each counter
that what was queried is what is counted and what is on its way, where the latter is the
cardinality of the set of units still to be added (`Units`), since a sum over a set of threads
has no induction of its own. Percentiles: the running total of the sizes grows, so the least size
that reaches the rank is the nearest-rank one, and the split computation `(n \div 100) * p + ...`
is the rounded-up `n * p / 100` without its overflow.

*Grouping.* The union-find forest is known by `top`, the root of every slot: parents stay within a
class, ranks grow towards the root, and a class whose root has rank r has 2^r slots or more. Hence
a rank is below the number of slots and `Walk`, which follows as many parents as there are slots,
ends at the root; `Find` keeps `top`, and `Attach` joins two classes and keeps the bound by adding
theirs. Soundness: a class is contained in every set of keys that no edge leaves. Completeness:
for each bucket that is neither waiting nor at work all its members that may be joined are in one
class (for the verified path a pair of the bucket that is accepted, for the unverified one every
member through the anchor), and likewise for the pairs of a stream. Together, when nothing waits,
the classes are the components. For the iterator, `seen` is the set of pairs at or before
`position`, so that nothing is skipped and nothing is returned twice.

*Retention.* `SameRetention` needs `RetentionSinceMutation` and that a key which does not exist
has no deadline (`UnsetDeadlines`): a script that creates a key must give it the deadline the
others get. Both theorems assume `UniformRetention`, that all configurations used for the namespace
agree on the retention, and both properties are about an index mutated only through its handles
(`through`). The run `redis_retention` shows that the condition is needed.

*Publication.* What the three properties say of a publisher that returned depends on every step
before: `IInv` of each protocol says, for each position, which names the publisher holds, whether
its file is complete, whether it is or may be at the destination, and that a destination that
names its file is the result of its own link. In `InitialPublication` the temporaries of two
creators are disjoint because a name is claimed and only its owner removes it, by identity. In
`LazyPublication` and `BuildPublication` that is false, since they remove by name; what holds
instead is that a publisher whose name was taken away or reused cannot be one that another still
depends on, and this is where two sharers differ from three. In `StagedOutputs` the invariant
counts the names the loop has passed and bounds what is left by the failures so far.

*Container.* The readers run independently, so nothing relates their states directly. The file does
not change, and both follow the same walk over it (`IsWalk`): state k is the cursor and the sections
behind k accepted frames. `Follows` says of each reader that it stands at some k of that walk, that
it accepted all frames before, and, once it has ended, why; hence how it ends is a statement about
the file (`EndIs`). By induction along a walk whose frames fit, the sections lie behind each other
(`WalkTiled`), frames and payloads add up to the cursor (`WalkFilled`), and what `encode` writes for
the sections is the file up to the cursor (`WalkCopied`). The checksum is never opened up: decode
compares it for every payload, the layout for skipped payloads at once and for known ones later, and
the equivalence is that of these comparisons. Headers are compared as records: one that decodes is
the one `encode_header` writes from its fields.

*Reference backend.* `BucketsMatchRecords` is inductive with the types; `HandleCounts` is
inductive together with it (`HandleInv`): records are finite and an accepted batch has distinct
new keys, so the count grows by exactly the batch.

*Deduplication engine.* List, index and mirror change one after the other, so they agree only with
the mutex free, which is not inductive. `IInv` says what they are in between: `Settled` is the
list and the batch that waits to join it; the index is `Settled` and the batch of the call inside
`add_many`; the mirror is `Settled`; the result of a grouping is a subset of it, and `Settled`
never shrinks (`EntriesExact`). It holds because at most one batch is between index and list, and
that one begins where the list ends (`BatchesFollow`): a call that read an older length, or the
same one, finds its first key taken. The mutex is held exactly by the call inside, and nobody is
inside a closed engine (`LockHeld`). For `PythonIndex`, the mutex is held by every thread inside, so
at most one is; hence a store that `close` is about to drop is still the one it committed, and what
was added and not removed is in the open store or committed by the closed one.

*Commands.* That the index holds the whole input is known only at the last line; in between the
index holds the lines up to some m, without a repeated key, and the batch the lines from there to
the one last read, each in a place of its own (`Ingested` of `InputLines`; the lemmas say how a
blank line, a record, an accepted batch and the end of the input change it). `IInv` of
`IndexCommand` adds which files are whole (what is about to be published or can be found under
the name) and who holds the name: a command between its link and its exit or rollback is the
destination, and so is one that printed its summary or failed to; one before its link, or one that
ended in a reported error without a failed cleanup, is not there. A step of one command leaves this alone for all others (`Apart`). In `DedupCommand`
the output is still the old one until the index is the whole input, and an alias at the
truncation was made after the last check. In `SearchCommand` each result is judged by the number
of queries before its line; the results written and buffered are as many as the lines read, and
the candidate counter is the number of pairs of a line and a candidate. Events come at multiples
of the interval because the query count stays between the multiple last reported and the next.

Assumptions on constants: `Absent`, `None` and `Torn` are not data (`AbsentAssumption`,
`NoneAssumption`, `TornAssumption`), bounds are natural numbers (`BoundAssumption`), and an
index has at least one band and `Forever` lies beyond every deadline (`RetentionAssumption`).
The other modules name theirs too (`MinHashAssumption`, `BatchAssumption`, `ObservationAssumption`,
`DistributionAssumption`, `GroupingAssumption`, `MemoryAssumption`, `CreatorAssumption`, `BuilderAssumption`,
`ConversionAssumption`, `OutputsAssumption`, `BackendAssumption`, `ThreadAssumption`, `EngineAssumption`,
`SchemeAssumption`, `CommandAssumption`, `SearchAssumption`, `DedupAssumption`, `ContainerAssumption`,
`SegmentAssumption`, `LazyAssumption`, `DescriptorAssumption`): an absent value is
none of the data, inputs are sequences of lines, an index file has finitely many keys, and bounds
are numbers. `InMemory`, `Publication`, `Storage`, `Python` and `Commands` state them of their instances under the name `Assumptions`, and TLC evaluates them in every run.

Model-checked only:

* the liveness properties `SomeoneIsPublished`, `UsableIsIndexed`, `CallsReturn` and
  `SyncRetrySucceeds`: the prover handles neither fairness nor `ENABLED`;
* what the merge of the external builder, the lazy reader and a batch query compute from whole
  sequences: `MergeMatchesReference`, `VerifyCovers`, `AnswersExact`.

## 5. Not modelled

* the planner: a floating-point search without state; and `plan`, `explain`, `stats` and
  `completion`, which print what a library call returns;
* SHA-1, the statistical quality of estimates, threshold validation and automatic tuning;
* the key codecs of `codec.rs`, whose round trip is the standard library's; argument parsing
  and output formatting; benchmarks and adapters;
* asynchronous exceptions in Python: Ctrl-C between the engine's insert and the list's append,
  or between `os.link` and the note that a name was published;
* in `DedupeEngine`, `groups()` on a thread that runs between another thread's insert into the
  engine and its append to the list fails on the missing record with an IndexError; the model
  has that outcome, and no text of the repository excludes it;
* `initialize` through `backend_mut` of a handle: the handle would then serve an index that is not
  the one it was made for;
* the name of a staged output beside its companion `.tmp` files;
* an output that becomes an alias of the input after dedup's last comparison and before the
  truncation (the exception in `DedupWhole`);
* the parent directory's own entry when `create` makes the directory: the documentation's
  durability statement is about one directory, and so is the model;
* Windows, where the directory sync does nothing; two writers on one path, which the
  documentation rules out (`docs/persistence.md`, "Writer model").

## 6. Findings

1. `create_rollback`: a failed publication compares the destination's identity and then removes
   it by name, so a replacement made between the two steps is deleted, against
   `docs/persistence.md`. The builder, the lazy store, the command line and `_outputs.py` have
   the same pair of steps.
2. `redis_retention`: a handle that outlived its index writes into the namespace's successor
   with its own retention. Records without a TTL then outlive the metadata; the namespace can
   be neither opened nor created until somebody cleans it up.
3. `redis_layout`: the same handle stores hashes of another configuration; nothing compares
   the handle's descriptor with the stored one.
4. `observation_rate`: a query records its candidates before its opportunities, so a snapshot
   taken in between has a candidate rate that is not that of any set of queries, and can exceed
   1; the documentation lists both under exact counters.
5. `backend_rate`: a handle that opened an existing namespace counts candidates without
   opportunities until `stats()` is called.

## 7. Plan

1. *Proofs*: the three invariants of section 4 that are only model-checked.
2. *Storage contract*: `RedisBackend` as a refinement of `SimilarityIndex` while no reply is
   lost and nothing expires.
3. *Durability of a new directory*: a variant of `InitialPublication` whose parent directory is
   itself volatile.
