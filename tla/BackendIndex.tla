----------------------------- MODULE BackendIndex -----------------------------
(***************************************************************************)
(* crates/pari-backend: BackendIndex32 over MemoryBackend, the in-process  *)
(* reference implementation of the storage contract.                       *)
(*                                                                         *)
(* The handle owns its backend: create and open take one, into_backend     *)
(* gives it back, cleanup consumes both, and backend_mut lets the owner    *)
(* call the primitives of the backend behind the handle's back.  Every     *)
(* call takes &mut self, so a call is one step.                            *)
(*                                                                         *)
(* known_items is the handle's own count of live keys, from which the      *)
(* opportunities of the observed queries are computed.                     *)
(***************************************************************************)
EXTENDS IndexTypes, Naturals, SequencesExt

CONSTANTS
  Incompatible,  \* a sketch of another seed or length
  Unknown,       \* known_items is None
  NoMetrics,     \* query_metrics is None
  MaxBatch,      \* bound: items or probes of one call
  MaxObserved,   \* bound: observed query operations
  MaxKnown       \* bound: known_items, which raw deletes let drift upwards

BackendAssumption ==
  /\ MaxBatch \in Nat /\ MaxObserved \in Nat /\ MaxKnown \in Nat
  /\ Incompatible \notin Row /\ Unknown \notin Nat

VARIABLES
  descriptor,   \* the backend owns a descriptor
  records,      \* key -> row, or Absent
  buckets,      \* <<band, hash>> -> members, defined on the buckets present
  handle,       \* a BackendIndex32 holds the backend
  known_items,
  metrics,      \* query_metrics, without the latencies
  truth,        \* history: opportunities of the observed queries
  report

vars == <<descriptor, records, buckets, handle, known_items, metrics, truth, report>>
stored == <<descriptor, records, buckets>>

Bucket == Band \X Hash

Capability == {"BatchRead", "BatchWrite", "Delete", "Flush", "Ttl", "Health", "Remote"}
MemoryCapabilities == Capability \ {"Ttl", "Remote"}

Zero == [operations |-> 0, queries |-> 0, candidates |-> 0, possible |-> 0]

Batch(S) == UNION {[1..n -> S] : n \in 0..MaxBatch}

Item == [key : Key, sketch : Row \cup {Incompatible}]

Init ==
  /\ descriptor = FALSE
  /\ records = NoRows
  /\ buckets = <<>>
  /\ handle = FALSE
  /\ known_items = Unknown
  /\ metrics = NoMetrics
  /\ truth = 0
  /\ report = "ok"

-----------------------------------------------------------------------------
(* The primitives of MemoryBackend.                                        *)

(* initialize, with or without a retention in the descriptor. *)
InitializeResult(retention) ==
  CASE descriptor \/ Live(records) # {} \/ DOMAIN buckets # {} -> "already_exists"
    [] retention -> "unsupported"
    [] OTHER -> "ok"

(* What insert_many of the backend returns.  A StoredItem is only built by *)
(* the handle, whose descriptor is the backend's: its hashes always have   *)
(* one per band.                                                           *)
InsertUnchecked(items) == IF descriptor THEN "ok" ELSE "not_found"
InsertResult(items) ==
  CASE ~descriptor -> "not_found"
    [] \E i \in DOMAIN items : records[items[i].key] # Absent -> "duplicate"
    [] OTHER -> "ok"

(* Every band of the stored hashes, and the buckets left after a change of *)
(* members: a bucket that lost its last member is removed.                 *)
Placed(items, x) ==
  {items[i].key : i \in {j \in DOMAIN items : items[j].sketch[x[1]] = x[2]}}

BucketMembers(x) == IF x \in DOMAIN buckets THEN buckets[x] ELSE {}

InsertRecords(items) ==
  LET touched == {x \in Bucket : Placed(items, x) # {}} IN
  /\ records' = [k \in Key |->
       IF \E i \in DOMAIN items : items[i].key = k
       THEN items[CHOOSE i \in DOMAIN items : items[i].key = k].sketch
       ELSE records[k]]
  /\ buckets' = [x \in DOMAIN buckets \cup touched |-> BucketMembers(x) \cup Placed(items, x)]

Removed(keys) == {k \in Range(keys) : records[k] # Absent}

Remaining(x, gone) == BucketMembers(x) \ gone
NeverLosesBucket(keys, x) == FALSE
LosesBucket(keys, x) ==
  LET gone == {k \in Removed(keys) : records[k][x[1]] = x[2]} IN
  gone # {} /\ Remaining(x, gone) = {}

DeleteRecords(keys) ==
  /\ records' = [k \in Key |-> IF k \in Removed(keys) THEN Absent ELSE records[k]]
  /\ buckets' = [x \in {y \in DOMAIN buckets : ~LosesBucket(keys, y)} |->
                   Remaining(x, {k \in Removed(keys) : records[k][x[1]] = x[2]})]

QueryBuckets(asked) == [i \in DOMAIN asked |-> BucketMembers(asked[i])]

-----------------------------------------------------------------------------
(* The handle.                                                             *)

(* validate_retention_capability runs before the backend sees anything. *)
Create(retention) ==
  LET result == IF retention /\ "Ttl" \notin MemoryCapabilities
                THEN "unsupported" ELSE InitializeResult(retention)
  IN /\ ~handle
     /\ report' = result
     /\ descriptor' = (descriptor \/ result = "ok")
     /\ handle' = (result = "ok")
     /\ known_items' = IF result = "ok" THEN 0 ELSE Unknown
     /\ metrics' = NoMetrics /\ truth' = 0
     /\ UNCHANGED <<records, buckets>>

Open ==
  /\ ~handle
  /\ report' = IF descriptor THEN "ok" ELSE "not_found"
  /\ handle' = descriptor
  /\ known_items' = Unknown
  /\ metrics' = NoMetrics /\ truth' = 0
  /\ UNCHANGED stored

IntoBackend ==
  /\ handle
  /\ handle' = FALSE
  /\ known_items' = Unknown
  /\ metrics' = NoMetrics /\ truth' = 0
  /\ report' = "ok"
  /\ UNCHANGED stored

(* insert_many of the handle: the first repeated key or incompatible       *)
(* sketch of the batch, before the backend is asked.                       *)
BadItem(items, i) ==
  \/ \E j \in 1..(i - 1) : items[j].key = items[i].key
  \/ items[i].sketch = Incompatible

CountOne(n, items) == n + 1
CountBatch(n, items) == n + Len(items)

InsertMany(items) ==
  LET bad == {i \in DOMAIN items : BadItem(items, i)}
      first == Min(bad)
      result == IF bad = {} THEN InsertResult(items)
                ELSE IF \E j \in 1..(first - 1) : items[j].key = items[first].key
                     THEN "duplicate" ELSE "incompatible"
  IN /\ handle
     /\ known_items # Unknown => known_items + Len(items) <= MaxKnown
     /\ report' = result
     /\ IF result = "ok"
        THEN /\ InsertRecords(items)
             /\ known_items' = IF known_items = Unknown THEN Unknown
                               ELSE CountBatch(known_items, items)
        ELSE UNCHANGED <<records, buckets, known_items>>
     /\ UNCHANGED <<descriptor, handle, metrics, truth>>

(* remove_many collects its keys into a set first; remove passes one. *)
Saturating(n, m) == IF m > n THEN 0 ELSE n - m

RemoveMany(keys) ==
  LET removed == Cardinality(Removed(keys)) IN
  /\ handle
  /\ report' = IF descriptor THEN "ok" ELSE "not_found"
  /\ IF descriptor
     THEN /\ DeleteRecords(keys)
          /\ known_items' = IF known_items = Unknown THEN Unknown ELSE Saturating(known_items, removed)
     ELSE UNCHANGED <<records, buckets, known_items>>
  /\ UNCHANGED <<descriptor, handle, metrics, truth>>

(* query_many asks the backend once for each different bucket and keeps,   *)
(* for every probe and band, the position of its answer.                   *)
BandOrder == CHOOSE s \in [1..Cardinality(Band) -> Band] : Range(s) = Band

Asked(probes) ==
  FoldLeft(LAMBDA seen, x : IF \E i \in DOMAIN seen : seen[i] = x THEN seen ELSE Append(seen, x),
           <<>>,
           FlattenSeq([p \in DOMAIN probes |->
             [b \in DOMAIN BandOrder |-> <<BandOrder[b], probes[p][BandOrder[b]]>>]]))

PositionByHash(asked, x) == CHOOSE i \in DOMAIN asked : asked[i][2] = x[2]
Position(asked, x) == CHOOSE i \in DOMAIN asked : asked[i] = x

QueryMany(probes) ==
  LET asked == Asked(probes)
      members == QueryBuckets(asked)
  IN [p \in DOMAIN probes |->
        UNION {members[Position(asked, <<b, probes[p][b]>>)] : b \in Band}]

(* An observed query; disabled metrics leave no trace. *)
ObservedQuery(probes) ==
  LET output == QueryMany(probes)
      found == FoldLeft(LAMBDA n, s : n + Cardinality(s), 0, output)
  IN /\ handle /\ metrics # NoMetrics /\ metrics.operations < MaxObserved
     /\ probes # <<>>
     /\ metrics' = [operations |-> metrics.operations + 1,
                    queries |-> metrics.queries + Len(probes),
                    candidates |-> metrics.candidates + found,
                    possible |-> metrics.possible +
                      IF known_items = Unknown THEN 0 ELSE known_items * Len(probes)]
     /\ truth' = truth + Cardinality(Live(records)) * Len(probes)
     /\ report' = "ok"
     /\ UNCHANGED <<descriptor, records, buckets, handle, known_items>>

Stats ==
  /\ handle
  /\ report' = IF descriptor THEN "ok" ELSE "not_found"
  /\ known_items' = IF descriptor THEN Cardinality(Live(records)) ELSE known_items
  /\ UNCHANGED <<descriptor, records, buckets, handle, metrics, truth>>

SetObservability(enabled) ==
  /\ handle
  /\ metrics' = IF enabled THEN Zero ELSE NoMetrics
  /\ truth' = 0
  /\ report' = "ok"
  /\ UNCHANGED <<descriptor, records, buckets, handle, known_items>>

Flush ==
  /\ handle
  /\ report' = IF descriptor THEN "ok" ELSE "not_found"
  /\ UNCHANGED <<descriptor, records, buckets, handle, known_items, metrics, truth>>

KeepBuckets == buckets
NoBuckets == <<>>

(* cleanup of the handle consumes it; backend_mut().cleanup() does not. *)
Cleanup(consumed) ==
  /\ handle
  /\ descriptor' = FALSE
  /\ records' = NoRows
  /\ buckets' = NoBuckets
  /\ handle' = ~consumed
  /\ IF consumed THEN known_items' = Unknown /\ metrics' = NoMetrics /\ truth' = 0
                 ELSE UNCHANGED <<known_items, metrics, truth>>
  /\ report' = "ok"

(* backend_mut().delete_many(keys), where a key may be repeated. *)
RawDelete(keys) ==
  /\ handle /\ descriptor
  /\ DeleteRecords(keys)
  /\ report' = "ok"
  /\ UNCHANGED <<descriptor, handle, known_items, metrics, truth>>

HandleNext ==
  \/ \E retention \in BOOLEAN : Create(retention)
  \/ Open \/ IntoBackend \/ Stats \/ Flush
  \/ \E items \in Batch(Item) : InsertMany(items)
  \/ \E keys \in Batch(Key) : RemoveMany(keys)
  \/ \E probes \in Batch(Row) : ObservedQuery(probes)
  \/ \E enabled \in BOOLEAN : SetObservability(enabled)
  \/ Cleanup(TRUE)

Next ==
  \/ HandleNext
  \/ Cleanup(FALSE)
  \/ \E keys \in Batch(Key) : RawDelete(keys)

(* HandleSpec is an owner that never uses backend_mut. *)
HandleSpec == Init /\ [][HandleNext]_vars
Spec == Init /\ [][Next]_vars

-----------------------------------------------------------------------------
(* Properties                                                              *)

(* The buckets present are the non-empty ones of the records: an empty     *)
(* bucket left behind would be counted by stats and would make initialize  *)
(* refuse a namespace that holds nothing.                                  *)
BucketsMatchRecords ==
  LET tables == Materialize(records)
  IN buckets = [x \in {y \in Bucket : tables[y[1]][y[2]] # {}} |-> tables[x[1]][x[2]]]

(* Every probe of a batch gets its own answer although the batch asks for  *)
(* each bucket only once: the positions lead each band of each probe to    *)
(* the bucket of that band and hash.                                       *)
QueryManyExact ==
  \A probes \in [1..2 -> Row] :
    \A p \in DOMAIN probes : QueryMany(probes)[p] = Matches(records, probes[p])

(* A namespace that cleanup emptied, or whose keys were all deleted, is    *)
(* what it was when it was new: the next create succeeds exactly when no   *)
(* descriptor is left.                                                     *)
CleanIsReusable == InitializeResult(FALSE) = "ok" <=> ~descriptor

(* A handle that counts, counts right, as long as nobody changes the       *)
(* backend behind it: rejected batches, repeated keys and keys that were   *)
(* not there leave known_items alone.                                      *)
KnownItemsExact == handle /\ known_items # Unknown => known_items = Cardinality(Live(records))

(* The contents are a map from keys to rows that cleanup empties. *)
Contents == INSTANCE SimilarityIndex WITH rows <- records

(* The possible candidates are the live keys summed over the observed      *)
(* queries.                                                                *)
PossibleIsExact == metrics # NoMetrics => metrics.possible = truth

-----------------------------------------------------------------------------
(* The inductive invariants behind these properties                        *)

(* Records need a descriptor, and only finitely many can have been put.    *)
TypeOK ==
  /\ records \in Rows /\ IsFiniteSet(Live(records))
  /\ ~descriptor => records = NoRows
  /\ known_items \in Nat \cup {Unknown}

IInv == TypeOK /\ BucketsMatchRecords

HandleInv == IInv /\ KnownItemsExact

=============================================================================
