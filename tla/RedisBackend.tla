---------------------------- MODULE RedisBackend ----------------------------
(***************************************************************************)
(* crates/pari-backend: BackendIndex32 over RedisBackend, an index that    *)
(* several processes share through three Redis keys: meta (the             *)
(* descriptor), records (key -> band hashes) and buckets (memberships).    *)
(*                                                                         *)
(* Redis runs one command at a time, and a Lua script is one command, so a *)
(* mutation is one step at the server.  Its reply may be lost: the server  *)
(* has executed the script and the caller sees a transport error and       *)
(* drops the broken connection.  A pipeline is not a transaction: the      *)
(* bucket reads of one query are separate steps, with other handles and    *)
(* expiry in between.  Any handle may outlive the index it opened: another *)
(* may clean the namespace up, or it may expire, and be created again.     *)
(*                                                                         *)
(* The primitives of RedisBackend are public too: before create or open,   *)
(* after into_backend and through backend_mut a caller mutates or cleans   *)
(* up with the retention the connection happens to remember.  (initialize  *)
(* through backend_mut, under a handle with another descriptor, is left    *)
(* out.)                                                                   *)
(***************************************************************************)
EXTENDS IndexTypes, Naturals, FiniteSets

CONSTANTS
  Handle,      \* connections, each bare or owned by one BackendIndex32
  Descriptor,  \* index configurations
  Retention,   \* seconds of retention of each descriptor, 0 for none
  None,        \* no descriptor
  MaxBatch,    \* bound: largest batch
  MaxLost,     \* bound: lost replies in a behaviour
  Horizon,     \* bound: the clock stops here
  Forever      \* the deadline of a key without TTL

ASSUME RetentionAssumption ==
  /\ Retention \in [Descriptor -> Nat]
  /\ MaxBatch \in Nat /\ MaxLost \in Nat
  /\ Horizon \in Nat /\ Forever \in Nat
  /\ Band # {}
  /\ \A d \in Descriptor : Forever > Horizon + Retention[d]

VARIABLES
  (* The server. *)
  meta,      \* the stored descriptor, or None
  records,   \* external key -> band hashes, or Absent
  buckets,   \* the memberships (band, hash, key), as tables
  deadline,  \* when each of the three Redis keys expires
  now,
  (* The handles. *)
  handle,    \* the descriptor of the index that owns the connection, or None
  retention, \* retention_seconds of the connection, 0 for none
  query,     \* the bucket pipeline each handle is reading
  lost,
  (* History, for the properties. *)
  through,   \* "raw" once a mutation of this index came past its handles;
             \* until then:
  written,   \* the descriptor under which each record's hashes were computed
  touched    \* the time of the last mutation the server applied

server == <<meta, records, buckets, deadline>>
connection == <<handle, retention>>
history == <<written, touched, through>>
vars == <<meta, records, buckets, deadline, now, handle, retention, query, lost, written,
          touched, through>>

RedisKey == {"meta", "records", "buckets"}

(* A pipeline in progress: bands still to read, members read so far, and   *)
(* two histories: the keys that matched the probe at every moment since    *)
(* the query began, and those that matched at some moment.                 *)
Pipeline == [probe : Row, todo : SUBSET Band, got : SUBSET Key,
             always : SUBSET Key, ever : SUBSET Key]

ASSUME NoneAssumption == None \notin Descriptor /\ None \notin Pipeline

(* EXPIRE with the caller's retention; 0 leaves the deadline alone. *)
Expire(keys, ttl) ==
  [x \in RedisKey |-> IF x \in keys /\ ttl > 0 THEN now + ttl ELSE deadline[x]]

(* A Redis key that holds nothing does not exist and has no deadline. *)
Existing(d, rows, tables) ==
  [x \in RedisKey |->
     IF \/ x = "records" /\ Live(rows) = {}
        \/ x = "buckets" /\ tables = EmptyTables
     THEN Forever ELSE d[x]]

(* The pipelines under way see the records become rows. *)
Observe(rows) ==
  query' = [h \in Handle |->
    IF query[h] = None \/ query[h].todo = {} THEN query[h]
    ELSE [query[h] EXCEPT !.always = @ \cap Matches(rows, query[h].probe),
                          !.ever = @ \cup Matches(rows, query[h].probe)]]

(* Methods take &mut self: a connection does one thing at a time. *)
AnyTime(h) == TRUE
Idle(h) == query[h] = None

(* A mutation that does not carry the retention of an index handle: the    *)
(* connection is bare, or it was cleaned up behind its handle.             *)
Raw(h) == handle[h] = None \/ retention[h] # Retention[handle[h]]

(* The histories after a mutation; hashed is what written becomes. *)
Mutates(h, hashed) ==
  /\ through' = IF Raw(h) THEN "raw" ELSE through
  /\ written' = IF through' = "raw" THEN [k \in Key |-> None] ELSE hashed
  /\ touched' = IF through' = "raw" THEN 0 ELSE now

-----------------------------------------------------------------------------
Init ==
  /\ meta = None
  /\ records = NoRows
  /\ buckets = EmptyTables
  /\ deadline = [x \in RedisKey |-> Forever]
  /\ now = 0
  /\ handle = [h \in Handle |-> None]
  /\ retention = [h \in Handle |-> 0]
  /\ query = [h \in Handle |-> None]
  /\ lost = 0
  /\ written = [k \in Key |-> None]
  /\ touched = 0 /\ through = "index"

(* The connection now belongs to an index with descriptor d and remembers  *)
(* ttl.                                                                    *)
Connection(h, d, ttl) ==
  handle' = [handle EXCEPT ![h] = d] /\ retention' = [retention EXCEPT ![h] = ttl]

(* The reply of the command arrives, or it is lost with the connection;    *)
(* a new connection remembers nothing.                                     *)
Reply(h, d, ttl) ==
  \/ Connection(h, d, ttl) /\ UNCHANGED lost
  \/ Connection(h, None, 0) /\ lost < MaxLost /\ lost' = lost + 1

(* create_with_params: initialize.lua claims a namespace none of whose     *)
(* keys exists, and sets the TTL of the descriptor it stores.              *)
NamespaceFree == meta = None /\ Live(records) = {} /\ buckets = EmptyTables

Create(h, d) ==
  /\ handle[h] = None
  /\ NamespaceFree
  /\ meta' = d
  /\ deadline' = Expire({"meta"}, Retention[d])
  /\ touched' = now /\ through' = "index"
  /\ Reply(h, d, Retention[d])
  /\ UNCHANGED <<records, buckets, now, query, written>>

(* open: the handle keeps the descriptor, and its retention, from now on.  *)
(* load_descriptor alone changes only what the connection remembers.       *)
Open(h) ==
  /\ Idle(h)
  /\ meta # None
  /\ \E d \in {meta, handle[h]} : Connection(h, d, Retention[meta])
  /\ UNCHANGED <<server, now, query, lost, history>>

(* The owner drops its handle and with it the connection, or takes the     *)
(* connection back with into_backend.                                      *)
Drop(h) ==
  /\ Idle(h) /\ handle[h] # None
  /\ \E ttl \in {0, retention[h]} : Connection(h, None, ttl)
  /\ UNCHANGED <<server, now, query, lost, history>>

-----------------------------------------------------------------------------
Batches == UNION {[S -> Row] : S \in {S \in SUBSET Key : Cardinality(S) \in 1..MaxBatch}}

(* insert.lua: the namespace must have a descriptor, the whole batch is    *)
(* checked before anything is written, and the connection's own retention  *)
(* is applied to all three keys.                                           *)
AnyKey(batch) == TRUE
NoLiveKey(batch) == DOMAIN batch \cap Live(records) = {}

InsertExpiresMetaOnly == {"meta"}
InsertExpires == RedisKey

InsertMany(h, batch) ==
  LET rows == [k \in Key |-> IF k \in DOMAIN batch THEN batch[k] ELSE records[k]] IN
  /\ Idle(h)
  /\ meta # None
  /\ NoLiveKey(batch)
  /\ records' = rows
  /\ buckets' = [b \in Band |-> [x \in Hash |->
                   buckets[b][x] \cup {k \in DOMAIN batch : batch[k][b] = x}]]
  /\ deadline' = Expire(InsertExpires, retention[h])
  /\ Mutates(h, [k \in Key |-> IF k \in DOMAIN batch THEN handle[h] ELSE written[k]])
  /\ Reply(h, handle[h], retention[h])
  /\ Observe(rows)
  /\ UNCHANGED <<meta, now>>

(* delete.lua: records and their memberships go together, and the          *)
(* retention is refreshed only if something was removed.                   *)
WithoutFirstBand(keys) ==
  [buckets EXCEPT ![CHOOSE b \in Band : TRUE] = [x \in Hash |-> @[x] \ keys]]
WithoutKeys(keys) ==
  [b \in Band |-> [x \in Hash |-> buckets[b][x] \ {k \in keys : records[k][b] = x}]]

DeleteKeepsDeadline(ttl) == deadline
DeleteDeadline(ttl) == Expire(RedisKey, ttl)

DeleteMany(h, keys) ==
  LET removed == keys \cap Live(records)
      rows == [k \in Key |-> IF k \in removed THEN Absent ELSE records[k]]
      tables == WithoutKeys(removed)
  IN
  /\ Idle(h)
  /\ meta # None
  /\ removed # {}
  /\ records' = rows
  /\ buckets' = tables
  /\ deadline' = Existing(DeleteDeadline(retention[h]), rows, tables)
  /\ Mutates(h, [k \in Key |-> IF k \in removed THEN None ELSE written[k]])
  /\ Reply(h, handle[h], retention[h])
  /\ Observe(rows)
  /\ UNCHANGED <<meta, now>>

(* cleanup: DEL of the three keys.  BackendIndex32 consumes the handle,    *)
(* with or without the reply.  A bare connection may clean up without      *)
(* opening the index, and backend_mut().cleanup() leaves a usable handle   *)
(* whose connection has forgotten its retention.                           *)
Cleanup(h) ==
  /\ Idle(h)
  /\ meta' = None
  /\ records' = NoRows
  /\ buckets' = EmptyTables
  /\ deadline' = [x \in RedisKey |-> Forever]
  /\ \E d \in {None, handle[h]} : Connection(h, d, 0)
  /\ written' = [k \in Key |-> None]
  /\ Observe(NoRows)
  /\ UNCHANGED <<now, lost, touched, through>>

-----------------------------------------------------------------------------
(***************************************************************************)
(* Queries: one ZRANGEBYLEX per bucket, in one pipeline                    *)
(***************************************************************************)
BeginQuery(h, probe) ==
  /\ Idle(h) /\ handle[h] # None
  /\ query' = [query EXCEPT ![h] =
       [probe |-> probe, todo |-> Band, got |-> {},
        always |-> Matches(records, probe), ever |-> Matches(records, probe)]]
  /\ UNCHANGED <<server, now, connection, lost, history>>

ReadBucket(h, b) ==
  /\ query[h] # None
  /\ b \in query[h].todo
  /\ query' = [query EXCEPT
       ![h].todo = @ \ {b},
       ![h].got = @ \cup buckets[b][query[h].probe[b]]]
  /\ UNCHANGED <<server, now, connection, lost, history>>

(* query_many hands the union of its bucket rows to the caller. *)
Answer(h) ==
  /\ query[h] # None
  /\ query[h].todo = {}
  /\ query' = [query EXCEPT ![h] = None]
  /\ UNCHANGED <<server, now, connection, lost, history>>

(* Time passes, and what has reached its deadline is gone. *)
Tick ==
  /\ now < Horizon
  /\ now' = now + 1
  /\ LET gone == {x \in RedisKey : deadline[x] <= now + 1}
         rows == IF "records" \in gone THEN NoRows ELSE records
     IN
     /\ meta' = IF "meta" \in gone THEN None ELSE meta
     /\ records' = rows
     /\ buckets' = IF "buckets" \in gone THEN EmptyTables ELSE buckets
     /\ deadline' = [x \in RedisKey |-> IF x \in gone THEN Forever ELSE deadline[x]]
     /\ written' = IF "records" \in gone THEN [k \in Key |-> None] ELSE written
     /\ Observe(rows)
  /\ UNCHANGED <<connection, lost, touched, through>>

-----------------------------------------------------------------------------
Next ==
  \/ \E h \in Handle :
       \/ \E d \in Descriptor : Create(h, d)
       \/ Open(h) \/ Drop(h) \/ Cleanup(h)
       \/ \E batch \in Batches : InsertMany(h, batch)
       \/ \E keys \in SUBSET Key : DeleteMany(h, keys)
       \/ \E probe \in Row : BeginQuery(h, probe)
       \/ \E b \in Band : ReadBucket(h, b)
       \/ Answer(h)
  \/ Tick

Spec == Init /\ [][Next]_vars

-----------------------------------------------------------------------------
(***************************************************************************)
(* Properties                                                              *)
(***************************************************************************)

(* Types, and: a pipeline is under way only on an open handle. *)
TypeOK ==
  /\ meta \in Descriptor \cup {None}
  /\ records \in Rows
  /\ buckets \in Tables
  /\ deadline \in [RedisKey -> Nat]
  /\ now \in 0..Horizon
  /\ handle \in [Handle -> Descriptor \cup {None}]
  /\ retention \in [Handle -> Nat]
  /\ query \in [Handle -> Pipeline \cup {None}]
  /\ lost \in 0..MaxLost
  /\ written \in [Key -> Descriptor \cup {None}]
  /\ touched \in 0..Horizon /\ through \in {"index", "raw"}
  /\ \A h \in Handle : query[h] # None => handle[h] # None

(* The two Redis keys that hold the index never disagree: whatever         *)
(* mutations, expirations and cleanups of however many handles and bare    *)
(* connections, current or stale, have happened, the memberships are       *)
(* exactly those of the live records.                                      *)
BucketsMatchRecords == buckets = Materialize(records)

(* A query that reads its buckets one by one while others mutate, clean up *)
(* or let the index expire never misses a key that matched throughout, and *)
(* never returns one that matched at no moment of the query.               *)
QueryBounds ==
  \A h \in Handle :
    query[h] # None /\ query[h].todo = {} =>
      /\ query[h].always \subseteq query[h].got
      /\ query[h].got \subseteq query[h].ever

(* "All three namespace keys receive the same configured retention"        *)
(* (docs/storage-backends.md): whichever of the keys exist carry the       *)
(* deadline of the descriptor's key, unless the index was mutated past its *)
(* handles (a bare connection that never loaded the descriptor sets no     *)
(* TTL).                                                                   *)
SameRetention ==
  through = "index" =>
    /\ Live(records) # {} => meta # None /\ deadline["records"] = deadline["meta"]
    /\ buckets # EmptyTables => meta # None /\ deadline["buckets"] = deadline["meta"]

(* "TTL represents time since the last successful mutation"                *)
(* (docs/storage-backends.md): an index expires exactly its retention      *)
(* after the last mutation the server applied, also when the caller never  *)
(* saw the reply, with the same exception.                                 *)
RetentionSinceMutation ==
  through = "index" /\ meta # None =>
    deadline["meta"] = IF Retention[meta] = 0 THEN Forever ELSE touched + Retention[meta]

(* "Signature/index compatibility is explicit and validated before         *)
(* operations that would otherwise silently return invalid similarity      *)
(* results" (docs/architecture.md): every record of the index was hashed   *)
(* under the descriptor the index has (a raw insert says nothing of it).   *)
CompatibleRecords == through = "index" => \A k \in Live(records) : written[k] = meta

-----------------------------------------------------------------------------
(***************************************************************************)
(* The inductive invariant behind BucketsMatchRecords and QueryBounds      *)
(***************************************************************************)

(* records and buckets are created, refreshed, emptied and expired by the  *)
(* same commands, so the clock never takes one without the other.          *)
ExpireTogether == deadline["records"] = deadline["buckets"]

(* What a pipeline has seen: everything read did match at some moment, and *)
(* a key that matched throughout was read or still waits in a bucket the   *)
(* pipeline has yet to read.                                               *)
PipelineSound(q) ==
  /\ q.got \subseteq q.ever
  /\ \A k \in q.always :
       k \in q.got \/ \E b \in q.todo : k \in Live(records) /\ records[k][b] = q.probe[b]
  /\ q.todo # {} => Matches(records, q.probe) \subseteq q.ever

PipelinesSound == \A h \in Handle : query[h] # None => PipelineSound(query[h])

IInv == TypeOK /\ BucketsMatchRecords /\ ExpireTogether /\ PipelinesSound

(* What SameRetention and RetentionSinceMutation rest on.  They hold while *)
(* all descriptors ever stored in the namespace ask for one retention; a   *)
(* key that does not exist has no deadline, so the first mutation of a     *)
(* key without TTL leaves none behind.                                     *)
UniformRetention == \A d, e \in Descriptor : Retention[d] = Retention[e]

UnsetDeadlines ==
  /\ meta = None => deadline["meta"] = Forever
  /\ Live(records) = {} => deadline["records"] = Forever

RetentionInv == IInv /\ SameRetention /\ RetentionSinceMutation /\ UnsetDeadlines

=============================================================================
