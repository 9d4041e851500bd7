------------------------- MODULE RedisBackendProofs -------------------------
(***************************************************************************)
(* Proofs about RedisBackend, for any number of handles, keys, bands,      *)
(* hashes and descriptors: records and buckets never disagree, and a query *)
(* is bounded by what matched throughout and what matched at some moment.  *)
(***************************************************************************)
EXTENDS RedisBackend, FiniteSetTheorems, TLAPS

(* Tables built from rows are well typed, and so is an empty index. *)
LEMMA DataTypes ==
  /\ EmptyTables \in Tables
  /\ NoRows \in Rows
  /\ \A rows \in Rows : Materialize(rows) \in Tables
  /\ Materialize(NoRows) = EmptyTables
  BY DEF EmptyTables, Tables, NoRows, Rows, Materialize, TablesOf, Live

(* A reference answer is a set of keys. *)
LEMMA MatchesType ==
  ASSUME NEW rows, NEW probe
  PROVE  Matches(rows, probe) \subseteq Key
  BY DEF Matches, Live

(* A deadline set by EXPIRE, or left alone, is a time. *)
LEMMA ExpireType ==
  ASSUME TypeOK, NEW keys, NEW ttl \in Nat
  PROVE  /\ Expire(keys, ttl) \in [RedisKey -> Nat]
         /\ \A rows, tables : Existing(Expire(keys, ttl), rows, tables) \in [RedisKey -> Nat]
<1>1. now \in Nat BY RetentionAssumption DEF TypeOK
<1>2. Expire(keys, ttl) \in [RedisKey -> Nat] BY <1>1 DEF Expire, TypeOK
<1>3. Forever \in Nat BY RetentionAssumption
<1> QED BY <1>2, <1>3 DEF Existing

(* A change of the records leaves every pipeline in its type and under way *)
(* exactly where it was.                                                   *)
LEMMA ObserveType ==
  ASSUME TypeOK, NEW rows, Observe(rows)
  PROVE  /\ query' \in [Handle -> Pipeline \cup {None}]
         /\ \A h \in Handle : query'[h] = None <=> query[h] = None
<1> DEFINE q(h) == [query[h] EXCEPT !.always = @ \cap Matches(rows, query[h].probe),
                                    !.ever = @ \cup Matches(rows, query[h].probe)]
<1>1. ASSUME NEW h \in Handle, query[h] # None
      PROVE  q(h) \in Pipeline /\ q(h) # None
  <2>1. query[h] \in Pipeline BY <1>1 DEF TypeOK
  <2>2. q(h) \in Pipeline BY <2>1, MatchesType DEF Pipeline
  <2> QED BY <2>2, NoneAssumption
<1>2. \A h \in Handle : query'[h] = IF query[h] = None \/ query[h].todo = {} THEN query[h]
                                    ELSE q(h)
  BY DEF Observe
<1>3. query' = [h \in Handle |-> query'[h]] BY DEF Observe
<1>4. \A h \in Handle : query[h] \in Pipeline \cup {None} BY DEF TypeOK
<1> HIDE DEF q
<1>5. \A h \in Handle : /\ query'[h] \in Pipeline \cup {None}
                        /\ query'[h] = None <=> query[h] = None
  BY <1>1, <1>2, <1>4
<1> QED BY <1>3, <1>5

(* A connection that changes hands keeps the others as they were. *)
LEMMA ConnectionType ==
  ASSUME TypeOK, NEW h \in Handle, NEW d \in Descriptor \cup {None}, NEW ttl \in Nat,
         Connection(h, d, ttl)
  PROVE  /\ handle' \in [Handle -> Descriptor \cup {None}]
         /\ retention' \in [Handle -> Nat]
         /\ \A g \in Handle : g # h => handle'[g] = handle[g]
  BY DEF TypeOK, Connection

(* A reply, received or lost, changes only the caller's connection. *)
LEMMA ReplyType ==
  ASSUME TypeOK, NEW h \in Handle, NEW d \in Descriptor \cup {None}, NEW ttl \in Nat,
         Reply(h, d, ttl)
  PROVE  /\ handle' \in [Handle -> Descriptor \cup {None}]
         /\ retention' \in [Handle -> Nat]
         /\ lost' \in 0..MaxLost
         /\ \A g \in Handle : g # h => handle'[g] = handle[g]
<1>1. CASE Connection(h, d, ttl) /\ UNCHANGED lost BY <1>1, ConnectionType DEF TypeOK
<1>2. CASE Connection(h, None, 0) /\ lost < MaxLost /\ lost' = lost + 1
  <2>1. lost' \in 0..MaxLost BY <1>2, RetentionAssumption DEF TypeOK
  <2> QED BY <1>2, <2>1, ConnectionType
<1> QED BY <1>1, <1>2 DEF Reply

(* A mutation, through a handle or past it, leaves typed histories. *)
LEMMA MutatesType ==
  ASSUME TypeOK, NEW h \in Handle, NEW hashed \in [Key -> Descriptor \cup {None}],
         Mutates(h, hashed)
  PROVE  /\ written' \in [Key -> Descriptor \cup {None}]
         /\ touched' \in 0..Horizon
         /\ through' \in {"index", "raw"}
  BY RetentionAssumption DEF TypeOK, Mutates

-----------------------------------------------------------------------------
(* The empty namespace is well typed. *)
LEMMA InitType == Init => TypeOK
  BY DataTypes, RetentionAssumption DEF Init, TypeOK, RedisKey

(* Creating, opening, dropping and cleaning up keep every type. *)
LEMMA LifecycleType ==
  ASSUME TypeOK, NEW h \in Handle,
         (\E d \in Descriptor : Create(h, d)) \/ Open(h) \/ Drop(h) \/ Cleanup(h)
  PROVE  TypeOK'
<1>1. ASSUME NEW d \in Descriptor, Create(h, d) PROVE TypeOK'
  <2>1. Retention[d] \in Nat BY RetentionAssumption
  <2>2. deadline' \in [RedisKey -> Nat] BY <1>1, <2>1, ExpireType DEF Create
  <2>3. /\ handle' \in [Handle -> Descriptor \cup {None}]
        /\ retention' \in [Handle -> Nat]
        /\ lost' \in 0..MaxLost
        /\ \A g \in Handle : g # h => handle'[g] = handle[g]
    BY <1>1, <2>1, ReplyType DEF Create
  <2>4. query[h] = None BY <1>1 DEF Create, TypeOK
  <2> QED BY <1>1, <2>2, <2>3, <2>4 DEF Create, TypeOK
<1>2. ASSUME NEW d \in Descriptor \cup {None}, NEW ttl \in Nat, Connection(h, d, ttl),
             query[h] = None, UNCHANGED <<server, now, query, lost, history>>
      PROVE  TypeOK'
  <2>1. /\ handle' \in [Handle -> Descriptor \cup {None}]
        /\ retention' \in [Handle -> Nat]
        /\ \A g \in Handle : g # h => handle'[g] = handle[g]
    BY <1>2, ConnectionType
  <2> QED BY <1>2, <2>1 DEF TypeOK, server, history
<1>3. CASE Open(h)
  <2>1. meta \in Descriptor /\ query[h] = None BY <1>3 DEF Open, Idle, TypeOK
  <2>2. Retention[meta] \in Nat BY <2>1, RetentionAssumption
  <2>3. PICK d \in {meta, handle[h]} : Connection(h, d, Retention[meta]) BY <1>3 DEF Open
  <2>4. d \in Descriptor \cup {None} BY <2>1 DEF TypeOK
  <2> QED BY <1>2, <1>3, <2>1, <2>2, <2>3, <2>4 DEF Open
<1>4. CASE Drop(h)
  <2>1. PICK ttl \in {0, retention[h]} : Connection(h, None, ttl) BY <1>4 DEF Drop
  <2>2. ttl \in Nat BY DEF TypeOK
  <2> QED BY <1>2, <1>4, <2>1, <2>2 DEF Drop, Idle
<1>5. CASE Cleanup(h)
  <2>1. /\ query' \in [Handle -> Pipeline \cup {None}]
        /\ \A g \in Handle : query'[g] = None <=> query[g] = None
    BY <1>5, ObserveType DEF Cleanup
  <2>2. PICK d \in {None, handle[h]} : Connection(h, d, 0) BY <1>5 DEF Cleanup
  <2>3. d \in Descriptor \cup {None} BY DEF TypeOK
  <2>4. /\ handle' \in [Handle -> Descriptor \cup {None}]
        /\ retention' \in [Handle -> Nat]
        /\ \A g \in Handle : g # h => handle'[g] = handle[g]
    BY <2>2, <2>3, ConnectionType
  <2>5. query[h] = None BY <1>5 DEF Cleanup, Idle
  <2> QED BY <1>5, <2>1, <2>4, <2>5, DataTypes, RetentionAssumption DEF Cleanup, TypeOK
<1> QED BY <1>1, <1>3, <1>4, <1>5

(* The tables a batch or a deletion leaves are well typed. *)
LEMMA InsertType ==
  ASSUME TypeOK, NEW h \in Handle, NEW batch \in Batches, InsertMany(h, batch)
  PROVE  TypeOK'
<1>1. PICK S \in SUBSET Key : batch \in [S -> Row] BY DEF Batches
<1>2. records' \in Rows BY <1>1 DEF InsertMany, TypeOK, Rows
<1>3. buckets' \in Tables BY <1>1 DEF InsertMany, TypeOK, Tables
<1>4. handle[h] \in Descriptor \cup {None} /\ retention[h] \in Nat BY DEF TypeOK
<1>5. deadline' \in [RedisKey -> Nat] BY <1>4, ExpireType DEF InsertMany
<1>6. /\ written' \in [Key -> Descriptor \cup {None}]
      /\ touched' \in 0..Horizon
      /\ through' \in {"index", "raw"}
  <2> DEFINE hashed == [k \in Key |-> IF k \in DOMAIN batch THEN handle[h] ELSE written[k]]
  <2>1. hashed \in [Key -> Descriptor \cup {None}] BY <1>4 DEF TypeOK
  <2>2. Mutates(h, hashed) BY DEF InsertMany
  <2> QED BY <2>1, <2>2, MutatesType
<1>7. /\ handle' \in [Handle -> Descriptor \cup {None}]
      /\ retention' \in [Handle -> Nat]
      /\ lost' \in 0..MaxLost
      /\ \A g \in Handle : g # h => handle'[g] = handle[g]
  BY <1>4, ReplyType DEF InsertMany
<1>8. /\ query' \in [Handle -> Pipeline \cup {None}]
      /\ \A g \in Handle : query'[g] = None <=> query[g] = None
  BY ObserveType DEF InsertMany
<1>9. query[h] = None BY DEF InsertMany, Idle
<1> QED BY <1>2, <1>3, <1>5, <1>6, <1>7, <1>8, <1>9 DEF InsertMany, TypeOK

(* delete.lua keeps every type. *)
LEMMA DeleteType ==
  ASSUME TypeOK, NEW h \in Handle, NEW keys \in SUBSET Key, DeleteMany(h, keys)
  PROVE  TypeOK'
<1>1. records' \in Rows BY DEF DeleteMany, TypeOK, Rows
<1>2. buckets' \in Tables BY DEF DeleteMany, WithoutKeys, TypeOK, Tables
<1>3. handle[h] \in Descriptor \cup {None} /\ retention[h] \in Nat BY DEF TypeOK
<1>4. deadline' \in [RedisKey -> Nat] BY <1>3, ExpireType DEF DeleteMany, DeleteDeadline
<1>5. /\ written' \in [Key -> Descriptor \cup {None}]
      /\ touched' \in 0..Horizon
      /\ through' \in {"index", "raw"}
  <2> DEFINE hashed == [k \in Key |-> IF k \in keys \cap Live(records) THEN None ELSE written[k]]
  <2>1. hashed \in [Key -> Descriptor \cup {None}] BY DEF TypeOK
  <2>2. Mutates(h, hashed) BY DEF DeleteMany
  <2> QED BY <2>1, <2>2, MutatesType
<1>6. /\ handle' \in [Handle -> Descriptor \cup {None}]
      /\ retention' \in [Handle -> Nat]
      /\ lost' \in 0..MaxLost
      /\ \A g \in Handle : g # h => handle'[g] = handle[g]
  BY <1>3, ReplyType DEF DeleteMany
<1>7. /\ query' \in [Handle -> Pipeline \cup {None}]
      /\ \A g \in Handle : query'[g] = None <=> query[g] = None
  BY ObserveType DEF DeleteMany
<1>8. query[h] = None BY DEF DeleteMany, Idle
<1> QED BY <1>1, <1>2, <1>4, <1>5, <1>6, <1>7, <1>8 DEF DeleteMany, TypeOK

(* The steps of a query keep every type. *)
LEMMA QueryType ==
  ASSUME TypeOK, NEW h \in Handle,
         (\E probe \in Row : BeginQuery(h, probe)) \/ (\E b \in Band : ReadBucket(h, b))
           \/ Answer(h)
  PROVE  TypeOK'
<1>1. ASSUME NEW probe \in Row, BeginQuery(h, probe) PROVE TypeOK'
  <2>1. [probe |-> probe, todo |-> Band, got |-> {},
         always |-> Matches(records, probe), ever |-> Matches(records, probe)] \in Pipeline
    BY MatchesType DEF Pipeline
  <2> QED BY <1>1, <2>1 DEF BeginQuery, Idle, TypeOK, server, connection, history
<1>2. ASSUME NEW b \in Band, ReadBucket(h, b) PROVE TypeOK'
  <2>1. query[h] \in Pipeline BY <1>2 DEF ReadBucket, TypeOK
  <2>2. buckets[b][query[h].probe[b]] \subseteq Key
    BY <2>1 DEF TypeOK, Tables, Pipeline, Row
  <2>3. [query[h] EXCEPT !.todo = @ \ {b}, !.got = @ \cup buckets[b][query[h].probe[b]]]
          \in Pipeline
    BY <2>1, <2>2 DEF Pipeline
  <2>4. query' = [query EXCEPT ![h] =
          [query[h] EXCEPT !.todo = @ \ {b}, !.got = @ \cup buckets[b][query[h].probe[b]]]]
    BY <1>2, <2>1 DEF ReadBucket, TypeOK, Pipeline
  <2>5. query' \in [Handle -> Pipeline \cup {None}] BY <2>3, <2>4 DEF TypeOK
  <2>6. \A g \in Handle : query'[g] # None => query[g] # None
    BY <1>2, <2>4 DEF ReadBucket, TypeOK
  <2> QED BY <1>2, <2>5, <2>6 DEF ReadBucket, TypeOK, server, connection, history
<1>3. CASE Answer(h)
  BY <1>3 DEF Answer, TypeOK, server, connection, history
<1> QED BY <1>1, <1>2, <1>3

(* Expiry keeps every type. *)
LEMMA TickType ==
  ASSUME TypeOK, Tick
  PROVE  TypeOK'
<1>1. records' \in Rows /\ buckets' \in Tables BY DataTypes DEF Tick, TypeOK
<1>2. deadline' \in [RedisKey -> Nat] BY RetentionAssumption DEF Tick, TypeOK
<1>3. now' \in 0..Horizon BY RetentionAssumption DEF Tick, TypeOK
<1>4. PICK rows : Observe(rows) BY DEF Tick
<1>5. /\ query' \in [Handle -> Pipeline \cup {None}]
      /\ \A g \in Handle : query'[g] = None <=> query[g] = None
  BY <1>4, ObserveType
<1>6. written' \in [Key -> Descriptor \cup {None}] BY DEF Tick, TypeOK
<1>7. meta' \in Descriptor \cup {None} BY DEF Tick, TypeOK
<1> QED BY <1>1, <1>2, <1>3, <1>5, <1>6, <1>7 DEF Tick, TypeOK, connection

(* Every step keeps every variable in its type. *)
LEMMA NextType == TypeOK /\ [Next]_vars => TypeOK'
<1> SUFFICES ASSUME TypeOK, [Next]_vars PROVE TypeOK'
  OBVIOUS
<1>1. CASE Tick BY <1>1, TickType
<1>2. ASSUME NEW h \in Handle,
             (\E d \in Descriptor : Create(h, d)) \/ Open(h) \/ Drop(h) \/ Cleanup(h)
      PROVE  TypeOK'
  BY <1>2, LifecycleType
<1>3. ASSUME NEW h \in Handle, NEW batch \in Batches, InsertMany(h, batch) PROVE TypeOK'
  BY <1>3, InsertType
<1>4. ASSUME NEW h \in Handle, NEW keys \in SUBSET Key, DeleteMany(h, keys) PROVE TypeOK'
  BY <1>4, DeleteType
<1>5. ASSUME NEW h \in Handle,
             (\E probe \in Row : BeginQuery(h, probe)) \/ (\E b \in Band : ReadBucket(h, b))
               \/ Answer(h)
      PROVE  TypeOK'
  BY <1>5, QueryType
<1>6. CASE UNCHANGED vars BY <1>6 DEF vars, TypeOK
<1> QED BY <1>1, <1>2, <1>3, <1>4, <1>5, <1>6 DEF Next

(* Every variable keeps its type, and only an open handle has a pipeline   *)
(* under way.                                                              *)
THEOREM TypeCorrect == Spec => []TypeOK
  BY InitType, NextType, PTL DEF Spec

-----------------------------------------------------------------------------
(* The bucket of a band and hash holds the live records with that hash. *)
LEMMA BucketMembers ==
  ASSUME NEW rows \in Rows, NEW b \in Band, NEW x \in Hash
  PROVE  Materialize(rows)[b][x] = {k \in Live(rows) : rows[k][b] = x}
  BY DEF Materialize, TablesOf, Live

(* The buckets key is gone exactly when the records key is. *)
LEMMA EmptyTogether ==
  ASSUME NEW rows \in Rows
  PROVE  Materialize(rows) = EmptyTables <=> Live(rows) = {}
<1>1. ASSUME Live(rows) = {} PROVE Materialize(rows) = EmptyTables
  BY <1>1 DEF Materialize, TablesOf, EmptyTables
<1>2. ASSUME NEW k \in Live(rows) PROVE Materialize(rows) # EmptyTables
  <2>1. PICK b \in Band : TRUE BY RetentionAssumption
  <2>2. rows[k] \in Row BY DEF Live, Rows
  <2>3. rows[k][b] \in Hash BY <2>2 DEF Row
  <2>4. k \in Materialize(rows)[b][rows[k][b]] BY <2>3, BucketMembers
  <2>5. EmptyTables[b][rows[k][b]] = {} BY <2>3 DEF EmptyTables
  <2> QED BY <2>4, <2>5
<1> QED BY <1>1, <1>2

(* A change of the records that gives no live key another row leaves every *)
(* pipeline sound: what matched throughout still waits where it waited.    *)
LEMMA ObserveSound ==
  ASSUME TypeOK, PipelinesSound, NEW rows \in Rows, Observe(rows), records' = rows,
         \A k \in Live(records) \cap Live(rows) : rows[k] = records[k]
  PROVE  PipelinesSound'
<1> SUFFICES ASSUME NEW h \in Handle, query'[h] # None
             PROVE  PipelineSound(query[h])'
  BY DEF PipelinesSound
<1>1. query[h] # None BY ObserveType
<1>2. query[h] \in Pipeline BY <1>1 DEF TypeOK
<1>3. PipelineSound(query[h]) BY <1>1 DEF PipelinesSound
<1>4. CASE query[h].todo = {}
  <2>1. query'[h] = query[h] BY <1>4 DEF Observe
  <2> QED BY <1>3, <1>4, <2>1 DEF PipelineSound
<1>5. CASE query[h].todo # {}
  <2> DEFINE m == Matches(rows, query[h].probe)
  <2>1. query'[h] = [query[h] EXCEPT !.always = @ \cap m, !.ever = @ \cup m]
    BY <1>1, <1>5 DEF Observe
  <2>2. /\ query'[h].probe = query[h].probe /\ query'[h].todo = query[h].todo
        /\ query'[h].got = query[h].got
        /\ query'[h].always = query[h].always \cap m
        /\ query'[h].ever = query[h].ever \cup m
    BY <1>2, <2>1 DEF Pipeline
  <2>3. m \subseteq Live(rows) BY DEF Matches
  <2>4. query'[h].got \subseteq query'[h].ever BY <1>3, <2>2 DEF PipelineSound
  <2>5. Matches(records', query'[h].probe) \subseteq query'[h].ever BY <2>2
  <2>6. ASSUME NEW k \in query'[h].always
        PROVE  \/ k \in query'[h].got
               \/ \E b \in query'[h].todo :
                    k \in Live(records') /\ records'[k][b] = query'[h].probe[b]
    <3> HIDE DEF m
    <3>1. k \in query[h].always /\ k \in Live(rows) BY <2>2, <2>3
    <3>2. \/ k \in query[h].got
          \/ \E b \in query[h].todo :
               k \in Live(records) /\ records[k][b] = query[h].probe[b]
      BY <1>3, <3>1 DEF PipelineSound
    <3> QED BY <2>2, <3>1, <3>2
  <2> QED BY <2>4, <2>5, <2>6 DEF PipelineSound
<1> QED BY <1>4, <1>5

(* A step that touches neither the records nor a pipeline keeps all        *)
(* pipelines sound.                                                        *)
LEMMA UnseenSound ==
  ASSUME PipelinesSound, UNCHANGED <<records, query>>
  PROVE  PipelinesSound'
  BY DEF PipelinesSound, PipelineSound

-----------------------------------------------------------------------------
(* Nothing is stored, nothing expires and nobody reads. *)
LEMMA InitInvariant == Init => IInv
<1> SUFFICES ASSUME Init PROVE IInv
  OBVIOUS
<1>1. TypeOK BY InitType
<1>2. BucketsMatchRecords BY DataTypes DEF Init, BucketsMatchRecords
<1>3. ExpireTogether BY DEF Init, ExpireTogether, RedisKey
<1>4. PipelinesSound BY DEF Init, PipelinesSound
<1> QED BY <1>1, <1>2, <1>3, <1>4 DEF IInv

(* A namespace is claimed, opened, left or deleted as a whole. *)
LEMMA LifecycleInvariant ==
  ASSUME IInv, NEW h \in Handle,
         (\E d \in Descriptor : Create(h, d)) \/ Open(h) \/ Drop(h) \/ Cleanup(h)
  PROVE  IInv'
<1> USE DEF IInv
<1>1. TypeOK' BY LifecycleType
<1>2. CASE UNCHANGED <<records, buckets, query>>
           /\ deadline'["records"] = deadline["records"]
           /\ deadline'["buckets"] = deadline["buckets"]
  <2>1. PipelinesSound' BY <1>2, UnseenSound
  <2> QED BY <1>1, <1>2, <2>1 DEF BucketsMatchRecords, ExpireTogether
<1>3. ASSUME NEW d \in Descriptor, Create(h, d) PROVE IInv'
  BY <1>2, <1>3 DEF Create, Expire, RedisKey
<1>4. CASE Open(h) \/ Drop(h)
  BY <1>2, <1>4 DEF Open, Drop, server
<1>5. CASE Cleanup(h)
  <2>1. BucketsMatchRecords' BY <1>5, DataTypes DEF Cleanup, BucketsMatchRecords
  <2>2. ExpireTogether' BY <1>5 DEF Cleanup, ExpireTogether, RedisKey
  <2>3. Live(NoRows) = {} BY DEF Live, NoRows
  <2>4. PipelinesSound' BY <1>5, <2>3, DataTypes, ObserveSound DEF Cleanup
  <2> QED BY <1>1, <2>1, <2>2, <2>4
<1> QED BY <1>3, <1>4, <1>5

(* insert.lua adds records and memberships together, refreshes both keys,  *)
(* and never overwrites a row.                                             *)
LEMMA InsertInvariant ==
  ASSUME IInv, NEW h \in Handle, NEW batch \in Batches, InsertMany(h, batch)
  PROVE  IInv'
<1> USE DEF IInv
<1>1. TypeOK' BY InsertType
<1>2. PICK S \in SUBSET Key : batch \in [S -> Row] BY DEF Batches
<1>3. /\ S \cap Live(records) = {}
      /\ records' = [k \in Key |-> IF k \in S THEN batch[k] ELSE records[k]]
      /\ buckets' = [b \in Band |-> [x \in Hash |->
                       buckets[b][x] \cup {k \in S : batch[k][b] = x}]]
  BY <1>2 DEF InsertMany, NoLiveKey
<1>4. Live(records') = Live(records) \cup S
  BY <1>2, <1>3, AbsentAssumption DEF Live
<1>5. ASSUME NEW b \in Band, NEW x \in Hash
      PROVE  buckets'[b][x] = Materialize(records')[b][x]
  <2>1. buckets[b][x] = {k \in Live(records) : records[k][b] = x}
    BY BucketMembers DEF BucketsMatchRecords, TypeOK
  <2>2. Materialize(records')[b][x] = {k \in Live(records') : records'[k][b] = x}
    BY <1>1, BucketMembers DEF TypeOK
  <2>3. \A k \in Live(records) : k \notin S /\ records'[k] = records[k] BY <1>3 DEF Live
  <2>4. \A k \in S : records'[k] = batch[k] BY <1>3
  <2> QED BY <1>3, <1>4, <2>1, <2>2, <2>3, <2>4
<1>6. Materialize(records') \in Tables BY <1>1, DataTypes DEF TypeOK
<1>7. BucketsMatchRecords'
  BY <1>1, <1>5, <1>6 DEF BucketsMatchRecords, Tables, TypeOK
<1>8. ExpireTogether' BY DEF InsertMany, InsertExpires, Expire, ExpireTogether, RedisKey
<1>9. \A k \in Live(records) \cap Live(records') : records'[k] = records[k]
  BY <1>3 DEF Live
<1>10. Observe(records') BY DEF InsertMany
<1>11. PipelinesSound' BY <1>1, <1>9, <1>10, ObserveSound DEF TypeOK
<1> QED BY <1>1, <1>7, <1>8, <1>11

(* delete.lua removes records and memberships together and refreshes or    *)
(* empties both keys.                                                      *)
LEMMA DeleteInvariant ==
  ASSUME IInv, NEW h \in Handle, NEW keys \in SUBSET Key, DeleteMany(h, keys)
  PROVE  IInv'
<1> USE DEF IInv
<1> DEFINE removed == keys \cap Live(records)
<1>1. TypeOK' BY DeleteType
<1>2. /\ records' = [k \in Key |-> IF k \in removed THEN Absent ELSE records[k]]
      /\ buckets' = [b \in Band |-> [x \in Hash |->
                       buckets[b][x] \ {k \in removed : records[k][b] = x}]]
  BY DEF DeleteMany, WithoutKeys
<1>3. Live(records') = Live(records) \ removed BY <1>2 DEF Live
<1>4. \A k \in Live(records') : records'[k] = records[k] BY <1>2 DEF Live
<1>5. ASSUME NEW b \in Band, NEW x \in Hash
      PROVE  buckets'[b][x] = Materialize(records')[b][x]
  <2>1. buckets[b][x] = {k \in Live(records) : records[k][b] = x}
    BY BucketMembers DEF BucketsMatchRecords, TypeOK
  <2>2. Materialize(records')[b][x] = {k \in Live(records') : records'[k][b] = x}
    BY <1>1, BucketMembers DEF TypeOK
  <2>3. buckets'[b][x] = buckets[b][x] \ {k \in removed : records[k][b] = x} BY <1>2
  <2> HIDE DEF removed
  <2> QED BY <1>3, <1>4, <2>1, <2>2, <2>3
<1>6. Materialize(records') \in Tables BY <1>1, DataTypes DEF TypeOK
<1>7. BucketsMatchRecords'
  BY <1>1, <1>5, <1>6 DEF BucketsMatchRecords, Tables, TypeOK
<1>8. ExpireTogether'
  <2>1. buckets' = EmptyTables <=> Live(records') = {}
    BY <1>1, <1>7, EmptyTogether DEF BucketsMatchRecords, TypeOK
  <2>2. PICK ttl : deadline' = Existing(Expire(RedisKey, ttl), records', buckets')
    BY DEF DeleteMany, DeleteDeadline
  <2>3. Expire(RedisKey, ttl)["records"] = Expire(RedisKey, ttl)["buckets"]
    BY DEF Expire, ExpireTogether, RedisKey
  <2> QED BY <2>1, <2>2, <2>3 DEF Existing, ExpireTogether, RedisKey
<1>9. Observe(records') BY DEF DeleteMany
<1>10. PipelinesSound' BY <1>1, <1>4, <1>9, ObserveSound DEF TypeOK
<1> QED BY <1>1, <1>7, <1>8, <1>10

(* Reading one bucket moves the keys that waited there into the answer. *)
LEMMA QueryInvariant ==
  ASSUME IInv, NEW h \in Handle,
         (\E probe \in Row : BeginQuery(h, probe)) \/ (\E b \in Band : ReadBucket(h, b))
           \/ Answer(h)
  PROVE  IInv'
<1> USE DEF IInv
<1>1. TypeOK' BY QueryType
<1>2. UNCHANGED <<records, buckets, deadline>>
  BY DEF BeginQuery, ReadBucket, Answer, server
<1>3. BucketsMatchRecords' /\ ExpireTogether' BY <1>2 DEF BucketsMatchRecords, ExpireTogether
<1>4. \A g \in Handle \ {h} : query'[g] = query[g]
  BY DEF BeginQuery, ReadBucket, Answer, TypeOK
<1>5. SUFFICES ASSUME query'[h] # None PROVE PipelineSound(query[h])'
  <2>1. \A g \in Handle \ {h} : query'[g] # None => PipelineSound(query[g])'
    BY <1>2, <1>4 DEF PipelinesSound, PipelineSound
  <2> QED BY <1>1, <1>3, <1>5, <2>1 DEF PipelinesSound
<1>6. ASSUME NEW probe \in Row, BeginQuery(h, probe) PROVE PipelineSound(query[h])'
  <2>1. query'[h] = [probe |-> probe, todo |-> Band, got |-> {},
          always |-> Matches(records, probe), ever |-> Matches(records, probe)]
    BY <1>6 DEF BeginQuery, TypeOK
  <2>2. \A k \in Matches(records, probe) :
          \E b \in Band : k \in Live(records) /\ records[k][b] = probe[b]
    BY DEF Matches
  <2> QED BY <1>2, <2>1, <2>2 DEF PipelineSound
<1>7. ASSUME NEW b \in Band, ReadBucket(h, b) PROVE PipelineSound(query[h])'
  <2>1. query[h] \in Pipeline /\ b \in query[h].todo /\ query[h] # None
    BY <1>7 DEF ReadBucket, TypeOK
  <2>2. PipelineSound(query[h]) BY <2>1 DEF PipelinesSound
  <2> DEFINE bucket == buckets[b][query[h].probe[b]]
  <2>3. /\ query'[h].probe = query[h].probe /\ query'[h].always = query[h].always
        /\ query'[h].ever = query[h].ever
        /\ query'[h].todo = query[h].todo \ {b}
        /\ query'[h].got = query[h].got \cup bucket
    BY <1>7, <2>1 DEF ReadBucket, TypeOK, Pipeline
  <2>4. query[h].probe[b] \in Hash BY <2>1 DEF Pipeline, Row
  <2>5. bucket = {k \in Live(records) : records[k][b] = query[h].probe[b]}
    BY <2>4, BucketMembers DEF BucketsMatchRecords, TypeOK
  <2> HIDE DEF bucket
  <2>6. bucket \subseteq query[h].ever
    BY <2>1, <2>2, <2>5 DEF PipelineSound, Matches
  <2> QED BY <1>2, <2>2, <2>3, <2>5, <2>6 DEF PipelineSound
<1>8. CASE Answer(h) BY <1>5, <1>8 DEF Answer, TypeOK
<1> QED BY <1>6, <1>7, <1>8

(* The clock takes records and buckets together. *)
LEMMA TickInvariant ==
  ASSUME IInv, Tick
  PROVE  IInv'
<1> USE DEF IInv
<1>1. TypeOK' BY TickType
<1> DEFINE gone == {x \in RedisKey : deadline[x] <= now + 1}
<1>2. "records" \in gone <=> "buckets" \in gone BY DEF ExpireTogether, RedisKey
<1>3. /\ records' = IF "records" \in gone THEN NoRows ELSE records
      /\ buckets' = IF "buckets" \in gone THEN EmptyTables ELSE buckets
      /\ deadline' = [x \in RedisKey |-> IF x \in gone THEN Forever ELSE deadline[x]]
      /\ Observe(records')
  BY DEF Tick
<1> HIDE DEF gone
<1>4. BucketsMatchRecords' BY <1>2, <1>3, DataTypes DEF BucketsMatchRecords
<1>5. ExpireTogether' BY <1>2, <1>3 DEF ExpireTogether, RedisKey
<1>6. \A k \in Live(records) \cap Live(records') : records'[k] = records[k]
  BY <1>3 DEF Live, NoRows
<1>7. PipelinesSound' BY <1>1, <1>3, <1>6, ObserveSound DEF TypeOK
<1> QED BY <1>1, <1>4, <1>5, <1>7

(* Every step keeps the inductive invariant. *)
LEMMA NextInvariant == IInv /\ [Next]_vars => IInv'
<1> SUFFICES ASSUME IInv, [Next]_vars PROVE IInv'
  OBVIOUS
<1>1. CASE Tick BY <1>1, TickInvariant
<1>2. ASSUME NEW h \in Handle,
             (\E d \in Descriptor : Create(h, d)) \/ Open(h) \/ Drop(h) \/ Cleanup(h)
      PROVE  IInv'
  BY <1>2, LifecycleInvariant
<1>3. ASSUME NEW h \in Handle, NEW batch \in Batches, InsertMany(h, batch) PROVE IInv'
  BY <1>3, InsertInvariant
<1>4. ASSUME NEW h \in Handle, NEW keys \in SUBSET Key, DeleteMany(h, keys) PROVE IInv'
  BY <1>4, DeleteInvariant
<1>5. ASSUME NEW h \in Handle,
             (\E probe \in Row : BeginQuery(h, probe)) \/ (\E b \in Band : ReadBucket(h, b))
               \/ Answer(h)
      PROVE  IInv'
  BY <1>5, QueryInvariant
<1>6. CASE UNCHANGED vars
  <2>1. PipelinesSound' BY <1>6, UnseenSound DEF vars, IInv
  <2>2. TypeOK' BY <1>6, NextType DEF IInv
  <2> QED BY <1>6, <2>1, <2>2 DEF vars, IInv, BucketsMatchRecords, ExpireTogether
<1> QED BY <1>1, <1>2, <1>3, <1>4, <1>5, <1>6 DEF Next

(* Everything the queries rest on holds at every step of every behaviour. *)
THEOREM InductiveInvariant == Spec => []IInv
  BY InitInvariant, NextInvariant, PTL DEF Spec

(* records and buckets never disagree, with any number of handles, current *)
(* or stale, mutating, cleaning up, losing replies and letting the index   *)
(* expire.                                                                 *)
THEOREM BucketsConsistent == Spec => []BucketsMatchRecords
<1>1. IInv => BucketsMatchRecords BY DEF IInv
<1> QED BY <1>1, InductiveInvariant, PTL

(* A pipelined query returns every key that matched throughout it and none *)
(* that matched at no moment of it, whatever runs between its bucket       *)
(* reads.                                                                  *)
THEOREM QueriesBounded == Spec => []QueryBounds
<1>1. IInv => QueryBounds BY DEF IInv, PipelinesSound, PipelineSound, QueryBounds
<1> QED BY <1>1, InductiveInvariant, PTL

-----------------------------------------------------------------------------
(***************************************************************************)
(* Retention, while every descriptor asks for the same one                 *)
(***************************************************************************)

(* The records key exists exactly when the buckets key does. *)
LEMMA KeysTogether ==
  ASSUME IInv
  PROVE  buckets = EmptyTables <=> Live(records) = {}
  BY EmptyTogether DEF IInv, BucketsMatchRecords, TypeOK

(* Only the deadlines of the descriptor and of the records matter: the     *)
(* buckets exist and expire with the records.                              *)
LEMMA RetentionFromRecords ==
  ASSUME IInv, UnsetDeadlines, RetentionSinceMutation,
         through = "index" /\ Live(records) # {} =>
           meta # None /\ deadline["records"] = deadline["meta"]
  PROVE  RetentionInv
<1>1. SameRetention BY KeysTogether DEF SameRetention, IInv, ExpireTogether
<1> QED BY <1>1 DEF RetentionInv

(* The same, after a step. *)
LEMMA RetentionFromRecordsNext ==
  ASSUME IInv', UnsetDeadlines', RetentionSinceMutation',
         through' = "index" /\ Live(records') # {} =>
           meta' # None /\ deadline'["records"] = deadline'["meta"]
  PROVE  RetentionInv'
<1>1. records' \in Rows /\ buckets' = Materialize(records')
  BY DEF IInv, TypeOK, BucketsMatchRecords
<1>2. buckets' = EmptyTables <=> Live(records') = {} BY <1>1, EmptyTogether
<1>3. SameRetention' BY <1>2 DEF SameRetention, IInv, ExpireTogether
<1> QED BY <1>3 DEF RetentionInv

(* EXPIRE applied to some of the three keys. *)
LEMMA ExpireValue ==
  ASSUME NEW keys \in SUBSET RedisKey, NEW ttl, NEW x \in RedisKey
  PROVE  Expire(keys, ttl)[x] = IF x \in keys /\ ttl > 0 THEN now + ttl ELSE deadline[x]
  BY DEF Expire

(* Nothing is stored and no key has a deadline. *)
LEMMA InitRetention == Init => RetentionInv
<1> SUFFICES ASSUME Init PROVE RetentionInv
  OBVIOUS
<1>1. Live(records) = {} BY DEF Init, Live, NoRows
<1>2. UnsetDeadlines /\ RetentionSinceMutation
  BY DEF Init, UnsetDeadlines, RetentionSinceMutation, RedisKey
<1> QED BY <1>1, <1>2, InitInvariant, RetentionFromRecords

(* initialize.lua gives a fresh descriptor its own retention; opening and  *)
(* dropping a handle touch no deadline; cleanup removes all three keys.    *)
LEMMA LifecycleRetention ==
  ASSUME RetentionInv, NEW h \in Handle,
         (\E d \in Descriptor : Create(h, d)) \/ Open(h) \/ Drop(h) \/ Cleanup(h)
  PROVE  RetentionInv'
<1>1. IInv' BY LifecycleInvariant DEF RetentionInv
<1>2. ASSUME NEW d \in Descriptor, Create(h, d) PROVE RetentionInv'
  <2>1. /\ meta = None /\ Live(records) = {} /\ records' = records
        /\ meta' = d /\ touched' = now
        /\ deadline' = Expire({"meta"}, Retention[d])
    BY <1>2 DEF Create, NamespaceFree
  <2>2. Retention[d] \in Nat /\ d # None BY RetentionAssumption, NoneAssumption
  <2>3. deadline["meta"] = Forever /\ deadline["records"] = Forever
    BY <2>1 DEF RetentionInv, UnsetDeadlines
  <2>4. /\ deadline'["meta"] = IF Retention[d] = 0 THEN Forever ELSE now + Retention[d]
        /\ deadline'["records"] = Forever
    BY <2>1, <2>2, <2>3, ExpireValue DEF RedisKey
  <2>5. UnsetDeadlines' /\ RetentionSinceMutation'
    BY <2>1, <2>2, <2>4 DEF UnsetDeadlines, RetentionSinceMutation
  <2> QED BY <1>1, <2>1, <2>5, RetentionFromRecordsNext
<1>3. CASE Open(h) \/ Drop(h)
  BY <1>1, <1>3 DEF Open, Drop, server, history, RetentionInv, SameRetention,
     RetentionSinceMutation, UnsetDeadlines
<1>4. CASE Cleanup(h)
  <2>1. /\ meta' = None /\ records' = NoRows
        /\ deadline' = [x \in RedisKey |-> Forever]
    BY <1>4 DEF Cleanup
  <2>2. Live(records') = {} BY <2>1 DEF Live, NoRows
  <2>3. UnsetDeadlines' /\ RetentionSinceMutation'
    BY <2>1 DEF UnsetDeadlines, RetentionSinceMutation, RedisKey
  <2> QED BY <1>1, <2>2, <2>3, RetentionFromRecordsNext
<1> QED BY <1>2, <1>3, <1>4

(* A mutation through a handle refreshes all three keys with the caller's  *)
(* retention, which is the descriptor's own; without a TTL none of them    *)
(* ever had one.                                                           *)
LEMMA RefreshRetention ==
  ASSUME UniformRetention, RetentionInv, through = "index", NEW h \in Handle, ~Raw(h),
         meta # None, NEW after, after = Expire(RedisKey, retention[h])
  PROVE  /\ after["meta"] = IF Retention[meta] = 0 THEN Forever ELSE now + Retention[meta]
         /\ after["records"] = after["meta"]
<1>1. meta \in Descriptor BY DEF RetentionInv, IInv, TypeOK
<1>2. retention[h] = Retention[meta] /\ Retention[meta] \in Nat
  <2>1. handle[h] \in Descriptor /\ retention[h] = Retention[handle[h]]
    BY DEF Raw, RetentionInv, IInv, TypeOK
  <2> QED BY <1>1, <2>1, RetentionAssumption DEF UniformRetention
<1>3. CASE Retention[meta] = 0
  <2>1. deadline["meta"] = Forever BY <1>3 DEF RetentionInv, RetentionSinceMutation
  <2>2. deadline["records"] = Forever
    BY <2>1 DEF RetentionInv, SameRetention, UnsetDeadlines
  <2>3. after["meta"] = deadline["meta"] /\ after["records"] = deadline["records"]
    BY <1>2, <1>3, ExpireValue DEF RedisKey
  <2> QED BY <1>3, <2>1, <2>2, <2>3
<1>4. CASE Retention[meta] > 0
  BY <1>2, <1>4, ExpireValue DEF RedisKey
<1> QED BY <1>2, <1>3, <1>4

(* After a mutation the index is known to be mutated past its handles, or  *)
(* it was not and neither was this one.                                    *)
LEMMA ThroughHandle ==
  ASSUME RetentionInv, NEW h \in Handle, NEW hashed, Mutates(h, hashed)
  PROVE  through' = "index" => through = "index" /\ ~Raw(h) /\ touched' = now
  BY DEF RetentionInv, IInv, TypeOK, Mutates

(* insert.lua. *)
LEMMA InsertRetention ==
  ASSUME UniformRetention, RetentionInv, NEW h \in Handle, NEW batch \in Batches,
         InsertMany(h, batch)
  PROVE  RetentionInv'
<1>1. IInv' BY InsertInvariant DEF RetentionInv
<1>2. /\ meta # None /\ meta' = meta
      /\ deadline' = Expire(RedisKey, retention[h])
      /\ through' = "index" => through = "index" /\ ~Raw(h) /\ touched' = now
  BY ThroughHandle DEF InsertMany, InsertExpires
<1>3. through' = "index" =>
        /\ deadline'["meta"] = IF Retention[meta] = 0 THEN Forever ELSE now + Retention[meta]
        /\ deadline'["records"] = deadline'["meta"]
  BY <1>2, RefreshRetention
<1>4. PICK S \in SUBSET Key : batch \in [S -> Row] /\ Cardinality(S) \in 1..MaxBatch
  BY DEF Batches
<1>5. S # {}
  <2>1. Cardinality({}) = 0 BY FS_EmptySet
  <2> QED BY <1>4, <2>1
<1>6. Live(records') # {}
  <2>1. PICK k \in S : TRUE BY <1>5
  <2>2. records'[k] = batch[k] /\ batch[k] \in Row BY <1>4 DEF InsertMany
  <2> QED BY <2>2, AbsentAssumption DEF Live
<1>7. UnsetDeadlines' /\ RetentionSinceMutation'
  BY <1>2, <1>3, <1>6 DEF UnsetDeadlines, RetentionSinceMutation
<1> QED BY <1>1, <1>2, <1>3, <1>7, RetentionFromRecordsNext

(* delete.lua: a key that is emptied goes, and its deadline with it. *)
LEMMA DeleteRetention ==
  ASSUME UniformRetention, RetentionInv, NEW h \in Handle, NEW keys \in SUBSET Key,
         DeleteMany(h, keys)
  PROVE  RetentionInv'
<1>1. IInv' BY DeleteInvariant DEF RetentionInv
<1> DEFINE after == Expire(RedisKey, retention[h])
<1>2. /\ meta # None /\ meta' = meta
      /\ deadline' = Existing(after, records', buckets')
      /\ through' = "index" => through = "index" /\ ~Raw(h) /\ touched' = now
  BY ThroughHandle DEF DeleteMany, DeleteDeadline
<1>3. through' = "index" =>
        /\ after["meta"] = IF Retention[meta] = 0 THEN Forever ELSE now + Retention[meta]
        /\ after["records"] = after["meta"]
  BY <1>2, RefreshRetention
<1> HIDE DEF after
<1>4. /\ deadline'["meta"] = after["meta"]
      /\ deadline'["records"] = IF Live(records') = {} THEN Forever ELSE after["records"]
  BY <1>2 DEF Existing, RedisKey
<1>5. UnsetDeadlines' /\ RetentionSinceMutation'
  BY <1>2, <1>3, <1>4 DEF UnsetDeadlines, RetentionSinceMutation
<1> QED BY <1>1, <1>2, <1>3, <1>4, <1>5, RetentionFromRecordsNext

(* The clock takes the descriptor and what is stored under it together. *)
LEMMA TickRetention ==
  ASSUME RetentionInv, Tick
  PROVE  RetentionInv'
<1>1. IInv' BY TickInvariant DEF RetentionInv
<1> DEFINE gone == {x \in RedisKey : deadline[x] <= now + 1}
<1>2. /\ meta' = IF "meta" \in gone THEN None ELSE meta
      /\ records' = IF "records" \in gone THEN NoRows ELSE records
      /\ deadline' = [x \in RedisKey |-> IF x \in gone THEN Forever ELSE deadline[x]]
      /\ touched' = touched /\ through' = through
  BY DEF Tick
<1>3. through = "index" /\ Live(records) # {} => ("records" \in gone <=> "meta" \in gone)
  BY DEF RetentionInv, SameRetention, RedisKey
<1>4. Live(NoRows) = {} BY DEF Live, NoRows
<1> HIDE DEF gone
<1>5. through' = "index" /\ Live(records') # {} =>
        Live(records) # {} /\ "records" \notin gone /\ "meta" \notin gone
  BY <1>2, <1>3, <1>4
<1>6. UnsetDeadlines' /\ RetentionSinceMutation'
  BY <1>2 DEF UnsetDeadlines, RetentionSinceMutation, RedisKey, RetentionInv
<1>7. through' = "index" /\ Live(records') # {} =>
        meta' # None /\ deadline'["records"] = deadline'["meta"]
  BY <1>2, <1>5 DEF RetentionInv, SameRetention, RedisKey
<1> QED BY <1>1, <1>6, <1>7, RetentionFromRecordsNext

(* The steps of a query touch nothing a deadline depends on. *)
LEMMA QueryRetention ==
  ASSUME RetentionInv, NEW h \in Handle,
         (\E probe \in Row : BeginQuery(h, probe)) \/ (\E b \in Band : ReadBucket(h, b))
           \/ Answer(h)
  PROVE  RetentionInv'
<1>1. IInv' BY QueryInvariant DEF RetentionInv
<1>2. UNCHANGED <<meta, records, buckets, deadline, touched, through>>
  BY DEF BeginQuery, ReadBucket, Answer, server, history
<1> QED BY <1>1, <1>2 DEF RetentionInv, SameRetention, RetentionSinceMutation, UnsetDeadlines

(* Every step keeps the deadlines exact. *)
LEMMA NextRetention ==
  ASSUME UniformRetention
  PROVE  RetentionInv /\ [Next]_vars => RetentionInv'
<1> SUFFICES ASSUME RetentionInv, [Next]_vars PROVE RetentionInv'
  OBVIOUS
<1>1. CASE Tick BY <1>1, TickRetention
<1>2. ASSUME NEW h \in Handle,
             (\E d \in Descriptor : Create(h, d)) \/ Open(h) \/ Drop(h) \/ Cleanup(h)
      PROVE  RetentionInv'
  BY <1>2, LifecycleRetention
<1>3. ASSUME NEW h \in Handle, NEW batch \in Batches, InsertMany(h, batch)
      PROVE  RetentionInv'
  BY <1>3, InsertRetention
<1>4. ASSUME NEW h \in Handle, NEW keys \in SUBSET Key, DeleteMany(h, keys)
      PROVE  RetentionInv'
  BY <1>4, DeleteRetention
<1>5. ASSUME NEW h \in Handle,
             (\E probe \in Row : BeginQuery(h, probe)) \/ (\E b \in Band : ReadBucket(h, b))
               \/ Answer(h)
      PROVE  RetentionInv'
  BY <1>5, QueryRetention
<1>6. CASE UNCHANGED vars
  <2>1. IInv' BY <1>6, NextInvariant DEF RetentionInv
  <2> QED BY <1>6, <2>1 DEF vars, RetentionInv, SameRetention, RetentionSinceMutation,
          UnsetDeadlines
<1> QED BY <1>1, <1>2, <1>3, <1>4, <1>5, <1>6 DEF Next

(* "All three namespace keys receive the same configured retention"        *)
(* (docs/storage-backends.md) is true of any number of handles, current or *)
(* stale, as long as nobody re-creates the namespace with another          *)
(* retention (the run redis_retention shows that the condition is needed)  *)
(* or mutates it past the handles.                                         *)
THEOREM RetentionShared ==
  ASSUME UniformRetention
  PROVE  Spec => []SameRetention
<1>1. RetentionInv => SameRetention BY DEF RetentionInv
<1> QED BY <1>1, InitRetention, NextRetention, PTL DEF Spec

(* "TTL represents time since the last successful mutation"                *)
(* (docs/storage-backends.md), under the same conditions: an index expires *)
(* exactly its retention after the last mutation the server applied, also  *)
(* when the caller lost the reply.                                         *)
THEOREM RetentionExact ==
  ASSUME UniformRetention
  PROVE  Spec => []RetentionSinceMutation
<1>1. RetentionInv => RetentionSinceMutation BY DEF RetentionInv
<1> QED BY <1>1, InitRetention, NextRetention, PTL DEF Spec

=============================================================================
