------------------------ MODULE PersistentIndexProofs ------------------------
(***************************************************************************)
(* Machine-checked proofs about PersistentIndex, for every choice of keys, *)
(* bands, hashes and bounds.                                               *)
(***************************************************************************)
EXTENDS PersistentIndex, TLAPS

(* Bucket tables built from rows are well typed, whatever the key set: the *)
(* result of add_overlay_key and materialize_sorted_buckets.               *)
LEMMA TablesOfType ==
  ASSUME NEW rows \in Rows, NEW S \in SUBSET Key
  PROVE  TablesOf(S, rows) \in Tables
  BY DEF TablesOf, Tables, Rows

(* The live keys are keys, and materialize_sorted_buckets yields tables. *)
LEMMA LiveType ==
  ASSUME NEW rows \in Rows
  PROVE  Live(rows) \in SUBSET Key /\ Materialize(rows) \in Tables
  BY TablesOfType DEF Live, Materialize

(* A freshly created handle has well-typed rows and tables. *)
LEMMA EmptyTypes == EmptyTables \in Tables /\ NoRows \in Rows
  BY DEF EmptyTables, Tables, NoRows, Rows

(* A batch that insert_hashes_many receives names keys and gives each of   *)
(* them a row.                                                             *)
LEMMA BatchType ==
  ASSUME NEW batch \in Batch
  PROVE  /\ BatchKeys(batch) \in SUBSET Key
         /\ \A k \in BatchKeys(batch) : BatchRow(batch, k) \in Row
<1>1. PICK n \in 0..MaxBatch : batch \in [1..n -> [key : Key, row : Row]]
  BY DEF Batch
<1>2. BatchKeys(batch) \in SUBSET Key
  BY <1>1 DEF BatchKeys
<1>3. ASSUME NEW k \in BatchKeys(batch)
      PROVE  BatchRow(batch, k) \in Row
  <2>1. \E i \in DOMAIN batch : batch[i].key = k
    BY DEF BatchKeys
  <2>2. (CHOOSE i \in DOMAIN batch : batch[i].key = k) \in 1..n
    BY <1>1, <2>1
  <2> QED BY <1>1, <2>2 DEF BatchRow
<1> QED BY <1>2, <1>3

(* What the two ways of rebuilding a handle leave is well typed. *)
LEMMA LoadFromType ==
  ASSUME NEW file \in Snapshot, LoadFrom(file)
  PROVE  /\ base' \in Tables \cup {None}
         /\ overlay_buckets' \in Tables
         /\ overlay_keys' \in SUBSET Key
         /\ suppressed_base_keys' \in SUBSET Key
         /\ key_hashes' \in Rows
  BY LiveType, EmptyTypes DEF LoadFrom, Snapshot

(* rebuild_overlay_all leaves a well-typed overlay. *)
LEMMA RebuildType ==
  ASSUME key_hashes \in Rows, RebuildOverlayAll
  PROVE  /\ base' \in Tables \cup {None}
         /\ overlay_buckets' \in Tables
         /\ overlay_keys' \in SUBSET Key
         /\ suppressed_base_keys' \in SUBSET Key
  BY LiveType DEF RebuildOverlayAll

(* Dropping the handle leaves well-typed variables. *)
LEMMA DropType ==
  ASSUME DropHandle
  PROVE  /\ base' \in Tables \cup {None}
         /\ overlay_buckets' \in Tables
         /\ overlay_keys' \in SUBSET Key
         /\ suppressed_base_keys' \in SUBSET Key
         /\ key_hashes' \in Rows
         /\ dirty' \in BOOLEAN
  BY EmptyTypes DEF DropHandle

(* A fault stays within its bound. *)
LEMMA FaultType ==
  ASSUME faults \in 0..MaxFaults, Fault
  PROVE  faults' \in 0..MaxFaults
  BY BoundAssumption DEF Fault

-----------------------------------------------------------------------------
(* Every file left by earlier runs gives a well-typed initial state. *)
LEMMA InitType == Init => TypeOK
<1> SUFFICES ASSUME Init PROVE TypeOK
  OBVIOUS
<1>1. target \in Snapshot
  <2>1. PICK rows \in Rows :
          \/ target = [rows |-> rows, buckets |-> Materialize(rows)]
          \/ target = [rows |-> rows, buckets |-> None]
    BY Zenon DEF Init, CommittedFile
  <2>2. [rows |-> rows, buckets |-> Materialize(rows)] \in Snapshot
    BY LiveType DEF Snapshot
  <2>3. [rows |-> rows, buckets |-> None] \in Snapshot
    BY DEF Snapshot
  <2> QED BY <2>1, <2>2, <2>3, Zenon
<1>2. target \in File /\ recoverable \in SUBSET File
  BY <1>1 DEF Init, File
<1>3. overlay_buckets \in Tables /\ key_hashes \in Rows
  BY EmptyTypes DEF Init
<1>4. faults \in 0..MaxFaults
  BY BoundAssumption DEF Init
<1>5. dirty \in BOOLEAN /\ parent_error \in BOOLEAN
  BY DEF Init
<1> QED BY <1>2, <1>3, <1>4, <1>5 DEF Init, TypeOK, Owned

(* A mutation keeps every variable in its type. *)
LEMMA InsertType ==
  ASSUME TypeOK, NEW batch \in Batch, InsertMany(batch)
  PROVE  TypeOK'
<1>1. key_hashes' \in Rows
  BY BatchType DEF InsertMany, TypeOK, Rows
<1>2. overlay_buckets' \in Tables
  BY BatchType DEF InsertMany, TypeOK, Tables
<1>3. overlay_keys' \in SUBSET Key
  BY BatchType DEF InsertMany, TypeOK
<1>4. dirty' \in BOOLEAN
  BY DEF InsertMany, TypeOK
<1> QED BY <1>1, <1>2, <1>3, <1>4 DEF InsertMany, TypeOK, Owned, fsVars, temporaryVars

(* remove keeps every variable in its type. *)
LEMMA RemoveType ==
  ASSUME TypeOK, NEW k \in Key, Remove(k)
  PROVE  TypeOK'
<1>1. key_hashes' \in Rows
  BY DEF Remove, TypeOK, Rows
<1>2. overlay_buckets' \in Tables
  BY DEF Remove, RemoveOverlayKey, TypeOK, Tables
<1>3. suppressed_base_keys' \in SUBSET Key
  BY DEF Remove, Suppress, TypeOK
<1> QED BY <1>1, <1>2, <1>3 DEF Remove, TypeOK, Owned, fsVars, temporaryVars

(* Every step of a commit keeps every variable in its type. *)
LEMMA BeginCommitType ==
  ASSUME TypeOK, StagedOwns, NEW c \in Calls, BeginCommit(c)
  PROVE  TypeOK'
<1>1. CASE CommitClean(c)
  BY <1>1, DropType DEF CommitClean, AfterCleanCommit, Return, Success, TypeOK, Owned, indexVars,
     temporaryVars, Calls
<1>2. CASE CommitCleanFails(c)
  BY <1>2, DropType, FaultType DEF CommitCleanFails, Return, TypeOK, Owned, indexVars, fsVars,
     temporaryVars
<1>3. CASE Stage(c)
  <2>1. temp' \in Temporary
    BY <1>3, LiveType DEF Stage, WriteSynced, EncodeSnapshot, Temporary, Snapshot, TypeOK
  <2>2. temporaries' = abandoned' + Owned' /\ temporaries' \in Nat
    BY <1>3, <2>1, NoneAssumption DEF Stage, TypeOK, StagedOwns, Owned
  <2> QED BY <1>3, <2>1, <2>2 DEF Stage, TypeOK, indexVars, Calls
<1>4. CASE StageFails(c)
  <2>1. temporaries' \in Nat /\ abandoned' \in Nat /\ temporaries' = abandoned' + Owned'
    BY <1>4 DEF StageFails, CleanupAfter, RemoveOwnedPath, TypeOK, Owned
  <2> QED BY <1>4, <2>1, DropType, FaultType DEF StageFails, Return, TypeOK, indexVars
<1> QED BY <1>1, <1>2, <1>3, <1>4 DEF BeginCommit

(* The steps of commit after staging keep every type. *)
LEMMA CommitStepType ==
  ASSUME TypeOK, StagedOwns, CommitStep
  PROVE  TypeOK'
<1>1. CASE Publish
  <2>1. temp \in Temporary
    BY <1>1 DEF Publish, TypeOK, StagedOwns
  <2>2. temp.file \in File /\ Torn \in File
    BY <2>1 DEF Temporary, File
  <2>3. recoverable' \in SUBSET File
    BY <1>1, <2>2 DEF Publish, TypeOK
  <2>4. temporaries' \in Nat /\ temporaries' = abandoned' + Owned'
    BY <1>1 DEF Publish, TypeOK, StagedOwns, Owned
  <2> QED BY <1>1, <2>2, <2>3, <2>4 DEF Publish, TypeOK
<1>2. CASE PublishFails
  <2>1. temporaries' \in Nat /\ abandoned' \in Nat /\ temporaries' = abandoned' + Owned'
    BY <1>2 DEF PublishFails, CleanupAfter, RemoveOwnedPath, TypeOK, StagedOwns, Owned
  <2> QED BY <1>2, <2>1, DropType, RebuildType, FaultType DEF PublishFails, Return, TypeOK
<1>3. CASE SyncParentDirectory
  BY <1>3 DEF SyncParentDirectory, TypeOK, Owned, indexVars, temporaryVars
<1>4. CASE SyncParentDirectoryFails
  BY <1>4, FaultType DEF SyncParentDirectoryFails, TypeOK, Owned, indexVars, fsVars, temporaryVars
<1>5. CASE Refresh
  <2>1. target \in Snapshot
    BY <1>5 DEF Refresh, TypeOK, File
  <2>2. dirty' \in BOOLEAN
    BY <1>5, DropType, <2>1 DEF Refresh, TypeOK, OpensDirty
  <2> QED BY <1>5, <2>1, <2>2, DropType, LoadFromType
          DEF Refresh, Return, Success, TypeOK, Owned, fsVars, temporaryVars
<1>6. CASE RefreshFails
  BY <1>6, DropType, RebuildType, FaultType DEF RefreshFails, Return, TypeOK, Owned, fsVars, temporaryVars
<1> QED BY <1>1, <1>2, <1>3, <1>4, <1>5, <1>6 DEF CommitStep

(* Every step keeps every variable in its type. *)
LEMMA NextType == TypeOK /\ StagedOwns /\ [Next]_vars => TypeOK'
<1> SUFFICES ASSUME TypeOK, StagedOwns, [Next]_vars PROVE TypeOK'
  OBVIOUS
<1>1. CASE Open
  <2>1. target \in Snapshot
    BY <1>1 DEF Open, TypeOK, File
  <2> QED BY <1>1, <2>1, LoadFromType DEF Open, OpensDirty, TypeOK, Owned, temporaryVars
<1>2. CASE OpenFails
  BY <1>2, FaultType DEF OpenFails, TypeOK, Owned, fsVars, temporaryVars, indexVars
<1>3. ASSUME NEW batch \in Batch, InsertMany(batch) PROVE TypeOK'
  BY <1>3, InsertType
<1>4. ASSUME NEW batch \in Batch, InsertRejected(batch) PROVE TypeOK'
  BY <1>4 DEF InsertRejected, TypeOK, Owned, fsVars, temporaryVars, indexVars
<1>5. ASSUME NEW k \in Key, Remove(k) PROVE TypeOK'
  BY <1>5, RemoveType
<1>6. ASSUME NEW c \in Calls, BeginCommit(c) PROVE TypeOK'
  BY <1>6, BeginCommitType
<1>7. CASE CommitStep
  BY <1>7, CommitStepType
<1>8. CASE Crash
  <2>1. temporaries' \in Nat /\ abandoned' \in Nat /\ temporaries' = abandoned' + Owned'
    BY <1>8 DEF Crash, TypeOK, Owned
  <2> QED BY <1>8, <2>1, DropType, FaultType DEF Crash, TypeOK, fsVars
<1>9. CASE PowerLoss
  <2>1. temporaries' \in Nat /\ abandoned' \in Nat /\ temporaries' = abandoned' + Owned'
    BY <1>9 DEF PowerLoss, TypeOK, Owned
  <2> QED BY <1>9, <2>1, DropType, FaultType DEF PowerLoss, TypeOK
<1>10. CASE UNCHANGED vars
  BY <1>10 DEF vars, TypeOK, Owned
<1> QED
  BY <1>1, <1>2, <1>3, <1>4, <1>5, <1>6, <1>7, <1>8, <1>9, <1>10 DEF Next

(* Only a commit between stage_snapshot and publication owns a temporary   *)
(* file.                                                                   *)
LEMMA NextOwns == TypeOK /\ StagedOwns /\ [Next]_vars => StagedOwns'
<1> SUFFICES ASSUME TypeOK, StagedOwns, [Next]_vars PROVE StagedOwns'
  OBVIOUS
<1>1. CASE \E c \in Calls : Stage(c)
  <2>1. temp' \in Temporary /\ pc' = "staged"
    BY <1>1, LiveType DEF Stage, WriteSynced, EncodeSnapshot, Temporary, Snapshot, TypeOK
  <2> QED BY <2>1, NoneAssumption DEF StagedOwns
<1>2. CASE \E c \in Calls : CommitClean(c) \/ CommitCleanFails(c) \/ StageFails(c)
  BY <1>2 DEF CommitClean, CommitCleanFails, StageFails, Return, temporaryVars, StagedOwns
<1>3. CASE CommitStep
  BY <1>3 DEF CommitStep, Publish, PublishFails, SyncParentDirectory, SyncParentDirectoryFails,
     Refresh, RefreshFails, Return, temporaryVars, StagedOwns
<1>4. CASE Open \/ OpenFails \/ Crash \/ PowerLoss \/ UNCHANGED vars
  BY <1>4 DEF Open, OpenFails, Crash, PowerLoss, vars, temporaryVars, StagedOwns
<1>5. CASE \/ \E batch \in Batch : InsertMany(batch) \/ InsertRejected(batch)
           \/ \E k \in Key : Remove(k)
  BY <1>5 DEF InsertMany, InsertRejected, Remove, temporaryVars, StagedOwns
<1> QED BY <1>1, <1>2, <1>3, <1>4, <1>5 DEF Next, BeginCommit

(* Every reachable state of the store is well typed, and every temporary   *)
(* name beside the index belongs to the commit under way or was given up   *)
(* by a crash, a power loss or a call whose error says so, also when       *)
(* cleanup_after cannot remove it.                                         *)
THEOREM TypeCorrect == Spec => []TypeOK
<1>1. Init => TypeOK /\ StagedOwns
  BY InitType DEF Init, StagedOwns
<1>2. TypeOK /\ StagedOwns /\ [Next]_vars => (TypeOK /\ StagedOwns)'
  BY NextType, NextOwns
<1> QED BY <1>1, <1>2, PTL DEF Spec

-----------------------------------------------------------------------------
(***************************************************************************)
(* Overlay, suppression and base together hold exactly the live rows       *)
(***************************************************************************)

(* open on a complete file, current or legacy, builds an exact handle. *)
LEMMA LoadExact ==
  ASSUME NEW file \in Snapshot, WellFormed(file), LoadFrom(file)
  PROVE  OverlayExact' /\ BaseExact'
<1>1. CASE file.buckets = None
  BY <1>1 DEF LoadFrom, OverlayExact, BaseExact, Materialize
<1>2. CASE file.buckets # None
  <2>1. /\ key_hashes' = file.rows /\ suppressed_base_keys' = {}
        /\ base' = Materialize(file.rows) /\ base' # None
        /\ overlay_buckets' = EmptyTables /\ overlay_keys' = {}
    BY <1>2 DEF LoadFrom, WellFormed
  <2>2. EmptyTables = TablesOf({}, file.rows)
    BY DEF EmptyTables, TablesOf
  <2>3. OverlayExact'
    BY <2>1, <2>2 DEF OverlayExact
  <2>4. \A k \in Key, b \in Band, h \in Hash :
          k \in Materialize(file.rows)[b][h] <=>
            k \in Live(file.rows) /\ file.rows[k][b] = h
    BY DEF Materialize, TablesOf, Live
  <2> QED BY <2>1, <2>3, <2>4 DEF BaseExact
<1> QED BY <1>1, <1>2

(* rebuild_overlay_all leaves an exact overlay and no base. *)
LEMMA RebuildExact ==
  ASSUME RebuildOverlayAll, key_hashes' = key_hashes
  PROVE  OverlayExact' /\ BaseExact'
  BY DEF RebuildOverlayAll, OverlayExact, BaseExact, Materialize

(* insert_many: only keys that are not live enter the overlay, so a        *)
(* committed row of such a key is suppressed already and stays hidden.     *)
LEMMA InsertExact ==
  ASSUME TypeOK, OverlayExact, BaseExact, NEW batch \in Batch, InsertMany(batch)
  PROVE  OverlayExact' /\ BaseExact'
<1> DEFINE B == BatchKeys(batch)
<1>1. /\ B \in SUBSET Key
      /\ \A k \in B : BatchRow(batch, k) \in Row /\ BatchRow(batch, k) # Absent
  BY BatchType, AbsentAssumption
<1>2. \A k \in B : k \notin Live(key_hashes)
  BY DEF InsertMany, NoDuplicate, BatchKeys
<1>3. \A k \in Key : key_hashes'[k] = IF k \in B THEN BatchRow(batch, k) ELSE key_hashes[k]
  BY DEF InsertMany
<1>4. Live(key_hashes') = Live(key_hashes) \cup B
  BY <1>1, <1>3 DEF Live
<1>5. overlay_keys' = overlay_keys \cup B
  BY DEF InsertMany
<1>6. overlay_buckets' = TablesOf(overlay_keys', key_hashes')
  <2>1. \A b \in Band, h \in Hash :
          overlay_buckets[b][h] \cup {k \in B : BatchRow(batch, k)[b] = h}
            = {k \in overlay_keys' : key_hashes'[k] # Absent /\ key_hashes'[k][b] = h}
    <3> SUFFICES ASSUME NEW b \in Band, NEW h \in Hash
                 PROVE  overlay_buckets[b][h] \cup {k \in B : BatchRow(batch, k)[b] = h}
                          = {k \in overlay_keys' :
                               key_hashes'[k] # Absent /\ key_hashes'[k][b] = h}
      OBVIOUS
    <3>1. overlay_buckets[b][h] = {k \in overlay_keys :
                                     key_hashes[k] # Absent /\ key_hashes[k][b] = h}
      BY DEF OverlayExact, TablesOf
    <3>2. \A k \in overlay_keys : k \in Key /\ k \notin B
      BY <1>2 DEF OverlayExact, Live
    <3> QED BY <3>1, <3>2, <1>1, <1>3, <1>5
  <2>2. overlay_buckets' =
          [b \in Band |-> [h \in Hash |->
             overlay_buckets[b][h] \cup {k \in B : BatchRow(batch, k)[b] = h}]]
    BY DEF InsertMany
  <2> HIDE DEF B
  <2> QED BY <2>1, <2>2, Zenon DEF TablesOf
<1>7. OverlayExact'
  BY <1>4, <1>5, <1>6 DEF OverlayExact
<1>8. base' = base /\ suppressed_base_keys' = suppressed_base_keys
  BY DEF InsertMany
<1>9. BaseExact'
  <2>1. CASE base = None
    BY <2>1, <1>4, <1>5, <1>8 DEF BaseExact
  <2>2. CASE base # None
    <3>1. \A k \in suppressed_base_keys' : k \in Live(key_hashes') => k \in overlay_keys'
      BY <2>2, <1>4, <1>5, <1>8 DEF BaseExact
    <3>2. ASSUME NEW k \in Key \ suppressed_base_keys', NEW b \in Band, NEW h \in Hash
          PROVE  k \in base'[b][h] <=> /\ k \in Live(key_hashes')
                                       /\ k \notin overlay_keys'
                                       /\ key_hashes'[k][b] = h
      BY <2>2, <1>2, <1>3, <1>4, <1>5, <1>8 DEF BaseExact
    <3> QED BY <3>1, <3>2, <2>2, <1>8 DEF BaseExact
  <2> QED BY <2>1, <2>2
<1> QED BY <1>7, <1>9

(* remove: a key that leaves the overlay was suppressed if the base still  *)
(* holds it; a key that leaves the base is suppressed now.                 *)
LEMMA RemoveExact ==
  ASSUME TypeOK, OverlayExact, BaseExact, NEW k \in Key, Remove(k)
  PROVE  OverlayExact' /\ BaseExact'
<1>1. \A j \in Key : key_hashes'[j] = IF j = k THEN Absent ELSE key_hashes[j]
  BY DEF Remove, TypeOK, Rows
<1>2. Live(key_hashes') = Live(key_hashes) \ {k}
  BY <1>1 DEF Live
<1>3. overlay_keys' = overlay_keys \ {k} /\ k \in Live(key_hashes) /\ base' = base
  BY DEF Remove
<1>4. overlay_buckets' = TablesOf(overlay_keys', key_hashes')
  <2> DEFINE T(b, h) == IF h = key_hashes[k][b] THEN overlay_buckets[b][h] \ {k}
                                                ELSE overlay_buckets[b][h]
  <2>1. ASSUME NEW b \in Band, NEW h \in Hash
        PROVE  T(b, h) = {j \in overlay_keys' :
                            key_hashes'[j] # Absent /\ key_hashes'[j][b] = h}
    <3>1. overlay_buckets[b][h] = {j \in overlay_keys :
                                     key_hashes[j] # Absent /\ key_hashes[j][b] = h}
      BY DEF OverlayExact, TablesOf
    <3>2. overlay_keys \subseteq Key
      BY DEF TypeOK
    <3> QED BY <3>1, <3>2, <1>1, <1>3
  <2>2. overlay_buckets' = [b \in Band |-> [h \in Hash |-> T(b, h)]]
    BY DEF Remove, RemoveOverlayKey
  <2> HIDE DEF T
  <2> QED BY <2>1, <2>2, Zenon DEF TablesOf
<1>5. OverlayExact'
  BY <1>2, <1>3, <1>4 DEF OverlayExact
<1>6. suppressed_base_keys' = IF base # None /\ k \notin overlay_keys
                                THEN suppressed_base_keys \cup {k}
                                ELSE suppressed_base_keys
  BY DEF Remove, Suppress
<1>7. CASE base = None
  BY <1>7, <1>2, <1>3, <1>5 DEF BaseExact
<1>8. CASE base # None
  <2>1. \A j \in suppressed_base_keys' : j \in Live(key_hashes') => j \in overlay_keys'
    BY <1>8, <1>2, <1>3, <1>6 DEF BaseExact
  <2>2. ASSUME NEW j \in Key \ suppressed_base_keys', NEW b \in Band, NEW h \in Hash
        PROVE  j \in base'[b][h] <=> /\ j \in Live(key_hashes')
                                     /\ j \notin overlay_keys'
                                     /\ key_hashes'[j][b] = h
    BY <1>8, <1>1, <1>2, <1>3, <1>6 DEF BaseExact
  <2> QED BY <1>8, <2>1, <2>2, <1>3, <1>5 DEF BaseExact
<1> QED BY <1>7, <1>8

(* An exact handle answers every query exactly: collect_candidates agrees  *)
(* with the definition of a match over the live rows.                      *)
LEMMA ExactAnswers ==
  ASSUME TypeOK, OverlayExact, BaseExact, NEW probe \in Row
  PROVE  Query(probe) = Matches(key_hashes, probe)
<1>1. \A b \in Band : probe[b] \in Hash
  BY DEF Row
<1>2. \A k \in Key : k \in Members(overlay_buckets, probe) <=>
        k \in overlay_keys /\ \E b \in Band : key_hashes[k][b] = probe[b]
  <2>1. \A k \in Key, b \in Band : k \in overlay_buckets[b][probe[b]] <=>
          k \in overlay_keys /\ key_hashes[k][b] = probe[b]
    BY <1>1 DEF OverlayExact, TablesOf, Live
  <2>2. \A k : k \in Members(overlay_buckets, probe) <=>
          \E b \in Band : k \in overlay_buckets[b][probe[b]]
    BY DEF Members
  <2> QED BY <2>1, <2>2
<1>3. \A k \in Key : k \in BaseCandidates(probe) <=>
        /\ k \in Live(key_hashes) /\ k \notin overlay_keys
        /\ \E b \in Band : key_hashes[k][b] = probe[b]
  <2>1. CASE base = None
    BY <2>1 DEF BaseExact, BaseCandidates
  <2>2. CASE base # None
    <3>1. \A k \in Key \ suppressed_base_keys, b \in Band :
            k \in base[b][probe[b]] <=> /\ k \in Live(key_hashes)
                                        /\ k \notin overlay_keys
                                        /\ key_hashes[k][b] = probe[b]
      BY <2>2, <1>1 DEF BaseExact
    <3>2. \A k \in suppressed_base_keys : k \in Live(key_hashes) => k \in overlay_keys
      BY <2>2 DEF BaseExact
    <3>3. \A k : k \in Members(base, probe) <=> \E b \in Band : k \in base[b][probe[b]]
      BY DEF Members
    <3>4. \A k : k \in BaseCandidates(probe) <=>
            k \in Members(base, probe) /\ k \in Live(key_hashes) /\ k \notin suppressed_base_keys
      BY <2>2 DEF BaseCandidates
    <3> QED BY <3>1, <3>2, <3>3, <3>4
  <2> QED BY <2>1, <2>2
<1>4. \A k : k \in Live(key_hashes) => k \in Key
  BY DEF Live
<1>5. \A k : k \in Query(probe) <=>
        /\ k \in BaseCandidates(probe) \cup Members(overlay_buckets, probe)
        /\ k \in Live(key_hashes)
  BY DEF Query
<1>6. \A k : k \in Matches(key_hashes, probe) <=>
        k \in Live(key_hashes) /\ \E b \in Band : key_hashes[k][b] = probe[b]
  BY DEF Matches
<1>7. \A k : k \in Query(probe) <=> k \in Matches(key_hashes, probe)
  BY <1>2, <1>3, <1>4, <1>5, <1>6 DEF OverlayExact
<1> QED BY <1>7 DEF Query, Matches

-----------------------------------------------------------------------------
(***************************************************************************)
(* The inductive invariant                                                 *)
(***************************************************************************)
Safe == FilesWellFormed /\ IndexExact /\ CommitProgress
          /\ CleanMeansCommitted /\ DurableReport

(* The initial states satisfy the safety part of the invariant. *)
LEMMA InitSafe == Init => Safe
<1> SUFFICES ASSUME Init PROVE Safe
  OBVIOUS
<1>1. WellFormed(target)
  <2>1. PICK rows \in Rows :
          \/ target = [rows |-> rows, buckets |-> Materialize(rows)]
          \/ target = [rows |-> rows, buckets |-> None]
    BY Zenon DEF Init, CommittedFile
  <2>2. target \in Snapshot
    BY <2>1, LiveType DEF Snapshot
  <2> QED BY <2>1, <2>2, TornAssumption DEF WellFormed
<1>2. recoverable = {target} /\ temp = None
  BY DEF Init
<1>3. FilesWellFormed
  BY <1>1, <1>2 DEF FilesWellFormed
<1>4. pc = "closed" /\ parent_error = FALSE /\ call = "none"
  BY DEF Init
<1> QED BY <1>3, <1>4 DEF Safe, IndexExact, CommitProgress, CleanMeansCommitted, DurableReport

(* Losing the handle leaves only files to reason about. *)
LEMMA ClosedSafe ==
  ASSUME FilesWellFormed', pc' = "closed", ~parent_error', call' = "none"
  PROVE  Safe'
  BY DEF Safe, IndexExact, CommitProgress, CleanMeansCommitted, DurableReport

(* A call that returned and left every file as it was has an exact handle  *)
(* to account for, and its dirtiness.                                      *)
LEMMA IdleSafe ==
  ASSUME FilesWellFormed', pc' = "idle", ~parent_error', call' = "none",
         OverlayExact', BaseExact', CleanMeansCommitted', DurableReport'
  PROVE  Safe'
  BY DEF Safe, IndexExact, CommitProgress

(* open preserves the invariant. *)
LEMMA OpenSafe ==
  ASSUME TypeOK, Safe, Open
  PROVE  Safe'
<1>1. target \in Snapshot /\ WellFormed(target)
  BY DEF Open, TypeOK, File, Safe, FilesWellFormed
<1>2. OverlayExact' /\ BaseExact'
  BY <1>1, LoadExact DEF Open
<1>3. FilesWellFormed'
  BY DEF Open, Safe, FilesWellFormed, WellFormed, temporaryVars
<1>4. ~dirty' => /\ base' = target.buckets /\ target.buckets # None
                 /\ key_hashes' = target.rows
                 /\ overlay_keys' = {} /\ suppressed_base_keys' = {}
  BY DEF Open, LoadFrom, OpensDirty
<1>5. CleanMeansCommitted'
  BY <1>1, <1>4 DEF CleanMeansCommitted, WellFormed, Open
<1>6. report' = "none" /\ pc' = "idle" /\ target' = target
  BY DEF Open
<1>7. ~parent_error' /\ call' = "none"
  <2>1. ~parent_error
    BY DEF Open, Safe, CommitProgress
  <2>2. call = "none"
    BY DEF Open, Safe, CommitProgress
  <2> QED BY <2>1, <2>2 DEF Open
<1> QED BY <1>2, <1>3, <1>5, <1>6, <1>7, IdleSafe DEF DurableReport

(* insert_many and remove preserve the invariant. *)
LEMMA MutationSafe ==
  ASSUME TypeOK, Safe,
         \/ \E batch \in Batch : InsertMany(batch) \/ InsertRejected(batch)
         \/ \E k \in Key : Remove(k)
  PROVE  Safe'
<1>1. OverlayExact /\ BaseExact /\ ~parent_error /\ call = "none" /\ pc = "idle"
  BY DEF Safe, IndexExact, CommitProgress, InsertMany, InsertRejected, Remove
<1>2. ASSUME NEW batch \in Batch, InsertMany(batch) PROVE Safe'
  <2>1. FilesWellFormed'
    BY <1>2 DEF InsertMany, fsVars, temporaryVars, Safe, FilesWellFormed, WellFormed
  <2>2. CleanMeansCommitted'
    <3> SUFFICES ASSUME ~dirty' PROVE CleanMeansCommitted'
      BY DEF CleanMeansCommitted
    <3>1. ~dirty /\ BatchKeys(batch) = {}
      BY <1>2 DEF InsertMany, TypeOK
    <3>2. key_hashes' = key_hashes /\ overlay_keys' = overlay_keys
      BY <1>2, <3>1 DEF InsertMany, TypeOK, Rows
    <3> QED BY <1>2, <1>1, <3>1, <3>2 DEF InsertMany, fsVars, temporaryVars, Safe, CleanMeansCommitted
  <2>3. OverlayExact' /\ BaseExact'
    BY <1>1, <1>2, InsertExact
  <2> QED BY <1>1, <1>2, <2>1, <2>2, <2>3, IdleSafe DEF InsertMany, DurableReport
<1>3. ASSUME NEW batch \in Batch, InsertRejected(batch) PROVE Safe'
  BY <1>1, <1>3 DEF InsertRejected, fsVars, temporaryVars, indexVars, Safe, FilesWellFormed, WellFormed,
     IndexExact, OverlayExact, BaseExact, CommitProgress, CleanMeansCommitted, DurableReport
<1>4. ASSUME NEW k \in Key, Remove(k) PROVE Safe'
  <2>1. FilesWellFormed'
    BY <1>4 DEF Remove, fsVars, temporaryVars, Safe, FilesWellFormed, WellFormed
  <2>2. OverlayExact' /\ BaseExact'
    BY <1>1, <1>4, RemoveExact
  <2> QED BY <1>1, <1>4, <2>1, <2>2, IdleSafe DEF Remove, DurableReport, CleanMeansCommitted
<1> QED BY <1>2, <1>3, <1>4

(* A call that returns without touching a file: an error before or at the  *)
(* directory sync of a clean handle.                                       *)
LEMMA BeginCommitSafe ==
  ASSUME TypeOK, Safe, NEW c \in Calls, BeginCommit(c)
  PROVE  Safe'
<1>1. /\ pc = "idle" /\ OverlayExact /\ BaseExact /\ ~parent_error
      /\ call = "none" /\ FilesWellFormed
  BY DEF Safe, IndexExact, CommitProgress, BeginCommit,
         CommitClean, CommitCleanFails, Stage, StageFails
<1>2. CASE CommitCleanFails(c) \/ StageFails(c)
  <2>1. /\ UNCHANGED <<fsVars, temp>> /\ ~parent_error' /\ report' = "error" /\ call' = "none"
        /\ pc' \in {"idle", "closed"}
        /\ pc' = "idle" => UNCHANGED indexVars
    BY <1>1, <1>2 DEF CommitCleanFails, StageFails, Return, fsVars, temporaryVars
  <2>2. FilesWellFormed'
    BY <1>1, <2>1 DEF fsVars, temporaryVars, FilesWellFormed, WellFormed
  <2>3. CASE pc' = "idle"
    <3>1. OverlayExact' /\ BaseExact' /\ CleanMeansCommitted'
      BY <1>1, <2>1, <2>3 DEF Safe, indexVars, fsVars, temporaryVars, OverlayExact, BaseExact, CleanMeansCommitted
    <3> QED BY <2>1, <2>2, <2>3, <3>1, IdleSafe DEF DurableReport
  <2> QED BY <2>1, <2>2, <2>3, ClosedSafe
<1>3. CASE CommitClean(c)
  <2>1. /\ target' = target /\ temp' = temp /\ ~parent_error' /\ call' = "none"
        /\ recoverable' = recoverable \/ recoverable' = {target}
        /\ pc' \in {"idle", "closed"}
        /\ pc' = "idle" => UNCHANGED indexVars
        /\ report' = "durable" => recoverable' = {target}
    BY <1>1, <1>3 DEF CommitClean, Return, AfterCleanCommit, Success, temporaryVars
  <2>2. FilesWellFormed'
    BY <1>1, <2>1 DEF FilesWellFormed, WellFormed
  <2>3. CASE pc' = "idle"
    <3>1. OverlayExact' /\ BaseExact' /\ CleanMeansCommitted'
      BY <1>1, <2>1, <2>3 DEF Safe, indexVars, OverlayExact, BaseExact, CleanMeansCommitted
    <3>2. target.rows = key_hashes
      BY <1>1, <1>3 DEF CommitClean, Safe, CleanMeansCommitted
    <3>3. DurableReport'
      BY <2>1, <2>3, <3>2 DEF DurableReport, indexVars
    <3> QED BY <2>1, <2>2, <2>3, <3>1, <3>3, IdleSafe
  <2> QED BY <2>1, <2>2, <2>3, ClosedSafe
<1>4. CASE Stage(c)
  <2>1. /\ temp' = [file |-> EncodeSnapshot, synced |-> TRUE]
        /\ UNCHANGED indexVars /\ target' = target /\ recoverable' = recoverable
        /\ pc' = "staged" /\ call' = c /\ ~parent_error' /\ report' = "none" /\ dirty
    BY <1>1, <1>4 DEF Stage, WriteSynced
  <2>2. EncodeSnapshot \in Snapshot
    BY LiveType DEF EncodeSnapshot, Snapshot, TypeOK
  <2>3. WellFormed(EncodeSnapshot) /\ EncodeSnapshot.rows = key_hashes
    BY <2>2, TornAssumption DEF WellFormed, EncodeSnapshot
  <2>4. EncodeSnapshot.buckets # None
    BY LiveType, NoneAssumption DEF EncodeSnapshot, TypeOK
  <2>5. FilesWellFormed'
    BY <1>1, <2>1, <2>3 DEF FilesWellFormed, WellFormed
  <2>6. IndexExact'
    BY <1>1, <2>1 DEF IndexExact, indexVars, OverlayExact, BaseExact
  <2>7. CommitProgress'
    BY <2>1, <2>3, <2>4 DEF CommitProgress, indexVars, Calls
  <2> QED BY <2>1, <2>5, <2>6, <2>7 DEF Safe, CleanMeansCommitted, DurableReport
<1> QED BY <1>2, <1>3, <1>4 DEF BeginCommit

(* The rename of a staged snapshot preserves the invariant. *)
LEMMA PublishSafe ==
  ASSUME TypeOK, StagedOwns, Safe, Publish
  PROVE  Safe'
<1>1. /\ temp # None /\ temp.synced /\ WellFormed(temp.file)
      /\ temp.file.rows = key_hashes /\ temp.file.buckets # None /\ call # "none"
      /\ ~parent_error
  BY DEF Publish, StagedOwns, Safe, FilesWellFormed, CommitProgress
<1>2. /\ target' = temp.file /\ recoverable' = recoverable \cup {temp.file}
      /\ temp' = None /\ key_hashes' = key_hashes /\ call' = call
      /\ parent_error' = parent_error
      /\ pc' = IF SyncsParent(call) THEN "renamed" ELSE "published"
  BY <1>1 DEF Publish
<1>3. FilesWellFormed'
  BY <1>1, <1>2 DEF Safe, FilesWellFormed, WellFormed
<1>4. CommitProgress'
  BY <1>1, <1>2 DEF CommitProgress, SyncsParent
<1> QED BY <1>2, <1>3, <1>4 DEF Safe, IndexExact, CleanMeansCommitted, DurableReport

(* The directory sync after the rename preserves the invariant. *)
LEMMA SyncParentSafe ==
  ASSUME TypeOK, Safe, SyncParentDirectory \/ SyncParentDirectoryFails
  PROVE  Safe'
<1>1. pc = "renamed" /\ target.rows = key_hashes /\ target.buckets # None /\ call # "none"
  BY DEF Safe, CommitProgress, SyncParentDirectory, SyncParentDirectoryFails
<1>2. /\ target' = target /\ temp' = temp /\ key_hashes' = key_hashes /\ call' = call
      /\ pc' = "published"
      /\ \/ recoverable' = {target}
         \/ recoverable' = recoverable /\ parent_error'
  BY DEF SyncParentDirectory, SyncParentDirectoryFails, fsVars, temporaryVars, indexVars
<1>3. FilesWellFormed'
  BY <1>2 DEF Safe, FilesWellFormed, WellFormed
<1>4. CommitProgress'
  BY <1>1, <1>2 DEF CommitProgress, SyncsParent
<1> QED BY <1>2, <1>3, <1>4 DEF Safe, IndexExact, CleanMeansCommitted, DurableReport

(* After a failed rename or a failed reopening every key is in the overlay *)
(* of a handle that is still dirty.                                        *)
LEMMA RecoverSafe ==
  ASSUME TypeOK, StagedOwns, Safe, PublishFails \/ RefreshFails
  PROVE  Safe'
<1>1. /\ target' = target /\ recoverable' = recoverable /\ temp' = None
      /\ report' = "error" /\ call' = "none" /\ pc' \in {"idle", "closed"}
      /\ ~parent_error'
  <2>1. CASE PublishFails
    BY <2>1 DEF PublishFails, Return, Safe, CommitProgress
  <2>2. CASE RefreshFails
    BY <2>2 DEF RefreshFails, Return, fsVars, temporaryVars, StagedOwns
  <2> QED BY <2>1, <2>2
<1>2. FilesWellFormed'
  BY <1>1 DEF Safe, FilesWellFormed, WellFormed
<1>3. CASE pc' = "idle"
  <2>1. RebuildOverlayAll /\ key_hashes' = key_hashes
    BY <1>3 DEF PublishFails, RefreshFails
  <2>2. OverlayExact' /\ BaseExact'
    BY <2>1, RebuildExact
  <2>3. CleanMeansCommitted'
    <3>1. CASE RefreshFails
      BY <1>3, <3>1 DEF RefreshFails, CleanMeansCommitted
    <3>2. CASE PublishFails
      <4>1. dirty
        BY <3>2 DEF PublishFails, Safe, CommitProgress
      <4> QED BY <1>3, <3>2, <4>1 DEF PublishFails, CleanMeansCommitted
    <3> QED BY <3>1, <3>2
  <2> QED BY <1>1, <1>2, <1>3, <2>2, <2>3, IdleSafe DEF DurableReport
<1> QED BY <1>1, <1>2, <1>3, ClosedSafe

(* Reopening the published target preserves the invariant. *)
LEMMA RefreshSafe ==
  ASSUME TypeOK, Safe, Refresh
  PROVE  Safe'
<1>1. /\ target \in Snapshot /\ WellFormed(target) /\ target.rows = key_hashes
      /\ target.buckets # None /\ pc = "published" /\ call # "none"
      /\ SyncsParent(call) /\ ~parent_error => recoverable = {target}
  BY DEF Refresh, TypeOK, File, Safe, FilesWellFormed, CommitProgress
<1>2. /\ UNCHANGED <<fsVars, temp>> /\ ~parent_error' /\ call' = "none" /\ pc' \in {"idle", "closed"}
      /\ report' = "durable" => SyncsParent(call) /\ ~parent_error
  BY DEF Refresh, Return, Success, fsVars, temporaryVars
<1>3. FilesWellFormed'
  BY <1>2 DEF Safe, FilesWellFormed, WellFormed, fsVars, temporaryVars
<1>4. CASE pc' = "idle"
  <2>1. LoadFrom(target)
    BY <1>4 DEF Refresh
  <2>2. OverlayExact' /\ BaseExact'
    BY <1>1, <2>1, LoadExact
  <2>3. /\ key_hashes' = key_hashes /\ base' = target.buckets
        /\ overlay_keys' = {} /\ suppressed_base_keys' = {}
    BY <1>1, <2>1 DEF LoadFrom
  <2>4. CleanMeansCommitted'
    BY <1>1, <1>2, <2>3 DEF CleanMeansCommitted, WellFormed, fsVars, temporaryVars
  <2>5. DurableReport'
    BY <1>1, <1>2, <2>3 DEF DurableReport, fsVars, temporaryVars
  <2> QED BY <1>2, <1>3, <1>4, <2>2, <2>4, <2>5, IdleSafe
<1> QED BY <1>2, <1>3, <1>4, ClosedSafe

(* A crash or power loss preserves the invariant. *)
LEMMA CrashSafe ==
  ASSUME TypeOK, Safe, Crash \/ PowerLoss
  PROVE  Safe'
<1>1. pc' = "closed" /\ ~parent_error' /\ temp' = None /\ call' = "none"
  BY DEF Crash, PowerLoss
<1>2. FilesWellFormed'
  BY <1>1 DEF Crash, PowerLoss, Safe, FilesWellFormed, WellFormed, fsVars
<1> QED BY <1>1, <1>2, ClosedSafe

(* Every step preserves the safety part of the invariant. *)
LEMMA NextSafe == TypeOK /\ StagedOwns /\ Safe /\ [Next]_vars => Safe'
<1> SUFFICES ASSUME TypeOK, StagedOwns, Safe, [Next]_vars PROVE Safe'
  OBVIOUS
<1>1. CASE Open
  BY <1>1, OpenSafe
<1>2. CASE OpenFails \/ UNCHANGED vars
  BY <1>2 DEF OpenFails, vars, fsVars, temporaryVars, indexVars, Safe, FilesWellFormed, WellFormed, IndexExact,
     OverlayExact, BaseExact, CommitProgress, CleanMeansCommitted, DurableReport
<1>3. CASE \/ \E batch \in Batch : InsertMany(batch) \/ InsertRejected(batch)
           \/ \E k \in Key : Remove(k)
  BY <1>3, MutationSafe
<1>4. CASE \E c \in Calls : BeginCommit(c)
  BY <1>4, BeginCommitSafe
<1>5. CASE CommitStep
  BY <1>5, PublishSafe, SyncParentSafe, RecoverSafe, RefreshSafe DEF CommitStep
<1>6. CASE Crash \/ PowerLoss
  BY <1>6, CrashSafe
<1> QED BY <1>1, <1>2, <1>3, <1>4, <1>5, <1>6 DEF Next

(* IInv is an invariant, for every size of the index and of the bounds. *)
THEOREM InductiveInvariant == Spec => []IInv
<1>1. IInv <=> TypeOK /\ StagedOwns /\ Safe
  BY DEF IInv, Safe
<1>2. Init => TypeOK /\ StagedOwns /\ Safe
  BY InitType, InitSafe DEF Init, StagedOwns
<1>3. (TypeOK /\ StagedOwns /\ Safe) /\ [Next]_vars => (TypeOK /\ StagedOwns /\ Safe)'
  BY NextType, NextOwns, NextSafe
<1> QED BY <1>1, <1>2, <1>3, PTL DEF Spec

(* Queries are exact after every history of mutations, failed and          *)
(* successful commits, crashes and reopenings.                             *)
THEOREM QueriesExact == Spec => []QueryExact
<1>1. IInv => QueryExact
  BY ExactAnswers DEF IInv, IndexExact, QueryExact
<1> QED BY <1>1, InductiveInvariant, PTL

(* A clean handle mirrors the committed file. *)
THEOREM CleanCommitted == Spec => []CleanMeansCommitted
<1>1. IInv => CleanMeansCommitted
  BY DEF IInv
<1> QED BY <1>1, InductiveInvariant, PTL

(* Neither the target nor anything a power loss may leave is incomplete. *)
THEOREM NoTornFile == Spec => []NeverTorn
<1>1. IInv => NeverTorn
  BY DEF IInv, FilesWellFormed, WellFormed, NeverTorn
<1> QED BY <1>1, InductiveInvariant, PTL

(* A durable report is the truth about every power loss. *)
THEOREM SyncIsDurable == Spec => []DurableReport
<1>1. IInv => DurableReport
  BY DEF IInv
<1> QED BY <1>1, InductiveInvariant, PTL

-----------------------------------------------------------------------------
(***************************************************************************)
(* Commits keep mutations, and the store implements its contract           *)
(***************************************************************************)

(* No step of commit after staging changes the live rows. *)
LEMMA CommitStepKeeps ==
  ASSUME IInv, CommitStep, pc' # "closed"
  PROVE  key_hashes' = key_hashes
<1>1. CASE Refresh
  BY <1>1 DEF Refresh, LoadFrom, IInv, CommitProgress
<1>2. CASE ~Refresh
  BY <1>2 DEF CommitStep, Publish, PublishFails, SyncParentDirectory,
     SyncParentDirectoryFails, RefreshFails, indexVars
<1> QED BY <1>1, <1>2

(* Beginning a commit changes no live row. *)
LEMMA BeginCommitKeeps ==
  ASSUME NEW c \in Calls, BeginCommit(c), pc' # "closed"
  PROVE  key_hashes' = key_hashes
  BY DEF BeginCommit, CommitClean, CommitCleanFails, Stage, StageFails, indexVars

(* No step of flush, sync or close changes the rows of a handle that       *)
(* outlives it, whether the step succeeds or fails.                        *)
THEOREM MutationsKept == Spec => CommitKeepsMutations
<1> DEFINE OfCommit == /\ pc # "closed" /\ pc' # "closed"
                       /\ pc = "idle" /\ pc' = "idle" => report' \in {"error", "committed", "durable"}
           Keep == OfCommit => key_hashes' = key_hashes
<1>1. IInv /\ [Next]_vars => [Keep]_vars
  <2> SUFFICES ASSUME IInv, Next, OfCommit
               PROVE  key_hashes' = key_hashes
    OBVIOUS
  <2>1. CASE CommitStep
    BY <2>1, CommitStepKeeps
  <2>2. CASE \E c \in Calls : BeginCommit(c)
    BY <2>2, BeginCommitKeeps
  <2>3. CASE ~CommitStep /\ ~(\E c \in Calls : BeginCommit(c))
    BY <2>3 DEF Next, Open, OpenFails, InsertMany, InsertRejected, Remove, Crash, PowerLoss
  <2> QED BY <2>1, <2>2, <2>3
<1> QED BY <1>1, InductiveInvariant, PTL DEF Spec, CommitKeepsMutations

(* The contract speaks of the same rows and live keys. *)
LEMMA ContractData ==
  /\ Contract!Rows = Rows /\ Contract!NoRows = NoRows
  /\ \A rows : Contract!Live(rows) = Live(rows)
  BY DEF Contract!Rows, Contract!Row, Rows, Row, Contract!NoRows, NoRows,
         Contract!Live, Live

(* The initial states map to initial states of DurableIndex. *)
LEMMA ContractInit == Init => Contract!Init
<1> SUFFICES ASSUME Init PROVE Contract!Init
  OBVIOUS
<1>1. TypeOK /\ Safe
  BY InitType, InitSafe
<1>2. target \in Snapshot /\ target # Torn
  BY <1>1 DEF TypeOK, File, Safe, FilesWellFormed, WellFormed
<1>3. RowsOf(target) = target.rows /\ target.rows \in Rows
  BY <1>2 DEF RowsOf, Snapshot
<1>4. recoverable = {target} /\ pc = "closed" /\ key_hashes = NoRows /\ report = "none"
  BY DEF Init
<1>5. {RowsOf(file) : file \in recoverable} = {RowsOf(target)}
  BY <1>4
<1>6. (pc # "closed") = FALSE
  BY <1>4
<1> QED BY <1>3, <1>4, <1>5, <1>6, ContractData DEF Contract!Init

(* The rows of a complete file are the file's own. *)
LEMMA RowsOfComplete ==
  ASSUME IInv
  PROVE  /\ RowsOf(target) = target.rows
         /\ \A file \in recoverable : RowsOf(file) = file.rows
  BY DEF IInv, FilesWellFormed, WellFormed, RowsOf

(* A step that returns from a commit is a Return of the contract: what it  *)
(* must show is that success was earned and that a dropped handle left     *)
(* nothing behind.                                                         *)
LEMMA ReturnStep ==
  ASSUME IInv, pc # "closed", target' = target,
         pc' = "closed" => key_hashes' = NoRows,
         pc' # "closed" => key_hashes' = key_hashes,
         report' \in {"committed", "durable", "error"},
         recoverable' = recoverable \/ recoverable' = {target},
         report' # "error" => target.rows = key_hashes,
         report' = "durable" => recoverable' = {target}
  PROVE  Contract!Return
<1> DEFINE R == {RowsOf(file) : file \in recoverable}
<1>1. R' = R \/ R' = {RowsOf(target)}
  BY DEF RowsOf
<1>2. report' = "durable" => R' = {key_hashes}
  BY RowsOfComplete DEF RowsOf
<1>3. report' # "error" => RowsOf(target) = key_hashes
  BY RowsOfComplete
<1>4. RowsOf(target)' = RowsOf(target)
  BY DEF RowsOf
<1>5. \/ (pc' # "closed") = TRUE /\ key_hashes' = key_hashes
      \/ (pc' # "closed") = FALSE /\ key_hashes' = NoRows
  OBVIOUS
<1> QED BY <1>1, <1>2, <1>3, <1>4, <1>5, ContractData DEF Contract!Return

(* A step that changes nothing but the report. *)
LEMMA ReportStep ==
  ASSUME (pc' # "closed") = (pc # "closed"), key_hashes' = key_hashes,
         target' = target, recoverable' = recoverable,
         report' \in {"none", "error", "duplicate"}
  PROVE  Contract!Report
  BY DEF Contract!Report, RowsOf

(* open maps to OpenIndex. *)
LEMMA OpenStep ==
  ASSUME IInv, Open
  PROVE  Contract!OpenIndex
<1>1. key_hashes' = RowsOf(target)
  BY RowsOfComplete DEF Open, LoadFrom
<1>2. (pc' # "closed") = TRUE /\ pc = "closed" /\ report' = "none"
  BY DEF Open
<1>3. target' = target /\ recoverable' = recoverable
  BY DEF Open
<1> QED BY <1>1, <1>2, <1>3 DEF Contract!OpenIndex, RowsOf

(* insert_many maps to Insert. *)
LEMMA InsertStep ==
  ASSUME IInv, IInv', NEW batch \in Batch, InsertMany(batch)
  PROVE  Contract!Insert
<1>1. key_hashes' \in Contract!Rows
  BY ContractData DEF IInv, TypeOK
<1>2. \A k \in Contract!Live(key_hashes) : key_hashes'[k] = key_hashes[k]
  <2>1. \A k \in Live(key_hashes) : k \in Key /\ k \notin BatchKeys(batch)
    BY DEF InsertMany, NoDuplicate, BatchKeys, Live
  <2> QED BY <2>1, ContractData DEF InsertMany
<1>3. pc = "idle" /\ pc' = "idle" /\ report' = "none" /\ target' = target
      /\ recoverable' = recoverable
  BY DEF InsertMany, fsVars, temporaryVars
<1> QED BY <1>1, <1>2, <1>3 DEF Contract!Insert, RowsOf

(* remove maps to Delete. *)
LEMMA RemoveStep ==
  ASSUME NEW k \in Key, Remove(k)
  PROVE  Contract!Delete
<1>1. k \in Contract!Live(key_hashes) /\ key_hashes' = [key_hashes EXCEPT ![k] = Absent]
  BY ContractData DEF Remove
<1>2. pc = "idle" /\ pc' = "idle" /\ report' = "none" /\ target' = target
      /\ recoverable' = recoverable
  BY DEF Remove, fsVars, temporaryVars
<1> QED BY <1>1, <1>2 DEF Contract!Delete, RowsOf

(* Beginning a commit maps to a step of DurableIndex or a stutter. *)
LEMMA BeginCommitStep ==
  ASSUME IInv, NEW c \in Calls, BeginCommit(c)
  PROVE  Contract!Return \/ Contract!Report
<1>1. CASE CommitClean(c)
  <2>1. target.rows = key_hashes /\ pc = "idle"
    BY <1>1 DEF CommitClean, IInv, CleanMeansCommitted
  <2>2. /\ target' = target /\ report' \in {"committed", "durable", "error"}
        /\ recoverable' = recoverable \/ recoverable' = {target}
        /\ report' = "durable" => recoverable' = {target}
        /\ pc' = "closed" => key_hashes' = NoRows
        /\ pc' # "closed" => key_hashes' = key_hashes
    BY <1>1 DEF CommitClean, Return, Success, AfterCleanCommit, DropHandle, indexVars
  <2> QED BY <2>1, <2>2, ReturnStep
<1>2. CASE CommitCleanFails(c) \/ StageFails(c)
  <2>1. /\ target' = target /\ report' = "error" /\ recoverable' = recoverable
        /\ pc' = "closed" => key_hashes' = NoRows
        /\ pc' # "closed" => key_hashes' = key_hashes
        /\ pc = "idle"
    BY <1>2 DEF CommitCleanFails, StageFails, Return, DropHandle, indexVars, fsVars, temporaryVars
  <2> QED BY <2>1, ReturnStep
<1>3. CASE Stage(c)
  BY <1>3, ReportStep DEF Stage, indexVars
<1> QED BY <1>1, <1>2, <1>3 DEF BeginCommit

(* The rename maps to Publish. *)
LEMMA PublishStep ==
  ASSUME IInv, IInv', Publish
  PROVE  Contract!Publish
<1>1. /\ target' = temp.file /\ temp.file.rows = key_hashes /\ key_hashes' = key_hashes
      /\ recoverable' = recoverable \cup {target'} /\ report' = report
      /\ pc = "staged" /\ pc' # "closed"
  BY DEF Publish, IInv, StagedOwns, CommitProgress, FilesWellFormed, SyncsParent
<1>2. RowsOf(target') = key_hashes
  BY <1>1 DEF IInv, FilesWellFormed, WellFormed, RowsOf
<1>3. RowsOf(target)' = key_hashes
  BY <1>2 DEF RowsOf
<1>4. {RowsOf(file) : file \in recoverable}' = {RowsOf(file) : file \in recoverable} \cup {key_hashes}
  BY <1>1, <1>2 DEF RowsOf
<1> QED BY <1>1, <1>3, <1>4 DEF Contract!Publish

(* Every later step of commit maps to a step of DurableIndex. *)
LEMMA CommitStepStep ==
  ASSUME IInv, IInv', CommitStep
  PROVE  Contract!Publish \/ Contract!Harden \/ Contract!Return \/ UNCHANGED Contract!vars
<1>1. CASE Publish
  BY <1>1, PublishStep
<1>2. CASE PublishFails \/ RefreshFails
  <2>1. /\ target' = target /\ report' = "error" /\ recoverable' = recoverable
        /\ pc' = "closed" => key_hashes' = NoRows
        /\ pc' # "closed" => key_hashes' = key_hashes
        /\ pc # "closed"
    BY <1>2 DEF PublishFails, RefreshFails, Return, DropHandle, fsVars, temporaryVars
  <2> QED BY <2>1, ReturnStep
<1>3. CASE SyncParentDirectory
  BY <1>3 DEF SyncParentDirectory, indexVars, Contract!Harden, RowsOf
<1>4. CASE SyncParentDirectoryFails
  BY <1>4 DEF SyncParentDirectoryFails, indexVars, fsVars, temporaryVars, Contract!vars, RowsOf
<1>5. CASE Refresh
  <2>1. /\ target.rows = key_hashes /\ pc = "published"
        /\ SyncsParent(call) /\ ~parent_error => recoverable = {target}
    BY <1>5 DEF Refresh, IInv, CommitProgress
  <2>2. /\ target' = target /\ report' \in {"committed", "durable", "error"}
        /\ recoverable' = recoverable
        /\ report' = "durable" => SyncsParent(call) /\ ~parent_error
        /\ pc' = "closed" => key_hashes' = NoRows
        /\ pc' # "closed" => key_hashes' = target.rows
    BY <1>5 DEF Refresh, Return, Success, DropHandle, LoadFrom, fsVars, temporaryVars
  <2> QED BY <2>1, <2>2, ReturnStep
<1> QED BY <1>1, <1>2, <1>3, <1>4, <1>5 DEF CommitStep

(* A crash of the process maps to Crash. *)
LEMMA CrashStep ==
  ASSUME Crash
  PROVE  Contract!Crash
<1>1. /\ pc # "closed" /\ (pc' # "closed") = FALSE /\ key_hashes' = NoRows
      /\ report' = "none" /\ target' = target /\ recoverable' = recoverable
  BY DEF Crash, DropHandle, fsVars
<1> QED BY <1>1, ContractData DEF Contract!Crash, RowsOf

(* A power loss maps to PowerLoss. *)
LEMMA PowerLossStep ==
  ASSUME PowerLoss
  PROVE  Contract!PowerLoss
<1>1. PICK file \in recoverable : target' = file /\ recoverable' = {file}
  BY DEF PowerLoss
<1>2. (pc' # "closed") = FALSE /\ key_hashes' = NoRows /\ report' = "none"
  BY DEF PowerLoss, DropHandle
<1>3. RowsOf(target)' = RowsOf(file)
  BY <1>1 DEF RowsOf
<1>4. {RowsOf(f) : f \in recoverable}' = {RowsOf(target)'}
  BY <1>1, <1>3 DEF RowsOf
<1>5. RowsOf(target)' \in {RowsOf(f) : f \in recoverable}
  BY <1>1, <1>3
<1> QED BY <1>2, <1>4, <1>5, ContractData DEF Contract!PowerLoss

(* Every step of the store is a step of DurableIndex or a stutter. *)
LEMMA ContractNext ==
  ASSUME IInv, IInv', [Next]_vars
  PROVE  [Contract!Next]_(Contract!vars)
<1>1. CASE Open
  BY <1>1, OpenStep DEF Contract!Next
<1>2. CASE OpenFails
  BY <1>2, ReportStep DEF OpenFails, fsVars, temporaryVars, indexVars, Contract!Next
<1>3. ASSUME NEW batch \in Batch, InsertMany(batch) PROVE Contract!Next
  BY <1>3, InsertStep DEF Contract!Next
<1>4. ASSUME NEW batch \in Batch, InsertRejected(batch) PROVE Contract!Next
  BY <1>4, ReportStep DEF InsertRejected, fsVars, temporaryVars, indexVars, Contract!Next
<1>5. ASSUME NEW k \in Key, Remove(k) PROVE Contract!Next
  BY <1>5, RemoveStep DEF Contract!Next
<1>6. ASSUME NEW c \in Calls, BeginCommit(c) PROVE Contract!Next
  BY <1>6, BeginCommitStep DEF Contract!Next
<1>7. CASE CommitStep
  BY <1>7, CommitStepStep DEF Contract!Next
<1>8. CASE Crash
  BY <1>8, CrashStep DEF Contract!Next
<1>9. CASE PowerLoss
  BY <1>9, PowerLossStep DEF Contract!Next
<1>10. CASE UNCHANGED vars
  BY <1>10 DEF vars, Contract!vars, RowsOf
<1> QED
  BY <1>1, <1>2, <1>3, <1>4, <1>5, <1>6, <1>7, <1>8, <1>9, <1>10 DEF Next

(* The store, with its overlay, temporary files, renames and faults,       *)
(* implements the contract of DurableIndex.                                *)
THEOREM Refinement == Spec => ImplementsContract
<1>1. Init => Contract!Init
  BY ContractInit
<1>2. IInv /\ IInv' /\ [Next]_vars => [Contract!Next]_(Contract!vars)
  BY ContractNext
<1> QED BY <1>1, <1>2, InductiveInvariant, PTL DEF Spec, ImplementsContract, Contract!Spec

=============================================================================
