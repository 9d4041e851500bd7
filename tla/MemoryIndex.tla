----------------------------- MODULE MemoryIndex -----------------------------
(***************************************************************************)
(* crates/pari-index: IndexData behind LshIndex32 and LshIndex64.          *)
(*                                                                         *)
(* Buckets hold compact identifiers, not keys.  An identifier is the       *)
(* position of its slot in two append-only vectors, so it is never given   *)
(* to a second key; removing a key empties the slot and returns nothing to *)
(* the identifier space.  Identifiers are counted from 1 here.             *)
(*                                                                         *)
(* insert_many validates its whole batch and then inserts item by item     *)
(* behind &mut self: pending is what is left of a validated batch, and     *)
(* nothing else happens while it is not empty.  A bucket is a set, since   *)
(* an identifier enters it once and queries collect into a set and sort.   *)
(***************************************************************************)
EXTENDS IndexTypes, Naturals, Sequences

CONSTANTS
  NoId,          \* the key has no identifier
  Incompatible,  \* a sketch of another seed or length
  MaxItems,      \* u32::MAX, the size of the identifier space
  MaxBatch       \* bound: items of one insert_many

MemoryAssumption ==
  /\ MaxItems \in Nat /\ MaxBatch \in Nat
  /\ NoId \notin Nat
  /\ Absent \notin Key
  /\ Incompatible \notin Row

VARIABLES
  buckets,      \* [Band -> [Hash -> set of ids]]
  key_to_id,    \* the id of each live key
  id_to_key,    \* slot -> key, or Absent once removed
  band_hashes,  \* slot -> row, or Absent once removed
  pending,      \* what a validated insert_many has still to insert
  report        \* the result of the last call

vars == <<buckets, key_to_id, id_to_key, band_hashes, pending, report>>

Id == 1..MaxItems

Sketch == Row \cup {Incompatible}

Item == [key : Key, sketch : Sketch]

Batch == UNION {[1..n -> Item] : n \in 0..MaxBatch}

(* The outcomes of the calls: LshError, and the Boolean of remove. *)
Report == {"ok", "duplicate", "incompatible", "full", "removed", "unknown"}

TypeOK ==
  /\ buckets \in [Band -> [Hash -> SUBSET Id]]
  /\ key_to_id \in [Key -> Id \cup {NoId}]
  /\ id_to_key \in Seq(Key \cup {Absent})
  /\ band_hashes \in Seq(Row \cup {Absent})
  /\ Len(band_hashes) = Len(id_to_key)
  /\ Len(id_to_key) + Len(pending) <= MaxItems
  /\ pending \in Seq([key : Key, sketch : Row])
  /\ report \in Report

Init ==
  /\ buckets = [b \in Band |-> [h \in Hash |-> {}]]
  /\ key_to_id = [k \in Key |-> NoId]
  /\ id_to_key = <<>>
  /\ band_hashes = <<>>
  /\ pending = <<>>
  /\ report = "ok"

-----------------------------------------------------------------------------
(***************************************************************************)
(* insert_many                                                             *)
(***************************************************************************)

(* The first check that item i of a batch does not pass. *)
DuplicateInBatch(batch, i) == \E j \in 1..(i - 1) : batch[j].key = batch[i].key
Duplicate(batch, i) ==
  \/ key_to_id[batch[i].key] # NoId
  \/ \E j \in 1..(i - 1) : batch[j].key = batch[i].key

Rejected(batch, i) == Duplicate(batch, i) \/ batch[i].sketch = Incompatible

(* The last identifier is u32::MAX - 1, so MaxItems slots fit. *)
RoomForLive(n) == n + Len(SelectSeq(id_to_key, LAMBDA k : k # Absent)) <= MaxItems
HasCapacity(n) == Len(id_to_key) + n <= MaxItems

InsertMany(batch) ==
  /\ pending = <<>>
  /\ \A i \in DOMAIN batch : ~Rejected(batch, i)
  /\ HasCapacity(Len(batch))
  /\ pending' = batch
  /\ report' = "ok"
  /\ UNCHANGED <<buckets, key_to_id, id_to_key, band_hashes>>

InsertRejected(batch) ==
  /\ pending = <<>>
  /\ \E i \in DOMAIN batch :
       /\ Rejected(batch, i)
       /\ \A j \in 1..(i - 1) : ~Rejected(batch, j)
       /\ report' = IF Duplicate(batch, i) THEN "duplicate" ELSE "incompatible"
  /\ UNCHANGED <<buckets, key_to_id, id_to_key, band_hashes, pending>>

InsertFull(batch) ==
  /\ pending = <<>>
  /\ \A i \in DOMAIN batch : ~Rejected(batch, i)
  /\ ~HasCapacity(Len(batch))
  /\ report' = "full"
  /\ UNCHANGED <<buckets, key_to_id, id_to_key, band_hashes, pending>>

(* insert_validated, for the next item of the batch. *)
FirstFreeSlot ==
  IF \E i \in DOMAIN id_to_key : id_to_key[i] = Absent
  THEN CHOOSE i \in DOMAIN id_to_key : id_to_key[i] = Absent
  ELSE Len(id_to_key) + 1
NextSlot == Len(id_to_key) + 1

AddToFirstBand(id, row) ==
  LET first == CHOOSE b \in Band : TRUE
  IN [buckets EXCEPT ![first][row[first]] = @ \cup {id}]
AddToBuckets(id, row) ==
  [b \in Band |-> [buckets[b] EXCEPT ![row[b]] = @ \cup {id}]]

SetSlot(slots, id, value) ==
  [i \in 1..(IF id > Len(slots) THEN id ELSE Len(slots)) |-> IF i = id THEN value ELSE slots[i]]

InsertValidated ==
  LET item == Head(pending)
      id == NextSlot
  IN /\ pending # <<>>
     /\ buckets' = AddToBuckets(id, item.sketch)
     /\ key_to_id' = [key_to_id EXCEPT ![item.key] = id]
     /\ id_to_key' = SetSlot(id_to_key, id, item.key)
     /\ band_hashes' = SetSlot(band_hashes, id, item.sketch)
     /\ pending' = Tail(pending)
     /\ UNCHANGED report

-----------------------------------------------------------------------------
(***************************************************************************)
(* remove                                                                  *)
(***************************************************************************)

(* The early returns of remove: the key has an id, the slot still names    *)
(* the key, and the slot still has its hashes.                             *)
Removable(k) ==
  /\ key_to_id[k] # NoId
  /\ id_to_key[key_to_id[k]] = k
  /\ band_hashes[key_to_id[k]] # Absent

DropFromFirstBand(id, row) ==
  LET first == CHOOSE b \in Band : TRUE
  IN [buckets EXCEPT ![first][row[first]] = @ \ {id}]
DropFromBuckets(id, row) ==
  [b \in Band |-> [buckets[b] EXCEPT ![row[b]] = @ \ {id}]]

KeepKey(slots, id) == slots
ClearKey(slots, id) == [slots EXCEPT ![id] = Absent]

Remove(k) ==
  LET id == key_to_id[k] IN
  /\ pending = <<>>
  /\ Removable(k)
  /\ key_to_id' = [key_to_id EXCEPT ![k] = NoId]
  /\ buckets' = DropFromBuckets(id, band_hashes[id])
  /\ band_hashes' = [band_hashes EXCEPT ![id] = Absent]
  /\ id_to_key' = ClearKey(id_to_key, id)
  /\ report' = "removed"
  /\ UNCHANGED pending

RemoveUnknown(k) ==
  /\ pending = <<>>
  /\ ~Removable(k)
  /\ report' = "unknown"
  /\ UNCHANGED <<buckets, key_to_id, id_to_key, band_hashes, pending>>

Next ==
  \/ \E batch \in Batch : InsertMany(batch) \/ InsertRejected(batch) \/ InsertFull(batch)
  \/ InsertValidated
  \/ \E k \in Key : Remove(k) \/ RemoveUnknown(k)

Spec == Init /\ [][Next]_vars

-----------------------------------------------------------------------------
(***************************************************************************)
(* query: collect the ids of one bucket per band, keep those whose slot    *)
(* still names a key, return the keys.                                     *)
(***************************************************************************)
CandidateIds(probe) == UNION {buckets[b][probe[b]] : b \in Band}

KeysFor(ids) == {id_to_key[i] : i \in {j \in ids : id_to_key[j] # Absent}}

Query(probe) == KeysFor(CandidateIds(probe))

-----------------------------------------------------------------------------
(***************************************************************************)
(* Properties                                                              *)
(***************************************************************************)

(* The rows an owner expects: of each live key, the row it was inserted    *)
(* with.                                                                   *)
LiveRows ==
  [k \in Key |-> IF key_to_id[k] = NoId THEN Absent ELSE band_hashes[key_to_id[k]]]

(* Keys and slots name each other: no slot of a removed key is reachable   *)
(* from the key map, and no two keys share a slot, whatever the order of   *)
(* inserts, removals and re-inserts of the same key.                       *)
SlotsMatchKeys ==
  /\ \A k \in Key : key_to_id[k] # NoId =>
       key_to_id[k] \in DOMAIN id_to_key /\ id_to_key[key_to_id[k]] = k
  /\ \A i \in DOMAIN id_to_key :
       /\ id_to_key[i] # Absent => key_to_id[id_to_key[i]] = i
       /\ (id_to_key[i] = Absent) <=> (band_hashes[i] = Absent)

(* A bucket holds exactly the identifiers whose row falls into it, also    *)
(* half-way through a batch.                                               *)
BucketsMatchSlots ==
  \A b \in Band, h \in Hash :
    buckets[b][h] = {i \in DOMAIN band_hashes : band_hashes[i] # Absent /\ band_hashes[i][b] = h}

(* The validated batch can be inserted: its keys are new and distinct. *)
PendingIsNew ==
  \A i \in DOMAIN pending :
    /\ key_to_id[pending[i].key] = NoId
    /\ \A j \in DOMAIN pending : pending[i].key = pending[j].key => i = j

(* Inductive: an insert leaves no slot the key map does not reach because  *)
(* the keys left in a batch are still new and distinct.                    *)
IInv == TypeOK /\ SlotsMatchKeys /\ BucketsMatchSlots /\ PendingIsNew

(* A query returns exactly the live keys that share a band with the probe: *)
(* buckets, slots and the key map are changed by different statements of   *)
(* insert_validated and remove, and a key may come back under another row. *)
QueryExact == \A probe \in Row : Query(probe) = Matches(LiveRows, probe)

(* A slot is filled once and emptied at most once: an identifier taken     *)
(* from a bucket before a removal can never resolve to another key after   *)
(* it, because insert_validated only appends.                              *)
KeepsSlots ==
  \A i \in DOMAIN id_to_key :
    i \in DOMAIN id_to_key' /\ id_to_key'[i] \in {id_to_key[i], Absent}

(* The index is a map from keys to rows. *)
Contents == INSTANCE SimilarityIndex WITH rows <- LiveRows

=============================================================================
