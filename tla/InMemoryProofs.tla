---------------------------- MODULE InMemoryProofs ----------------------------
(***************************************************************************)
(* Proofs about sketches, batches of them, the in-memory index with its    *)
(* counters and statistics, and grouping, for every value of the           *)
(* constants.                                                              *)
(*                                                                         *)
(* Each module has an invariant of its own: SketchInv, BatchInv, IInv of   *)
(* MemoryIndex, ObservationInv, DistributionInv and GroupsInv.  They are   *)
(* joined at the end.                                                      *)
(***************************************************************************)
EXTENDS InMemory, Integers, Sequences, FiniteSetTheorems, SequenceTheorems,
        WellFoundedInduction, TLAPS

-----------------------------------------------------------------------------
(***************************************************************************)
(* Induction and recursion                                                 *)
(*                                                                         *)
(* A property is proved for all numbers by way of the set of numbers that  *)
(* have it, and a recursive function is known by way of the function that  *)
(* gives each value from the one before it.                                *)
(***************************************************************************)

(* A set of numbers has a least one. *)
LEMMA LeastNumber ==
  ASSUME NEW T \in SUBSET Nat, T # {}
  PROVE  \E m \in T : \A n \in T : m <= n
<1> DEFINE R == {ss \in Nat \X Nat : ss[1] < ss[2]}
<1>1. IsWellFoundedOn(R, Nat)
  BY NatLessThanWellFounded DEF OpToRel
<1>2. PICK x \in T : \A y \in T : ~(<<y, x>> \in R)
  BY <1>1, WFMin
<1>3. ASSUME NEW y \in T PROVE x <= y
  <2>1. <<y, x>> \in Nat \X Nat OBVIOUS
  <2>2. ~(y < x) BY <1>2, <2>1
  <2> QED BY <2>2
<1> QED BY <1>3

LEMMA Induction ==
  ASSUME NEW S, 0 \in S, \A n \in Nat : n \in S => n + 1 \in S
  PROVE  \A n \in Nat : n \in S
<1> DEFINE T == {n \in Nat : n \notin S}
<1> SUFFICES ASSUME T # {} PROVE FALSE OBVIOUS
<1>1. PICK m \in T : \A n \in T : m <= n BY LeastNumber
<1>2. m # 0 OBVIOUS
<1>3. m - 1 \in Nat /\ m - 1 \notin T BY <1>1, <1>2
<1>4. m - 1 \in S BY <1>3
<1> QED BY <1>4, <1>3

LEMMA InductionUpTo ==
  ASSUME NEW N \in Nat, NEW S, 0 \in S, \A n \in 0..(N - 1) : n \in S => n + 1 \in S
  PROVE  \A n \in 0..N : n \in S
<1> DEFINE T == {n \in Nat : n <= N => n \in S}
<1>1. 0 \in T OBVIOUS
<1>2. \A n \in Nat : n \in T => n + 1 \in T OBVIOUS
<1> HIDE DEF T
<1>3. \A n \in Nat : n \in T BY <1>1, <1>2, Induction
<1> QED BY <1>3 DEF T

(* f is base at 0, and G[n] gives its value at n from the one before. *)
IsRecursive(f, N, base, G, S) ==
  f \in [0..N -> S] /\ f[0] = base /\ \A n \in 1..N : f[n] = G[n][f[n - 1]]

LEMMA RecursionExists ==
  ASSUME NEW N \in Nat, NEW S, NEW base \in S, NEW G \in [1..N -> [S -> S]]
  PROVE  \E f : IsRecursive(f, N, base, G, S)
<1> DEFINE T == {m \in 0..N : \E f : IsRecursive(f, m, base, G, S)}
<1>1. 0 \in T
  <2>1. IsRecursive([i \in 0..0 |-> base], 0, base, G, S) BY DEF IsRecursive
  <2> QED BY <2>1
<1>2. ASSUME NEW m \in 0..(N - 1), m \in T PROVE m + 1 \in T
  <2>1. PICK f : IsRecursive(f, m, base, G, S) BY <1>2
  <2> DEFINE v == G[m + 1][f[m]]
             g == [i \in 0..(m + 1) |-> IF i = m + 1 THEN v ELSE f[i]]
  <2>2. f[m] \in S /\ m + 1 \in 1..N BY <2>1 DEF IsRecursive
  <2>3. v \in S BY <2>2
  <2>4. g \in [0..(m + 1) -> S] BY <2>1, <2>3 DEF IsRecursive
  <2>5. ASSUME NEW n \in 1..(m + 1) PROVE g[n] = G[n][g[n - 1]]
    <3>1. CASE n = m + 1 BY <3>1, <2>1
    <3>2. CASE n # m + 1
      <4>1. n \in 1..m /\ n - 1 \in 0..m BY <3>2
      <4>2. g[n] = f[n] /\ g[n - 1] = f[n - 1] BY <4>1
      <4> QED BY <4>1, <4>2, <2>1 DEF IsRecursive
    <3> QED BY <3>1, <3>2
  <2>6. g[0] = base BY <2>1 DEF IsRecursive
  <2>7. IsRecursive(g, m + 1, base, G, S) BY <2>4, <2>5, <2>6 DEF IsRecursive
  <2> QED BY <2>7
<1>3. \A m \in 0..N : m \in T
  <2> HIDE DEF T
  <2> QED BY <1>1, <1>2, InductionUpTo
<1> QED BY <1>3

-----------------------------------------------------------------------------
(***************************************************************************)
(* The index                                                               *)
(***************************************************************************)

(* What a slot holds, and what is left to insert. *)
SlotKey == Key \cup {Absent}
SlotRow == Memory!Row \cup {Absent}
Validated == [key : Key, sketch : Memory!Row]


(* Writing at the next slot appends to a vector. *)
LEMMA SlotAppended ==
  ASSUME NEW S, NEW column \in Seq(S), NEW v \in S
  PROVE  LET n == Len(column) + 1
         IN /\ Memory!SetSlot(column, n, v) = [i \in 1..n |-> IF i = n THEN v ELSE column[i]]
            /\ Memory!SetSlot(column, n, v) \in Seq(S)
            /\ Len(Memory!SetSlot(column, n, v)) = n
<1> DEFINE n == Len(column) + 1
           new == Memory!SetSlot(column, n, v)
<1>1. Len(column) \in Nat /\ DOMAIN column = 1..Len(column)
  OBVIOUS
<1>2. new = [i \in 1..n |-> IF i = n THEN v ELSE column[i]]
  BY <1>1 DEF Memory!SetSlot
<1>3. \A i \in 1..n : (IF i = n THEN v ELSE column[i]) \in S
  BY <1>1
<1>4. new \in [1..n -> S]
  BY <1>2, <1>3
<1>5. new \in Seq(S) /\ Len(new) = n
  BY <1>1, <1>4
<1> QED
  BY <1>2, <1>5

(* Overwriting a slot keeps the length of a vector. *)
LEMMA SlotReplaced ==
  ASSUME NEW S, NEW column \in Seq(S), NEW v \in S, NEW id \in DOMAIN column
  PROVE  LET new == [column EXCEPT ![id] = v]
         IN /\ new \in Seq(S)
            /\ Len(new) = Len(column)
            /\ DOMAIN new = DOMAIN column
            /\ new[id] = v
            /\ \A i \in DOMAIN column : i # id => new[i] = column[i]
  OBVIOUS

(* What is left of a batch after its first item. *)
LEMMA TailShifted ==
  ASSUME NEW S, NEW batch \in Seq(S), batch # <<>>
  PROVE  /\ Head(batch) = batch[1] /\ batch[1] \in S
         /\ Tail(batch) \in Seq(S)
         /\ Len(Tail(batch)) = Len(batch) - 1
         /\ Len(batch) \in Nat \ {0}
         /\ \A i \in DOMAIN Tail(batch) : i + 1 \in DOMAIN batch /\ Tail(batch)[i] = batch[i + 1]
  OBVIOUS

LEMMA MemoryInitInv ==
  ASSUME Memory!MemoryAssumption
  PROVE  Memory!Init => Memory!IInv
<1> SUFFICES ASSUME Memory!Init PROVE Memory!IInv
  OBVIOUS
<1> USE DEF Memory!Init
<1>1. Memory!TypeOK
  BY DEF Memory!TypeOK, Memory!MemoryAssumption, Memory!Report
<1>2. Memory!SlotsMatchKeys
  BY DEF Memory!SlotsMatchKeys
<1>3. Memory!BucketsMatchSlots
  BY DEF Memory!BucketsMatchSlots
<1>4. Memory!PendingIsNew
  BY DEF Memory!PendingIsNew
<1> QED
  BY <1>1, <1>2, <1>3, <1>4 DEF Memory!IInv

(* insert_many has checked every item before the first is inserted. *)
LEMMA MemoryInsertManyInv ==
  ASSUME Memory!MemoryAssumption, Memory!IInv, NEW batch \in Memory!Batch, Memory!InsertMany(batch)
  PROVE  Memory!IInv'
<1> USE DEF Memory!IInv, Memory!InsertMany
<1>1. PICK n \in 0..MaxBatch : batch \in [1..n -> Memory!Item]
  BY DEF Memory!Batch
<1>2. n \in Nat
  BY DEF Memory!MemoryAssumption
<1>3. DOMAIN batch = 1..n /\ Len(batch) = n
  BY <1>1, <1>2
<1>4. \A i \in 1..n : batch[i] \in [key : Key, sketch : Memory!Row]
  <2> SUFFICES ASSUME NEW i \in 1..n PROVE batch[i] \in [key : Key, sketch : Memory!Row]
    OBVIOUS
  <2>1. batch[i] \in Memory!Item
    BY <1>1
  <2>2. batch[i].sketch # Incompatible
    BY <1>3 DEF Memory!Rejected
  <2> QED
    BY <2>1, <2>2 DEF Memory!Item, Memory!Sketch
<1>5. batch \in Seq([key : Key, sketch : Memory!Row])
  <2>1. \A i \in 1..n : batch[i] \in Validated
    BY <1>4 DEF Validated
  <2>2. batch \in [1..n -> Validated]
    BY <1>1, <2>1
  <2>3. batch \in Seq(Validated)
    BY <1>2, <2>2
  <2> QED
    BY <2>3 DEF Validated
<1>6. Memory!TypeOK'
  BY <1>5, <1>3 DEF Memory!TypeOK, Memory!HasCapacity, Memory!Report
<1>7. Memory!PendingIsNew'
  <2>1. \A i \in 1..n : key_to_id[batch[i].key] = NoId
    BY <1>3 DEF Memory!Rejected, Memory!Duplicate
  <2>2. ASSUME NEW i \in 1..n, NEW j \in 1..n, batch[i].key = batch[j].key
        PROVE  i = j
    <3>1. CASE i < j
      <4>1. i \in 1..(j - 1)
        BY <3>1, <1>2
      <4> QED
        BY <4>1, <2>2, <1>3 DEF Memory!Rejected, Memory!Duplicate
    <3>2. CASE j < i
      <4>1. j \in 1..(i - 1)
        BY <3>2, <1>2
      <4> QED
        BY <4>1, <2>2, <1>3 DEF Memory!Rejected, Memory!Duplicate
    <3> QED
      BY <3>1, <3>2, <1>2
  <2> QED
    BY <2>1, <2>2, <1>3 DEF Memory!PendingIsNew
<1>8. Memory!SlotsMatchKeys'
  BY DEF Memory!SlotsMatchKeys
<1>9. Memory!BucketsMatchSlots'
  BY DEF Memory!BucketsMatchSlots
<1> QED
  BY <1>6, <1>7, <1>8, <1>9

(* insert_validated appends one slot and one member to each band. *)
LEMMA MemoryInsertValidatedInv ==
  ASSUME Memory!MemoryAssumption, Memory!IInv, Memory!InsertValidated
  PROVE  Memory!IInv'
<1> DEFINE item == Head(pending)
           id == Len(id_to_key) + 1
<1>1. /\ Memory!TypeOK /\ Memory!SlotsMatchKeys /\ Memory!BucketsMatchSlots /\ Memory!PendingIsNew
      /\ pending # <<>>
      /\ buckets' = Memory!AddToBuckets(id, item.sketch)
      /\ key_to_id' = [key_to_id EXCEPT ![item.key] = id]
      /\ id_to_key' = Memory!SetSlot(id_to_key, id, item.key)
      /\ band_hashes' = Memory!SetSlot(band_hashes, id, item.sketch)
      /\ pending' = Tail(pending)
      /\ report' = report
  BY DEF Memory!IInv, Memory!InsertValidated, Memory!NextSlot
<1>2. /\ item = pending[1] /\ item \in [key : Key, sketch : Memory!Row]
      /\ Tail(pending) \in Seq([key : Key, sketch : Memory!Row])
      /\ Len(Tail(pending)) = Len(pending) - 1 /\ Len(pending) \in Nat \ {0}
      /\ \A i \in DOMAIN Tail(pending) :
           i + 1 \in DOMAIN pending /\ Tail(pending)[i] = pending[i + 1]
  <2>1. pending \in Seq(Validated) /\ pending # <<>>
    BY <1>1 DEF Memory!TypeOK, Validated
  <2>2. /\ item = pending[1] /\ item \in Validated
        /\ Tail(pending) \in Seq(Validated)
        /\ Len(Tail(pending)) = Len(pending) - 1 /\ Len(pending) \in Nat \ {0}
        /\ \A i \in DOMAIN Tail(pending) :
             i + 1 \in DOMAIN pending /\ Tail(pending)[i] = pending[i + 1]
    BY <2>1, TailShifted
  <2> QED
    BY <2>2 DEF Validated
<1>3. /\ item.key \in Key /\ item.sketch \in Memory!Row
      /\ item.key # Absent /\ item.sketch # Absent
  BY <1>2, Assumptions DEF Memory!MemoryAssumption
<1>4. Len(id_to_key) \in Nat /\ Len(band_hashes) = Len(id_to_key)
  BY <1>1 DEF Memory!TypeOK
<1>5. /\ id_to_key' \in Seq(Key \cup {Absent})
      /\ Len(id_to_key') = id /\ DOMAIN id_to_key' = 1..id
      /\ id_to_key'[id] = item.key
      /\ \A i \in 1..Len(id_to_key) : id_to_key'[i] = id_to_key[i]
  <2>1. id_to_key \in Seq(SlotKey) /\ item.key \in SlotKey
    BY <1>1, <1>3 DEF Memory!TypeOK, SlotKey
  <2> HIDE DEF item
  <2>2. id_to_key' = Memory!SetSlot(id_to_key, Len(id_to_key) + 1, item.key) /\ id = Len(id_to_key) + 1
    BY <1>1, <1>4
  <2>3. id_to_key' = [i \in 1..id |-> IF i = id THEN item.key ELSE id_to_key[i]]
    BY <2>1, <2>2, SlotAppended
  <2>4. id_to_key' \in Seq(SlotKey) /\ Len(id_to_key') = id
    BY <2>1, <2>2, SlotAppended
  <2> QED
    BY <1>4, <2>3, <2>4 DEF SlotKey
<1>6. /\ band_hashes' \in Seq(Memory!Row \cup {Absent})
      /\ Len(band_hashes') = id /\ DOMAIN band_hashes' = 1..id
      /\ band_hashes'[id] = item.sketch
      /\ \A i \in 1..Len(id_to_key) : band_hashes'[i] = band_hashes[i]
  <2>1. band_hashes \in Seq(SlotRow) /\ item.sketch \in SlotRow
    BY <1>1, <1>3 DEF Memory!TypeOK, SlotRow
  <2> HIDE DEF item
  <2>2. band_hashes' = Memory!SetSlot(band_hashes, Len(band_hashes) + 1, item.sketch) /\ id = Len(band_hashes) + 1
    BY <1>1, <1>4
  <2>3. band_hashes' = [i \in 1..id |-> IF i = id THEN item.sketch ELSE band_hashes[i]]
    BY <2>1, <2>2, SlotAppended
  <2>4. band_hashes' \in Seq(SlotRow) /\ Len(band_hashes') = id
    BY <2>1, <2>2, SlotAppended
  <2> QED
    BY <1>4, <2>3, <2>4 DEF SlotRow
<1>7. id \in Memory!Id /\ id \in Nat /\ id # NoId
  BY <1>1, <1>2, <1>4 DEF Memory!TypeOK, Memory!Id, Memory!MemoryAssumption
<1>8. Memory!TypeOK'
  <2>1. buckets' \in [Band -> [Hash -> SUBSET Memory!Id]]
    BY <1>1, <1>3, <1>7 DEF Memory!TypeOK, Memory!AddToBuckets, Memory!Row
  <2>2. key_to_id' \in [Key -> Memory!Id \cup {NoId}]
    BY <1>1, <1>3, <1>7 DEF Memory!TypeOK
  <2>3. Len(id_to_key') + Len(pending') <= MaxItems
    BY <1>1, <1>2, <1>4, <1>5 DEF Memory!TypeOK, Memory!MemoryAssumption
  <2> QED
    BY <1>1, <1>2, <1>5, <1>6, <2>1, <2>2, <2>3 DEF Memory!TypeOK
<1>9. key_to_id[item.key] = NoId
  BY <1>1, <1>2 DEF Memory!PendingIsNew, Memory!TypeOK
<1>10. Memory!SlotsMatchKeys'
  <2>1. ASSUME NEW k \in Key, key_to_id'[k] # NoId
        PROVE  key_to_id'[k] \in DOMAIN id_to_key' /\ id_to_key'[key_to_id'[k]] = k
    <3>1. CASE k = item.key
      BY <3>1, <1>1, <1>3, <1>4, <1>5 DEF Memory!TypeOK
    <3>2. CASE k # item.key
      <4>1. key_to_id'[k] = key_to_id[k]
        BY <3>2, <1>1 DEF Memory!TypeOK
      <4>2. key_to_id[k] \in DOMAIN id_to_key /\ id_to_key[key_to_id[k]] = k
        BY <4>1, <2>1, <1>1 DEF Memory!SlotsMatchKeys
      <4>3. key_to_id[k] \in 1..Len(id_to_key)
        BY <4>2, <1>1 DEF Memory!TypeOK
      <4> QED
        BY <4>1, <4>2, <4>3, <1>4, <1>5
    <3> QED
      BY <3>1, <3>2
  <2>2. ASSUME NEW i \in DOMAIN id_to_key'
        PROVE  /\ id_to_key'[i] # Absent => key_to_id'[id_to_key'[i]] = i
               /\ (id_to_key'[i] = Absent) <=> (band_hashes'[i] = Absent)
    <3>1. CASE i = id
      BY <3>1, <1>1, <1>3, <1>5, <1>6 DEF Memory!TypeOK
    <3>2. CASE i # id
      <4>1. i \in 1..Len(id_to_key) /\ i \in DOMAIN id_to_key
        BY <3>2, <1>1, <1>4, <1>5 DEF Memory!TypeOK
      <4>2. id_to_key'[i] = id_to_key[i] /\ band_hashes'[i] = band_hashes[i]
        BY <4>1, <1>5, <1>6
      <4>3. ASSUME id_to_key[i] # Absent PROVE key_to_id'[id_to_key[i]] = i
        <5>1. key_to_id[id_to_key[i]] = i /\ id_to_key[i] \in Key
          BY <4>1, <4>3, <1>1 DEF Memory!SlotsMatchKeys, Memory!TypeOK
        <5>2. id_to_key[i] # item.key
          BY <5>1, <4>1, <1>4, <1>9 DEF Memory!MemoryAssumption
        <5> QED
          BY <5>1, <5>2, <1>1 DEF Memory!TypeOK
      <4>4. (id_to_key[i] = Absent) <=> (band_hashes[i] = Absent)
        BY <4>1, <1>1 DEF Memory!SlotsMatchKeys
      <4> QED
        BY <4>2, <4>3, <4>4
    <3> QED
      BY <3>1, <3>2
  <2> QED
    BY <2>1, <2>2 DEF Memory!SlotsMatchKeys
<1>11. Memory!BucketsMatchSlots'
  <2> SUFFICES ASSUME NEW b \in Band, NEW h \in Hash
      PROVE buckets'[b][h] =
              {i \in DOMAIN band_hashes' : band_hashes'[i] # Absent /\ band_hashes'[i][b] = h}
    BY DEF Memory!BucketsMatchSlots
  <2>1. buckets[b][h] =
          {i \in DOMAIN band_hashes : band_hashes[i] # Absent /\ band_hashes[i][b] = h}
    BY <1>1 DEF Memory!BucketsMatchSlots
  <2>2. item.sketch[b] \in Hash
    BY <1>3 DEF Memory!Row
  <2>3. buckets'[b][h] = IF item.sketch[b] = h THEN buckets[b][h] \cup {id} ELSE buckets[b][h]
    BY <1>1, <2>2 DEF Memory!TypeOK, Memory!AddToBuckets
  <2>4. DOMAIN band_hashes = 1..Len(id_to_key) /\ DOMAIN band_hashes' = 1..id
    BY <1>1, <1>4, <1>6 DEF Memory!TypeOK
  <2>5. \A i : i \in DOMAIN band_hashes' <=> i \in DOMAIN band_hashes \/ i = id
    BY <2>4, <1>4
  <2>6. \A i \in DOMAIN band_hashes : band_hashes'[i] = band_hashes[i] /\ i # id
    BY <2>4, <1>4, <1>6
  <2> HIDE DEF item, id
  <2> QED
    BY <2>1, <2>3, <2>5, <2>6, <1>3, <1>6
<1>12. Memory!PendingIsNew'
  <2> SUFFICES ASSUME NEW i \in DOMAIN pending'
      PROVE  /\ key_to_id'[pending'[i].key] = NoId
             /\ \A j \in DOMAIN pending' : pending'[i].key = pending'[j].key => i = j
    BY DEF Memory!PendingIsNew
  <2>1. i \in Nat /\ i >= 1 /\ \A j \in DOMAIN pending' : j \in Nat /\ j >= 1
    BY <1>1, <1>2
  <2>2. i + 1 \in DOMAIN pending /\ pending'[i] = pending[i + 1]
    BY <1>1, <1>2
  <2>3. 1 \in DOMAIN pending /\ pending[i + 1].key \in Key
    <3>1. pending \in Seq(Validated)
      BY <1>1 DEF Memory!TypeOK, Validated
    <3>2. 1 \in DOMAIN pending /\ pending[i + 1] \in Validated
      BY <3>1, <1>2, <2>2
    <3> QED
      BY <3>2 DEF Validated
  <2>4. pending[i + 1].key # item.key
    BY <1>1, <1>2, <2>1, <2>2, <2>3 DEF Memory!PendingIsNew
  <2>5. key_to_id'[pending'[i].key] = NoId
    BY <1>1, <2>2, <2>3, <2>4 DEF Memory!PendingIsNew, Memory!TypeOK
  <2>6. ASSUME NEW j \in DOMAIN pending', pending'[i].key = pending'[j].key
        PROVE  i = j
    <3>1. j + 1 \in DOMAIN pending /\ pending'[j] = pending[j + 1]
      BY <1>1, <1>2
    <3>2. i + 1 = j + 1
      BY <1>1, <2>2, <2>6, <3>1 DEF Memory!PendingIsNew
    <3> QED
      BY <3>2, <2>1
  <2> QED
    BY <2>5, <2>6
<1> QED
  BY <1>8, <1>10, <1>11, <1>12 DEF Memory!IInv

(* remove empties the slot that the key map gives, and the buckets of its  *)
(* row.                                                                    *)
LEMMA MemoryRemoveInv ==
  ASSUME Memory!MemoryAssumption, Memory!IInv, NEW k \in Key, Memory!Remove(k)
  PROVE  Memory!IInv'
<1> DEFINE id == key_to_id[k]
           row == band_hashes[id]
<1>1. /\ Memory!TypeOK /\ Memory!SlotsMatchKeys /\ Memory!BucketsMatchSlots
      /\ pending = <<>> /\ pending' = pending
      /\ id # NoId /\ id_to_key[id] = k /\ row # Absent
      /\ key_to_id' = [key_to_id EXCEPT ![k] = NoId]
      /\ buckets' = Memory!DropFromBuckets(id, row)
      /\ band_hashes' = [band_hashes EXCEPT ![id] = Absent]
      /\ id_to_key' = [id_to_key EXCEPT ![id] = Absent]
      /\ report' = "removed"
  BY DEF Memory!IInv, Memory!Remove, Memory!Removable, Memory!ClearKey
<1>2. /\ id \in DOMAIN id_to_key /\ DOMAIN band_hashes = DOMAIN id_to_key
      /\ id \in Memory!Id
  BY <1>1 DEF Memory!SlotsMatchKeys, Memory!TypeOK
<1>3. row \in Memory!Row
  BY <1>1, <1>2 DEF Memory!TypeOK
<1>4. /\ id_to_key' \in Seq(Key \cup {Absent})
      /\ Len(id_to_key') = Len(id_to_key) /\ DOMAIN id_to_key' = DOMAIN id_to_key
      /\ id_to_key'[id] = Absent
      /\ \A i \in DOMAIN id_to_key : i # id => id_to_key'[i] = id_to_key[i]
  <2>1. id_to_key \in Seq(Key \cup {Absent}) /\ Absent \in Key \cup {Absent}
    BY <1>1 DEF Memory!TypeOK
  <2> HIDE DEF id
  <2> QED
    BY <1>1, <1>2, <2>1, SlotReplaced
<1>5. /\ band_hashes' \in Seq(Memory!Row \cup {Absent})
      /\ Len(band_hashes') = Len(band_hashes) /\ DOMAIN band_hashes' = DOMAIN band_hashes
      /\ band_hashes'[id] = Absent
      /\ \A i \in DOMAIN band_hashes : i # id => band_hashes'[i] = band_hashes[i]
  <2>1. band_hashes \in Seq(Memory!Row \cup {Absent}) /\ Absent \in Memory!Row \cup {Absent}
    BY <1>1 DEF Memory!TypeOK
  <2> HIDE DEF id
  <2> QED
    BY <1>1, <1>2, <2>1, SlotReplaced
<1>6. Memory!TypeOK'
  <2>1. buckets' \in [Band -> [Hash -> SUBSET Memory!Id]]
    BY <1>1, <1>3 DEF Memory!TypeOK, Memory!DropFromBuckets, Memory!Row
  <2>2. key_to_id' \in [Key -> Memory!Id \cup {NoId}]
    BY <1>1 DEF Memory!TypeOK
  <2> QED
    BY <1>1, <1>4, <1>5, <2>1, <2>2 DEF Memory!TypeOK, Memory!Report
<1>7. Memory!SlotsMatchKeys'
  <2>1. ASSUME NEW l \in Key, key_to_id'[l] # NoId
        PROVE  key_to_id'[l] \in DOMAIN id_to_key' /\ id_to_key'[key_to_id'[l]] = l
    <3>1. l # k /\ key_to_id'[l] = key_to_id[l]
      BY <2>1, <1>1 DEF Memory!TypeOK
    <3>2. key_to_id[l] \in DOMAIN id_to_key /\ id_to_key[key_to_id[l]] = l
      BY <2>1, <3>1, <1>1 DEF Memory!SlotsMatchKeys
    <3>3. key_to_id[l] # id
      BY <3>1, <3>2, <1>1
    <3> QED
      BY <3>1, <3>2, <3>3, <1>4
  <2>2. ASSUME NEW i \in DOMAIN id_to_key'
        PROVE  /\ id_to_key'[i] # Absent => key_to_id'[id_to_key'[i]] = i
               /\ (id_to_key'[i] = Absent) <=> (band_hashes'[i] = Absent)
    <3>1. CASE i = id
      BY <3>1, <1>4, <1>5
    <3>2. CASE i # id
      <4>1. /\ i \in DOMAIN id_to_key
            /\ id_to_key'[i] = id_to_key[i] /\ band_hashes'[i] = band_hashes[i]
        BY <3>2, <1>2, <1>4, <1>5
      <4>2. ASSUME id_to_key[i] # Absent PROVE key_to_id'[id_to_key[i]] = i
        <5>1. key_to_id[id_to_key[i]] = i /\ id_to_key[i] \in Key
          BY <4>1, <4>2, <1>1 DEF Memory!SlotsMatchKeys, Memory!TypeOK
        <5>2. id_to_key[i] # k
          BY <5>1, <3>2
        <5> QED
          BY <5>1, <5>2, <1>1 DEF Memory!TypeOK
      <4>3. (id_to_key[i] = Absent) <=> (band_hashes[i] = Absent)
        BY <4>1, <1>1 DEF Memory!SlotsMatchKeys
      <4> QED
        BY <4>1, <4>2, <4>3
    <3> QED
      BY <3>1, <3>2
  <2> QED
    BY <2>1, <2>2 DEF Memory!SlotsMatchKeys
<1>8. Memory!BucketsMatchSlots'
  <2> SUFFICES ASSUME NEW b \in Band, NEW h \in Hash
      PROVE buckets'[b][h] =
              {i \in DOMAIN band_hashes' : band_hashes'[i] # Absent /\ band_hashes'[i][b] = h}
    BY DEF Memory!BucketsMatchSlots
  <2>1. buckets[b][h] =
          {i \in DOMAIN band_hashes : band_hashes[i] # Absent /\ band_hashes[i][b] = h}
    BY <1>1 DEF Memory!BucketsMatchSlots
  <2>2. row[b] \in Hash
    BY <1>3 DEF Memory!Row
  <2>3. buckets'[b][h] = IF row[b] = h THEN buckets[b][h] \ {id} ELSE buckets[b][h]
    BY <1>1, <2>2 DEF Memory!TypeOK, Memory!DropFromBuckets
  <2>4. row = band_hashes[id]
    OBVIOUS
  <2> HIDE DEF id, row
  <2> QED
    BY <2>1, <2>3, <2>4, <1>5
<1>9. Memory!PendingIsNew'
  BY <1>1 DEF Memory!PendingIsNew
<1> QED
  BY <1>6, <1>7, <1>8, <1>9 DEF Memory!IInv

(* Steps that only report a result. *)
LEMMA MemoryReportInv ==
  ASSUME Memory!IInv, report' \in Memory!Report,
         UNCHANGED <<buckets, key_to_id, id_to_key, band_hashes, pending>>
  PROVE  Memory!IInv'
  BY DEF Memory!IInv, Memory!TypeOK, Memory!SlotsMatchKeys, Memory!BucketsMatchSlots, Memory!PendingIsNew

LEMMA MemoryNextInv ==
  ASSUME Memory!MemoryAssumption, Memory!IInv, [Memory!Next]_(Memory!vars)
  PROVE  Memory!IInv'
<1>1. ASSUME NEW batch \in Memory!Batch, Memory!InsertMany(batch) PROVE Memory!IInv'
  BY <1>1, MemoryInsertManyInv
<1>2. ASSUME NEW batch \in Memory!Batch, Memory!InsertRejected(batch) PROVE Memory!IInv'
  <2>1. report' \in Memory!Report
    BY <1>2 DEF Memory!InsertRejected, Memory!Report
  <2> QED
    BY <1>2, <2>1, MemoryReportInv DEF Memory!InsertRejected
<1>3. ASSUME NEW batch \in Memory!Batch, Memory!InsertFull(batch) PROVE Memory!IInv'
  <2>1. report' \in Memory!Report
    BY <1>3 DEF Memory!InsertFull, Memory!Report
  <2> QED
    BY <1>3, <2>1, MemoryReportInv DEF Memory!InsertFull
<1>4. CASE Memory!InsertValidated
  BY <1>4, MemoryInsertValidatedInv
<1>5. ASSUME NEW k \in Key, Memory!Remove(k) PROVE Memory!IInv'
  BY <1>5, MemoryRemoveInv
<1>6. ASSUME NEW k \in Key, Memory!RemoveUnknown(k) PROVE Memory!IInv'
  <2>1. report' \in Memory!Report
    BY <1>6 DEF Memory!RemoveUnknown, Memory!Report
  <2> QED
    BY <1>6, <2>1, MemoryReportInv DEF Memory!RemoveUnknown
<1>7. CASE UNCHANGED Memory!vars
  <2>1. report' \in Memory!Report
    BY <1>7 DEF Memory!vars, Memory!IInv, Memory!TypeOK
  <2> QED
    BY <1>7, <2>1, MemoryReportInv DEF Memory!vars
<1> QED
  BY <1>1, <1>2, <1>3, <1>4, <1>5, <1>6, <1>7 DEF Memory!Next

(* Under the invariant, the identifiers that share a bucket with a probe   *)
(* stand for the live keys that share a band with it.                      *)
LEMMA InvQuery ==
  ASSUME Memory!MemoryAssumption, Memory!IInv
  PROVE  Memory!QueryExact
<1> SUFFICES ASSUME NEW probe \in Memory!Row
    PROVE Memory!Query(probe) = Memory!Matches(Memory!LiveRows, probe)
  BY DEF Memory!QueryExact
<1>1. Memory!TypeOK /\ Memory!SlotsMatchKeys /\ Memory!BucketsMatchSlots
  BY DEF Memory!IInv
<1>2. \A b \in Band : probe[b] \in Hash
  BY DEF Memory!Row
<1>3. DOMAIN band_hashes = DOMAIN id_to_key
  BY <1>1 DEF Memory!TypeOK
<1>4. ASSUME NEW k \in Memory!Query(probe) PROVE k \in Memory!Matches(Memory!LiveRows, probe)
  <2>0. PICK i \in Memory!CandidateIds(probe) : id_to_key[i] # Absent /\ k = id_to_key[i]
    BY <1>4 DEF Memory!Query, Memory!KeysFor
  <2>1. PICK b \in Band : i \in buckets[b][probe[b]]
    BY <2>0 DEF Memory!CandidateIds
  <2>2. i \in DOMAIN band_hashes /\ band_hashes[i] # Absent /\ band_hashes[i][b] = probe[b]
    BY <1>1, <1>2, <2>1 DEF Memory!BucketsMatchSlots
  <2>3. k \in Key /\ key_to_id[k] = i
    BY <1>1, <1>3, <2>0, <2>2 DEF Memory!TypeOK, Memory!SlotsMatchKeys
  <2>4. i # NoId
    BY <1>1, <2>2 DEF Memory!TypeOK, Memory!MemoryAssumption
  <2>5. Memory!LiveRows[k] = band_hashes[i]
    BY <2>3, <2>4 DEF Memory!LiveRows
  <2> QED
    BY <2>2, <2>3, <2>5 DEF Memory!Matches, Memory!Live
<1>5. ASSUME NEW k \in Memory!Matches(Memory!LiveRows, probe) PROVE k \in Memory!Query(probe)
  <2>1. k \in Key /\ Memory!LiveRows[k] # Absent
    BY <1>5 DEF Memory!Matches, Memory!Live
  <2>2. PICK b \in Band : Memory!LiveRows[k][b] = probe[b]
    BY <1>5 DEF Memory!Matches
  <2>3. key_to_id[k] # NoId /\ Memory!LiveRows[k] = band_hashes[key_to_id[k]]
    BY <2>1 DEF Memory!LiveRows
  <2>4. key_to_id[k] \in DOMAIN id_to_key /\ id_to_key[key_to_id[k]] = k
    BY <1>1, <2>1, <2>3 DEF Memory!SlotsMatchKeys
  <2>5. key_to_id[k] \in buckets[b][probe[b]]
    BY <1>1, <1>2, <1>3, <2>1, <2>2, <2>3, <2>4 DEF Memory!BucketsMatchSlots
  <2>6. key_to_id[k] \in Memory!CandidateIds(probe)
    BY <2>5 DEF Memory!CandidateIds
  <2>7. k # Absent
    BY <2>1 DEF Memory!MemoryAssumption
  <2> QED
    BY <2>4, <2>6, <2>7 DEF Memory!Query, Memory!KeysFor
<1> QED
  BY <1>4, <1>5

(* No identifier ever resolves to a second key: slots are appended, and a  *)
(* filled one is only ever emptied.                                        *)
LEMMA SlotsKept ==
  ASSUME Memory!MemoryAssumption, Memory!IInv, Memory!Next
  PROVE  Memory!KeepsSlots
<1>1. CASE UNCHANGED id_to_key
  BY <1>1 DEF Memory!KeepsSlots
<1>2. CASE Memory!InsertValidated
  <2>1. id_to_key' = Memory!SetSlot(id_to_key, Len(id_to_key) + 1, Head(pending).key)
    BY <1>2 DEF Memory!InsertValidated, Memory!NextSlot
  <2>2. id_to_key \in Seq(SlotKey) /\ Head(pending).key \in SlotKey
    <3>1. id_to_key \in Seq(SlotKey) /\ pending \in Seq(Validated) /\ pending # <<>>
      BY <1>2 DEF Memory!IInv, Memory!TypeOK, Memory!InsertValidated, SlotKey, Validated
    <3>2. Head(pending) \in Validated
      BY <3>1, TailShifted
    <3> QED
      BY <3>1, <3>2 DEF Validated, SlotKey
  <2>3. Len(id_to_key) \in Nat /\ DOMAIN id_to_key = 1..Len(id_to_key)
    BY <2>2
  <2>4. id_to_key' = [i \in 1..(Len(id_to_key) + 1) |->
           IF i = Len(id_to_key) + 1 THEN Head(pending).key ELSE id_to_key[i]]
    BY <2>1, <2>2, SlotAppended
  <2> QED
    BY <2>3, <2>4 DEF Memory!KeepsSlots
<1>3. ASSUME NEW k \in Key, Memory!Remove(k) PROVE Memory!KeepsSlots
  BY <1>3 DEF Memory!Remove, Memory!ClearKey, Memory!KeepsSlots
<1> QED
  BY <1>1, <1>2, <1>3 DEF Memory!Next, Memory!InsertMany, Memory!InsertRejected, Memory!InsertFull, Memory!RemoveUnknown

(* An inserted key was not live, and the slots of the others stay. *)
LEMMA InsertMapped ==
  ASSUME Memory!MemoryAssumption, Memory!IInv, Memory!IInv', Memory!InsertValidated
  PROVE  Memory!Contents!Insert
<1> DEFINE item == Head(pending)
<1>1. Memory!LiveRows' \in Memory!Rows
  <2>1. ASSUME NEW k \in Key, key_to_id'[k] # NoId
        PROVE  band_hashes'[key_to_id'[k]] \in Memory!Row \cup {Absent}
    <3>1. key_to_id'[k] \in DOMAIN id_to_key' /\ DOMAIN id_to_key' = DOMAIN band_hashes'
      BY <2>1 DEF Memory!IInv, Memory!SlotsMatchKeys, Memory!TypeOK
    <3> QED
      BY <3>1 DEF Memory!IInv, Memory!TypeOK
  <2> QED
    BY <2>1 DEF Memory!LiveRows, Memory!Rows
<1>2. item.key \in Key /\ key_to_id[item.key] = NoId /\ item.sketch \in Memory!Row
  <2>1. pending \in Seq(Validated) /\ pending # <<>>
    BY DEF Memory!IInv, Memory!TypeOK, Memory!InsertValidated, Validated
  <2>2. item = pending[1] /\ item \in Validated /\ 1 \in DOMAIN pending
    BY <2>1, TailShifted
  <2> QED
    BY <2>2 DEF Memory!IInv, Memory!PendingIsNew, Validated
<1>3. /\ key_to_id' = [key_to_id EXCEPT ![item.key] = Len(id_to_key) + 1]
      /\ band_hashes' = Memory!SetSlot(band_hashes, Len(band_hashes) + 1, item.sketch)
  BY DEF Memory!IInv, Memory!TypeOK, Memory!InsertValidated, Memory!NextSlot
<1>4. band_hashes \in Seq(SlotRow) /\ item.sketch \in SlotRow
  BY <1>2 DEF Memory!IInv, Memory!TypeOK, SlotRow
<1> HIDE DEF item
<1>5. \A i \in 1..Len(band_hashes) : band_hashes'[i] = band_hashes[i]
  <2>1. band_hashes' = [i \in 1..(Len(band_hashes) + 1) |->
           IF i = Len(band_hashes) + 1 THEN item.sketch ELSE band_hashes[i]]
    BY <1>3, <1>4, SlotAppended
  <2>2. Len(band_hashes) \in Nat
    BY <1>4
  <2> QED
    BY <2>1, <2>2
<1>6. ASSUME NEW k \in Memory!Live(Memory!LiveRows) PROVE Memory!LiveRows'[k] = Memory!LiveRows[k]
  <2>1. k \in Key /\ key_to_id[k] # NoId /\ k # item.key
    BY <1>2, <1>6 DEF Memory!Live, Memory!LiveRows
  <2>2. key_to_id'[k] = key_to_id[k]
    BY <1>3, <2>1 DEF Memory!IInv, Memory!TypeOK
  <2>3. key_to_id[k] \in 1..Len(band_hashes)
    BY <2>1 DEF Memory!IInv, Memory!SlotsMatchKeys, Memory!TypeOK
  <2>4. band_hashes'[key_to_id[k]] = band_hashes[key_to_id[k]]
    BY <1>5, <2>3
  <2> QED
    BY <2>1, <2>2, <2>4 DEF Memory!LiveRows
<1> QED
  BY <1>1, <1>6 DEF Memory!Contents!Insert, Memory!Contents!Live, Memory!Contents!Rows, Memory!Contents!Row, Memory!Live, Memory!Rows, Memory!Row

(* A removal takes one key away and moves no other. *)
LEMMA RemoveMapped ==
  ASSUME Memory!MemoryAssumption, Memory!IInv, Memory!IInv', NEW k \in Key, Memory!Remove(k)
  PROVE  Memory!Contents!Remove
<1>1. Memory!LiveRows' \in Memory!Rows
  <2>1. ASSUME NEW l \in Key, key_to_id'[l] # NoId
        PROVE  band_hashes'[key_to_id'[l]] \in Memory!Row \cup {Absent}
    <3>1. key_to_id'[l] \in DOMAIN id_to_key' /\ DOMAIN id_to_key' = DOMAIN band_hashes'
      BY <2>1 DEF Memory!IInv, Memory!SlotsMatchKeys, Memory!TypeOK
    <3> QED
      BY <3>1 DEF Memory!IInv, Memory!TypeOK
  <2> QED
    BY <2>1 DEF Memory!LiveRows, Memory!Rows
<1>2. ASSUME NEW l \in Key PROVE Memory!LiveRows'[l] \in {Memory!LiveRows[l], Absent}
  <2>1. CASE l = k
    BY <2>1 DEF Memory!LiveRows, Memory!Remove, Memory!IInv, Memory!TypeOK
  <2>2. CASE l # k /\ key_to_id[l] = NoId
    BY <2>2 DEF Memory!LiveRows, Memory!Remove, Memory!IInv, Memory!TypeOK
  <2>3. CASE l # k /\ key_to_id[l] # NoId
    <3>1. key_to_id'[l] = key_to_id[l]
      BY <2>3 DEF Memory!Remove, Memory!IInv, Memory!TypeOK
    <3>2. /\ id_to_key[key_to_id[l]] = l /\ id_to_key[key_to_id[k]] = k
          /\ key_to_id[l] \in DOMAIN id_to_key /\ DOMAIN id_to_key = DOMAIN band_hashes
      BY <2>3 DEF Memory!Remove, Memory!Removable, Memory!IInv, Memory!SlotsMatchKeys, Memory!TypeOK
    <3>3. key_to_id[l] # key_to_id[k]
      BY <2>3, <3>2
    <3>4. band_hashes'[key_to_id[l]] = band_hashes[key_to_id[l]]
      BY <3>2, <3>3 DEF Memory!Remove
    <3> QED
      BY <2>3, <3>1, <3>4 DEF Memory!LiveRows
  <2> QED
    BY <2>1, <2>2, <2>3
<1> QED
  BY <1>1, <1>2 DEF Memory!Contents!Remove, Memory!Contents!Rows, Memory!Contents!Row, Memory!Rows, Memory!Row

(* What the vectors and the key map hold together changes as               *)
(* SimilarityIndex says, and a key never gets another row while it lives.  *)
LEMMA MemoryImplements ==
  ASSUME Memory!MemoryAssumption, Memory!IInv, Memory!IInv', Memory!Next
  PROVE  Memory!Contents!Next \/ Memory!LiveRows' = Memory!LiveRows
<1>1. CASE UNCHANGED <<key_to_id, band_hashes>>
  BY <1>1 DEF Memory!LiveRows
<1>2. CASE Memory!InsertValidated
  BY <1>2, InsertMapped DEF Memory!Contents!Next
<1>3. ASSUME NEW k \in Key, Memory!Remove(k) PROVE Memory!Contents!Next
  BY <1>3, RemoveMapped DEF Memory!Contents!Next
<1> QED
  BY <1>1, <1>2, <1>3
  DEF Memory!Next, Memory!InsertMany, Memory!InsertRejected, Memory!InsertFull, Memory!RemoveUnknown

-----------------------------------------------------------------------------
(***************************************************************************)
(* The query counters                                                      *)
(***************************************************************************)

(* One unit for every unit that a thread has still to add. *)
Units(p) == {u \in Thread \X Nat : u[2] \in 1..p[u[1]]}

LEMMA NoUnits ==
  ASSUME NEW p \in [Thread -> Nat], \A t \in Thread : p[t] = 0
  PROVE  Units(p) = {} /\ IsFiniteSet(Units(p)) /\ Cardinality(Units(p)) = 0
<1>1. Units(p) = {} BY DEF Units
<1> QED BY <1>1, FS_EmptySet

LEMMA UnitsAdded ==
  ASSUME NEW p \in [Thread -> Nat], NEW q \in [Thread -> Nat], NEW t \in Thread,
         p[t] = 0, \A s \in Thread \ {t} : q[s] = p[s], IsFiniteSet(Units(p))
  PROVE  IsFiniteSet(Units(q)) /\ Cardinality(Units(q)) = Cardinality(Units(p)) + q[t]
<1> DEFINE n == q[t]
           D == {t} \X (1..n)
<1>1. n \in Nat OBVIOUS
<1>2. IsFiniteSet(1..n) /\ Cardinality(1..n) = n
  <2>1. IsFiniteSet(1..n) /\ Cardinality(1..n) = IF 1 > n THEN 0 ELSE n - 1 + 1
    BY <1>1, 1 \in Int, n \in Int, FS_Interval
  <2> QED BY <2>1, <1>1
<1>3. IsFiniteSet({t}) /\ Cardinality({t}) = 1 BY FS_Singleton
<1>4. IsFiniteSet(D) /\ Cardinality(D) = 1 * n
  <2>1. IsFiniteSet(D) /\ Cardinality(D) = Cardinality({t}) * Cardinality(1..n)
    BY <1>2, <1>3, FS_Product
  <2> QED BY <1>2, <1>3, <2>1
<1>5. Units(q) = Units(p) \cup D BY DEF Units
<1>6. Units(p) \cap D = {} BY DEF Units
<1>7. /\ IsFiniteSet(Units(p) \cup D)
      /\ Cardinality(Units(p) \cup D) = Cardinality(Units(p)) + Cardinality(D) - Cardinality(Units(p) \cap D)
  <2> HIDE DEF D
  <2> QED BY <1>4, FS_Union
<1>8. Cardinality(Units(p) \cap D) = 0 BY <1>6, FS_EmptySet
<1>9. Cardinality(Units(p)) \in Nat BY FS_CardinalityType
<1> QED BY <1>1, <1>4, <1>5, <1>7, <1>8, <1>9

LEMMA UnitsTaken ==
  ASSUME NEW p \in [Thread -> Nat], NEW q \in [Thread -> Nat], NEW t \in Thread,
         q[t] = 0, \A s \in Thread \ {t} : q[s] = p[s], IsFiniteSet(Units(p))
  PROVE  IsFiniteSet(Units(q)) /\ Cardinality(Units(p)) = Cardinality(Units(q)) + p[t]
<1>1. Units(q) \subseteq Units(p) BY DEF Units
<1>2. IsFiniteSet(Units(q)) BY <1>1, FS_Subset
<1>3. \A s \in Thread \ {t} : p[s] = q[s] OBVIOUS
<1> QED BY <1>2, <1>3, UnitsAdded

(* What threads have still to add to the counter in place i. *)
Pending(r, i) ==
  [t \in Thread |-> IF i + Len(r[t]) > 4 THEN r[t][i + Len(r[t]) - 4] ELSE 0]

ObservationTypes ==
  /\ counters \in [Observation!Range(Observation!Counter) -> Nat]
  /\ observed \in [Observation!Range(Observation!Counter) -> Nat]
  /\ recording \in [Thread -> Seq(Nat)]
  /\ snapshot \in [Thread -> Seq(Nat)]
  /\ started \in [Thread -> [Observation!Range(Observation!Counter) -> Nat]]
  /\ \A t \in Thread : Len(recording[t]) <= 4 /\ Len(snapshot[t]) <= 4

(* What was queried is what is counted and what is on its way. *)
NothingLost ==
  \A i \in 1..4 :
    /\ IsFiniteSet(Units(Pending(recording, i)))
    /\ observed[Observation!Counter[i]] = counters[Observation!Counter[i]] + Cardinality(Units(Pending(recording, i)))

StartedBefore ==
  \A t \in Thread, i \in 1..4 :
    started[t][Observation!Counter[i]] <= counters[Observation!Counter[i]]

ObservationInv ==
  ObservationTypes /\ NothingLost /\ StartedBefore /\ Observation!SnapshotBounded

LEMMA CounterNames ==
  /\ Len(Observation!Counter) = 4
  /\ Observation!Counter[1] = "operations" /\ Observation!Counter[2] = "queries"
  /\ Observation!Counter[3] = "candidates" /\ Observation!Counter[4] = "possible_candidates"
  /\ Observation!Range(Observation!Counter) = {"operations", "queries", "candidates", "possible_candidates"}
  /\ \A i \in 1..4 : Observation!Counter[i] \in Observation!Range(Observation!Counter)
  /\ \A i, j \in 1..4 : Observation!Counter[i] = Observation!Counter[j] => i = j
  /\ \A c \in Observation!Range(Observation!Counter) : \E i \in 1..4 : c = Observation!Counter[i]
<1>1. /\ Len(Observation!Counter) = 4
      /\ Observation!Counter[1] = "operations" /\ Observation!Counter[2] = "queries"
      /\ Observation!Counter[3] = "candidates" /\ Observation!Counter[4] = "possible_candidates"
      /\ DOMAIN Observation!Counter = 1..4
  BY DEF Observation!Counter
<1>2. \A i \in 1..4 : i = 1 \/ i = 2 \/ i = 3 \/ i = 4 OBVIOUS
<1>3. Observation!Range(Observation!Counter) = {"operations", "queries", "candidates", "possible_candidates"}
  BY <1>1, <1>2 DEF Observation!Range
<1> QED BY <1>1, <1>2, <1>3

LEMMA PendingType ==
  ASSUME NEW r \in [Thread -> Seq(Nat)], \A t \in Thread : Len(r[t]) <= 4, NEW i \in 1..4
  PROVE  Pending(r, i) \in [Thread -> Nat]
<1> SUFFICES ASSUME NEW t \in Thread PROVE Pending(r, i)[t] \in Nat
  BY DEF Pending
<1>1. r[t] \in Seq(Nat) OBVIOUS
<1>2. PICK n \in 0..4 : n = Len(r[t])
  <2>1. PICK n \in Nat : n = Len(r[t]) BY <1>1
  <2>2. n <= 4 BY <2>1
  <2> QED BY <2>1, <2>2
<1>3. CASE i + n > 4
  <2>1. i + n - 4 \in 1..n BY <1>2, <1>3
  <2>2. r[t][i + n - 4] \in Nat BY <1>1, <1>2, <2>1
  <2> QED BY <2>2, <1>2, <1>3 DEF Pending
<1> QED BY <1>2, <1>3 DEF Pending

LEMMA CounterTypes ==
  ASSUME ObservationTypes
  PROVE  /\ \A i \in 1..4 : /\ counters[Observation!Counter[i]] \in Nat
                           /\ observed[Observation!Counter[i]] \in Nat
         /\ \A t \in Thread, i \in 1..4 : started[t][Observation!Counter[i]] \in Nat
         /\ \A t \in Thread : /\ recording[t] \in Seq(Nat) /\ snapshot[t] \in Seq(Nat)
                             /\ Len(recording[t]) \in 0..4 /\ Len(snapshot[t]) \in 0..4
         /\ \A t \in Thread : \A i \in 1..Len(recording[t]) : recording[t][i] \in Nat
         /\ \A t \in Thread : \A i \in 1..Len(snapshot[t]) : snapshot[t][i] \in Nat
<1> USE DEF ObservationTypes
<1>1. \A i \in 1..4 : Observation!Counter[i] \in Observation!Range(Observation!Counter) BY CounterNames
<1>2. \A i \in 1..4 : counters[Observation!Counter[i]] \in Nat /\ observed[Observation!Counter[i]] \in Nat
  BY <1>1
<1>3. ASSUME NEW t \in Thread
      PROVE  /\ recording[t] \in Seq(Nat) /\ snapshot[t] \in Seq(Nat)
             /\ started[t] \in [Observation!Range(Observation!Counter) -> Nat]
             /\ Len(recording[t]) <= 4 /\ Len(snapshot[t]) <= 4
  OBVIOUS
<1> HIDE DEF ObservationTypes
<1>4. ASSUME NEW t \in Thread PROVE \A i \in 1..4 : started[t][Observation!Counter[i]] \in Nat
  BY <1>1, <1>3
<1>5. ASSUME NEW t \in Thread
      PROVE  /\ Len(recording[t]) \in 0..4 /\ \A i \in 1..Len(recording[t]) : recording[t][i] \in Nat
             /\ Len(snapshot[t]) \in 0..4 /\ \A i \in 1..Len(snapshot[t]) : snapshot[t][i] \in Nat
  <2>1. PICK n \in Nat : n = Len(recording[t]) BY <1>3
  <2>2. PICK m \in Nat : m = Len(snapshot[t]) BY <1>3
  <2>3. n <= 4 /\ m <= 4 BY <1>3, <2>1, <2>2
  <2>4. n \in 0..4 /\ m \in 0..4 BY <2>3
  <2> QED BY <1>3, <2>1, <2>2, <2>4
<1> QED BY <1>2, <1>3, <1>4, <1>5

LEMMA CountedIsQueried ==
  ASSUME ObservationTypes, NothingLost, NEW i \in 1..4
  PROVE  counters[Observation!Counter[i]] <= observed[Observation!Counter[i]]
<1>1. Cardinality(Units(Pending(recording, i))) \in Nat BY FS_CardinalityType DEF NothingLost
<1>2. counters[Observation!Counter[i]] \in Nat BY CounterNames DEF ObservationTypes
<1> QED BY <1>1, <1>2 DEF NothingLost

LEMMA ObservationInitInv ==
  ASSUME Observation!ObservationAssumption, Observation!Init
  PROVE  ObservationInv
<1> USE DEF Observation!Init, Observation!Zero
<1>1. ObservationTypes BY DEF ObservationTypes, Observation!NoSnapshot
<1>2. ASSUME NEW i \in 1..4 PROVE \A t \in Thread : Pending(recording, i)[t] = 0
  BY DEF Pending
<1>3. NothingLost
  <2> SUFFICES ASSUME NEW i \in 1..4
      PROVE /\ IsFiniteSet(Units(Pending(recording, i)))
            /\ observed[Observation!Counter[i]] = counters[Observation!Counter[i]] + Cardinality(Units(Pending(recording, i)))
    BY DEF NothingLost
  <2>1. IsFiniteSet(Units(Pending(recording, i))) /\ Cardinality(Units(Pending(recording, i))) = 0
    <3>1. Pending(recording, i) \in [Thread -> Nat] BY <1>1, PendingType DEF ObservationTypes
    <3> QED BY <3>1, <1>2, NoUnits
  <2> QED BY <2>1, CounterNames
<1>4. StartedBefore BY CounterNames DEF StartedBefore
<1>5. Observation!SnapshotBounded BY DEF Observation!SnapshotBounded, Observation!NoSnapshot
<1> QED BY <1>1, <1>3, <1>4, <1>5 DEF ObservationInv

LEMMA QueryManyInv ==
  ASSUME Observation!ObservationAssumption, ObservationInv, NEW t \in Thread,
         NEW n \in 0..MaxQueries, NEW found \in 0..(n * Items), Observation!QueryMany(t, n, found)
  PROVE  ObservationInv'
<1> USE DEF ObservationInv
<1>1. CASE ~enabled
  <2>1. UNCHANGED <<counters, observed, recording, snapshot, started>>
    BY <1>1 DEF Observation!QueryMany
  <2> QED
    BY <2>1 DEF ObservationTypes, NothingLost, StartedBefore, Observation!SnapshotBounded, Pending
<1>2. CASE enabled
  <2> DEFINE amounts == <<1, n, found, n * Items>>
  <2>1. /\ recording[t] = <<>>
        /\ recording' = [recording EXCEPT ![t] = amounts]
        /\ UNCHANGED <<counters, snapshot, started>>
    BY <1>2 DEF Observation!QueryMany, Observation!Idle, Observation!Amounts
  <2>2. n \in Nat /\ n * Items \in Nat /\ found \in Nat
    BY DEF Observation!ObservationAssumption
  <2>3. \A i \in 1..4 : amounts[i] \in Nat
    BY <2>2
  <2>4. amounts \in Seq(Nat) /\ Len(amounts) = 4 BY <2>2
  <2>5. ASSUME NEW i \in 1..4
        PROVE observed'[Observation!Counter[i]] = observed[Observation!Counter[i]] + amounts[i]
    <3>1. DOMAIN observed = {"operations", "queries", "candidates", "possible_candidates"}
      BY CounterNames DEF ObservationTypes
    <3>2. observed' = [c \in DOMAIN observed |->
               observed[c] + CASE c = "operations" -> 1
                               [] c = "queries" -> n
                               [] c = "candidates" -> found
                               [] c = "possible_candidates" -> n * Items]
      BY <1>2 DEF Observation!QueryMany
    <3>3. CASE i = 1 BY <3>1, <3>2, <3>3, CounterNames
    <3>4. CASE i = 2 BY <3>1, <3>2, <3>4, CounterNames
    <3>5. CASE i = 3 BY <3>1, <3>2, <3>5, CounterNames
    <3>6. CASE i = 4 BY <3>1, <3>2, <3>6, CounterNames
    <3> QED BY <3>3, <3>4, <3>5, <3>6
  <2>6. DOMAIN observed' = DOMAIN observed
    BY <1>2 DEF Observation!QueryMany
  <2>7. observed' \in [Observation!Range(Observation!Counter) -> Nat]
    <3>1. \A i \in 1..4 : observed'[Observation!Counter[i]] \in Nat
      <4> SUFFICES ASSUME NEW i \in 1..4 PROVE observed'[Observation!Counter[i]] \in Nat OBVIOUS
      <4>1. observed[Observation!Counter[i]] \in Nat BY CounterTypes
      <4>2. amounts[i] \in Nat BY <2>3
      <4> HIDE DEF amounts
      <4> QED BY <4>1, <4>2, <2>5
    <3>3. \A c \in Observation!Range(Observation!Counter) : observed'[c] \in Nat
      BY <3>1, CounterNames
    <3>2. observed' = [c \in DOMAIN observed |-> observed'[c]]
      BY <1>2 DEF Observation!QueryMany
    <3> QED BY <2>6, <3>2, <3>3 DEF ObservationTypes
  <2>8. ObservationTypes'
    BY <2>1, <2>4, <2>7 DEF ObservationTypes
  <2>9. ASSUME NEW i \in 1..4
        PROVE /\ Pending(recording, i)[t] = 0 /\ Pending(recording', i)[t] = amounts[i]
              /\ \A s \in Thread \ {t} : Pending(recording', i)[s] = Pending(recording, i)[s]
    <3>1. recording'[t] = amounts /\ \A s \in Thread \ {t} : recording'[s] = recording[s]
      BY <2>1 DEF ObservationTypes
    <3>2. i + 4 > 4 /\ i + 4 - 4 = i /\ ~(i + 0 > 4) OBVIOUS
    <3> HIDE DEF amounts
    <3>3. Pending(recording', i)[t] = amounts[i] BY <3>1, <3>2, <2>4 DEF Pending
    <3>4. Pending(recording, i)[t] = 0 BY <3>2, <2>1 DEF Pending
    <3>5. \A s \in Thread \ {t} : Pending(recording', i)[s] = Pending(recording, i)[s]
      BY <3>1 DEF Pending
    <3> QED BY <3>3, <3>4, <3>5
  <2>10. NothingLost'
    <3> SUFFICES ASSUME NEW i \in 1..4
        PROVE /\ IsFiniteSet(Units(Pending(recording', i)))
              /\ observed'[Observation!Counter[i]] = counters'[Observation!Counter[i]] + Cardinality(Units(Pending(recording', i)))
      BY DEF NothingLost
    <3>1. Pending(recording, i) \in [Thread -> Nat] BY PendingType DEF ObservationTypes
    <3>2. Pending(recording', i) \in [Thread -> Nat] BY <2>8, PendingType DEF ObservationTypes
    <3>3. /\ IsFiniteSet(Units(Pending(recording, i)))
          /\ observed[Observation!Counter[i]] = counters[Observation!Counter[i]] + Cardinality(Units(Pending(recording, i)))
      BY DEF NothingLost
    <3>4. /\ IsFiniteSet(Units(Pending(recording', i)))
          /\ Cardinality(Units(Pending(recording', i))) = Cardinality(Units(Pending(recording, i))) + Pending(recording', i)[t]
      BY <3>1, <3>2, <3>3, <2>9, UnitsAdded
    <3>5. Cardinality(Units(Pending(recording, i))) \in Nat /\ counters[Observation!Counter[i]] \in Nat
      BY <3>3, FS_CardinalityType, CounterNames DEF ObservationTypes
    <3> HIDE DEF amounts
    <3>6. Pending(recording', i)[t] = amounts[i] /\ amounts[i] \in Nat BY <2>3, <2>9
    <3>7. observed'[Observation!Counter[i]] = observed[Observation!Counter[i]] + amounts[i] BY <2>5
    <3>8. counters' = counters BY <2>1
    <3> QED BY <3>3, <3>4, <3>5, <3>6, <3>7, <3>8
  <2>11. StartedBefore' BY <2>1 DEF StartedBefore
  <2>12. Observation!SnapshotBounded'
    <3> SUFFICES ASSUME NEW s \in Thread, NEW i \in 1..4, i <= Len(snapshot[s])
        PROVE started[s][Observation!Counter[i]] <= snapshot[s][i] /\ snapshot[s][i] <= observed'[Observation!Counter[i]]
      BY <2>1, CounterNames DEF Observation!SnapshotBounded
    <3>1. /\ snapshot[s][i] \in Nat /\ observed[Observation!Counter[i]] \in Nat
          /\ started[s][Observation!Counter[i]] \in Nat
      <4>1. PICK m \in 0..4 : m = Len(snapshot[s]) BY CounterTypes
      <4>2. i \in 1..m BY <4>1
      <4> QED BY <4>1, <4>2, CounterTypes
    <3>2. started[s][Observation!Counter[i]] <= snapshot[s][i] /\ snapshot[s][i] <= observed[Observation!Counter[i]]
      BY CounterNames DEF Observation!SnapshotBounded
    <3> HIDE DEF amounts
    <3>3. amounts[i] \in Nat /\ observed'[Observation!Counter[i]] = observed[Observation!Counter[i]] + amounts[i]
      BY <2>3, <2>5
    <3> QED BY <3>1, <3>2, <3>3
  <2> QED BY <2>8, <2>10, <2>11, <2>12
<1> QED BY <1>1, <1>2

LEMMA RecordInv ==
  ASSUME Observation!ObservationAssumption, ObservationInv, NEW t \in Thread, Observation!Record(t)
  PROVE  ObservationInv'
<1> USE DEF ObservationInv
<1>0. recording[t] \in Seq(Nat) /\ recording[t] # <<>> /\ Len(recording[t]) \in 1..4
  <2>1. recording[t] \in Seq(Nat) /\ recording[t] # <<>> /\ Len(recording[t]) \in 0..4
    BY CounterTypes DEF Observation!Record
  <2> QED BY <2>1
<1>n. PICK n \in 1..4 : n = Len(recording[t]) BY <1>0
<1>m. 5 - n \in 1..4 OBVIOUS
<1>k. PICK k \in 1..4 : k = 5 - n BY <1>m
<1>a. PICK amount \in Nat : amount = Head(recording[t]) BY <1>0
<1>1. /\ recording[t] \in Seq(Nat) /\ recording[t] # <<>> /\ k \in 1..4
      /\ recording[t][1] \in Nat /\ amount = recording[t][1]
      /\ n = Len(recording[t]) /\ k = 5 - n /\ k = 4 + 1 - n
  BY <1>0, <1>a, <1>k, <1>n
<1>2. /\ counters' = [counters EXCEPT ![Observation!Counter[k]] = @ + amount]
      /\ recording' = [recording EXCEPT ![t] = Tail(@)]
      /\ UNCHANGED <<snapshot, observed, started>>
  BY <1>1, CounterNames DEF Observation!Record, Observation!FetchAdd
<1>3. /\ recording'[t] = Tail(recording[t]) /\ \A s \in Thread \ {t} : recording'[s] = recording[s]
      /\ Tail(recording[t]) \in Seq(Nat) /\ Len(Tail(recording[t])) = Len(recording[t]) - 1
      /\ \A j \in 1..(Len(recording[t]) - 1) : Tail(recording[t])[j] = recording[t][j + 1]
  BY <1>1, <1>2 DEF ObservationTypes
<1>4. ObservationTypes'
  <2>1. counters' \in [Observation!Range(Observation!Counter) -> Nat]
    <3>0. PICK v \in Nat : v = counters[Observation!Counter[k]] BY CounterTypes
    <3>1. counters[Observation!Counter[k]] + amount \in Nat BY <3>0
    <3> QED BY <3>1, <1>2 DEF ObservationTypes
  <2>2. recording' \in [Thread -> Seq(Nat)] BY <1>2, <1>3 DEF ObservationTypes
  <2>3. \A s \in Thread : Len(recording'[s]) <= 4
    <3>1. Len(recording'[t]) = n - 1 /\ n - 1 <= 4 BY <1>1, <1>3
    <3> QED BY <3>1, <1>3 DEF ObservationTypes
  <2> QED BY <1>2, <2>1, <2>2, <2>3 DEF ObservationTypes
<1>5. ASSUME NEW i \in 1..4 PROVE \A s \in Thread \ {t} : Pending(recording', i)[s] = Pending(recording, i)[s]
  BY <1>3 DEF Pending
<1>6. Pending(recording, k)[t] = amount /\ Pending(recording', k)[t] = 0
  <2>1. k + n > 4 /\ k + n - 4 = 1 /\ ~(k + (n - 1) > 4) BY <1>1
  <2>2. Pending(recording, k)[t] = amount BY <2>1, <1>1 DEF Pending
  <2>3. Len(recording'[t]) = n - 1 BY <1>1, <1>3
  <2> QED BY <2>1, <2>2, <2>3 DEF Pending
<1>7. ASSUME NEW i \in 1..4, i # k PROVE Pending(recording', i) = Pending(recording, i)
  <2>0. Pending(recording, i) \in [Thread -> Nat] /\ Pending(recording', i) \in [Thread -> Nat]
    BY <1>4, PendingType DEF ObservationTypes
  <2>1. Len(recording'[t]) = n - 1 BY <1>1, <1>3
  <2>2. CASE i < k
    <3>1. ~(i + n > 4) /\ ~(i + (n - 1) > 4) BY <2>2, <1>1
    <3>2. Pending(recording, i)[t] = 0 /\ Pending(recording', i)[t] = 0
      BY <3>1, <2>1, <1>1 DEF Pending
    <3> QED BY <3>2, <2>0, <1>5
  <2>3. CASE i > k
    <3> DEFINE j0 == i + (n - 1) - 4
    <3>0. j0 \in 1..(n - 1) BY <2>3, <1>k
    <3> PICK j \in 1..(n - 1) : j = j0 BY <3>0
    <3>1. i + n > 4 /\ i + (n - 1) > 4 /\ i + n - 4 = j + 1 /\ i + (n - 1) - 4 = j BY <2>3, <1>1
    <3>2. Pending(recording, i)[t] = recording[t][j + 1] BY <3>1, <1>1 DEF Pending
    <3>3. Pending(recording', i)[t] = recording'[t][j] BY <3>1, <2>1 DEF Pending
    <3>4. Pending(recording', i)[t] = Pending(recording, i)[t] BY <3>2, <3>3, <1>1, <1>3
    <3> QED BY <3>4, <2>0, <1>5
  <2> QED BY <2>2, <2>3, <1>1, <1>7
<1>8. counters'[Observation!Counter[k]] = counters[Observation!Counter[k]] + amount
  BY <1>1, <1>2, CounterNames DEF ObservationTypes
<1>9. \A i \in 1..4 : i # k => counters'[Observation!Counter[i]] = counters[Observation!Counter[i]]
  BY <1>1, <1>2, CounterNames DEF ObservationTypes
<1>10. NothingLost'
  <2> SUFFICES ASSUME NEW i \in 1..4
      PROVE /\ IsFiniteSet(Units(Pending(recording', i)))
            /\ observed'[Observation!Counter[i]] = counters'[Observation!Counter[i]] + Cardinality(Units(Pending(recording', i)))
    BY DEF NothingLost
  <2>1. /\ IsFiniteSet(Units(Pending(recording, i)))
        /\ observed[Observation!Counter[i]] = counters[Observation!Counter[i]] + Cardinality(Units(Pending(recording, i)))
    BY DEF NothingLost
  <2>2. CASE i # k BY <2>1, <2>2, <1>2, <1>7, <1>9
  <2>3. CASE i = k
    <3>1. Pending(recording, i) \in [Thread -> Nat] BY PendingType DEF ObservationTypes
    <3>2. Pending(recording', i) \in [Thread -> Nat] BY <1>4, PendingType DEF ObservationTypes
    <3>3. /\ IsFiniteSet(Units(Pending(recording', i)))
          /\ Cardinality(Units(Pending(recording, i))) = Cardinality(Units(Pending(recording', i))) + Pending(recording, i)[t]
      <4>1. Pending(recording', i)[t] = 0 BY <1>6, <2>3
      <4> QED BY <3>1, <3>2, <2>1, <4>1, <1>5, UnitsTaken
    <3>4. Cardinality(Units(Pending(recording', i))) \in Nat /\ counters[Observation!Counter[i]] \in Nat
      BY <3>3, FS_CardinalityType, CounterNames DEF ObservationTypes
    <3>5. Pending(recording, i)[t] = amount /\ counters'[Observation!Counter[i]] = counters[Observation!Counter[i]] + amount
      BY <2>3, <1>6, <1>8
    <3>6. observed' = observed BY <1>2
    <3> DEFINE old == counters[Observation!Counter[i]]
               left == Cardinality(Units(Pending(recording', i)))
    <3>7. old \in Nat /\ left \in Nat /\ amount \in Nat BY <3>4
    <3>8. /\ observed'[Observation!Counter[i]] = old + (left + amount)
          /\ counters'[Observation!Counter[i]] = old + amount
      BY <3>3, <3>5, <3>6, <2>1
    <3>9. observed'[Observation!Counter[i]] = counters'[Observation!Counter[i]] + left
      <4> HIDE DEF old, left
      <4> QED BY <3>7, <3>8
    <3> QED BY <3>3, <3>9
  <2> QED BY <2>2, <2>3
<1>11. StartedBefore'
  <2> SUFFICES ASSUME NEW s \in Thread, NEW i \in 1..4
      PROVE started[s][Observation!Counter[i]] <= counters'[Observation!Counter[i]]
    BY <1>2 DEF StartedBefore
  <2>1. /\ started[s][Observation!Counter[i]] \in Nat /\ counters[Observation!Counter[i]] \in Nat
        /\ started[s][Observation!Counter[i]] <= counters[Observation!Counter[i]]
    BY CounterTypes DEF StartedBefore
  <2>2. CASE i = k BY <2>1, <2>2, <1>1, <1>8
  <2>3. CASE i # k BY <2>1, <2>3, <1>9
  <2> QED BY <2>2, <2>3
<1>12. Observation!SnapshotBounded' BY <1>2 DEF Observation!SnapshotBounded
<1> QED BY <1>4, <1>10, <1>11, <1>12

LEMMA BeginSnapshotInv ==
  ASSUME Observation!ObservationAssumption, ObservationInv, NEW t \in Thread, Observation!BeginSnapshot(t)
  PROVE  ObservationInv'
<1> USE DEF ObservationInv
<1>1. /\ snapshot' = [snapshot EXCEPT ![t] = <<counters[Observation!Counter[1]]>>]
      /\ started' = [started EXCEPT ![t] = counters]
      /\ UNCHANGED <<counters, recording, observed>>
  BY DEF Observation!BeginSnapshot
<1>2. counters[Observation!Counter[1]] \in Nat BY CounterNames DEF ObservationTypes
<1>3. ObservationTypes' BY <1>1, <1>2 DEF ObservationTypes
<1>4. NothingLost' BY <1>1 DEF NothingLost, Pending
<1>5. StartedBefore'
  <2> SUFFICES ASSUME NEW s \in Thread, NEW i \in 1..4
      PROVE started'[s][Observation!Counter[i]] <= counters[Observation!Counter[i]]
    BY <1>1 DEF StartedBefore
  <2>1. CASE s = t
    <3>1. started'[s] = counters BY <2>1, <1>1 DEF ObservationTypes
    <3>2. Observation!Counter[i] \in Observation!Range(Observation!Counter) BY CounterNames
    <3>3. PICK n \in Nat : n = counters[Observation!Counter[i]] BY <3>2 DEF ObservationTypes
    <3>4. n <= n OBVIOUS
    <3> QED BY <3>1, <3>3, <3>4
  <2>2. CASE s # t BY <2>2, <1>1 DEF ObservationTypes, StartedBefore
  <2> QED BY <2>1, <2>2
<1>6. Observation!SnapshotBounded'
  <2> SUFFICES ASSUME NEW s \in Thread, NEW i \in 1..4, i <= Len(snapshot'[s])
      PROVE /\ started'[s][Observation!Counter[i]] <= snapshot'[s][i]
            /\ snapshot'[s][i] <= observed[Observation!Counter[i]]
    BY <1>1, CounterNames DEF Observation!SnapshotBounded
  <2>1. CASE s = t
    <3>1. snapshot'[s] = <<counters[Observation!Counter[1]]>> /\ started'[s] = counters
      BY <2>1, <1>1 DEF ObservationTypes
    <3>2. i = 1 BY <3>1
    <3> QED BY <3>1, <3>2, <1>2, CountedIsQueried
  <2>2. CASE s # t
    <3>1. snapshot'[s] = snapshot[s] /\ started'[s] = started[s]
      BY <2>2, <1>1 DEF ObservationTypes
    <3> QED BY <3>1, CounterNames DEF Observation!SnapshotBounded
  <2> QED BY <2>1, <2>2
<1> QED BY <1>3, <1>4, <1>5, <1>6

LEMMA LoadInv ==
  ASSUME Observation!ObservationAssumption, ObservationInv, NEW t \in Thread, Observation!Load(t)
  PROVE  ObservationInv'
<1> USE DEF ObservationInv
<1> DEFINE k == Len(snapshot[t]) + 1
           v == counters[Observation!Counter[k]]
<1>1. snapshot[t] \in Seq(Nat) /\ Len(snapshot[t]) \in 1..3 /\ k \in 1..4
  <2>1. snapshot[t] \in Seq(Nat) /\ Len(snapshot[t]) \in 0..4 BY CounterTypes
  <2>2. Len(snapshot[t]) \in 1..3 BY CounterNames DEF Observation!Load
  <2>3. PICK n \in 1..3 : n = Len(snapshot[t]) BY <2>2
  <2>4. n + 1 \in 1..4 OBVIOUS
  <2> QED BY <2>1, <2>2, <2>3, <2>4
<1>2. v \in Nat /\ started[t][Observation!Counter[k]] <= v /\ v <= observed[Observation!Counter[k]]
  BY <1>1, CounterNames, CountedIsQueried DEF ObservationTypes, StartedBefore
<1>3. /\ snapshot' = [snapshot EXCEPT ![t] = Append(@, counters[Observation!Counter[Len(@) + 1]])]
      /\ UNCHANGED <<counters, recording, observed, started>>
  BY DEF Observation!Load
<1>4. /\ snapshot'[t] = Append(snapshot[t], v) /\ Append(snapshot[t], v) \in Seq(Nat)
      /\ Len(Append(snapshot[t], v)) = k /\ Append(snapshot[t], v)[k] = v
      /\ \A i \in 1..(k - 1) : Append(snapshot[t], v)[i] = snapshot[t][i]
  BY <1>1, <1>2, <1>3 DEF ObservationTypes
<1>5. \A s \in Thread : s # t => snapshot'[s] = snapshot[s]
  BY <1>3 DEF ObservationTypes
<1>6. ObservationTypes' 
  <2>1. snapshot' \in [Thread -> Seq(Nat)] BY <1>3, <1>4 DEF ObservationTypes
  <2> QED BY <1>1, <1>3, <1>4, <1>5, <2>1 DEF ObservationTypes
<1>7. NothingLost' BY <1>3 DEF NothingLost, Pending
<1>8. StartedBefore' BY <1>3 DEF StartedBefore
<1>9. Observation!SnapshotBounded'
  <2> SUFFICES ASSUME NEW s \in Thread, NEW i \in 1..4, i <= Len(snapshot'[s])
      PROVE /\ started[s][Observation!Counter[i]] <= snapshot'[s][i]
            /\ snapshot'[s][i] <= observed[Observation!Counter[i]]
    BY <1>3, CounterNames DEF Observation!SnapshotBounded
  <2>1. CASE s = t
    <3>1. i \in 1..k BY <2>1, <1>1, <1>4
    <3>2. CASE i = k BY <3>2, <2>1, <1>2, <1>4
    <3>3. CASE i # k
      <4>1. i \in 1..(k - 1) /\ i <= Len(snapshot[t]) BY <3>1, <3>3, <1>1
      <4>2. snapshot'[s][i] = snapshot[s][i] BY <4>1, <2>1, <1>4
      <4> QED BY <4>1, <4>2, <2>1, CounterNames DEF Observation!SnapshotBounded
    <3> QED BY <3>2, <3>3
  <2>2. CASE s # t BY <2>2, <1>5, CounterNames DEF Observation!SnapshotBounded
  <2> QED BY <2>1, <2>2
<1> QED BY <1>6, <1>7, <1>8, <1>9

LEMMA SetObservabilityInv ==
  ASSUME Observation!ObservationAssumption, ObservationInv, NEW on \in BOOLEAN,
         Observation!SetObservability(on)
  PROVE  ObservationInv'
<1> USE DEF ObservationInv
<1>1. /\ \A t \in Thread : recording'[t] = <<>> /\ recording'[t] = recording[t]
      /\ counters' = Observation!Zero /\ observed' = Observation!Zero
      /\ snapshot' = [t \in Thread |-> <<>>] /\ started' = [t \in Thread |-> Observation!Zero]
      /\ recording' = recording
  BY DEF Observation!SetObservability, Observation!Idle, Observation!NoSnapshot
<1>2. Observation!Zero \in [Observation!Range(Observation!Counter) -> Nat]
      /\ \A i \in 1..4 : Observation!Zero[Observation!Counter[i]] = 0
  BY CounterNames DEF Observation!Zero
<1>3. ObservationTypes' BY <1>1, <1>2 DEF ObservationTypes
<1>4. ASSUME NEW i \in 1..4 PROVE \A t \in Thread : Pending(recording', i)[t] = 0
  BY <1>1 DEF Pending
<1>5. NothingLost'
  <2> SUFFICES ASSUME NEW i \in 1..4
      PROVE /\ IsFiniteSet(Units(Pending(recording', i)))
            /\ observed'[Observation!Counter[i]] = counters'[Observation!Counter[i]] + Cardinality(Units(Pending(recording', i)))
    BY DEF NothingLost
  <2>0. Pending(recording', i) \in [Thread -> Nat] BY <1>3, PendingType DEF ObservationTypes
  <2>1. IsFiniteSet(Units(Pending(recording', i))) /\ Cardinality(Units(Pending(recording', i))) = 0
    BY <2>0, <1>4, NoUnits
  <2> QED BY <2>1, <1>1, <1>2
<1>6. StartedBefore' BY <1>1, <1>2 DEF StartedBefore
<1>7. Observation!SnapshotBounded' BY <1>1, CounterNames DEF Observation!SnapshotBounded
<1> QED BY <1>3, <1>5, <1>6, <1>7

LEMMA ObservationNextInv ==
  ASSUME Observation!ObservationAssumption, ObservationInv, Observation!Next
  PROVE  ObservationInv'
  BY QueryManyInv, RecordInv, BeginSnapshotInv, LoadInv, SetObservabilityInv DEF Observation!Next

(* When nothing is on its way, everything is counted. *)
LEMMA InvTotals ==
  ASSUME ObservationInv
  PROVE  Observation!TotalsExact
<1> USE DEF ObservationInv
<1> SUFFICES ASSUME \A t \in Thread : recording[t] = <<>> PROVE counters = observed
  BY DEF Observation!TotalsExact
<1>1. ASSUME NEW i \in 1..4
      PROVE counters[Observation!Counter[i]] = observed[Observation!Counter[i]]
  <2>1. \A t \in Thread : Pending(recording, i)[t] = 0 BY DEF Pending
  <2>2. Pending(recording, i) \in [Thread -> Nat] BY PendingType DEF ObservationTypes
  <2>3. Cardinality(Units(Pending(recording, i))) = 0 BY <2>1, <2>2, NoUnits
  <2> QED BY <2>3, CounterTypes DEF NothingLost
<1>2. \A c \in Observation!Range(Observation!Counter) : counters[c] = observed[c]
  BY <1>1, CounterNames
<1> QED BY <1>2 DEF ObservationTypes

-----------------------------------------------------------------------------
(***************************************************************************)
(* The bucket statistics                                                   *)
(***************************************************************************)

DistributionInv == sizes \in [0..MaxSize -> Nat]

LEMMA DistributionInitInv ==
  ASSUME Distribution!DistributionAssumption, Distribution!Init
  PROVE  DistributionInv
  BY DEF DistributionInv, Distribution!Init, Distribution!DistributionAssumption

LEMMA DistributionNextInv ==
  ASSUME Distribution!DistributionAssumption, DistributionInv, Distribution!Next
  PROVE  DistributionInv'
<1>1. PICK n \in 0..MaxSize : sizes' = [sizes EXCEPT ![n] = @ + 1]
  BY DEF Distribution!Next, Distribution!Add
<1>2. PICK v \in Nat : v = sizes[n] BY DEF DistributionInv
<1>3. v + 1 \in Nat OBVIOUS
<1> QED BY <1>1, <1>2, <1>3 DEF DistributionInv

(* The running total of a list of sizes. *)
IsTotal(f, s, N) == f \in [0..N -> Nat] /\ f[0] = 0 /\ \A n \in 1..N : f[n] = f[n - 1] + s[n]

LEMMA TotalExists ==
  ASSUME NEW N \in Nat, NEW s \in [0..N -> Nat]
  PROVE  \E f : IsTotal(f, s, N)
<1> DEFINE G == [n \in 1..N |-> [x \in Nat |-> x + s[n]]]
<1>1. G \in [1..N -> [Nat -> Nat]]
  <2> SUFFICES ASSUME NEW n \in 1..N, NEW x \in Nat PROVE x + s[n] \in Nat
    OBVIOUS
  <2>1. PICK v \in Nat : v = s[n] OBVIOUS
  <2>2. x + v \in Nat OBVIOUS
  <2> QED BY <2>1, <2>2
<1>2. PICK f : IsRecursive(f, N, 0, G, Nat)
  <2> HIDE DEF G
  <2> QED BY <1>1, RecursionExists
<1>3. f \in [0..N -> Nat] /\ f[0] = 0 /\ \A n \in 1..N : f[n] = G[n][f[n - 1]]
  BY <1>2 DEF IsRecursive
<1>4. ASSUME NEW n \in 1..N PROVE f[n] = f[n - 1] + s[n]
  <2>1. n - 1 \in 0..N OBVIOUS
  <2>2. f[n - 1] \in Nat BY <1>3, <2>1
  <2> QED BY <1>3, <2>2
<1> QED BY <1>3, <1>4 DEF IsTotal

LEMMA TotalRestricted ==
  ASSUME NEW N \in Nat, NEW s, NEW f, IsTotal(f, s, N), NEW n \in 0..N
  PROVE  IsTotal([i \in 0..n |-> f[i]], s, n)
  BY DEF IsTotal

Totals(g, s, N) == g = [i \in 0..N |-> IF i = 0 THEN 0 ELSE g[i - 1] + s[i]]

LEMMA TotalUnique ==
  ASSUME NEW N \in Nat, NEW s, NEW f, IsTotal(f, s, N), NEW g, Totals(g, s, N)
  PROVE  g[N] = f[N]
<1> DEFINE H == [i \in 0..N |-> IF i = 0 THEN 0 ELSE g[i - 1] + s[i]]
           T == {i \in 0..N : g[i] = f[i]}
<1>1. H[0] = 0 OBVIOUS
<1>2. ASSUME NEW i \in 0..(N - 1) PROVE H[i + 1] = g[i] + s[i + 1]
  <2>1. i + 1 \in 0..N /\ i + 1 # 0 /\ (i + 1) - 1 = i OBVIOUS
  <2>2. H[i + 1] = g[(i + 1) - 1] + s[i + 1] BY <2>1
  <2> QED BY <2>1, <2>2
<1>3. g = H BY DEF Totals
<1> HIDE DEF H
<1>4. 0 \in T BY <1>1, <1>3 DEF IsTotal
<1>5. ASSUME NEW i \in 0..(N - 1), i \in T PROVE i + 1 \in T
  <2>1. i + 1 \in 1..N /\ i + 1 \in 0..N /\ (i + 1) - 1 = i OBVIOUS
  <2>2. f[i + 1] = f[(i + 1) - 1] + s[i + 1] BY <2>1 DEF IsTotal
  <2>3. g[i + 1] = g[i] + s[i + 1] /\ g[i] = f[i] BY <1>2, <1>3, <1>5
  <2> QED BY <2>1, <2>2, <2>3
<1>6. \A i \in 0..N : i \in T
  <2> HIDE DEF T
  <2> QED BY <1>4, <1>5, InductionUpTo
<1> QED BY <1>6

LEMMA UpToIs ==
  ASSUME NEW N \in Nat, MaxSize = N, sizes \in [0..N -> Nat], NEW f, IsTotal(f, sizes, N),
         NEW n \in 0..N
  PROVE  Distribution!UpTo(n) = f[n]
<1> DEFINE g == CHOOSE h : h = [i \in 0..n |-> IF i = 0 THEN 0 ELSE h[i - 1] + sizes[i]]
           r == [i \in 0..n |-> f[i]]
<1>1. Distribution!UpTo(n) = g[n]
  BY DEF Distribution!UpTo
<1>2. IsTotal(r, sizes, n)
  BY TotalRestricted
<1>3. r = [i \in 0..n |-> IF i = 0 THEN 0 ELSE r[i - 1] + sizes[i]]
  <2>1. ASSUME NEW i \in 0..n PROVE r[i] = IF i = 0 THEN 0 ELSE r[i - 1] + sizes[i]
    <3> HIDE DEF r
    <3>1. CASE i = 0 BY <3>1, <1>2 DEF IsTotal
    <3>2. CASE i # 0
      <4>1. i \in 1..n BY <3>2
      <4> QED BY <3>2, <4>1, <1>2 DEF IsTotal
    <3> QED BY <3>1, <3>2
  <2> DEFINE F == [i \in 0..n |-> IF i = 0 THEN 0 ELSE r[i - 1] + sizes[i]]
  <2>2. DOMAIN r = 0..n /\ \A i \in 0..n : r[i] = F[i] BY <2>1
  <2>3. r = F
    <3> HIDE DEF F
    <3>1. F = [i \in 0..n |-> F[i]] BY DEF F
    <3>2. r = [i \in 0..n |-> r[i]] OBVIOUS
    <3> HIDE DEF r
    <3> QED BY <2>2, <3>1, <3>2
  <2> QED BY <2>3
<1> HIDE DEF r
<1>4. g = [i \in 0..n |-> IF i = 0 THEN 0 ELSE g[i - 1] + sizes[i]]
  BY <1>3
<1> HIDE DEF g
<1>5. g[n] = r[n]
  <2>1. n \in Nat OBVIOUS
  <2>2. Totals(g, sizes, n) BY <1>4 DEF Totals
  <2> QED BY <2>1, <2>2, <1>2, TotalUnique
<1> QED BY <1>1, <1>5 DEF r

(* The arithmetic of a rank, for the percentiles that are computed. *)
IsRank(r, n, p) == r \in 1..n /\ 100 * r >= p * n /\ 100 * (r - 1) < p * n

LEMMA RankBounds ==
  ASSUME NEW n \in Nat \ {0}, NEW p \in {50, 95, 99}
  PROVE  IsRank(Distribution!Rank(n, p), n, p)
<1> USE DEF IsRank
<1> DEFINE q == n \div 100
           m == n % 100
<1>1. q \in Nat /\ m \in 0..99 /\ n = 100 * q + m
  OBVIOUS
<1>2. Distribution!Rank(n, p) = q * p + ((m * p + 100 - 1) \div 100)
  BY DEF Distribution!Rank, Distribution!DivCeil
<1> HIDE DEF q, m
<1>3. CASE p = 50
  <2>1. PICK d \in Nat : d = (m * 50 + 100 - 1) \div 100 BY <1>1
  <2>2. 100 * d >= m * 50 /\ 100 * d <= m * 50 + 99 BY <1>1, <2>1
  <2>3. Distribution!Rank(n, p) = q * 50 + d BY <1>2, <1>3, <2>1
  <2> QED BY <1>1, <1>3, <2>2, <2>3
<1>4. CASE p = 95
  <2>1. PICK d \in Nat : d = (m * 95 + 100 - 1) \div 100 BY <1>1
  <2>2. 100 * d >= m * 95 /\ 100 * d <= m * 95 + 99 BY <1>1, <2>1
  <2>3. Distribution!Rank(n, p) = q * 95 + d BY <1>2, <1>4, <2>1
  <2> QED BY <1>1, <1>4, <2>2, <2>3
<1>5. CASE p = 99
  <2>1. PICK d \in Nat : d = (m * 99 + 100 - 1) \div 100 BY <1>1
  <2>2. 100 * d >= m * 99 /\ 100 * d <= m * 99 + 99 BY <1>1, <2>1
  <2>3. Distribution!Rank(n, p) = q * 99 + d BY <1>2, <1>5, <2>1
  <2> QED BY <1>1, <1>5, <2>2, <2>3
<1> QED BY <1>3, <1>4, <1>5

(* Entry r of the sorted sizes is the size that brings the total to r. *)
LEMMA SortedIs ==
  ASSUME NEW N \in Nat, MaxSize = N, sizes \in [0..N -> Nat], NEW f, IsTotal(f, sizes, N),
         NEW r \in 1..f[N]
  PROVE  /\ Distribution!Sorted(r) \in 1..N
         /\ f[Distribution!Sorted(r)] >= r
         /\ f[Distribution!Sorted(r) - 1] < r
<1> DEFINE A == {n \in 1..N : Distribution!UpTo(n) >= r}
           v == Distribution!Sorted(r)
<1>0. PICK B \in Nat : B = f[N] BY DEF IsTotal
<1>1. r \in Nat /\ r >= 1 /\ B >= r BY <1>0
<1>2. N \in 1..N BY <1>0, <1>1 DEF IsTotal
<1>3. N \in A
  <2>1. Distribution!UpTo(N) = f[N] BY UpToIs
  <2> QED BY <1>0, <1>1, <1>2, <2>1
<1>4. \E x \in A : \A y \in A : x <= y
  <2>1. A \in SUBSET Nat /\ A # {} BY <1>3
  <2> HIDE DEF A
  <2> QED BY <2>1, LeastNumber
<1>5. v = CHOOSE x \in A : \A y \in A : x <= y
  BY DEF Distribution!Sorted, Distribution!Min, Distribution!Positive
<1>6. v \in A /\ \A y \in A : v <= y
  <2> HIDE DEF A, v
  <2> QED BY <1>4, <1>5
<1> HIDE DEF v
<1>7. v \in 1..N /\ f[v] >= r
  <2>1. v \in 1..N /\ Distribution!UpTo(v) >= r BY <1>6
  <2>2. Distribution!UpTo(v) = f[v] BY <2>1, UpToIs
  <2> QED BY <2>1, <2>2
<1>8. f[v - 1] < r
  <2>1. CASE v = 1 BY <2>1, <1>1 DEF IsTotal
  <2>2. CASE v # 1
    <3>1. v - 1 \in 1..N /\ ~(v <= v - 1) BY <1>7, <2>2
    <3>2. v - 1 \notin A BY <1>6, <3>1
    <3>3. ~(Distribution!UpTo(v - 1) >= r) BY <3>1, <3>2
    <3>4. Distribution!UpTo(v - 1) = f[v - 1] BY <3>1, UpToIs
    <3>5. PICK w \in Nat : w = f[v - 1] BY <3>1 DEF IsTotal
    <3>6. ~(w >= r) BY <3>3, <3>4, <3>5
    <3>7. w < r BY <3>6, <1>1
    <3> QED BY <3>5, <3>7
  <2> QED BY <2>1, <2>2
<1> QED BY <1>7, <1>8 DEF v

LEMMA NearestRankIs ==
  ASSUME NEW N \in Nat, MaxSize = N, sizes \in [0..N -> Nat], Distribution!Buckets > 0,
         NEW p \in {50, 95, 99}
  PROVE  /\ Distribution!Rank(Distribution!Buckets, p) \in 1..Distribution!Buckets
         /\ Distribution!IsPercentile(Distribution!NearestRank(p), p)
<1>1. PICK f : IsTotal(f, sizes, N) BY TotalExists
<1>2. PICK B \in Nat : B = f[N] BY <1>1 DEF IsTotal
<1>3. Distribution!Buckets = B BY <1>1, <1>2, UpToIs DEF Distribution!Buckets
<1>4. B > 0 BY <1>3
<1>5. PICK r : r = Distribution!Rank(B, p) OBVIOUS
<1>6. r \in 1..B /\ 100 * r >= p * B /\ 100 * (r - 1) < p * B
  <2>1. B \in Nat \ {0} BY <1>4
  <2>2. IsRank(Distribution!Rank(B, p), B, p) BY <2>1, RankBounds
  <2>3. IsRank(r, B, p) BY <2>2, <1>5
  <2> QED BY <2>3 DEF IsRank
<1>7. r \in 1..f[N] BY <1>2, <1>6
<1>8. PICK v : v = Distribution!Sorted(r) OBVIOUS
<1>9. v \in 1..N /\ f[v] >= r /\ f[v - 1] < r BY <1>1, <1>7, <1>8, SortedIs
<1>10. v \in 0..N /\ v - 1 \in 0..N BY <1>9
<1>11. PICK x \in Nat : x = f[v] BY <1>1, <1>10 DEF IsTotal
<1>12. PICK y \in Nat : y = f[v - 1] BY <1>1, <1>10 DEF IsTotal
<1>13. PICK z \in Nat : z = sizes[v] BY <1>10
<1>14. x = y + z BY <1>1, <1>9, <1>11, <1>12, <1>13 DEF IsTotal
<1>15. x >= r /\ y < r BY <1>9, <1>11, <1>12
<1>16. z > 0 BY <1>6, <1>14, <1>15
<1>17. 100 * x >= p * B /\ 100 * y < p * B
  <2>1. p \in Nat /\ r \in Nat BY <1>6
  <2>2. PICK t \in Nat : t = p * B BY <2>1
  <2>3. 100 * r >= t /\ 100 * (r - 1) < t BY <1>6, <2>2
  <2>4. 100 * x >= t /\ 100 * y < t BY <1>15, <2>1, <2>3
  <2> QED BY <2>2, <2>4
<1>18. Distribution!UpTo(v) = x /\ Distribution!UpTo(v - 1) = y
  BY <1>1, <1>10, <1>11, <1>12, UpToIs
<1>19. Distribution!NearestRank(p) = v
  BY <1>3, <1>5, <1>8 DEF Distribution!NearestRank
<1>20. Distribution!IsPercentile(v, p)
  BY <1>3, <1>13, <1>16, <1>17, <1>18 DEF Distribution!IsPercentile
<1> QED BY <1>3, <1>5, <1>6, <1>19, <1>20

LEMMA InvPercentiles ==
  ASSUME Distribution!DistributionAssumption, DistributionInv
  PROVE  Distribution!PercentilesExact
<1> SUFFICES ASSUME Distribution!Buckets > 0
    PROVE /\ \A p \in {50, 95, 99} : Distribution!Rank(Distribution!Buckets, p) \in 1..Distribution!Buckets
          /\ Distribution!IsPercentile(Distribution!Summary.p50, 50)
          /\ Distribution!IsPercentile(Distribution!Summary.p95, 95)
          /\ Distribution!IsPercentile(Distribution!Summary.p99, 99)
  BY DEF Distribution!PercentilesExact
<1>1. PICK N \in Nat : N = MaxSize BY DEF Distribution!DistributionAssumption
<1>2. \A p \in {50, 95, 99} :
        /\ Distribution!Rank(Distribution!Buckets, p) \in 1..Distribution!Buckets
        /\ Distribution!IsPercentile(Distribution!NearestRank(p), p)
  BY <1>1, NearestRankIs DEF DistributionInv
<1>3. Distribution!Buckets # 0 OBVIOUS
<1>4. /\ Distribution!Summary.p50 = Distribution!NearestRank(50)
      /\ Distribution!Summary.p95 = Distribution!NearestRank(95)
      /\ Distribution!Summary.p99 = Distribution!NearestRank(99)
  BY <1>3 DEF Distribution!Summary
<1> QED BY <1>2, <1>4

-----------------------------------------------------------------------------
(***************************************************************************)
(* Batches                                                                 *)
(***************************************************************************)

LEMMA LeastOfTwo ==
  ASSUME NEW a \in Int, NEW b \in Int
  PROVE  Batch!Least({a, b}) = IF a <= b THEN a ELSE b
<1>1. \E x \in {a, b} : \A y \in {a, b} : x <= y OBVIOUS
<1>2. PICK x : x = Batch!Least({a, b}) OBVIOUS
<1>3. x \in {a, b} /\ \A y \in {a, b} : x <= y BY <1>1, <1>2 DEF Batch!Least
<1> QED BY <1>2, <1>3

LEMMA LeastOfThree ==
  ASSUME NEW a \in Int, NEW b \in Int, NEW c \in Int
  PROVE  /\ Batch!Least({a, b, c}) \in {a, b, c}
         /\ Batch!Least({a, b, c}) <= a /\ Batch!Least({a, b, c}) <= b /\ Batch!Least({a, b, c}) <= c
<1>1. \E x \in {a, b, c} : \A y \in {a, b, c} : x <= y OBVIOUS
<1>2. PICK x : x = Batch!Least({a, b, c}) OBVIOUS
<1>3. x \in {a, b, c} /\ \A y \in {a, b, c} : x <= y BY <1>1, <1>2 DEF Batch!Least
<1> QED BY <1>2, <1>3

LEMMA EffectiveIs ==
  ASSUME Batch!BatchAssumption, NEW choice \in Batch!Threads, NEW n \in Nat
  PROVE  LET e == Batch!EffectiveThreads(choice, n)
         IN /\ e \in Nat \ {0}
            /\ e > 1 => /\ e <= n /\ e <= Available
                        /\ choice \notin {Automatic, Sequential} => e <= choice
<1> DEFINE e == Batch!EffectiveThreads(choice, n)
           requested == IF choice = Automatic THEN Batch!Least({Available, AutoMax}) ELSE choice
           capped == Batch!Least({requested, Available, n})
<1>1. Available \in Nat /\ AutoMax \in Nat BY DEF Batch!BatchAssumption
<1>2. CASE n < MinRows \/ choice = Sequential
  <2>1. e = 1 BY <1>2 DEF Batch!EffectiveThreads
  <2> QED BY <2>1
<1>3. CASE ~(n < MinRows \/ choice = Sequential)
  <2>1. requested \in Nat /\ (choice # Automatic => requested = choice)
    <3>1. CASE choice = Automatic
      <4>1. Batch!Least({Available, AutoMax}) = IF Available <= AutoMax THEN Available ELSE AutoMax
        BY <1>1, LeastOfTwo
      <4> QED BY <1>1, <3>1, <4>1
    <3>2. CASE choice # Automatic
      <4>1. choice \in 1..(Available + 1) BY <1>3, <3>2, Zenon DEF Batch!Threads
      <4>2. choice \in Nat BY <4>1, <1>1
      <4>3. requested = choice BY <3>2
      <4> QED BY <4>2, <4>3
    <3> QED BY <3>1, <3>2
  <2>2. e = IF capped = 0 THEN 1 ELSE capped
    BY <1>3, Zenon DEF Batch!EffectiveThreads
  <2> HIDE DEF requested
  <2>3. capped \in {requested, Available, n} /\ capped <= requested /\ capped <= Available /\ capped <= n
    <3>1. requested \in Int /\ Available \in Int /\ n \in Int BY <2>1, <1>1
    <3> QED BY <3>1, LeastOfThree
  <2> HIDE DEF capped, e
  <2>4. capped \in Nat BY <2>1, <2>3, <1>1
  <2>5. e \in Nat \ {0} /\ (e > 1 => e <= n /\ e <= Available /\ e <= requested)
    BY <2>1, <2>2, <2>3, <2>4, <1>1
  <2> QED BY <2>1, <2>5 DEF e
<1> QED BY <1>2, <1>3

LEMMA DivCeilIs ==
  ASSUME NEW n \in Nat, NEW d \in Nat \ {0}
  PROVE  \E k \in Nat : /\ k = Batch!DivCeil(n, d)
                        /\ n <= k * d
                        /\ (k - 1) * d < n \/ n = 0
<1> DEFINE k == (n + d - 1) \div d
<1>1. k \in Nat /\ k * d <= n + d - 1 /\ n + d - 1 < (k + 1) * d
  OBVIOUS
<1>2. k = Batch!DivCeil(n, d) BY DEF Batch!DivCeil
<1> HIDE DEF k
<1>3. (k + 1) * d = k * d + d /\ (k - 1) * d = k * d - d BY <1>1
<1>4. PICK m \in Nat : m = k * d BY <1>1
<1>5. n <= m /\ m - d < n BY <1>1, <1>3, <1>4
<1> QED BY <1>1, <1>2, <1>3, <1>4, <1>5

(* The rows up to m, in order. *)
Prefix(m) == [j \in 1..m |-> j]

LEMMA PrefixExtended ==
  ASSUME NEW a \in Nat, NEW b \in Nat
  PROVE  Prefix(a) \o [j \in 1..b |-> a + j] = Prefix(a + b)
<1> DEFINE s == Prefix(a)
           t == [j \in 1..b |-> a + j]
           u == Prefix(a + b)
<1>1. s \in [1..a -> Nat] /\ t \in [1..b -> Nat] /\ u \in [1..(a + b) -> Nat]
  BY DEF Prefix
<1>2. s \in Seq(Nat) /\ t \in Seq(Nat) /\ Len(s) = a /\ Len(t) = b
  BY <1>1
<1>3. /\ \A j \in 1..a : s[j] = j
      /\ \A j \in 1..b : t[j] = a + j
      /\ \A j \in 1..(a + b) : u[j] = j
  BY DEF Prefix
<1> HIDE DEF s, t, u
<1>4. s \o t \in Seq(Nat) /\ Len(s \o t) = a + b
      /\ \A j \in 1..(a + b) : (s \o t)[j] = IF j <= a THEN s[j] ELSE t[j - a]
  BY <1>2, ConcatProperties
<1>5. ASSUME NEW j \in 1..(a + b) PROVE (IF j <= a THEN s[j] ELSE t[j - a]) = u[j]
  <2>1. CASE j <= a BY <2>1, <1>3
  <2>2. CASE ~(j <= a)
    <3>1. j - a \in 1..b /\ a + (j - a) = j BY <2>2
    <3> QED BY <2>2, <3>1, <1>3
  <2> QED BY <2>1, <2>2
<1>6. u = [j \in 1..(a + b) |-> u[j]] BY <1>1
<1>7. s \o t = u
  <2>1. PICK c : c = s \o t OBVIOUS
  <2>2. c \in Seq(Nat) /\ Len(c) = a + b BY <1>4, <2>1
  <2>3. \A j \in 1..(a + b) : c[j] = u[j] BY <1>4, <1>5, <2>1
  <2>4. c = [j \in 1..(a + b) |-> c[j]] BY <2>2
  <2>5. c = u BY <2>3, <2>4, <1>6
  <2> QED BY <2>1, <2>5
<1> QED BY <1>7 DEF s, t, u

(* Chunk i of rows 1..n, s rows a chunk. *)
ChunkOf(n, s, i) == [j \in 1..Batch!Least({s, n - (i - 1) * s}) |-> (i - 1) * s + j]

(* The rows of the first i chunks. *)
EndOf(n, s, i) == IF i * s <= n THEN i * s ELSE n

LEMMA ChunkAppended ==
  ASSUME NEW n \in Nat, NEW s \in Nat \ {0}, NEW k \in Nat \ {0}, n <= k * s, (k - 1) * s < n,
         NEW i \in 1..k
  PROVE  /\ ChunkOf(n, s, i) \in Seq(Nat)
         /\ EndOf(n, s, i) \in Nat /\ EndOf(n, s, i - 1) \in Nat
         /\ Prefix(EndOf(n, s, i - 1)) \o ChunkOf(n, s, i) = Prefix(EndOf(n, s, i))
<1>1. PICK a \in Nat : a = (i - 1) * s
  <2>1. i - 1 \in Nat OBVIOUS
  <2> QED BY <2>1
<1>2. a < n
  <2>1. PICK c \in Nat : c = (k - 1) * s
    <3>1. k - 1 \in Nat OBVIOUS
    <3> QED BY <3>1
  <2>2. a <= c
    <3>1. PICK x \in Nat : x = i - 1 OBVIOUS
    <3>2. PICK y \in Nat : y = k - 1 OBVIOUS
    <3>3. x <= y BY <3>1, <3>2
    <3>4. x * s <= y * s BY <3>3
    <3> QED BY <1>1, <2>1, <3>1, <3>2, <3>4
  <2> QED BY <2>1, <2>2
<1>3. i * s = a + s
  <2>1. PICK x \in Nat : x = i - 1 OBVIOUS
  <2>2. i = x + 1 BY <2>1
  <2>3. (x + 1) * s = x * s + s OBVIOUS
  <2> QED BY <1>1, <2>1, <2>2, <2>3
<1>4. PICK b \in Nat : b = Batch!Least({s, n - a}) /\ EndOf(n, s, i) = a + b
  <2>1. Batch!Least({s, n - a}) = IF s <= n - a THEN s ELSE n - a BY LeastOfTwo
  <2>2. EndOf(n, s, i) = IF a + s <= n THEN a + s ELSE n BY <1>3 DEF EndOf
  <2> DEFINE b0 == IF s <= n - a THEN s ELSE n - a
  <2>b. b0 \in Nat BY <1>2
  <2>3. PICK b \in Nat : b = b0 BY <2>b
  <2>4. (IF a + s <= n THEN a + s ELSE n) = a + b BY <2>3, <1>2
  <2> QED BY <2>1, <2>2, <2>3, <2>4
<1>5. EndOf(n, s, i - 1) = a BY <1>1, <1>2 DEF EndOf
<1>6. ChunkOf(n, s, i) = [j \in 1..b |-> a + j] BY <1>1, <1>4 DEF ChunkOf
<1>7. [j \in 1..b |-> a + j] \in Seq(Nat)
  <2>1. [j \in 1..b |-> a + j] \in [1..b -> Nat] OBVIOUS
  <2> QED BY <2>1
<1>8. Prefix(a) \o [j \in 1..b |-> a + j] = Prefix(a + b) BY PrefixExtended
<1>9. a + b \in Nat OBVIOUS
<1> HIDE DEF Prefix
<1> QED BY <1>4, <1>5, <1>6, <1>7, <1>8, <1>9, Zenon

(* Chunks that are each at their position are the rows in order. *)
LEMMA Flattened ==
  ASSUME NEW n \in Nat, NEW s \in Nat \ {0}, NEW k \in Nat \ {0}, n <= k * s, (k - 1) * s < n,
         NEW parts, parts = [i \in 1..k |-> ChunkOf(n, s, i)]
  PROVE  Batch!FlattenSeq(parts) = Prefix(n)
<1>0. \A i \in 1..k : /\ ChunkOf(n, s, i) \in Seq(Nat)
                      /\ EndOf(n, s, i) \in Nat /\ EndOf(n, s, i - 1) \in Nat
                      /\ Prefix(EndOf(n, s, i - 1)) \o ChunkOf(n, s, i) = Prefix(EndOf(n, s, i))
  BY ChunkAppended
<1>1. parts \in [1..k -> Seq(Nat)] /\ \A i \in 1..k : parts[i] = ChunkOf(n, s, i)
  BY <1>0
<1>2. parts \in Seq(Seq(Nat)) /\ Len(parts) = k
  BY <1>1
<1> DEFINE f == [i \in 1..k |-> Prefix(EndOf(n, s, i))]
           g == CHOOSE h : h = [i \in 1..k |-> IF i = 1 THEN parts[i] ELSE h[i - 1] \o parts[i]]
<1>3. Batch!FlattenSeq(parts) = g[k]
  <2>1. k # 0 OBVIOUS
  <2> QED BY <1>2, <2>1 DEF Batch!FlattenSeq
<1>4. ASSUME NEW i \in 1..k PROVE f[i] = IF i = 1 THEN parts[i] ELSE f[i - 1] \o parts[i]
  <2>1. CASE i = 1
    <3>1. EndOf(n, s, 0) = 0 /\ 1 - 1 = 0 BY DEF EndOf
    <3>2. Prefix(0) = <<>> BY DEF Prefix
    <3>3. 1 \in 1..k OBVIOUS
    <3>4. Prefix(EndOf(n, s, 1 - 1)) \o ChunkOf(n, s, 1) = Prefix(EndOf(n, s, 1)) BY <1>0, <3>3
    <3>5. <<>> \o ChunkOf(n, s, 1) = Prefix(EndOf(n, s, 1)) BY <3>1, <3>2, <3>4
    <3>6. <<>> \o ChunkOf(n, s, 1) = ChunkOf(n, s, 1) BY <1>0, <3>3
    <3> QED BY <2>1, <3>3, <3>5, <3>6, <1>1
  <2>2. CASE i # 1
    <3>1. i - 1 \in 1..k BY <2>2
    <3>2. f[i - 1] = Prefix(EndOf(n, s, i - 1)) BY <3>1
    <3> QED BY <2>2, <3>2, <1>0, <1>1
  <2> QED BY <2>1, <2>2
<1>5. f = [i \in 1..k |-> IF i = 1 THEN parts[i] ELSE f[i - 1] \o parts[i]]
  <2> DEFINE F == [i \in 1..k |-> IF i = 1 THEN parts[i] ELSE f[i - 1] \o parts[i]]
  <2>1. \A i \in 1..k : F[i] = f[i]
    <3> HIDE DEF f
    <3> QED BY <1>4
  <2>2. f = [i \in 1..k |-> f[i]] OBVIOUS
  <2>3. F = [i \in 1..k |-> F[i]]
    <3> HIDE DEF f
    <3> QED OBVIOUS
  <2> HIDE DEF f, F
  <2>4. f = F BY <2>1, <2>2, <2>3
  <2> QED BY <2>4 DEF F
<1> HIDE DEF f
<1>6. g = [i \in 1..k |-> IF i = 1 THEN parts[i] ELSE g[i - 1] \o parts[i]]
  BY <1>5
<1> HIDE DEF g
<1> DEFINE T == {m \in 0..(k - 1) : g[m + 1] = f[m + 1]}
<1>7. 0 \in T
  <2>1. 1 \in 1..k OBVIOUS
  <2>2. g[1] = parts[1] BY <1>6, <2>1
  <2>3. f[1] = parts[1] BY <1>5, <2>1
  <2> QED BY <2>2, <2>3
<1>8. ASSUME NEW m \in 0..((k - 1) - 1), m \in T PROVE m + 1 \in T
  <2> DEFINE i == m + 1
  <2>1. i \in 0..(k - 1) /\ i + 1 \in 1..k /\ i + 1 # 1 /\ (i + 1) - 1 = i OBVIOUS
  <2>2. g[i] = f[i] BY <1>8
  <2> HIDE DEF i, T
  <2>3. g[i + 1] = g[(i + 1) - 1] \o parts[i + 1]
    <3> DEFINE H == [x \in 1..k |-> IF x = 1 THEN parts[x] ELSE g[x - 1] \o parts[x]]
    <3>1. H[i + 1] = g[(i + 1) - 1] \o parts[i + 1] BY <2>1
    <3>2. g = H BY <1>6
    <3> HIDE DEF H
    <3> QED BY <3>1, <3>2
  <2>4. f[i + 1] = f[(i + 1) - 1] \o parts[i + 1] 
    <3> DEFINE H == [x \in 1..k |-> IF x = 1 THEN parts[x] ELSE f[x - 1] \o parts[x]]
    <3>1. H[i + 1] = f[(i + 1) - 1] \o parts[i + 1] BY <2>1
    <3>2. f = H BY <1>5
    <3> HIDE DEF H
    <3> QED BY <3>1, <3>2
  <2>5. g[i + 1] = f[i + 1] BY <2>1, <2>2, <2>3, <2>4
  <2> QED BY <2>1, <2>5 DEF T, i
<1>9. \A m \in 0..(k - 1) : m \in T
  <2>1. k - 1 \in Nat OBVIOUS
  <2> HIDE DEF T
  <2> QED BY <1>7, <1>8, <2>1, InductionUpTo
<1>10. g[k] = f[k]
  <2>1. k - 1 \in 0..(k - 1) /\ (k - 1) + 1 = k OBVIOUS
  <2>2. g[(k - 1) + 1] = f[(k - 1) + 1] BY <1>9, <2>1
  <2> QED BY <2>1, <2>2
<1>11. EndOf(n, s, k) = n
  <2>1. PICK m \in Nat : m = k * s OBVIOUS
  <2>2. n <= m BY <2>1
  <2> QED BY <2>1, <2>2 DEF EndOf
<1>12. f[k] = Prefix(n)
  <2>1. k \in 1..k OBVIOUS
  <2> QED BY <1>11, <2>1 DEF f
<1> QED BY <1>3, <1>10, <1>12

BatchTypes ==
  /\ rows \in [Call -> 0..MaxRows] /\ threads \in [Call -> Batch!Threads]
  /\ pc \in [Call -> {"start", "install", "done", "failed"}]
  /\ pool = [c \in Call |-> pool[c]] /\ result = [c \in Call |-> result[c]]
  /\ chunks = [c \in Call |-> chunks[c]]
  /\ waiting = [c \in Call |-> waiting[c]] /\ running = [c \in Call |-> running[c]]

(* A call that is installed has a pool of its own size, and every chunk    *)
(* that no worker holds and none has still to take is in its place.        *)
Installed(c) ==
  /\ Batch!Effective(c) > 1 /\ pool[c].threads = Batch!Effective(c)
  /\ chunks[c] = [i \in Batch!ChunkNumbers(c) |-> chunks[c][i]]
  /\ \A i \in Batch!ChunkNumbers(c) :
       i \notin waiting[c] /\ i \notin running[c] => chunks[c][i] = Batch!Chunk(c, i)

BatchInv ==
  BatchTypes /\ Batch!BatchInOrder /\ \A c \in Call : pc[c] = "install" => Installed(c)

LEMMA ChunkingIs ==
  ASSUME Batch!BatchAssumption, BatchTypes, NEW c \in Call, Batch!Effective(c) > 1
  PROVE  \E n \in Nat, s \in Nat \ {0}, k \in Nat \ {0} :
           /\ rows[c] = n /\ n <= k * s /\ (k - 1) * s < n
           /\ Batch!ChunkNumbers(c) = 1..k /\ k <= Batch!Effective(c)
           /\ \A i : Batch!Chunk(c, i) = ChunkOf(n, s, i)
<1>0. MaxRows \in Nat BY DEF Batch!BatchAssumption
<1>1. PICK n \in Nat : n = rows[c]
  <2>1. rows[c] \in 0..MaxRows BY DEF BatchTypes
  <2> QED BY <2>1, <1>0
<1>2. threads[c] \in Batch!Threads BY DEF BatchTypes
<1>3. PICK e \in Nat \ {0} : e = Batch!Effective(c) /\ e <= n
  <2>1. Batch!Effective(c) = Batch!EffectiveThreads(threads[c], n) BY <1>1 DEF Batch!Effective
  <2>2. /\ Batch!EffectiveThreads(threads[c], n) \in Nat \ {0}
        /\ Batch!EffectiveThreads(threads[c], n) > 1 => Batch!EffectiveThreads(threads[c], n) <= n
    BY <1>2, EffectiveIs
  <2> QED BY <2>1, <2>2
<1>4. n > 0 BY <1>3
<1>5. PICK s \in Nat : s = Batch!DivCeil(n, e) /\ n <= s * e /\ ((s - 1) * e < n \/ n = 0)
  BY DivCeilIs
<1>6. s # 0
  <2>1. SUFFICES ASSUME s = 0 PROVE FALSE OBVIOUS
  <2>2. s * e = 0 BY <2>1
  <2> QED BY <2>2, <1>4, <1>5
<1>7. PICK k \in Nat : k = Batch!DivCeil(n, s) /\ n <= k * s /\ ((k - 1) * s < n \/ n = 0)
  BY <1>6, DivCeilIs
<1>8. k # 0
  <2>1. SUFFICES ASSUME k = 0 PROVE FALSE OBVIOUS
  <2>2. k * s = 0 BY <2>1
  <2> QED BY <2>2, <1>4, <1>7
<1>9. (k - 1) * s < n BY <1>4, <1>7
<1>10. k <= e
  <2>1. SUFFICES ASSUME e <= k - 1 PROVE FALSE OBVIOUS
  <2>2. PICK x \in Nat : x = k - 1 BY <1>8
  <2>3. e * s <= x * s BY <2>1, <2>2
  <2>4. s * e = e * s OBVIOUS
  <2>5. PICK p \in Nat : p = x * s OBVIOUS
  <2>6. PICK q \in Nat : q = e * s OBVIOUS
  <2>7. q <= p /\ p < n /\ n <= q BY <2>2, <2>3, <2>4, <2>5, <2>6, <1>5, <1>9
  <2> QED BY <2>7
<1>11. Batch!ChunkSize(c) = s BY <1>1, <1>3, <1>5 DEF Batch!ChunkSize
<1>12. Batch!ChunkNumbers(c) = 1..k BY <1>1, <1>7, <1>11 DEF Batch!ChunkNumbers
<1>13. \A i : Batch!Chunk(c, i) = ChunkOf(n, s, i)
  BY <1>1, <1>11 DEF Batch!Chunk, ChunkOf
<1> QED BY <1>1, <1>3, <1>6, <1>7, <1>8, <1>9, <1>10, <1>12, <1>13

LEMMA BatchInitInv ==
  ASSUME Batch!BatchAssumption, Batch!Init
  PROVE  BatchInv
<1> USE DEF Batch!Init
<1>1. BatchTypes BY DEF BatchTypes
<1>2. \A c \in Call : pc[c] = "start" OBVIOUS
<1> QED BY <1>1, <1>2 DEF BatchInv, Batch!BatchInOrder

(* A step of call c leaves the other calls alone. *)
LEMMA OtherCalls ==
  ASSUME BatchInv, NEW c \in Call, BatchTypes', UNCHANGED <<rows, threads>>,
         \A d \in Call \ {c} : /\ pc'[d] = pc[d] /\ pool'[d] = pool[d] /\ chunks'[d] = chunks[d]
                               /\ waiting'[d] = waiting[d] /\ running'[d] = running[d]
                               /\ result'[d] = result[d],
         pc'[c] = "done" => result'[c] = [j \in 1..rows[c] |-> j],
         pc'[c] = "install" => Installed(c)'
  PROVE  BatchInv'
<1>1. Batch!BatchInOrder' BY DEF BatchInv, Batch!BatchInOrder
<1>2. ASSUME NEW d \in Call, pc'[d] = "install", d # c PROVE Installed(d)'
  <2>1. Installed(d) BY <1>2 DEF BatchInv
  <2>2. /\ Batch!Effective(d)' = Batch!Effective(d) /\ Batch!ChunkNumbers(d)' = Batch!ChunkNumbers(d)
        /\ \A j : Batch!Chunk(d, j)' = Batch!Chunk(d, j)
    BY DEF Batch!Effective, Batch!ChunkNumbers, Batch!ChunkSize, Batch!Chunk
  <2> QED BY <1>2, <2>1, <2>2 DEF Installed
<1> QED BY <1>1, <1>2 DEF BatchInv

LEMMA BuildInlineInv ==
  ASSUME Batch!BatchAssumption, BatchInv, NEW c \in Call, Batch!BuildInline(c)
  PROVE  BatchInv'
<1> USE DEF Batch!BuildInline, Batch!arguments, Batch!work
<1>1. BatchTypes BY DEF BatchInv
<1>2. BatchTypes' BY <1>1 DEF BatchTypes
<1>3. pc'[c] = "done" /\ result'[c] = [j \in 1..rows[c] |-> j] BY <1>1 DEF BatchTypes
<1>4. \A d \in Call \ {c} : /\ pc'[d] = pc[d] /\ pool'[d] = pool[d] /\ chunks'[d] = chunks[d]
                            /\ waiting'[d] = waiting[d] /\ running'[d] = running[d]
                            /\ result'[d] = result[d]
  BY <1>1 DEF BatchTypes
<1> QED BY <1>2, <1>3, <1>4, OtherCalls

LEMMA InstallInv ==
  ASSUME Batch!BatchAssumption, BatchInv, NEW c \in Call, NEW p, Batch!Install(c, p),
         Batch!Effective(c) > 1, p.threads = Batch!Effective(c)
  PROVE  BatchInv'
<1> USE DEF Batch!Install, Batch!arguments
<1>1. BatchTypes BY DEF BatchInv
<1>2. BatchTypes' BY <1>1 DEF BatchTypes
<1>3. /\ pc'[c] = "install" /\ pool'[c] = p /\ waiting'[c] = Batch!ChunkNumbers(c)
      /\ chunks'[c] = [i \in Batch!ChunkNumbers(c) |-> <<>>]
  BY <1>1 DEF BatchTypes
<1>4. \A d \in Call \ {c} : /\ pc'[d] = pc[d] /\ pool'[d] = pool[d] /\ chunks'[d] = chunks[d]
                            /\ waiting'[d] = waiting[d] /\ running'[d] = running[d]
                            /\ result'[d] = result[d]
  BY <1>1 DEF BatchTypes
<1>5. Batch!Effective(c)' = Batch!Effective(c) BY DEF Batch!Effective
<1>6. Batch!ChunkNumbers(c)' = Batch!ChunkNumbers(c)
  BY <1>5 DEF Batch!ChunkNumbers, Batch!ChunkSize
<1>7. Installed(c)'
  <2>1. chunks'[c] = [i \in Batch!ChunkNumbers(c) |-> chunks'[c][i]] BY <1>3
  <2> QED BY <1>3, <1>5, <1>6, <2>1 DEF Installed
<1> QED BY <1>2, <1>3, <1>4, <1>7, OtherCalls

LEMMA PoolFailsInv ==
  ASSUME Batch!BatchAssumption, BatchInv, NEW c \in Call, Batch!PoolFails(c)
  PROVE  BatchInv'
<1> USE DEF Batch!PoolFails, Batch!arguments, Batch!work
<1>1. BatchTypes BY DEF BatchInv
<1>2. BatchTypes' BY <1>1 DEF BatchTypes
<1>3. pc'[c] = "failed" BY <1>1 DEF BatchTypes
<1>4. \A d \in Call \ {c} : /\ pc'[d] = pc[d] /\ pool'[d] = pool[d] /\ chunks'[d] = chunks[d]
                            /\ waiting'[d] = waiting[d] /\ running'[d] = running[d]
                            /\ result'[d] = result[d]
  BY <1>1 DEF BatchTypes
<1> QED BY <1>2, <1>3, <1>4, OtherCalls

LEMMA TakeChunkInv ==
  ASSUME Batch!BatchAssumption, BatchInv, NEW c \in Call, NEW i, Batch!TakeChunk(c, i)
  PROVE  BatchInv'
<1> USE DEF Batch!TakeChunk, Batch!arguments
<1>1. BatchTypes BY DEF BatchInv
<1>2. BatchTypes' BY <1>1 DEF BatchTypes
<1>3. /\ pc'[c] = "install" /\ waiting'[c] = waiting[c] \ {i} /\ running'[c] = running[c] \cup {i}
      /\ pool'[c] = pool[c] /\ chunks'[c] = chunks[c]
  BY <1>1 DEF BatchTypes
<1>4. \A d \in Call \ {c} : /\ pc'[d] = pc[d] /\ pool'[d] = pool[d] /\ chunks'[d] = chunks[d]
                            /\ waiting'[d] = waiting[d] /\ running'[d] = running[d]
                            /\ result'[d] = result[d]
  BY <1>1 DEF BatchTypes
<1>5. /\ Batch!Effective(c)' = Batch!Effective(c) /\ Batch!ChunkNumbers(c)' = Batch!ChunkNumbers(c)
      /\ \A j : Batch!Chunk(c, j)' = Batch!Chunk(c, j)
  BY DEF Batch!Effective, Batch!ChunkNumbers, Batch!ChunkSize, Batch!Chunk
<1>6. Installed(c) BY DEF BatchInv
<1>7. Installed(c)' BY <1>3, <1>5, <1>6 DEF Installed
<1> QED BY <1>2, <1>3, <1>4, <1>7, OtherCalls

LEMMA FinishChunkInv ==
  ASSUME Batch!BatchAssumption, BatchInv, NEW c \in Call, NEW i, Batch!FinishChunk(c, i)
  PROVE  BatchInv'
<1> USE DEF Batch!FinishChunk, Batch!arguments
<1>1. BatchTypes BY DEF BatchInv
<1>2. BatchTypes' BY <1>1 DEF BatchTypes
<1>3. /\ pc'[c] = "install" /\ waiting'[c] = waiting[c] /\ running'[c] = running[c] \ {i}
      /\ pool'[c] = pool[c] /\ chunks'[c] = [chunks[c] EXCEPT ![i] = Batch!Chunk(c, i)]
  BY <1>1 DEF BatchTypes, Batch!Place
<1>4. \A d \in Call \ {c} : /\ pc'[d] = pc[d] /\ pool'[d] = pool[d] /\ chunks'[d] = chunks[d]
                            /\ waiting'[d] = waiting[d] /\ running'[d] = running[d]
                            /\ result'[d] = result[d]
  BY <1>1 DEF BatchTypes
<1>5. /\ Batch!Effective(c)' = Batch!Effective(c) /\ Batch!ChunkNumbers(c)' = Batch!ChunkNumbers(c)
      /\ \A j : Batch!Chunk(c, j)' = Batch!Chunk(c, j)
  BY DEF Batch!Effective, Batch!ChunkNumbers, Batch!ChunkSize, Batch!Chunk
<1>6. Installed(c) BY DEF BatchInv
<1>7. DOMAIN chunks[c] = Batch!ChunkNumbers(c) BY <1>6 DEF Installed
<1>8. chunks'[c] = [j \in Batch!ChunkNumbers(c) |-> chunks'[c][j]] BY <1>3, <1>7
<1>9. ASSUME NEW j \in Batch!ChunkNumbers(c), j \notin waiting'[c], j \notin running'[c]
      PROVE  chunks'[c][j] = Batch!Chunk(c, j)
  <2>1. CASE j = i BY <2>1, <1>3, <1>7
  <2>2. CASE j # i BY <2>2, <1>3, <1>6, <1>7, <1>9 DEF Installed
  <2> QED BY <2>1, <2>2
<1>10. Installed(c)' BY <1>3, <1>5, <1>6, <1>8, <1>9 DEF Installed
<1> QED BY <1>2, <1>3, <1>4, <1>10, OtherCalls

LEMMA CollectInv ==
  ASSUME Batch!BatchAssumption, BatchInv, NEW c \in Call, Batch!Collect(c)
  PROVE  BatchInv'
<1> USE DEF Batch!Collect, Batch!arguments
<1>1. BatchTypes BY DEF BatchInv
<1>2. BatchTypes' BY <1>1 DEF BatchTypes
<1>3. pc'[c] = "done" /\ result'[c] = Batch!FlattenSeq(chunks[c])
  BY <1>1 DEF BatchTypes
<1>4. \A d \in Call \ {c} : /\ pc'[d] = pc[d] /\ pool'[d] = pool[d] /\ chunks'[d] = chunks[d]
                            /\ waiting'[d] = waiting[d] /\ running'[d] = running[d]
                            /\ result'[d] = result[d]
  BY <1>1 DEF BatchTypes
<1>5. Installed(c) BY DEF BatchInv
<1>6. Batch!Effective(c) > 1 BY <1>5 DEF Installed
<1>7. PICK n \in Nat, s \in Nat \ {0}, k \in Nat \ {0} :
        /\ rows[c] = n /\ n <= k * s /\ (k - 1) * s < n
        /\ Batch!ChunkNumbers(c) = 1..k
        /\ \A i : Batch!Chunk(c, i) = ChunkOf(n, s, i)
  BY <1>1, <1>6, ChunkingIs
<1>8. \A i \in 1..k : chunks[c][i] = ChunkOf(n, s, i) BY <1>5, <1>7 DEF Installed
<1>9. chunks[c] = [i \in 1..k |-> chunks[c][i]] BY <1>5, <1>7 DEF Installed
<1>10. chunks[c] = [i \in 1..k |-> ChunkOf(n, s, i)] BY <1>8, <1>9
<1>11. Batch!FlattenSeq(chunks[c]) = Prefix(n) BY <1>7, <1>10, Flattened
<1>12. result'[c] = [j \in 1..rows[c] |-> j] BY <1>3, <1>7, <1>11 DEF Prefix
<1> QED BY <1>2, <1>3, <1>4, <1>12, OtherCalls

LEMMA BatchNextInv ==
  ASSUME Batch!BatchAssumption, BatchInv, Batch!Next
  PROVE  BatchInv'
<1>1. PICK c \in Call :
        \/ Batch!BuildInline(c) \/ Batch!ReusePool(c) \/ Batch!BuildPool(c) \/ Batch!PoolFails(c)
        \/ Batch!Collect(c) \/ \E i \in 1..MaxRows : Batch!TakeChunk(c, i) \/ Batch!FinishChunk(c, i)
  BY DEF Batch!Next
<1>2. CASE Batch!ReusePool(c)
  <2>1. /\ Batch!Effective(c) > 1 /\ cached.threads = Batch!Effective(c) /\ Batch!Install(c, cached)
    BY <1>2 DEF Batch!ReusePool, Batch!Fits
  <2> QED BY <2>1, InstallInv
<1>3. CASE Batch!BuildPool(c)
  <2> DEFINE new == [threads |-> Batch!Effective(c), number |-> built + 1]
  <2>1. Batch!Effective(c) > 1 /\ Batch!Install(c, new) BY <1>3 DEF Batch!BuildPool
  <2>2. new.threads = Batch!Effective(c) OBVIOUS
  <2> HIDE DEF new
  <2> QED BY <2>1, <2>2, InstallInv
<1> QED
  BY <1>1, <1>2, <1>3, BuildInlineInv, PoolFailsInv, CollectInv, TakeChunkInv, FinishChunkInv

LEMMA BatchCardinality ==
  ASSUME NEW S
  PROVE  Batch!Cardinality(S) = Cardinality(S)
  BY Zenon DEF Batch!Cardinality, Cardinality, Batch!IsFiniteSet, IsFiniteSet

(* The chunks of an installed call are no more than its threads. *)
LEMMA InvWithinThreads ==
  ASSUME Batch!BatchAssumption, BatchInv
  PROVE  Batch!WithinThreads
<1> SUFFICES ASSUME NEW c \in Call, pc[c] = "install"
    PROVE /\ pool[c].threads = Batch!Effective(c)
          /\ Batch!Cardinality(Batch!ChunkNumbers(c)) <= Batch!Effective(c)
          /\ Batch!Effective(c) <= Available
          /\ threads[c] \notin {Automatic, Sequential} => Batch!Effective(c) <= threads[c]
  BY DEF Batch!WithinThreads
<1>1. BatchTypes /\ Installed(c) BY DEF BatchInv
<1>2. Batch!Effective(c) > 1 /\ pool[c].threads = Batch!Effective(c) BY <1>1 DEF Installed
<1>3. PICK n \in Nat, k \in Nat \ {0} :
        /\ rows[c] = n /\ Batch!ChunkNumbers(c) = 1..k /\ k <= Batch!Effective(c)
  BY <1>1, <1>2, ChunkingIs
<1>4. Batch!Cardinality(Batch!ChunkNumbers(c)) = k
  <2>1. 1 \in Int /\ k \in Int /\ ~(1 > k) OBVIOUS
  <2>2. Cardinality(1..k) = k - 1 + 1 BY <2>1, FS_Interval
  <2>3. Cardinality(1..k) = k BY <2>2
  <2> QED BY <1>3, <2>3, BatchCardinality
<1>5. threads[c] \in Batch!Threads BY <1>1 DEF BatchTypes
<1>6. Batch!Effective(c) = Batch!EffectiveThreads(threads[c], n) BY <1>3 DEF Batch!Effective
<1>7. /\ Batch!Effective(c) <= Available
      /\ threads[c] \notin {Automatic, Sequential} => Batch!Effective(c) <= threads[c]
  BY <1>2, <1>5, <1>6, EffectiveIs
<1> QED BY <1>2, <1>3, <1>4, <1>7

-----------------------------------------------------------------------------
(***************************************************************************)
(* Powers of two                                                           *)
(***************************************************************************)

Iterates(f, N, base, G, S) == IsRecursive(f, N, base, [i \in 1..N |-> G], S)

LEMMA RecursionAgrees ==
  ASSUME NEW N \in Nat, NEW M \in Nat, N <= M, NEW S, NEW base, NEW G, NEW f, NEW g,
         Iterates(f, N, base, G, S), Iterates(g, M, base, G, S)
  PROVE  \A n \in 0..N : f[n] = g[n]
<1> DEFINE T == {n \in 0..N : f[n] = g[n]}
<1>1. 0 \in T BY DEF IsRecursive, Iterates
<1>2. ASSUME NEW n \in 0..(N - 1), n \in T PROVE n + 1 \in T
  <2>1. n + 1 \in 1..N /\ n + 1 \in 1..M /\ (n + 1) - 1 = n OBVIOUS
  <2>2. f[n + 1] = G[f[(n + 1) - 1]] BY <2>1 DEF IsRecursive, Iterates
  <2>3. g[n + 1] = G[g[(n + 1) - 1]] BY <2>1 DEF IsRecursive, Iterates
  <2> QED BY <1>2, <2>1, <2>2, <2>3
<1>3. \A n \in 0..N : n \in T
  <2> HIDE DEF T
  <2> QED BY <1>1, <1>2, InductionUpTo
<1> QED BY <1>3

IsIteration(f, base, G, S) ==
  f \in [Nat -> S] /\ f[0] = base /\ \A n \in Nat : f[n + 1] = G[f[n]]

LEMMA RecursionOnNat ==
  ASSUME NEW S, NEW base \in S, NEW G \in [S -> S]
  PROVE  \E f : IsIteration(f, base, G, S)
<1> DEFINE h(n) == CHOOSE g : Iterates(g, n, base, G, S)
           f == [n \in Nat |-> h(n)[n]]
<1>1. ASSUME NEW n \in Nat PROVE Iterates(h(n), n, base, G, S)
  <2>1. [i \in 1..n |-> G] \in [1..n -> [S -> S]] OBVIOUS
  <2>2. \E g : IsRecursive(g, n, base, [i \in 1..n |-> G], S) BY <2>1, RecursionExists
  <2>3. \E g : Iterates(g, n, base, G, S) BY <2>2 DEF Iterates
  <2> QED BY <2>3
<1> HIDE DEF h
<1>2. ASSUME NEW n \in Nat PROVE f[n] \in S
  <2>1. n \in 0..n OBVIOUS
  <2> QED BY <1>1, <2>1 DEF IsRecursive, Iterates
<1>3. f[0] = base BY <1>1 DEF IsRecursive, Iterates
<1>4. ASSUME NEW n \in Nat PROVE f[n + 1] = G[f[n]]
  <2>1. n + 1 \in Nat /\ n <= n + 1 /\ n \in 0..n /\ n + 1 \in 1..(n + 1) /\ (n + 1) - 1 = n OBVIOUS
  <2>2. h(n)[n] = h(n + 1)[n] BY <1>1, <2>1, RecursionAgrees
  <2>3. h(n + 1)[n + 1] = G[h(n + 1)[(n + 1) - 1]] BY <1>1, <2>1 DEF IsRecursive, Iterates
  <2> QED BY <2>1, <2>2, <2>3
<1>5. IsIteration(f, base, G, S) BY <1>2, <1>3, <1>4 DEF IsIteration
<1> QED BY <1>5

(* What defines the powers of two. *)
ArePowers(f) == f \in [Nat -> Nat] /\ f[0] = 1 /\ \A n \in Nat : f[n + 1] = 2 * f[n]

LEMMA PowersChosen ==
  ASSUME NEW g, g = CHOOSE p : p = [n \in Nat |-> IF n = 0 THEN 1 ELSE 2 * p[n - 1]]
  PROVE  ArePowers(g)
<1> DEFINE G == [x \in Nat |-> 2 * x]
<1>1. G \in [Nat -> Nat] OBVIOUS
<1>2. PICK f \in [Nat -> Nat] : f[0] = 1 /\ \A n \in Nat : f[n + 1] = G[f[n]]
  <2>1. 1 \in Nat OBVIOUS
  <2> HIDE DEF G
  <2>2. PICK f : IsIteration(f, 1, G, Nat) BY <1>1, <2>1, RecursionOnNat
  <2> QED BY <2>2 DEF IsIteration
<1>3. \A n \in Nat : f[n + 1] = 2 * f[n] BY <1>2
<1>4. \A n \in Nat : f[n] = IF n = 0 THEN 1 ELSE 2 * f[n - 1]
  <2> SUFFICES ASSUME NEW n \in Nat, n # 0 PROVE f[n] = 2 * f[n - 1] BY <1>2
  <2>1. n - 1 \in Nat /\ (n - 1) + 1 = n OBVIOUS
  <2> QED BY <1>3, <2>1
<1>5. f = [n \in Nat |-> IF n = 0 THEN 1 ELSE 2 * f[n - 1]]
  <2> DEFINE F == [n \in Nat |-> IF n = 0 THEN 1 ELSE 2 * f[n - 1]]
  <2>1. \A n \in Nat : F[n] = f[n] BY <1>4
  <2>2. F = [n \in Nat |-> F[n]] /\ f = [n \in Nat |-> f[n]] OBVIOUS
  <2> HIDE DEF F
  <2>3. f = F BY <2>1, <2>2
  <2> QED BY <2>3 DEF F
<1>6. g = [n \in Nat |-> IF n = 0 THEN 1 ELSE 2 * g[n - 1]]
  BY <1>5
<1>7. g[0] = 1 /\ \A n \in Nat : g[n + 1] = 2 * g[n]
  <2> DEFINE H == [n \in Nat |-> IF n = 0 THEN 1 ELSE 2 * g[n - 1]]
  <2>1. H[0] = 1 OBVIOUS
  <2>2. ASSUME NEW n \in Nat PROVE H[n + 1] = 2 * g[n]
    <3>1. n + 1 \in Nat /\ n + 1 # 0 /\ (n + 1) - 1 = n OBVIOUS
    <3>2. H[n + 1] = 2 * g[(n + 1) - 1] BY <3>1
    <3> QED BY <3>1, <3>2
  <2>3. g = H BY <1>6
  <2> HIDE DEF H
  <2> QED BY <2>1, <2>2, <2>3
<1>8. \A n \in Nat : g[n] \in Nat
  <2> DEFINE T == {n \in Nat : g[n] \in Nat}
  <2>1. 0 \in T BY <1>7
  <2>2. ASSUME NEW n \in Nat, n \in T PROVE n + 1 \in T
    <3>1. PICK x \in Nat : x = g[n] BY <2>2
    <3>2. 2 * x \in Nat OBVIOUS
    <3> QED BY <1>7, <3>1, <3>2
  <2>3. \A n \in Nat : n \in T
    <3> HIDE DEF T
    <3> QED BY <2>1, <2>2, Induction
  <2> QED BY <2>3
<1>9. g = [n \in Nat |-> g[n]]
  <2> DEFINE H == [n \in Nat |-> IF n = 0 THEN 1 ELSE 2 * g[n - 1]]
  <2>1. H = [n \in Nat |-> H[n]] OBVIOUS
  <2>2. g = H BY <1>6
  <2> HIDE DEF H
  <2> QED BY <2>1, <2>2
<1> QED BY <1>7, <1>8, <1>9 DEF ArePowers

LEMMA SketchPowers == ArePowers(Sketch!PowerOfTwo)
  BY PowersChosen DEF Sketch!PowerOfTwo

LEMMA GroupsPowers == ArePowers(Groups!PowerOfTwo)
  BY PowersChosen DEF Groups!PowerOfTwo

LEMMA PowersPositive ==
  ASSUME NEW f, ArePowers(f)
  PROVE  \A n \in Nat : f[n] \in Nat \ {0} /\ n < f[n]
<1> DEFINE T == {n \in Nat : f[n] \in Nat \ {0} /\ n < f[n]}
<1>1. 0 \in T BY DEF ArePowers
<1>2. ASSUME NEW n \in Nat, n \in T PROVE n + 1 \in T
  <2>1. PICK x \in Nat : x = f[n] BY DEF ArePowers
  <2>2. x # 0 /\ n < x BY <1>2, <2>1
  <2>3. f[n + 1] = 2 * x BY <2>1 DEF ArePowers
  <2>4. 2 * x \in Nat \ {0} /\ n + 1 < 2 * x BY <2>2
  <2> QED BY <2>3, <2>4
<1>3. \A n \in Nat : n \in T
  <2> HIDE DEF T
  <2> QED BY <1>1, <1>2, Induction
<1> QED BY <1>3

-----------------------------------------------------------------------------
(***************************************************************************)
(* Words: shifts, exclusive or and products modulo a power of two          *)
(***************************************************************************)

LEMMA ShiftIs ==
  ASSUME NEW x \in Nat
  PROVE  /\ Sketch!ShiftRight(x, 0) = x
         /\ \A n \in Nat : Sketch!ShiftRight(x, n) \in Nat
         /\ \A n \in Nat : Sketch!ShiftRight(x, n + 1) = Sketch!ShiftRight(x, n) \div 2
<1> DEFINE G == [y \in Nat |-> y \div 2]
<1>1. G \in [Nat -> Nat] OBVIOUS
<1>2. PICK h : IsIteration(h, x, G, Nat)
  <2> HIDE DEF G
  <2> QED BY <1>1, RecursionOnNat
<1>3. h \in [Nat -> Nat] /\ h[0] = x /\ \A n \in Nat : h[n + 1] = h[n] \div 2
  BY <1>2 DEF IsIteration
<1> HIDE DEF G
<1>4. ASSUME NEW N \in Nat PROVE Sketch!ShiftRight(x, N) = h[N]
  <2> DEFINE r == [i \in 0..N |-> h[i]]
             g == CHOOSE p : p = [i \in 0..N |-> IF i = 0 THEN x ELSE p[i - 1] \div 2]
  <2>1. Sketch!ShiftRight(x, N) = g[N] BY DEF Sketch!ShiftRight
  <2>2. r = [i \in 0..N |-> IF i = 0 THEN x ELSE r[i - 1] \div 2]
    <3> DEFINE F == [i \in 0..N |-> IF i = 0 THEN x ELSE r[i - 1] \div 2]
    <3>1. ASSUME NEW i \in 0..N PROVE r[i] = IF i = 0 THEN x ELSE r[i - 1] \div 2
      <4>1. CASE i = 0 BY <4>1, <1>3
      <4>2. CASE i # 0
        <5>1. i - 1 \in Nat /\ i - 1 \in 0..N /\ (i - 1) + 1 = i BY <4>2
        <5>2. h[(i - 1) + 1] = h[i - 1] \div 2 BY <1>3, <5>1
        <5> QED BY <4>2, <5>1, <5>2
      <4> QED BY <4>1, <4>2
    <3>2. r = [i \in 0..N |-> r[i]] OBVIOUS
    <3> HIDE DEF r
    <3>3. F = [i \in 0..N |-> F[i]] /\ \A i \in 0..N : F[i] = r[i] BY <3>1
    <3> HIDE DEF F
    <3>4. r = F BY <3>2, <3>3
    <3> QED BY <3>4 DEF F
  <2> HIDE DEF r
  <2>3. g = [i \in 0..N |-> IF i = 0 THEN x ELSE g[i - 1] \div 2] BY <2>2
  <2> HIDE DEF g
  <2> DEFINE T == {i \in 0..N : g[i] = h[i]}
             H == [i \in 0..N |-> IF i = 0 THEN x ELSE g[i - 1] \div 2]
  <2>4. H[0] = x OBVIOUS
  <2>5. ASSUME NEW i \in 0..(N - 1) PROVE H[i + 1] = g[i] \div 2
    <3>1. i + 1 \in 0..N /\ i + 1 # 0 /\ (i + 1) - 1 = i OBVIOUS
    <3>2. H[i + 1] = g[(i + 1) - 1] \div 2 BY <3>1
    <3> QED BY <3>1, <3>2
  <2>6. g = H BY <2>3
  <2> HIDE DEF H
  <2>7. 0 \in T BY <1>3, <2>4, <2>6
  <2>8. ASSUME NEW i \in 0..(N - 1), i \in T PROVE i + 1 \in T
    <3>1. i + 1 \in 0..N /\ i \in Nat OBVIOUS
    <3>2. g[i + 1] = g[i] \div 2 BY <2>5, <2>6
    <3>3. h[i + 1] = h[i] \div 2 BY <1>3, <3>1
    <3> QED BY <2>8, <3>1, <3>2, <3>3
  <2>9. \A i \in 0..N : i \in T
    <3> HIDE DEF T
    <3> QED BY <2>7, <2>8, InductionUpTo
  <2>10. N \in 0..N OBVIOUS
  <2> QED BY <2>1, <2>9, <2>10
<1>5. \A n \in Nat : n + 1 \in Nat OBVIOUS
<1> QED BY <1>3, <1>4, <1>5

LEMMA ShiftComposed ==
  ASSUME NEW x \in Nat, NEW n \in Nat
  PROVE  \A i \in Nat : Sketch!ShiftRight(Sketch!ShiftRight(x, n), i) = Sketch!ShiftRight(x, n + i)
<1>1. PICK y \in Nat : y = Sketch!ShiftRight(x, n) BY ShiftIs
<1> DEFINE T == {i \in Nat : Sketch!ShiftRight(y, i) = Sketch!ShiftRight(x, n + i)}
<1>2. 0 \in T
  <2>1. n + 0 = n OBVIOUS
  <2> QED BY <1>1, <2>1, ShiftIs
<1>3. ASSUME NEW i \in Nat, i \in T PROVE i + 1 \in T
  <2>1. n + (i + 1) = (n + i) + 1 /\ n + i \in Nat OBVIOUS
  <2>2. Sketch!ShiftRight(y, i + 1) = Sketch!ShiftRight(y, i) \div 2 BY ShiftIs
  <2>3. Sketch!ShiftRight(x, (n + i) + 1) = Sketch!ShiftRight(x, n + i) \div 2 BY <2>1, ShiftIs
  <2> QED BY <1>3, <2>1, <2>2, <2>3
<1>4. \A i \in Nat : i \in T
  <2> HIDE DEF T
  <2> QED BY <1>2, <1>3, Induction
<1> QED BY <1>1, <1>4

LEMMA BitIs ==
  ASSUME NEW x \in Nat, NEW i \in Nat
  PROVE  /\ Sketch!Bit(x, i) \in {0, 1}
         /\ Sketch!ShiftRight(x, i) = 2 * Sketch!ShiftRight(x, i + 1) + Sketch!Bit(x, i)
<1>1. PICK y \in Nat : y = Sketch!ShiftRight(x, i) BY ShiftIs
<1>2. Sketch!ShiftRight(x, i + 1) = y \div 2 BY <1>1, ShiftIs
<1>3. Sketch!Bit(x, i) = y % 2 BY <1>1 DEF Sketch!Bit
<1>4. y % 2 \in {0, 1}
  <2>1. y % 2 \in 0..1 OBVIOUS
  <2> QED BY <2>1
<1>5. y = 2 * (y \div 2) + (y % 2) OBVIOUS
<1> QED BY <1>1, <1>2, <1>3, <1>4, <1>5

LEMMA BitShifted ==
  ASSUME NEW x \in Nat, NEW n \in Nat, NEW i \in Nat
  PROVE  Sketch!Bit(Sketch!ShiftRight(x, n), i) = Sketch!Bit(x, n + i)
  BY ShiftComposed DEF Sketch!Bit

(* Beyond the width of a word nothing is left. *)
LEMMA ShiftedOut ==
  ASSUME NEW W \in Nat, NEW x \in Nat, x < Sketch!PowerOfTwo[W]
  PROVE  \A i \in Nat : i >= W => Sketch!ShiftRight(x, i) = 0
<1> DEFINE P == Sketch!PowerOfTwo
<1>0. ArePowers(P) BY SketchPowers
<1> HIDE DEF P
<1> DEFINE T == {i \in 0..W : Sketch!ShiftRight(x, i) < P[W - i]}
<1>1. 0 \in T
  <2>1. W - 0 = W OBVIOUS
  <2>2. Sketch!ShiftRight(x, 0) = x BY ShiftIs
  <2>3. x < P[W] BY DEF P
  <2> QED BY <2>1, <2>2, <2>3
<1>2. ASSUME NEW i \in 0..(W - 1), i \in T PROVE i + 1 \in T
  <2>1. PICK k \in Nat : k = W - (i + 1)
    <3>1. W - (i + 1) \in Nat OBVIOUS
    <3> QED BY <3>1
  <2>2. k + 1 = W - i BY <2>1
  <2>3. PICK p \in Nat : p = P[k] BY <1>0 DEF ArePowers
  <2>4. P[k + 1] = 2 * p BY <1>0, <2>3 DEF ArePowers
  <2>5. PICK y \in Nat : y = Sketch!ShiftRight(x, i) BY ShiftIs
  <2>6. y < 2 * p BY <1>2, <2>2, <2>4, <2>5
  <2>7. y \div 2 < p BY <2>6
  <2>8. Sketch!ShiftRight(x, i + 1) = y \div 2
    <3>1. i \in Nat OBVIOUS
    <3> QED BY <3>1, <2>5, ShiftIs
  <2>9. i + 1 \in 0..W OBVIOUS
  <2> QED BY <2>1, <2>3, <2>7, <2>8, <2>9
<1>3. \A i \in 0..W : i \in T
  <2> HIDE DEF T
  <2> QED BY <1>1, <1>2, InductionUpTo
<1>4. Sketch!ShiftRight(x, W) = 0
  <2>1. W \in 0..W /\ W - W = 0 OBVIOUS
  <2>2. Sketch!ShiftRight(x, W) < P[0] BY <1>3, <2>1
  <2>3. P[0] = 1 BY <1>0 DEF ArePowers
  <2>4. PICK y \in Nat : y = Sketch!ShiftRight(x, W) BY ShiftIs
  <2>5. y < 1 BY <2>2, <2>3, <2>4
  <2> QED BY <2>4, <2>5
<1> DEFINE U == {j \in Nat : Sketch!ShiftRight(x, W + j) = 0}
<1>5. 0 \in U
  <2>1. W + 0 = W OBVIOUS
  <2> QED BY <1>4, <2>1
<1>6. ASSUME NEW j \in Nat, j \in U PROVE j + 1 \in U
  <2>1. W + (j + 1) = (W + j) + 1 /\ W + j \in Nat OBVIOUS
  <2>2. Sketch!ShiftRight(x, (W + j) + 1) = Sketch!ShiftRight(x, W + j) \div 2 BY <2>1, ShiftIs
  <2>3. 0 \div 2 = 0 OBVIOUS
  <2> QED BY <1>6, <2>1, <2>2, <2>3
<1>7. \A j \in Nat : j \in U
  <2> HIDE DEF U
  <2> QED BY <1>5, <1>6, Induction
<1> SUFFICES ASSUME NEW i \in Nat, i >= W PROVE Sketch!ShiftRight(x, i) = 0 OBVIOUS
<1>8. i - W \in Nat /\ W + (i - W) = i OBVIOUS
<1> QED BY <1>7, <1>8

(* A word is known by its bits. *)
LEMMA BitsDetermine ==
  ASSUME NEW W \in Nat, NEW x \in Nat, x < Sketch!PowerOfTwo[W],
         NEW y \in Nat, y < Sketch!PowerOfTwo[W],
         \A i \in Nat : Sketch!Bit(x, i) = Sketch!Bit(y, i)
  PROVE  x = y
<1> DEFINE T == {m \in 0..W : Sketch!ShiftRight(x, W - m) = Sketch!ShiftRight(y, W - m)}
<1>1. 0 \in T
  <2>1. W - 0 = W /\ W >= W OBVIOUS
  <2>2. Sketch!ShiftRight(x, W) = 0 /\ Sketch!ShiftRight(y, W) = 0 BY <2>1, ShiftedOut
  <2> QED BY <2>1, <2>2
<1>2. ASSUME NEW m \in 0..(W - 1), m \in T PROVE m + 1 \in T
  <2>1. PICK i \in Nat : i = W - (m + 1)
    <3>1. W - (m + 1) \in Nat OBVIOUS
    <3> QED BY <3>1
  <2>2. i + 1 = W - m /\ m + 1 \in 0..W BY <2>1
  <2>3. Sketch!ShiftRight(x, i + 1) = Sketch!ShiftRight(y, i + 1) BY <1>2, <2>2
  <2>4. Sketch!ShiftRight(x, i) = Sketch!ShiftRight(y, i) BY <2>3, BitIs
  <2> QED BY <2>1, <2>2, <2>4
<1>3. \A m \in 0..W : m \in T
  <2> HIDE DEF T
  <2> QED BY <1>1, <1>2, InductionUpTo
<1>4. W \in 0..W /\ W - W = 0 OBVIOUS
<1>5. Sketch!ShiftRight(x, 0) = Sketch!ShiftRight(y, 0) BY <1>3, <1>4
<1> QED BY <1>5, ShiftIs

(* Digits of a binary numeral, each 0 or its power of two. *)
AreDigits(s, N) == s \in [0..N -> Nat] /\ \A i \in 1..N : s[i] = 0 \/ s[i] = Sketch!PowerOfTwo[i - 1]

LEMMA DigitsBounded ==
  ASSUME NEW N \in Nat, NEW s, AreDigits(s, N), NEW f, IsTotal(f, s, N)
  PROVE  \A i \in 0..N : f[i] < Sketch!PowerOfTwo[i]
<1> DEFINE P == Sketch!PowerOfTwo
<1>0. ArePowers(P) BY SketchPowers
<1> DEFINE T == {i \in 0..N : f[i] < P[i]}
<1> HIDE DEF P
<1>1. 0 \in T BY <1>0 DEF ArePowers, IsTotal
<1>2. ASSUME NEW i \in 0..(N - 1), i \in T PROVE i + 1 \in T
  <2>1. i + 1 \in 1..N /\ i + 1 \in 0..N /\ (i + 1) - 1 = i /\ i \in Nat OBVIOUS
  <2>2. PICK a \in Nat : a = f[i] BY <2>1 DEF IsTotal
  <2>3. PICK p \in Nat : p = P[i] BY <2>1, <1>0 DEF ArePowers
  <2>4. PICK d \in Nat : d = s[i + 1] BY <2>1 DEF AreDigits
  <2>5. d = 0 \/ d = p BY <2>1, <2>3, <2>4 DEF AreDigits, P
  <2>6. f[i + 1] = a + d BY <2>1, <2>2, <2>4 DEF IsTotal
  <2>7. P[i + 1] = 2 * p BY <2>1, <2>3, <1>0 DEF ArePowers
  <2>8. a < p BY <1>2, <2>2, <2>3
  <2>9. a + d < 2 * p BY <2>5, <2>8
  <2> QED BY <2>1, <2>6, <2>7, <2>9
<1>3. \A i \in 0..N : i \in T
  <2> HIDE DEF T
  <2> QED BY <1>1, <1>2, InductionUpTo
<1> QED BY <1>3 DEF P

LEMMA DigitsUnique ==
  ASSUME NEW N \in Nat, NEW s, AreDigits(s, N), NEW f, IsTotal(f, s, N),
         NEW t, AreDigits(t, N), NEW g, IsTotal(g, t, N), f[N] = g[N]
  PROVE  \A i \in 1..N : s[i] = t[i]
<1> DEFINE P == Sketch!PowerOfTwo
<1>0. ArePowers(P) BY SketchPowers
<1>p. \A i \in 0..N : f[i] < P[i] /\ g[i] < P[i] BY DigitsBounded
<1> DEFINE T == {k \in 0..N : f[k] = g[k] => \A i \in 1..k : s[i] = t[i]}
<1> HIDE DEF P
<1>1. 0 \in T OBVIOUS
<1>2. ASSUME NEW i \in 0..(N - 1), i \in T PROVE i + 1 \in T
  <2>1. i + 1 \in 1..N /\ i + 1 \in 0..N /\ (i + 1) - 1 = i /\ i \in Nat /\ i \in 0..N OBVIOUS
  <2> SUFFICES ASSUME f[i + 1] = g[i + 1], NEW j \in 1..(i + 1) PROVE s[j] = t[j] BY <2>1
  <2>2. PICK a \in Nat : a = f[i] BY <2>1 DEF IsTotal
  <2>3. PICK b \in Nat : b = g[i] BY <2>1 DEF IsTotal
  <2>4. PICK p \in Nat : p = P[i] BY <2>1, <1>0 DEF ArePowers
  <2>5. PICK d \in Nat : d = s[i + 1] BY <2>1 DEF AreDigits
  <2>6. PICK e \in Nat : e = t[i + 1] BY <2>1 DEF AreDigits
  <2>7. d = 0 \/ d = p BY <2>1, <2>4, <2>5 DEF AreDigits, P
  <2>8. e = 0 \/ e = p BY <2>1, <2>4, <2>6 DEF AreDigits, P
  <2>9. f[i + 1] = a + d /\ g[i + 1] = b + e BY <2>1, <2>2, <2>3, <2>5, <2>6 DEF IsTotal
  <2>10. a < p /\ b < p BY <2>1, <2>2, <2>3, <2>4, <1>p
  <2>11. a + d = b + e BY <2>9
  <2>12. a = b /\ d = e BY <2>7, <2>8, <2>10, <2>11
  <2>13. \A k \in 1..i : s[k] = t[k] BY <1>2, <2>2, <2>3, <2>12
  <2>14. s[i + 1] = t[i + 1] BY <2>5, <2>6, <2>12
  <2>15. CASE j = i + 1 BY <2>14, <2>15
  <2>16. CASE j # i + 1
    <3>1. j \in 1..i BY <2>16
    <3> QED BY <3>1, <2>13
  <2> QED BY <2>15, <2>16
<1>3. \A i \in 0..N : i \in T
  <2> HIDE DEF T
  <2> QED BY <1>1, <1>2, InductionUpTo
<1>4. N \in 0..N OBVIOUS
<1> QED BY <1>3, <1>4

(* The digits of x exclusive or y. *)
XorDigits(x, y, N) ==
  [i \in 0..N |-> IF i = 0 \/ Sketch!Bit(x, i - 1) = Sketch!Bit(y, i - 1) THEN 0
                  ELSE Sketch!PowerOfTwo[i - 1]]

LEMMA XorIs ==
  ASSUME NEW N \in Nat, Width = N, NEW x, NEW y
  PROVE  /\ AreDigits(XorDigits(x, y, N), N)
         /\ \E f : IsTotal(f, XorDigits(x, y, N), N) /\ Sketch!Xor(x, y) = f[N]
<1> DEFINE s == XorDigits(x, y, N)
           P == Sketch!PowerOfTwo
<1>0. ArePowers(P) BY SketchPowers
<1> HIDE DEF P
<1>1. s \in [0..N -> Nat] /\ \A i \in 1..N : s[i] = 0 \/ s[i] = P[i - 1]
  <2>1. s = [i \in 0..N |-> IF i = 0 \/ Sketch!Bit(x, i - 1) = Sketch!Bit(y, i - 1) THEN 0 ELSE P[i - 1]]
    BY DEF XorDigits, P
  <2>2. ASSUME NEW i \in 1..N PROVE P[i - 1] \in Nat
    <3>1. i - 1 \in Nat OBVIOUS
    <3> QED BY <3>1, <1>0 DEF ArePowers
  <2>3. ASSUME NEW i \in 0..N
        PROVE (IF i = 0 \/ Sketch!Bit(x, i - 1) = Sketch!Bit(y, i - 1) THEN 0 ELSE P[i - 1]) \in Nat
    <3>1. CASE i = 0 BY <3>1
    <3>2. CASE i # 0
      <4>1. i \in 1..N BY <3>2
      <4>2. P[i - 1] \in Nat BY <4>1, <2>2
      <4> QED BY <4>2
    <3> QED BY <3>1, <3>2
  <2> QED BY <2>1, <2>3
<1>2. AreDigits(s, N) BY <1>1 DEF AreDigits, P
<1>3. PICK f : IsTotal(f, s, N) BY <1>1, TotalExists
<1> DEFINE g == CHOOSE h : h = [i \in 0..N |->
                   IF i = 0 THEN 0
                   ELSE h[i - 1] + (IF Sketch!Bit(x, i - 1) = Sketch!Bit(y, i - 1) THEN 0 ELSE Sketch!PowerOfTwo[i - 1])]
<1>4. Sketch!Xor(x, y) = g[N] BY DEF Sketch!Xor
<1>5. ASSUME NEW h
      PROVE [i \in 0..N |-> IF i = 0 THEN 0
                ELSE h[i - 1] + (IF Sketch!Bit(x, i - 1) = Sketch!Bit(y, i - 1) THEN 0 ELSE Sketch!PowerOfTwo[i - 1])]
            = [i \in 0..N |-> IF i = 0 THEN 0 ELSE h[i - 1] + s[i]]
  <2>1. \A i \in 0..N : i # 0 =>
          s[i] = IF Sketch!Bit(x, i - 1) = Sketch!Bit(y, i - 1) THEN 0 ELSE Sketch!PowerOfTwo[i - 1]
    BY DEF XorDigits
  <2> HIDE DEF s
  <2> QED BY <2>1
<1>6. g = CHOOSE h : Totals(h, s, N)
  <2> HIDE DEF s
  <2>1. g = CHOOSE h : h = [i \in 0..N |-> IF i = 0 THEN 0 ELSE h[i - 1] + s[i]]
    BY <1>5, Zenon
  <2> QED BY <2>1, Zenon DEF Totals
<1>7. Totals(f, s, N)
  <2> HIDE DEF s
  <2> DEFINE F == [i \in 0..N |-> IF i = 0 THEN 0 ELSE f[i - 1] + s[i]]
  <2>1. \A i \in 0..N : F[i] = f[i]
    <3> SUFFICES ASSUME NEW i \in 0..N PROVE F[i] = f[i] OBVIOUS
    <3>1. CASE i = 0 BY <3>1, <1>3 DEF IsTotal
    <3>2. CASE i # 0
      <4>1. i \in 1..N BY <3>2
      <4> QED BY <3>2, <4>1, <1>3 DEF IsTotal
    <3> QED BY <3>1, <3>2
  <2>2. F = [i \in 0..N |-> F[i]] OBVIOUS
  <2>3. f = [i \in 0..N |-> f[i]] BY <1>3 DEF IsTotal
  <2> HIDE DEF F
  <2>4. f = F BY <2>1, <2>2, <2>3
  <2> QED BY <2>4 DEF F, Totals
<1>8. Totals(g, s, N)
  <2> HIDE DEF g
  <2> QED BY <1>6, <1>7
<1>9. g[N] = f[N]
  <2> HIDE DEF g, s
  <2> QED BY <1>3, <1>8, TotalUnique
<1> QED BY <1>2, <1>3, <1>4, <1>9

(* x exclusive or x shifted right is a word, and another one for another x. *)
LEMMA XorShiftWord ==
  ASSUME NEW N \in Nat, Width = N, NEW x, NEW n
  PROVE  Sketch!XorShift(x, n) \in Nat /\ Sketch!XorShift(x, n) < Sketch!PowerOfTwo[N]
<1> DEFINE y == Sketch!ShiftRight(x, n)
<1> HIDE DEF y
<1>1. PICK f : IsTotal(f, XorDigits(x, y, N), N) /\ Sketch!Xor(x, y) = f[N] BY XorIs
<1>2. AreDigits(XorDigits(x, y, N), N) BY XorIs
<1>3. N \in 0..N OBVIOUS
<1>4. f[N] \in Nat /\ f[N] < Sketch!PowerOfTwo[N] BY <1>1, <1>2, <1>3, DigitsBounded DEF IsTotal
<1> QED BY <1>1, <1>4 DEF Sketch!XorShift, y

LEMMA XorShiftInjective ==
  ASSUME NEW N \in Nat, Width = N, NEW n \in Nat \ {0},
         NEW x \in Nat, x < Sketch!PowerOfTwo[N], NEW y \in Nat, y < Sketch!PowerOfTwo[N],
         Sketch!XorShift(x, n) = Sketch!XorShift(y, n)
  PROVE  x = y
<1> DEFINE u == Sketch!ShiftRight(x, n)
           v == Sketch!ShiftRight(y, n)
<1>1. u \in Nat /\ v \in Nat BY ShiftIs
<1>2. Sketch!Xor(x, u) = Sketch!Xor(y, v) BY DEF Sketch!XorShift
<1>u. \A i \in Nat : Sketch!Bit(u, i) = Sketch!Bit(x, n + i) BY BitShifted
<1>v. \A i \in Nat : Sketch!Bit(v, i) = Sketch!Bit(y, n + i) BY BitShifted
<1> HIDE DEF u, v
<1>3. PICK f : IsTotal(f, XorDigits(x, u, N), N) /\ Sketch!Xor(x, u) = f[N] BY XorIs
<1>4. PICK g : IsTotal(g, XorDigits(y, v, N), N) /\ Sketch!Xor(y, v) = g[N] BY XorIs
<1>5. AreDigits(XorDigits(x, u, N), N) /\ AreDigits(XorDigits(y, v, N), N) BY XorIs
<1>6. \A i \in 1..N : XorDigits(x, u, N)[i] = XorDigits(y, v, N)[i]
  <2>1. f[N] = g[N] BY <1>2, <1>3, <1>4
  <2> QED BY <1>3, <1>4, <1>5, <2>1, DigitsUnique
<1>7. ASSUME NEW i \in 0..(N - 1)
      PROVE  (Sketch!Bit(x, i) = Sketch!Bit(u, i)) <=> (Sketch!Bit(y, i) = Sketch!Bit(v, i))
  <2>1. i + 1 \in 1..N /\ i + 1 \in 0..N /\ i + 1 # 0 /\ (i + 1) - 1 = i /\ i \in Nat OBVIOUS
  <2>2. XorDigits(x, u, N)[i + 1] = IF Sketch!Bit(x, i) = Sketch!Bit(u, i) THEN 0 ELSE Sketch!PowerOfTwo[i]
    BY <2>1 DEF XorDigits
  <2>3. XorDigits(y, v, N)[i + 1] = IF Sketch!Bit(y, i) = Sketch!Bit(v, i) THEN 0 ELSE Sketch!PowerOfTwo[i]
    BY <2>1 DEF XorDigits
  <2>4. Sketch!PowerOfTwo[i] # 0 BY <2>1, SketchPowers, PowersPositive
  <2> QED BY <2>1, <2>2, <2>3, <2>4, <1>6
<1> DEFINE D == {m \in 0..N : Sketch!Bit(x, N - m) # Sketch!Bit(y, N - m)}
<1>8. D = {}
  <2> SUFFICES ASSUME D # {} PROVE FALSE OBVIOUS
  <2>1. D \in SUBSET Nat OBVIOUS
  <2>2. PICK m \in D : \A k \in D : m <= k
    <3> HIDE DEF D
    <3> QED BY <2>1, LeastNumber
  <2>3. m \in 0..N /\ Sketch!Bit(x, N - m) # Sketch!Bit(y, N - m) BY <2>2
  <2>4. PICK i \in Nat : i = N - m BY <2>3
  <2>5. i < N
    <3> SUFFICES ASSUME i >= N PROVE FALSE BY <2>4
    <3>1. Sketch!ShiftRight(x, i) = 0 /\ Sketch!ShiftRight(y, i) = 0 BY ShiftedOut
    <3> QED BY <2>3, <2>4, <3>1 DEF Sketch!Bit
  <2>6. n + i \in Nat OBVIOUS
  <2>7. Sketch!Bit(x, n + i) = Sketch!Bit(y, n + i)
    <3>1. CASE n + i >= N
      <4>1. Sketch!ShiftRight(x, n + i) = 0 /\ Sketch!ShiftRight(y, n + i) = 0
        BY <2>6, <3>1, ShiftedOut
      <4> QED BY <4>1 DEF Sketch!Bit
    <3>2. CASE ~(n + i >= N)
      <4>1. PICK k \in 0..N : k = N - (n + i)
        <5>1. N - (n + i) \in 0..N BY <3>2, <2>6
        <5> QED BY <5>1
      <4>2. ~(m <= k) /\ N - k = n + i BY <4>1, <2>3, <2>4
      <4>3. k \notin D BY <2>2, <4>2
      <4> QED BY <4>1, <4>2, <4>3
    <3> QED BY <3>1, <3>2
  <2>8. Sketch!Bit(u, i) = Sketch!Bit(v, i) BY <1>u, <1>v, <2>7
  <2>9. i \in 0..(N - 1) BY <2>5
  <2>10. Sketch!Bit(x, i) \in {0, 1} /\ Sketch!Bit(y, i) \in {0, 1} /\ Sketch!Bit(u, i) \in {0, 1}
    BY <1>1, BitIs
  <2>11. Sketch!Bit(x, i) # Sketch!Bit(y, i) BY <2>3, <2>4
  <2> QED BY <1>7, <2>8, <2>9, <2>10, <2>11
<1>9. ASSUME NEW i \in Nat PROVE Sketch!Bit(x, i) = Sketch!Bit(y, i)
  <2>1. CASE i >= N
    <3>1. Sketch!ShiftRight(x, i) = 0 /\ Sketch!ShiftRight(y, i) = 0 BY <2>1, ShiftedOut
    <3> QED BY <3>1 DEF Sketch!Bit
  <2>2. CASE ~(i >= N)
    <3>1. N - i \in 0..N /\ N - (N - i) = i BY <2>2
    <3>2. N - i \notin D BY <1>8
    <3> QED BY <3>1, <3>2
  <2> QED BY <2>1, <2>2
<1> QED BY <1>9, BitsDetermine

(* An odd factor can be cancelled modulo a power of two. *)
Twice(a, d, c) == (2 * a + 1) * d = 2 * c
Halved(a, d, c) == \E e \in Int : d = 2 * e /\ (2 * a + 1) * e = c

LEMMA OddDivides ==
  ASSUME NEW a \in Int, NEW d \in Int, NEW c \in Int, Twice(a, d, c)
  PROVE  Halved(a, d, c)
<1>1. PICK e \in Int : d = 2 * e \/ d = 2 * e + 1
  <2>1. d \div 2 \in Int /\ (d = 2 * (d \div 2) \/ d = 2 * (d \div 2) + 1) OBVIOUS
  <2> QED BY <2>1
<1>2. PICK p \in Int : p = a * e OBVIOUS
<1>3. PICK q \in Int : q = a * d OBVIOUS
<1>4. (2 * a + 1) * d = 2 * q + d BY <1>3
<1>5. 2 * q + d = 2 * c BY <1>4 DEF Twice
<1>6. d = 2 * e BY <1>1, <1>5
<1>7. q = 2 * p BY <1>2, <1>3, <1>6
<1>8. 2 * p + e = c BY <1>5, <1>6, <1>7
<1>9. (2 * a + 1) * e = 2 * p + e BY <1>2
<1> QED BY <1>6, <1>8, <1>9 DEF Halved

Multiple(x, m) == \E q \in Int : x = q * m

LEMMA OddCancels ==
  ASSUME NEW a \in Int
  PROVE  \A k \in Nat : \A d \in Int :
           Multiple((2 * a + 1) * d, Sketch!PowerOfTwo[k]) => Multiple(d, Sketch!PowerOfTwo[k])
<1> DEFINE P == Sketch!PowerOfTwo
<1>0. ArePowers(P) BY SketchPowers
<1> HIDE DEF P
<1> DEFINE T == {k \in Nat : \A d \in Int : Multiple((2 * a + 1) * d, P[k]) => Multiple(d, P[k])}
<1>1. 0 \in T
  <2> SUFFICES ASSUME NEW d \in Int PROVE Multiple(d, P[0]) OBVIOUS
  <2>1. P[0] = 1 BY <1>0 DEF ArePowers
  <2>2. d = d * 1 OBVIOUS
  <2> QED BY <2>1, <2>2 DEF Multiple
<1>2. ASSUME NEW k \in Nat, k \in T PROVE k + 1 \in T
  <2>1. PICK p \in Nat : p = P[k] BY <1>0 DEF ArePowers
  <2>2. P[k + 1] = 2 * p BY <1>0, <2>1 DEF ArePowers
  <2> SUFFICES ASSUME NEW d \in Int, Multiple((2 * a + 1) * d, 2 * p) PROVE Multiple(d, 2 * p)
    BY <2>2
  <2>3. PICK q \in Int : (2 * a + 1) * d = q * (2 * p) BY DEF Multiple
  <2>4. PICK c \in Int : c = q * p OBVIOUS
  <2>5. q * (2 * p) = 2 * c BY <2>4
  <2> Twice(a, d, c) BY <2>3, <2>5 DEF Twice
  <2> Halved(a, d, c) BY OddDivides
  <2>6. PICK e \in Int : d = 2 * e /\ (2 * a + 1) * e = c BY DEF Halved
  <2>7. Multiple((2 * a + 1) * e, p) BY <2>4, <2>6 DEF Multiple
  <2>8. Multiple(e, p) BY <1>2, <2>1, <2>7
  <2>9. PICK r \in Int : e = r * p BY <2>8 DEF Multiple
  <2>10. 2 * (r * p) = r * (2 * p) OBVIOUS
  <2>11. d = r * (2 * p) BY <2>6, <2>9, <2>10
  <2> QED BY <2>11 DEF Multiple
<1>3. \A k \in Nat : k \in T
  <2> HIDE DEF T
  <2> QED BY <1>1, <1>2, Induction
<1> QED BY <1>3 DEF P

(* Words that differ by a multiple of the modulus are the same. *)
LEMMA WordsApart ==
  ASSUME NEW M \in Nat \ {0}, NEW x \in 0..(M - 1), NEW y \in 0..(M - 1), Multiple(x - y, M)
  PROVE  x = y
<1>1. PICK r \in Int : x - y = r * M BY DEF Multiple
<1>2. CASE r = 0 BY <1>1, <1>2
<1>3. CASE r >= 1
  <2>1. PICK t \in Int : t = r * M OBVIOUS
  <2>2. r * M >= M BY <1>3
  <2> QED BY <1>1, <2>1, <2>2
<1>4. CASE r <= -1
  <2>1. PICK t \in Int : t = r * M OBVIOUS
  <2>2. r * M <= -M BY <1>4
  <2> QED BY <1>1, <2>1, <2>2
<1> QED BY <1>2, <1>3, <1>4

LEMMA SameRemainder ==
  ASSUME NEW M \in Nat \ {0}, NEW x \in Int, NEW y \in Int, x % M = y % M
  PROVE  Multiple(x - y, M)
<1>1. PICK q \in Int : q = x \div M OBVIOUS
<1>2. PICK r \in Int : r = y \div M OBVIOUS
<1>3. PICK c \in Int : c = x % M OBVIOUS
<1>4. x = q * M + c BY <1>1, <1>3
<1>5. y = r * M + c BY <1>2, <1>3
<1>6. (q - r) * M = q * M - r * M OBVIOUS
<1>7. q - r \in Int /\ x - y = (q - r) * M BY <1>4, <1>5, <1>6
<1> QED BY <1>7 DEF Multiple

LEMMA MulInjective ==
  ASSUME NEW N \in Nat, NEW M, M = Sketch!PowerOfTwo[N], NEW m \in Nat, m % 2 = 1,
         NEW x \in 0..(M - 1), NEW y \in 0..(M - 1), (m * x) % M = (m * y) % M
  PROVE  x = y
<1>0. M \in Nat \ {0} BY SketchPowers, PowersPositive
<1>1. PICK a \in Int : m = 2 * a + 1
  <2>1. m \div 2 \in Int /\ m = 2 * (m \div 2) + 1 OBVIOUS
  <2> QED BY <2>1
<1>2. x \in Int /\ y \in Int /\ x - y \in Int BY <1>0
<1>3. Multiple(m * x - m * y, M)
  <2>1. PICK u \in Int : u = m * x BY <1>2
  <2>2. PICK v \in Int : v = m * y BY <1>2
  <2>3. u % M = v % M BY <2>1, <2>2
  <2>4. Multiple(u - v, M) BY <1>0, <2>3, SameRemainder
  <2> QED BY <2>1, <2>2, <2>4
<1>4. m * x - m * y = m * (x - y) BY <1>2
<1>5. Multiple((2 * a + 1) * (x - y), M) BY <1>1, <1>3, <1>4
<1>6. Multiple(x - y, M) BY <1>2, <1>5, OddCancels
<1> QED BY <1>0, <1>6, WordsApart

LEMMA AddInjective ==
  ASSUME NEW M \in Nat \ {0}, NEW o \in Nat,
         NEW x \in 0..(M - 1), NEW y \in 0..(M - 1), (x + o) % M = (y + o) % M
  PROVE  x = y
<1>1. x + o \in Int /\ y + o \in Int /\ (x + o) - (y + o) = x - y OBVIOUS
<1>2. Multiple((x + o) - (y + o), M) BY <1>1, SameRemainder
<1> QED BY <1>1, <1>2, WordsApart

(* A permutation of the words is one. *)
LEMMA WordIs ==
  ASSUME Sketch!MinHashAssumption
  PROVE  /\ Sketch!Modulus \in Nat \ {0} /\ Sketch!Modulus = Sketch!PowerOfTwo[Width]
         /\ Width \in Nat /\ Sketch!Word = 0..(Sketch!Modulus - 1)
         /\ Sketch!MaxWord = Sketch!Modulus - 1 /\ Sketch!MaxWord \in Sketch!Word
<1>1. Width \in Nat BY DEF Sketch!MinHashAssumption
<1>2. PICK M : M = Sketch!PowerOfTwo[Width] OBVIOUS
<1>3. M \in Nat \ {0} BY <1>1, <1>2, SketchPowers, PowersPositive
<1>4. Sketch!Modulus = M BY <1>2 DEF Sketch!Modulus
<1>5. M - 1 \in 0..(M - 1) BY <1>3
<1> QED BY <1>1, <1>2, <1>3, <1>4, <1>5 DEF Sketch!Word, Sketch!MaxWord

LEMMA FmixInjective ==
  ASSUME Sketch!MinHashAssumption, NEW x \in Sketch!Word, NEW y \in Sketch!Word
  PROVE  /\ Sketch!Fmix(x) \in Sketch!Word
         /\ Sketch!Fmix(x) = Sketch!Fmix(y) => x = y
<1>1. PICK M : M = Sketch!Modulus OBVIOUS
<1>2. PICK N : N = Width OBVIOUS
<1>3. M \in Nat \ {0} /\ M = Sketch!PowerOfTwo[N] /\ N \in Nat /\ Sketch!Word = 0..(M - 1)
  BY <1>1, <1>2, WordIs
<1>4. /\ Shift[1] \in Nat \ {0} /\ Shift[2] \in Nat \ {0} /\ Shift[3] \in Nat \ {0}
      /\ Factor[1] \in Nat /\ Factor[1] % 2 = 1 /\ Factor[2] \in Nat /\ Factor[2] % 2 = 1
  BY DEF Sketch!MinHashAssumption
<1>5. ASSUME NEW n \in Nat \ {0}, NEW z \in Sketch!Word PROVE Sketch!XorShift(z, n) \in Sketch!Word
  <2>1. Sketch!XorShift(z, n) \in Nat /\ Sketch!XorShift(z, n) < M BY <1>2, <1>3, XorShiftWord
  <2>2. PICK w \in Nat : w = Sketch!XorShift(z, n) BY <2>1
  <2>3. w \in 0..(M - 1) BY <2>1, <2>2, <1>3
  <2> QED BY <1>3, <2>2, <2>3
<1>6. ASSUME NEW n \in Nat \ {0}, NEW z \in Sketch!Word, NEW w \in Sketch!Word,
             Sketch!XorShift(z, n) = Sketch!XorShift(w, n)
      PROVE  z = w
  <2>1. z \in Nat /\ z < M /\ w \in Nat /\ w < M BY <1>3
  <2> QED BY <1>2, <1>3, <1>6, <2>1, XorShiftInjective
<1>7. ASSUME NEW m \in Nat, m % 2 = 1, NEW z \in Sketch!Word
      PROVE  Sketch!WrappingMul(z, m) \in Sketch!Word
  <2>1. PICK c \in Int : c = z * m BY <1>3
  <2>2. c % M \in 0..(M - 1) BY <1>3
  <2> QED BY <1>1, <1>3, <2>1, <2>2 DEF Sketch!WrappingMul
<1>8. ASSUME NEW m \in Nat, m % 2 = 1, NEW z \in Sketch!Word, NEW w \in Sketch!Word,
             Sketch!WrappingMul(z, m) = Sketch!WrappingMul(w, m)
      PROVE  z = w
  <2>1. z \in 0..(M - 1) /\ w \in 0..(M - 1) BY <1>3
  <2>2. z * m = m * z /\ w * m = m * w BY <2>1, <1>3
  <2>3. (m * z) % M = (m * w) % M BY <1>1, <1>8, <2>2 DEF Sketch!WrappingMul
  <2> QED BY <1>3, <1>8, <2>1, <2>3, MulInjective
<1> DEFINE a(z) == Sketch!WrappingMul(Sketch!XorShift(z, Shift[1]), Factor[1])
           b(z) == Sketch!WrappingMul(Sketch!XorShift(a(z), Shift[2]), Factor[2])
<1>9. \A z : Sketch!Fmix(z) = Sketch!XorShift(b(z), Shift[3]) BY DEF Sketch!Fmix
<1>10. ASSUME NEW z \in Sketch!Word
       PROVE /\ Sketch!XorShift(z, Shift[1]) \in Sketch!Word /\ a(z) \in Sketch!Word
             /\ Sketch!XorShift(a(z), Shift[2]) \in Sketch!Word /\ b(z) \in Sketch!Word
  BY <1>4, <1>5, <1>7
<1>11. Sketch!Fmix(x) \in Sketch!Word BY <1>4, <1>5, <1>9, <1>10
<1>12. ASSUME Sketch!Fmix(x) = Sketch!Fmix(y) PROVE x = y
  <2>1. b(x) = b(y) BY <1>4, <1>6, <1>9, <1>10, <1>12
  <2>2. Sketch!XorShift(a(x), Shift[2]) = Sketch!XorShift(a(y), Shift[2]) BY <1>4, <1>8, <1>10, <2>1
  <2>3. a(x) = a(y) BY <1>4, <1>6, <1>10, <2>2
  <2>4. Sketch!XorShift(x, Shift[1]) = Sketch!XorShift(y, Shift[1]) BY <1>4, <1>8, <1>10, <2>3
  <2> QED BY <1>4, <1>6, <2>4
<1> QED BY <1>11, <1>12

LEMMA PermutedInjective ==
  ASSUME Sketch!MinHashAssumption, NEW seed \in Seed, NEW n \in 1..MaxPerm, NEW i \in 1..n,
         NEW x \in Sketch!Word, NEW y \in Sketch!Word
  PROVE  /\ Sketch!Permuted(seed, n, i, x) \in Sketch!Word
         /\ Sketch!Permuted(seed, n, i, x) = Sketch!Permuted(seed, n, i, y) => x = y
<1>1. PICK M : M = Sketch!Modulus OBVIOUS
<1>2. PICK N : N = Width OBVIOUS
<1>3. M \in Nat \ {0} /\ M = Sketch!PowerOfTwo[N] /\ N \in Nat /\ Sketch!Word = 0..(M - 1)
  BY <1>1, <1>2, WordIs
<1>4. MaxPerm \in Nat /\ Draw[seed] \in [1..(2 * MaxPerm) -> Sketch!Word]
  BY DEF Sketch!MinHashAssumption
<1>5. i \in 1..(2 * MaxPerm) /\ n + i \in 1..(2 * MaxPerm) BY <1>4
<1>6. PICK o \in Nat : o = Draw[seed][n + i]
  <2>1. Draw[seed][n + i] \in 0..(M - 1) BY <1>3, <1>4, <1>5
  <2> QED BY <2>1, <1>3
<1>7. PICK d \in Nat : d = Draw[seed][i]
  <2>1. Draw[seed][i] \in 0..(M - 1) BY <1>3, <1>4, <1>5
  <2> QED BY <2>1, <1>3
<1>8. PICK m \in Nat : m = Sketch!OddMultiplier(d) /\ m % 2 = 1
  <2>1. CASE d % 2 = 0
    <3>1. d + 1 \in Nat /\ (d + 1) % 2 = 1 BY <2>1
    <3> QED BY <2>1, <3>1 DEF Sketch!OddMultiplier
  <2>2. CASE d % 2 # 0
    <3>1. d % 2 = 1 BY <2>2
    <3> QED BY <2>2, <3>1 DEF Sketch!OddMultiplier
  <2> QED BY <2>1, <2>2
<1>9. Sketch!Multipliers(seed, n)[i] = m /\ Sketch!Offsets(seed, n)[i] = o
  BY <1>6, <1>7, <1>8 DEF Sketch!Multipliers, Sketch!Offsets
<1>10. PICK u : u = Sketch!Fmix(x) OBVIOUS
<1>11. PICK v : v = Sketch!Fmix(y) OBVIOUS
<1>12. u \in 0..(M - 1) /\ v \in 0..(M - 1) BY <1>3, <1>10, <1>11, FmixInjective
<1>13. Sketch!Permuted(seed, n, i, x) = (((m * u) % M) + o) % M
  BY <1>1, <1>9, <1>10 DEF Sketch!Permuted, Sketch!WrappingAdd, Sketch!WrappingMul
<1>14. Sketch!Permuted(seed, n, i, y) = (((m * v) % M) + o) % M
  BY <1>1, <1>9, <1>11 DEF Sketch!Permuted, Sketch!WrappingAdd, Sketch!WrappingMul
<1>15. PICK p \in 0..(M - 1) : p = (m * u) % M
  <2>1. PICK c \in Int : c = m * u BY <1>3, <1>12
  <2>2. c % M \in 0..(M - 1) BY <1>3
  <2> QED BY <2>1, <2>2
<1>16. PICK q \in 0..(M - 1) : q = (m * v) % M
  <2>1. PICK c \in Int : c = m * v BY <1>3, <1>12
  <2>2. c % M \in 0..(M - 1) BY <1>3
  <2> QED BY <2>1, <2>2
<1>17. (p + o) % M \in 0..(M - 1) BY <1>3
<1>18. ASSUME (p + o) % M = (q + o) % M PROVE x = y
  <2>1. p = q BY <1>3, <1>18, AddInjective
  <2>2. (m * u) % M = (m * v) % M BY <1>15, <1>16, <2>1
  <2>3. u = v BY <1>3, <1>8, <1>12, <2>2, MulInjective
  <2> QED BY <1>10, <1>11, <2>3, FmixInjective
<1> QED BY <1>3, <1>13, <1>14, <1>15, <1>16, <1>17, <1>18

-----------------------------------------------------------------------------
(***************************************************************************)
(* Sketches                                                                *)
(***************************************************************************)

IsLeast(v, S) == v \in S /\ \A w \in S : v <= w

LEMMA MinIs ==
  ASSUME NEW S \in SUBSET Nat, NEW v, IsLeast(v, S)
  PROVE  Sketch!Min(S) = v
<1>1. PICK m : m = Sketch!Min(S) OBVIOUS
<1>2. m \in S /\ \A w \in S : m <= w BY <1>1 DEF IsLeast, Sketch!Min
<1>3. m <= v /\ v <= m /\ m \in Nat /\ v \in Nat BY <1>2 DEF IsLeast
<1> QED BY <1>1, <1>3

(* What permutation i makes of a set, and of the empty one. *)
Image(seed, n, i, A) ==
  {Sketch!MaxWord} \cup {Sketch!Permuted(seed, n, i, h) : h \in A}

(* k is the sketch of A with n permutations. *)
Signature(k, n, A) ==
  /\ k \in [seed : Seed, hashvalues : [1..n -> Sketch!Word]]
  /\ \A i \in 1..n : IsLeast(k.hashvalues[i], Image(k.seed, n, i, A))

SketchInv ==
  /\ sketch = [s \in Name |-> sketch[s]]
  /\ added \in [Name -> SUBSET Value]
  /\ \A s \in Name : sketch[s] = None \/ \E n \in 1..MaxPerm : Signature(sketch[s], n, added[s])

LEMMA ImageWords ==
  ASSUME Sketch!MinHashAssumption, NEW seed \in Seed, NEW n \in 1..MaxPerm, NEW i \in 1..n,
         NEW A \in SUBSET Value
  PROVE  /\ Image(seed, n, i, A) \subseteq Sketch!Word
         /\ Image(seed, n, i, A) \subseteq Nat
         /\ \A w \in Image(seed, n, i, A) : w <= Sketch!MaxWord
<1>1. Value \subseteq Sketch!Word BY DEF Sketch!MinHashAssumption
<1>2. \A h \in A : Sketch!Permuted(seed, n, i, h) \in Sketch!Word BY <1>1, PermutedInjective
<1>3. Image(seed, n, i, A) \subseteq Sketch!Word BY <1>2, WordIs DEF Image
<1>4. PICK M \in Nat : M = Sketch!Modulus BY WordIs
<1>5. Sketch!Word = 0..(M - 1) /\ Sketch!MaxWord = M - 1 BY <1>4, WordIs
<1>6. \A w \in 0..(M - 1) : w \in Nat /\ w <= M - 1 OBVIOUS
<1> QED BY <1>3, <1>5, <1>6

LEMMA SketchLength ==
  ASSUME NEW k, NEW n \in 1..MaxPerm, NEW A, Signature(k, n, A), MaxPerm \in Nat
  PROVE  Len(k.hashvalues) = n /\ DOMAIN k.hashvalues = 1..n
<1>1. k.hashvalues \in [1..n -> Sketch!Word] /\ n \in Nat BY DEF Signature
<1>2. k.hashvalues \in Seq(Sketch!Word) BY <1>1, SeqDef
<1> QED BY <1>1, <1>2, LenProperties

(* One sketch is replaced. *)
LEMMA SketchSet ==
  ASSUME SketchInv, NEW s \in Name, NEW k, NEW A \in SUBSET Value, NEW n \in 1..MaxPerm,
         Signature(k, n, A),
         sketch' = [sketch EXCEPT ![s] = k], added' = [added EXCEPT ![s] = A]
  PROVE  SketchInv'
<1>1. sketch' = [t \in Name |-> IF t = s THEN k ELSE sketch[t]] BY DEF SketchInv
<1>2. added' \in [Name -> SUBSET Value] BY DEF SketchInv
<1>3. \A t \in Name : added'[t] = IF t = s THEN A ELSE added[t] BY DEF SketchInv
<1>4. sketch' = [t \in Name |-> sketch'[t]] BY <1>1
<1>5. ASSUME NEW t \in Name
      PROVE  sketch'[t] = None \/ \E m \in 1..MaxPerm : Signature(sketch'[t], m, added'[t])
  <2>1. CASE t = s BY <1>1, <1>3, <2>1
  <2>2. CASE t # s
    <3>1. sketch'[t] = sketch[t] /\ added'[t] = added[t] BY <1>1, <1>3, <2>2
    <3> QED BY <3>1 DEF SketchInv
  <2> QED BY <2>1, <2>2
<1> QED BY <1>2, <1>4, <1>5 DEF SketchInv

LEMMA SketchInitInv ==
  ASSUME Sketch!Init
  PROVE  SketchInv
BY DEF SketchInv, Sketch!Init

(* The sketch of the empty set. *)
LEMMA EmptySignature ==
  ASSUME Sketch!MinHashAssumption, NEW n \in 1..MaxPerm, NEW seed \in Seed
  PROVE  Signature([seed |-> seed, hashvalues |-> Sketch!EmptyValues(n)], n, {})
<1> DEFINE k == [seed |-> seed, hashvalues |-> Sketch!EmptyValues(n)]
<1>1. k \in [seed : Seed, hashvalues : [1..n -> Sketch!Word]] BY WordIs DEF Sketch!EmptyValues
<1>2. ASSUME NEW i \in 1..n PROVE IsLeast(k.hashvalues[i], Image(k.seed, n, i, {}))
  <2>1. k.hashvalues[i] = Sketch!MaxWord BY DEF Sketch!EmptyValues
  <2>2. Image(k.seed, n, i, {}) = {Sketch!MaxWord} BY DEF Image
  <2>3. Sketch!MaxWord \in Nat
    <3>1. PICK M \in Nat \ {0} : M = Sketch!Modulus BY WordIs
    <3>2. Sketch!MaxWord = M - 1 BY <3>1, WordIs
    <3> QED BY <3>1, <3>2
  <2> QED BY <2>1, <2>2, <2>3 DEF IsLeast
<1> QED BY <1>1, <1>2 DEF Signature

LEMMA SketchNewInv ==
  ASSUME Sketch!MinHashAssumption, SketchInv, NEW s \in Name, NEW n \in 0..MaxPerm,
         NEW seed \in Seed, Sketch!New(s, n, seed)
  PROVE  SketchInv'
<1>1. n \in 1..MaxPerm BY DEF Sketch!New, Sketch!MinHashAssumption
<1> DEFINE k == [seed |-> seed, hashvalues |-> Sketch!EmptyValues(n)]
<1>2. Signature(k, n, {}) BY <1>1, EmptySignature
<1>3. sketch' = [sketch EXCEPT ![s] = k] /\ added' = [added EXCEPT ![s] = {}] BY DEF Sketch!New
<1> HIDE DEF k
<1> QED BY <1>1, <1>2, <1>3, SketchSet

LEMMA SketchClearInv ==
  ASSUME Sketch!MinHashAssumption, SketchInv, NEW s \in Name, Sketch!Clear(s)
  PROVE  SketchInv'
<1>0. MaxPerm \in Nat BY DEF Sketch!MinHashAssumption
<1>1. PICK n \in 1..MaxPerm : Signature(sketch[s], n, added[s]) BY DEF SketchInv, Sketch!Clear
<1>2. Sketch!NumPerm(s) = n BY <1>0, <1>1, SketchLength DEF Sketch!NumPerm
<1> DEFINE k == [seed |-> sketch[s].seed, hashvalues |-> Sketch!EmptyValues(n)]
<1>3. sketch[s].seed \in Seed BY <1>1 DEF Signature
<1>4. Signature(k, n, {}) BY <1>3, EmptySignature
<1>5. [sketch[s] EXCEPT !.hashvalues = Sketch!EmptyValues(n)] = k BY <1>1 DEF Signature
<1>6. sketch' = [sketch EXCEPT ![s] = k]
  BY <1>2, <1>5 DEF Sketch!Clear, SketchInv
<1>7. added' = [added EXCEPT ![s] = {}] BY DEF Sketch!Clear
<1> HIDE DEF k
<1> QED BY <1>4, <1>6, <1>7, SketchSet

LEMMA SketchFromSignatureInv ==
  ASSUME Sketch!MinHashAssumption, SketchInv, NEW s \in Name, NEW t \in Name,
         Sketch!FromSignature(s, t)
  PROVE  SketchInv'
<1>1. PICK n \in 1..MaxPerm : Signature(sketch[t], n, added[t])
  BY DEF SketchInv, Sketch!FromSignature
<1>2. [seed |-> sketch[t].seed, hashvalues |-> sketch[t].hashvalues] = sketch[t]
  BY <1>1 DEF Signature
<1>3. PICK k : k = sketch[t] OBVIOUS
<1>4. PICK A \in SUBSET Value : A = added[t] BY DEF SketchInv
<1>5. sketch' = [sketch EXCEPT ![s] = k] /\ added' = [added EXCEPT ![s] = A]
  BY <1>2, <1>3, <1>4 DEF Sketch!FromSignature
<1> QED BY <1>1, <1>3, <1>4, <1>5, SketchSet

LEMMA LowerIsLeast ==
  ASSUME NEW S \in SUBSET Nat, NEW v, IsLeast(v, S), NEW w \in Nat
  PROVE  IsLeast(Sketch!Lower(v, w), S \cup {w})
<1>1. v \in Nat BY DEF IsLeast
<1>2. CASE w < v
  <2>1. \A x \in S : v <= x /\ x \in Nat BY DEF IsLeast
  <2>2. \A x \in S \cup {w} : w <= x BY <1>1, <1>2, <2>1
  <2> QED BY <1>2, <2>2 DEF Sketch!Lower, IsLeast
<1>3. CASE ~(w < v) BY <1>1, <1>3 DEF Sketch!Lower, IsLeast
<1> QED BY <1>2, <1>3

LEMMA LeastIsLeast ==
  ASSUME NEW S \in SUBSET Nat, NEW T \in SUBSET Nat, NEW v, NEW w, IsLeast(v, S), IsLeast(w, T)
  PROVE  IsLeast(Sketch!Least(v, w), S \cup T)
<1>1. v \in Nat /\ w \in Nat BY DEF IsLeast
<1>2. {v, w} \in SUBSET Nat BY <1>1
<1>3. CASE v <= w
  <2>1. IsLeast(v, {v, w}) BY <1>1, <1>3 DEF IsLeast
  <2>2. Sketch!Least(v, w) = v BY <1>2, <2>1, MinIs DEF Sketch!Least
  <2>3. \A x \in S : v <= x BY DEF IsLeast
  <2>4. \A x \in T : w <= x /\ x \in Nat BY DEF IsLeast
  <2>5. \A x \in T : v <= x BY <1>1, <1>3, <2>4
  <2> QED BY <2>2, <2>3, <2>5 DEF IsLeast
<1>4. CASE ~(v <= w)
  <2>1. IsLeast(w, {v, w}) BY <1>1, <1>4 DEF IsLeast
  <2>2. Sketch!Least(v, w) = w BY <1>2, <2>1, MinIs DEF Sketch!Least
  <2>3. \A x \in T : w <= x BY DEF IsLeast
  <2>4. \A x \in S : v <= x /\ x \in Nat BY DEF IsLeast
  <2>5. \A x \in S : w <= x BY <1>1, <1>4, <2>4
  <2> QED BY <2>2, <2>3, <2>5 DEF IsLeast
<1> QED BY <1>3, <1>4

LEMMA SketchUpdateInv ==
  ASSUME Sketch!MinHashAssumption, SketchInv, NEW s \in Name, NEW h \in Value, Sketch!Update(s, h)
  PROVE  SketchInv'
<1>0. MaxPerm \in Nat /\ Value \subseteq Sketch!Word BY DEF Sketch!MinHashAssumption
<1>1. PICK n \in 1..MaxPerm : Signature(sketch[s], n, added[s]) BY DEF SketchInv, Sketch!Update
<1>2. Sketch!NumPerm(s) = n /\ DOMAIN sketch[s].hashvalues = 1..n
  BY <1>0, <1>1, SketchLength DEF Sketch!NumPerm
<1>3. PICK seed \in Seed : seed = sketch[s].seed BY <1>1 DEF Signature
<1>4. PICK v \in [1..n -> Sketch!Word] : v = sketch[s].hashvalues BY <1>1 DEF Signature
<1>5. PICK A \in SUBSET Value : A = added[s] BY DEF SketchInv
<1> DEFINE w == [i \in 1..n |-> Sketch!Lower(v[i], Sketch!Permuted(seed, n, i, h))]
           k == [seed |-> seed, hashvalues |-> w]
<1>6. \A i \in 1..n : Sketch!Permuted(seed, n, i, h) \in Sketch!Word BY <1>0, PermutedInjective
<1>7. w \in [1..n -> Sketch!Word] BY <1>6 DEF Sketch!Lower
<1>8. ASSUME NEW i \in 1..n PROVE IsLeast(w[i], Image(seed, n, i, A \cup {h}))
  <2>1. IsLeast(v[i], Image(seed, n, i, A)) BY <1>1, <1>3, <1>4, <1>5 DEF Signature
  <2>2. Image(seed, n, i, A) \in SUBSET Nat BY ImageWords
  <2>3. Sketch!Permuted(seed, n, i, h) \in Nat
    <3>1. Sketch!Permuted(seed, n, i, h) \in Image(seed, n, i, {h}) BY DEF Image
    <3> QED BY <3>1, ImageWords
  <2>4. Image(seed, n, i, A \cup {h}) = Image(seed, n, i, A) \cup {Sketch!Permuted(seed, n, i, h)}
    BY DEF Image
  <2>5. w[i] = Sketch!Lower(v[i], Sketch!Permuted(seed, n, i, h)) OBVIOUS
  <2> HIDE DEF w
  <2>6. PICK S \in SUBSET Nat : S = Image(seed, n, i, A) BY <2>2
  <2>7. PICK p \in Nat : p = Sketch!Permuted(seed, n, i, h) BY <2>3
  <2>8. IsLeast(Sketch!Lower(v[i], p), S \cup {p}) BY <2>1, <2>6, LowerIsLeast
  <2> QED BY <2>4, <2>5, <2>6, <2>7, <2>8
<1>9. Signature(k, n, A \cup {h}) BY <1>7, <1>8 DEF Signature
<1>10. [i \in DOMAIN sketch[s].hashvalues |->
          Sketch!Lower(sketch[s].hashvalues[i],
                       Sketch!Permuted(sketch[s].seed, Sketch!NumPerm(s), i, h))] = w
  BY <1>2, <1>3, <1>4
<1> HIDE DEF w
<1>11. [sketch[s] EXCEPT !.hashvalues = w] = k BY <1>1, <1>3 DEF Signature
<1>12. sketch' = [sketch EXCEPT ![s] = k] BY <1>10, <1>11 DEF Sketch!Update, SketchInv
<1>13. added' = [added EXCEPT ![s] = A \cup {h}] BY <1>5 DEF Sketch!Update, SketchInv
<1> HIDE DEF k
<1> QED BY <1>9, <1>12, <1>13, SketchSet

LEMMA SketchMergeInv ==
  ASSUME Sketch!MinHashAssumption, SketchInv, NEW s \in Name, NEW t \in Name, Sketch!Merge(s, t)
  PROVE  SketchInv'
<1>0. MaxPerm \in Nat BY DEF Sketch!MinHashAssumption
<1>1. PICK n \in 1..MaxPerm : Signature(sketch[s], n, added[s]) BY DEF SketchInv, Sketch!Merge
<1>2. Sketch!NumPerm(s) = n /\ DOMAIN sketch[s].hashvalues = 1..n
  BY <1>0, <1>1, SketchLength DEF Sketch!NumPerm
<1>3. PICK m \in 1..MaxPerm : Signature(sketch[t], m, added[t]) BY DEF SketchInv, Sketch!Merge
<1>4. Sketch!NumPerm(t) = m BY <1>0, <1>3, SketchLength DEF Sketch!NumPerm
<1>5. m = n /\ sketch[t].seed = sketch[s].seed
  BY <1>2, <1>4 DEF Sketch!Merge, Sketch!Compatible
<1>6. PICK seed \in Seed : seed = sketch[s].seed BY <1>1 DEF Signature
<1>7. PICK v \in [1..n -> Sketch!Word] : v = sketch[s].hashvalues BY <1>1 DEF Signature
<1>8. PICK u \in [1..n -> Sketch!Word] : u = sketch[t].hashvalues BY <1>3, <1>5 DEF Signature
<1>9. PICK A \in SUBSET Value : A = added[s] BY DEF SketchInv
<1>10. PICK B \in SUBSET Value : B = added[t] BY DEF SketchInv
<1> DEFINE w == [i \in 1..n |-> Sketch!Least(v[i], u[i])]
           k == [seed |-> seed, hashvalues |-> w]
<1>11. ASSUME NEW i \in 1..n PROVE IsLeast(w[i], Image(seed, n, i, A \cup B))
  <2>1. IsLeast(v[i], Image(seed, n, i, A)) BY <1>1, <1>6, <1>7, <1>9 DEF Signature
  <2>2. IsLeast(u[i], Image(seed, n, i, B)) BY <1>3, <1>5, <1>6, <1>8, <1>10 DEF Signature
  <2>3. Image(seed, n, i, A) \in SUBSET Nat /\ Image(seed, n, i, B) \in SUBSET Nat BY ImageWords
  <2>4. Image(seed, n, i, A \cup B) = Image(seed, n, i, A) \cup Image(seed, n, i, B)
    BY DEF Image
  <2>5. w[i] = Sketch!Least(v[i], u[i]) OBVIOUS
  <2> HIDE DEF w
  <2>6. PICK S \in SUBSET Nat : S = Image(seed, n, i, A) BY <2>3
  <2>7. PICK T \in SUBSET Nat : T = Image(seed, n, i, B) BY <2>3
  <2>8. IsLeast(Sketch!Least(v[i], u[i]), S \cup T) BY <2>1, <2>2, <2>6, <2>7, LeastIsLeast
  <2> QED BY <2>4, <2>5, <2>6, <2>7, <2>8
<1>12. w \in [1..n -> Sketch!Word]
  <2>1. \A i \in 1..n : Image(seed, n, i, A \cup B) \subseteq Sketch!Word BY ImageWords
  <2>2. \A i \in 1..n : w[i] \in Sketch!Word BY <1>11, <2>1 DEF IsLeast
  <2> QED BY <2>2
<1>13. Signature(k, n, A \cup B) BY <1>11, <1>12 DEF Signature
<1>14. [i \in DOMAIN sketch[s].hashvalues |->
          Sketch!Least(sketch[s].hashvalues[i], sketch[t].hashvalues[i])] = w
  BY <1>2, <1>7, <1>8
<1> HIDE DEF w
<1>15. [sketch[s] EXCEPT !.hashvalues = w] = k BY <1>1, <1>5, <1>6 DEF Signature
<1>16. sketch' = [sketch EXCEPT ![s] = k] BY <1>14, <1>15 DEF Sketch!Merge, SketchInv
<1>17. added' = [added EXCEPT ![s] = A \cup B] BY <1>9, <1>10 DEF Sketch!Merge, SketchInv
<1> HIDE DEF k
<1> QED BY <1>13, <1>16, <1>17, SketchSet

LEMMA SketchNextInv ==
  ASSUME Sketch!MinHashAssumption, SketchInv, [Sketch!Next]_(Sketch!vars)
  PROVE  SketchInv'
<1>1. CASE UNCHANGED Sketch!vars BY <1>1 DEF SketchInv, Sketch!vars
<1>2. CASE Sketch!Next
  BY <1>2, SketchNewInv, SketchClearInv, SketchFromSignatureInv, SketchUpdateInv, SketchMergeInv
  DEF Sketch!Next
<1> QED BY <1>1, <1>2

LEMMA InvSketchOfSet ==
  ASSUME Sketch!MinHashAssumption, SketchInv
  PROVE  Sketch!SketchOfSet
<1>0. MaxPerm \in Nat BY DEF Sketch!MinHashAssumption
<1> SUFFICES ASSUME NEW s \in Name, sketch[s] # None, NEW i \in 1..Sketch!NumPerm(s)
             PROVE  sketch[s].hashvalues[i] =
                      Sketch!Min({Sketch!MaxWord} \cup
                        {Sketch!Permuted(sketch[s].seed, Sketch!NumPerm(s), i, h) : h \in added[s]})
  BY DEF Sketch!SketchOfSet
<1>1. PICK n \in 1..MaxPerm : Signature(sketch[s], n, added[s]) BY DEF SketchInv
<1>2. Sketch!NumPerm(s) = n BY <1>0, <1>1, SketchLength DEF Sketch!NumPerm
<1>3. PICK seed \in Seed : seed = sketch[s].seed BY <1>1 DEF Signature
<1>4. PICK A \in SUBSET Value : A = added[s] BY DEF SketchInv
<1>5. i \in 1..n BY <1>2
<1>6. IsLeast(sketch[s].hashvalues[i], Image(seed, n, i, A)) BY <1>1, <1>3, <1>4, <1>5 DEF Signature
<1>7. Image(seed, n, i, A) \in SUBSET Nat BY <1>5, ImageWords
<1>8. Sketch!Min(Image(seed, n, i, A)) = sketch[s].hashvalues[i] BY <1>6, <1>7, MinIs
<1> QED BY <1>2, <1>3, <1>4, <1>8 DEF Image

(* A value of a set that is not empty comes first, and its permuted value  *)
(* is the word of the sketch.                                              *)
LEMMA FirstIs ==
  ASSUME Sketch!MinHashAssumption, SketchInv, NEW s \in Name, added[s] # {},
         NEW n \in 1..MaxPerm, Signature(sketch[s], n, added[s]), NEW i \in 1..n
  PROVE  /\ Sketch!First(s, i) \in added[s]
         /\ Sketch!Permuted(sketch[s].seed, n, i, Sketch!First(s, i)) = sketch[s].hashvalues[i]
<1>0. MaxPerm \in Nat BY DEF Sketch!MinHashAssumption
<1>2. Sketch!NumPerm(s) = n BY <1>0, SketchLength DEF Sketch!NumPerm
<1>3. PICK seed \in Seed : seed = sketch[s].seed BY DEF Signature
<1>4. PICK A \in SUBSET Value : A = added[s] BY DEF SketchInv
<1>5. PICK v : v = sketch[s].hashvalues[i] OBVIOUS
<1> DEFINE f(h) == Sketch!Permuted(seed, n, i, h)
<1>6. IsLeast(v, Image(seed, n, i, A)) BY <1>3, <1>4, <1>5 DEF Signature
<1>7. Image(seed, n, i, A) \subseteq Nat /\ \A w \in Image(seed, n, i, A) : w <= Sketch!MaxWord
  BY ImageWords
<1>8. \A h \in A : f(h) \in Image(seed, n, i, A) BY DEF Image
<1>9. \A h \in A : v <= f(h) BY <1>6, <1>8 DEF IsLeast
<1>10. PICK h \in A : f(h) = v
  <2>1. CASE v = Sketch!MaxWord
    <3>1. PICK g \in A : TRUE BY <1>4
    <3>2. f(g) <= v /\ v <= f(g) /\ f(g) \in Nat /\ v \in Nat
      BY <1>6, <1>7, <1>8, <1>9, <2>1 DEF IsLeast
    <3> QED BY <3>2
  <2>2. CASE v # Sketch!MaxWord BY <1>6, <2>2 DEF Image, IsLeast
  <2> QED BY <2>1, <2>2
<1>11. Sketch!First(s, i) = CHOOSE x \in A : \A g \in A : f(x) <= f(g)
  BY <1>2, <1>3, <1>4 DEF Sketch!First
<1>12. \A g \in A : f(h) <= f(g) BY <1>9, <1>10
<1>13. PICK x : x = Sketch!First(s, i) OBVIOUS
<1>14. x \in A /\ \A g \in A : f(x) <= f(g) BY <1>11, <1>12, <1>13
<1>15. f(x) <= v /\ v <= f(x) /\ f(x) \in Nat /\ v \in Nat
  BY <1>6, <1>7, <1>8, <1>9, <1>10, <1>14 DEF IsLeast
<1>16. f(x) = v BY <1>15
<1> QED BY <1>3, <1>4, <1>5, <1>13, <1>14, <1>16

LEMMA InvAgreement ==
  ASSUME Sketch!MinHashAssumption, SketchInv
  PROVE  Sketch!AgreementIsShared
<1>0. MaxPerm \in Nat /\ Value \subseteq Sketch!Word BY DEF Sketch!MinHashAssumption
<1> SUFFICES ASSUME NEW s \in Name, NEW t \in Name, sketch[s] # None, sketch[t] # None,
                    added[s] # {}, added[t] # {}, Sketch!Compatible(s, t)
             PROVE  Sketch!Matches(s, t) =
                      {i \in 1..Sketch!NumPerm(s) : Sketch!First(s, i) = Sketch!First(t, i)}
  BY DEF Sketch!AgreementIsShared
<1>1. PICK n \in 1..MaxPerm : Signature(sketch[s], n, added[s]) BY DEF SketchInv
<1>2. Sketch!NumPerm(s) = n BY <1>0, <1>1, SketchLength DEF Sketch!NumPerm
<1>3. PICK m \in 1..MaxPerm : Signature(sketch[t], m, added[t]) BY DEF SketchInv
<1>4. Sketch!NumPerm(t) = m BY <1>0, <1>3, SketchLength DEF Sketch!NumPerm
<1>5. m = n /\ sketch[t].seed = sketch[s].seed BY <1>2, <1>4 DEF Sketch!Compatible
<1>6. PICK seed \in Seed : seed = sketch[s].seed BY <1>1 DEF Signature
<1>7. ASSUME NEW i \in 1..n
      PROVE  sketch[s].hashvalues[i] = sketch[t].hashvalues[i] <=> Sketch!First(s, i) = Sketch!First(t, i)
  <2>1. PICK x : x = Sketch!First(s, i) OBVIOUS
  <2>2. PICK y : y = Sketch!First(t, i) OBVIOUS
  <2>3. x \in added[s] /\ Sketch!Permuted(seed, n, i, x) = sketch[s].hashvalues[i]
    BY <1>1, <1>6, <2>1, FirstIs
  <2>4. y \in added[t] /\ Sketch!Permuted(seed, n, i, y) = sketch[t].hashvalues[i]
    BY <1>3, <1>5, <1>6, <2>2, FirstIs
  <2>5. added[s] \subseteq Value /\ added[t] \subseteq Value BY DEF SketchInv
  <2>6. x \in Sketch!Word /\ y \in Sketch!Word BY <1>0, <2>3, <2>4, <2>5
  <2>7. Sketch!Permuted(seed, n, i, x) = Sketch!Permuted(seed, n, i, y) => x = y
    BY <2>6, PermutedInjective
  <2> QED BY <2>1, <2>2, <2>3, <2>4, <2>7
<1> QED BY <1>2, <1>7 DEF Sketch!Matches
-----------------------------------------------------------------------------
(***************************************************************************)
(* Union-find                                                              *)
(*                                                                         *)
(* A forest is known by top, which gives every node its root.              *)
(***************************************************************************)

Follows(w, N, p, x) == w[0] = x /\ \A i \in 0..(N - 1) : w[i + 1] = p[w[i]]

LEMMA WalkIs ==
  ASSUME NEW N \in Nat, NEW u, NEW p \in [1..N -> 1..N], u.parent = p, NEW x \in 1..N
  PROVE  \E w \in [0..N -> 1..N] :
           /\ Follows(w, N, p, x)
           /\ Groups!Walk(u, x) = w /\ Groups!Root(u, x) = w[N]
<1> DEFINE G == [i \in 1..N |-> p]
           g == CHOOSE h : h = [i \in 0..N |-> IF i = 0 THEN x ELSE p[h[i - 1]]]
           w == [i \in 0..N |-> g[i]]
<1>0. Len(p) = N
  <2>1. p \in Seq(1..N) BY SeqDef
  <2> QED BY <2>1, LenProperties
<1>1. G \in [1..N -> [1..N -> 1..N]] OBVIOUS
<1>2. PICK f : IsRecursive(f, N, x, G, 1..N)
  <2> HIDE DEF G
  <2> QED BY <1>1, RecursionExists
<1>3. f = [i \in 0..N |-> IF i = 0 THEN x ELSE p[f[i - 1]]]
  <2> DEFINE F == [i \in 0..N |-> IF i = 0 THEN x ELSE p[f[i - 1]]]
  <2>1. ASSUME NEW i \in 0..N PROVE f[i] = IF i = 0 THEN x ELSE p[f[i - 1]]
    <3>1. CASE i = 0 BY <1>2, <3>1 DEF IsRecursive
    <3>2. CASE i # 0
      <4>1. i \in 1..N BY <3>2
      <4> QED BY <1>2, <3>2, <4>1 DEF IsRecursive
    <3> QED BY <3>1, <3>2
  <2>2. f = [i \in 0..N |-> f[i]] BY <1>2 DEF IsRecursive
  <2>3. F = [i \in 0..N |-> F[i]] /\ \A i \in 0..N : F[i] = f[i] BY <2>1
  <2> HIDE DEF F
  <2>4. f = F BY <2>2, <2>3
  <2> QED BY <2>4 DEF F
<1>4. g = [i \in 0..N |-> IF i = 0 THEN x ELSE p[g[i - 1]]] BY <1>3
<1>5. Groups!Walk(u, x) = w BY <1>0 DEF Groups!Walk
<1> HIDE DEF g
<1>6. g[0] = x /\ \A n \in 0..(N - 1) : g[n + 1] = p[g[n]]
  <2> DEFINE H == [i \in 0..N |-> IF i = 0 THEN x ELSE p[g[i - 1]]]
  <2>1. H[0] = x OBVIOUS
  <2>2. ASSUME NEW n \in 0..(N - 1) PROVE H[n + 1] = p[g[n]]
    <3>1. n + 1 \in 0..N /\ n + 1 # 0 /\ (n + 1) - 1 = n OBVIOUS
    <3>2. H[n + 1] = p[g[(n + 1) - 1]] BY <3>1
    <3> QED BY <3>1, <3>2
  <2>3. g = H BY <1>4
  <2> HIDE DEF H
  <2> QED BY <2>1, <2>2, <2>3
<1>7. \A n \in 0..N : g[n] \in 1..N
  <2> DEFINE T == {n \in 0..N : g[n] \in 1..N}
  <2>1. 0 \in T BY <1>6
  <2>2. ASSUME NEW n \in 0..(N - 1), n \in T PROVE n + 1 \in T
    <3>1. n + 1 \in 0..N OBVIOUS
    <3> QED BY <1>6, <2>2, <3>1
  <2>3. \A n \in 0..N : n \in T
    <3> HIDE DEF T
    <3> QED BY <2>1, <2>2, InductionUpTo
  <2> QED BY <2>3
<1>8. w \in [0..N -> 1..N] BY <1>7
<1>9. w[0] = x /\ \A i \in 0..(N - 1) : w[i + 1] = p[w[i]]
  <2>1. \A i \in 0..N : w[i] = g[i] OBVIOUS
  <2> HIDE DEF w
  <2>2. \A i \in 0..(N - 1) : i \in 0..N /\ i + 1 \in 0..N OBVIOUS
  <2>3. \A i \in 0..(N - 1) : w[i + 1] = g[i + 1] /\ w[i] = g[i] BY <2>1, <2>2
  <2>4. 0 \in 0..N OBVIOUS
  <2> QED BY <1>6, <2>1, <2>3, <2>4
<1>10. Groups!Root(u, x) = w[N] BY <1>0, <1>5 DEF Groups!Root
<1> HIDE DEF w
<1> QED BY <1>5, <1>8, <1>9, <1>10 DEF Follows

Class(N, top, i) == {j \in 1..N : top[j] = top[i]}

Forest(u, N, top) ==
  /\ u \in [parent : [1..N -> 1..N], rank : [1..N -> Nat]]
  /\ top \in [1..N -> 1..N]
  /\ \A i \in 1..N : top[u.parent[i]] = top[i] /\ u.parent[top[i]] = top[i]
  /\ \A i \in 1..N : u.parent[i] = i => top[i] = i
  /\ \A i \in 1..N : u.parent[i] # i => u.rank[i] < u.rank[u.parent[i]]
  /\ \A i \in 1..N : top[i] # i => u.rank[i] < u.rank[top[i]]
  /\ \A i \in 1..N : Cardinality(Class(N, top, i)) >= Groups!PowerOfTwo[u.rank[top[i]]]

LEMMA ClassFinite ==
  ASSUME NEW N \in Nat, NEW top, NEW i
  PROVE  /\ IsFiniteSet(Class(N, top, i)) /\ Cardinality(Class(N, top, i)) \in Nat
         /\ Cardinality(Class(N, top, i)) <= N
<1>1. IsFiniteSet(1..N) /\ Cardinality(1..N) = N
  <2>1. IsFiniteSet(1..N) /\ Cardinality(1..N) = IF 1 > N THEN 0 ELSE N - 1 + 1
    BY FS_Interval
  <2> QED BY <2>1
<1>2. Class(N, top, i) \subseteq 1..N BY DEF Class
<1>3. IsFiniteSet(Class(N, top, i)) /\ Cardinality(Class(N, top, i)) <= N BY <1>1, <1>2, FS_Subset
<1> QED BY <1>3, FS_CardinalityType

LEMMA RankSmall ==
  ASSUME NEW N \in Nat, NEW u, NEW top, Forest(u, N, top), NEW i \in 1..N
  PROVE  u.rank[i] < N
<1>1. PICK k \in Nat : k = u.rank[top[i]] BY DEF Forest
<1>2. PICK c \in Nat : c = Cardinality(Class(N, top, i)) /\ c <= N BY ClassFinite
<1>3. PICK e \in Nat : e = Groups!PowerOfTwo[k] /\ k < e BY GroupsPowers, PowersPositive
<1>4. c >= e BY <1>1, <1>2, <1>3 DEF Forest
<1>5. k < N BY <1>2, <1>3, <1>4
<1>6. PICK r \in Nat : r = u.rank[i] BY DEF Forest
<1>7. r <= k
  <2>1. CASE top[i] = i BY <1>1, <1>6, <2>1
  <2>2. CASE top[i] # i
    <3>1. u.rank[i] < u.rank[top[i]] BY <2>2 DEF Forest
    <3> QED BY <1>1, <1>6, <3>1
  <2> QED BY <2>1, <2>2
<1> QED BY <1>5, <1>6, <1>7

(* find ends at the root, because ranks grow and are less than the length. *)
LEMMA RootIs ==
  ASSUME NEW N \in Nat, NEW u, NEW top, Forest(u, N, top), NEW x \in 1..N
  PROVE  /\ Groups!Root(u, x) = top[x]
         /\ \A y \in Groups!Range(Groups!Walk(u, x)) : y \in 1..N /\ top[y] = top[x]
<1>1. PICK p \in [1..N -> 1..N] : p = u.parent BY DEF Forest
<1>2. PICK r \in [1..N -> Nat] : r = u.rank BY DEF Forest
<1>3. /\ top \in [1..N -> 1..N]
      /\ \A i \in 1..N : top[p[i]] = top[i]
      /\ \A i \in 1..N : p[i] = i => top[i] = i
      /\ \A i \in 1..N : p[i] # i => r[i] < r[p[i]]
  BY <1>1, <1>2 DEF Forest
<1>4. \A i \in 1..N : r[i] < N BY <1>2, RankSmall
<1>5. PICK w \in [0..N -> 1..N] :
        Follows(w, N, p, x) /\ Groups!Walk(u, x) = w /\ Groups!Root(u, x) = w[N]
  BY <1>1, WalkIs
<1> DEFINE T == {n \in 0..N : top[w[n]] = top[x] /\ (p[w[n]] = w[n] \/ n <= r[w[n]])}
<1>6. 0 \in T
  <2>1. r[x] \in Nat OBVIOUS
  <2> QED BY <1>5, <2>1 DEF Follows
<1>7. ASSUME NEW n \in 0..(N - 1), n \in T PROVE n + 1 \in T
  <2>1. n \in 0..N /\ n + 1 \in 0..N OBVIOUS
  <2>2. PICK y \in 1..N : y = w[n] BY <2>1
  <2>3. PICK z \in 1..N : z = w[n + 1] BY <2>1
  <2>4. z = p[y] BY <1>5, <2>2, <2>3 DEF Follows
  <2>5. top[z] = top[x] BY <1>3, <1>7, <2>2, <2>4
  <2>6. CASE p[y] = y BY <2>1, <2>2, <2>3, <2>4, <2>5, <2>6
  <2>7. CASE p[y] # y
    <3>1. n <= r[y] BY <1>7, <2>2, <2>7
    <3>2. r[y] < r[z] BY <1>3, <2>4, <2>7
    <3>3. r[y] \in Nat /\ r[z] \in Nat OBVIOUS
    <3>4. n + 1 <= r[z] BY <3>1, <3>2, <3>3
    <3> QED BY <2>1, <2>3, <2>5, <3>4
  <2> QED BY <2>6, <2>7
<1>8. \A n \in 0..N : n \in T
  <2> HIDE DEF T
  <2> QED BY <1>6, <1>7, InductionUpTo
<1>9. N \in 0..N OBVIOUS
<1>10. PICK y \in 1..N : y = w[N] BY <1>9
<1>11. top[y] = top[x] /\ (p[y] = y \/ N <= r[y]) BY <1>8, <1>9, <1>10
<1>12. p[y] = y
  <2>1. r[y] < N /\ r[y] \in Nat BY <1>4
  <2> QED BY <1>11, <2>1
<1>13. top[x] = y BY <1>3, <1>11, <1>12
<1>14. \A z \in Groups!Range(w) : z \in 1..N /\ top[z] = top[x]
  <2>1. \A n \in 0..N : w[n] \in 1..N /\ top[w[n]] = top[x] BY <1>8
  <2> HIDE DEF T
  <2>2. Groups!Range(w) = {w[n] : n \in 0..N}
    <3>1. DOMAIN w = 0..N OBVIOUS
    <3> QED BY <3>1 DEF Groups!Range
  <2> SUFFICES ASSUME NEW z \in Groups!Range(w) PROVE z \in 1..N /\ top[z] = top[x] OBVIOUS
  <2>3. PICK n \in 0..N : z = w[n] BY <2>2
  <2> QED BY <2>1, <2>3
<1> QED BY <1>5, <1>10, <1>13, <1>14

LEMMA TopOfTop ==
  ASSUME NEW N \in Nat, NEW u, NEW top, Forest(u, N, top), NEW i \in 1..N
  PROVE  top[top[i]] = top[i] /\ top[i] \in 1..N
BY DEF Forest

(* Path compression. *)
LEMMA Compressed ==
  ASSUME NEW N \in Nat, NEW u, NEW top, Forest(u, N, top), NEW q \in [1..N -> 1..N],
         \A i \in 1..N : q[i] = top[i] \/ q[i] = u.parent[i]
  PROVE  Forest([u EXCEPT !.parent = q], N, top)
<1> DEFINE v == [u EXCEPT !.parent = q]
<1>1. v \in [parent : [1..N -> 1..N], rank : [1..N -> Nat]] BY DEF Forest
<1>2. v.parent = q /\ v.rank = u.rank BY DEF Forest
<1> HIDE DEF v
<1>3. ASSUME NEW i \in 1..N PROVE top[q[i]] = top[i] /\ q[top[i]] = top[i]
  <2>1. top[top[i]] = top[i] /\ top[i] \in 1..N BY TopOfTop
  <2>2. top[u.parent[i]] = top[i] /\ u.parent[top[i]] = top[i] BY DEF Forest
  <2>3. q[i] = top[i] \/ q[i] = u.parent[i] OBVIOUS
  <2>4. q[top[i]] = top[top[i]] \/ q[top[i]] = u.parent[top[i]] BY <2>1
  <2> QED BY <2>1, <2>2, <2>3, <2>4
<1>4. ASSUME NEW i \in 1..N PROVE q[i] = i => top[i] = i BY TopOfTop DEF Forest
<1>5. ASSUME NEW i \in 1..N PROVE q[i] # i => u.rank[i] < u.rank[q[i]] BY DEF Forest
<1>6. Forest(v, N, top) BY <1>1, <1>2, <1>3, <1>4, <1>5 DEF Forest
<1> QED BY <1>6 DEF v

LEMMA FindForest ==
  ASSUME NEW N \in Nat, NEW u, NEW top, Forest(u, N, top), NEW l \in 1..N, NEW r \in 1..N
  PROVE  Forest(Groups!Find(u, l, r), N, top)
<1>1. PICK A : A = Groups!Range(Groups!Walk(u, l)) OBVIOUS
<1>2. PICK B : B = Groups!Range(Groups!Walk(u, r)) OBVIOUS
<1>3. PICK p \in [1..N -> 1..N] : p = u.parent BY DEF Forest
<1>4. PICK a \in 1..N : a = Groups!Root(u, l) /\ a = top[l] BY RootIs, TopOfTop
<1>5. PICK b \in 1..N : b = Groups!Root(u, r) /\ b = top[r] BY RootIs, TopOfTop
<1>6. \A y \in A : top[y] = a BY <1>1, <1>4, RootIs
<1>7. \A y \in B : top[y] = b BY <1>2, <1>5, RootIs
<1> DEFINE q == [n \in 1..N |-> CASE n \in A -> a [] n \in B -> b [] OTHER -> p[n]]
<1>8. Groups!Find(u, l, r) = [u EXCEPT !.parent = q]
  BY <1>1, <1>2, <1>3, <1>4, <1>5 DEF Groups!Find
<1>9. \A i \in 1..N : q[i] = top[i] \/ q[i] = p[i] BY <1>6, <1>7
<1>10. q \in [1..N -> 1..N] OBVIOUS
<1> HIDE DEF q
<1> QED BY <1>3, <1>8, <1>9, <1>10, Compressed

(* Union by rank: the root below gets the root above. *)
Moved(N, top, below, above) == [i \in 1..N |-> IF top[i] = below THEN above ELSE top[i]]

HasMoved(N, top, below, above, t) ==
  /\ t \in [1..N -> 1..N]
  /\ \A i \in 1..N : t[i] = IF top[i] = below THEN above ELSE top[i]
  /\ \A i \in 1..N : t[i] = above => Class(N, t, i) = Class(N, top, below) \cup Class(N, top, above)
  /\ \A i \in 1..N : t[i] # above => Class(N, t, i) = Class(N, top, i)
  /\ Class(N, top, below) \cap Class(N, top, above) = {}

LEMMA MovedClasses ==
  ASSUME NEW N \in Nat, NEW top \in [1..N -> 1..N], NEW below \in 1..N, NEW above \in 1..N,
         below # above, top[below] = below, top[above] = above
  PROVE  HasMoved(N, top, below, above, Moved(N, top, below, above))
<1> SUFFICES ASSUME NEW t, t = Moved(N, top, below, above) PROVE HasMoved(N, top, below, above, t)
  OBVIOUS
<1>1. t \in [1..N -> 1..N] BY DEF Moved
<1>2. \A i \in 1..N : t[i] = IF top[i] = below THEN above ELSE top[i] BY DEF Moved
<1>3. ASSUME NEW i \in 1..N, t[i] = above
      PROVE  Class(N, t, i) = Class(N, top, below) \cup Class(N, top, above)
  <2>1. \A j \in 1..N : t[j] = above <=> top[j] = below \/ top[j] = above BY <1>2
  <2> QED BY <1>3, <2>1 DEF Class
<1>4. ASSUME NEW i \in 1..N, t[i] # above PROVE Class(N, t, i) = Class(N, top, i)
  <2>1. top[i] = t[i] /\ top[i] # below /\ top[i] # above BY <1>2, <1>4
  <2>2. \A j \in 1..N : t[j] = t[i] <=> top[j] = top[i] BY <1>2, <2>1
  <2> QED BY <2>2 DEF Class
<1>5. Class(N, top, below) \cap Class(N, top, above) = {} BY DEF Class
<1> QED BY <1>1, <1>2, <1>3, <1>4, <1>5 DEF HasMoved

Raised(x, y) == IF x = y THEN x + 1 ELSE x

LEMMA AttachBelow ==
  ASSUME NEW N \in Nat, NEW u, NEW top, Forest(u, N, top), NEW below \in 1..N, NEW above \in 1..N,
         below # above, top[below] = below, top[above] = above, u.rank[below] <= u.rank[above],
         NEW v, v = [parent |-> [u.parent EXCEPT ![below] = above],
                     rank |-> [u.rank EXCEPT ![above] = Raised(u.rank[above], u.rank[below])]]
  PROVE  Forest(v, N, Moved(N, top, below, above))
<1>1. PICK p \in [1..N -> 1..N] : p = u.parent BY DEF Forest
<1>2. PICK r \in [1..N -> Nat] : r = u.rank BY DEF Forest
<1>3. PICK t : t = Moved(N, top, below, above) OBVIOUS
<1>4. /\ top \in [1..N -> 1..N]
      /\ \A i \in 1..N : top[p[i]] = top[i] /\ p[top[i]] = top[i]
      /\ \A i \in 1..N : p[i] = i => top[i] = i
      /\ \A i \in 1..N : p[i] # i => r[i] < r[p[i]]
      /\ \A i \in 1..N : top[i] # i => r[i] < r[top[i]]
      /\ \A i \in 1..N : Cardinality(Class(N, top, i)) >= Groups!PowerOfTwo[r[top[i]]]
  BY <1>1, <1>2 DEF Forest
<1>5. /\ t \in [1..N -> 1..N]
      /\ \A i \in 1..N : t[i] = IF top[i] = below THEN above ELSE top[i]
      /\ \A i \in 1..N : t[i] = above => Class(N, t, i) = Class(N, top, below) \cup Class(N, top, above)
      /\ \A i \in 1..N : t[i] # above => Class(N, t, i) = Class(N, top, i)
      /\ Class(N, top, below) \cap Class(N, top, above) = {}
  <2>1. HasMoved(N, top, below, above, Moved(N, top, below, above)) BY <1>4, MovedClasses
  <2>2. HasMoved(N, top, below, above, t) BY <1>3, <2>1
  <2> QED BY <2>2 DEF HasMoved
<1>6. p[above] = above /\ p[below] = below BY <1>4
<1>7. r[below] <= r[above] BY <1>2
<1>8. PICK m : m = [p EXCEPT ![below] = above] OBVIOUS
<1>9. m \in [1..N -> 1..N] /\ \A i \in 1..N : m[i] = IF i = below THEN above ELSE p[i] BY <1>8
<1>10. PICK ra \in Nat : ra = r[above] OBVIOUS
<1>11. PICK rb \in Nat : rb = r[below] OBVIOUS
<1>12. PICK rc \in Nat : rc = Raised(ra, rb)
  <2>1. ra + 1 \in Nat OBVIOUS
  <2> QED BY <2>1 DEF Raised
<1>13. PICK q : q = [r EXCEPT ![above] = rc] OBVIOUS
<1>21. q \in [1..N -> Nat] /\ q[above] = rc /\ \A i \in 1..N : i # above => q[i] = r[i] BY <1>13
<1>22. v = [parent |-> m, rank |-> q] BY <1>1, <1>2, <1>8, <1>10, <1>11, <1>12, <1>13
<1>23. v \in [parent : [1..N -> 1..N], rank : [1..N -> Nat]] /\ v.parent = m /\ v.rank = q
  <2>1. v.parent = m /\ v.rank = q BY <1>22
  <2> QED BY <1>9, <1>21, <1>22, <2>1
<1>24. \A i \in 1..N : q[i] \in Nat /\ r[i] \in Nat BY <1>21
<1>25. ra <= rc /\ rb < rc
  <2>1. rb <= ra BY <1>7, <1>10, <1>11
  <2> QED BY <2>1, <1>12 DEF Raised
<1>26. r[above] <= q[above] /\ r[below] < q[above] BY <1>10, <1>11, <1>21, <1>25
<1>27. \A i \in 1..N : r[i] <= q[i]
  <2> SUFFICES ASSUME NEW i \in 1..N PROVE r[i] <= q[i] OBVIOUS
  <2>1. PICK y \in Nat : y = r[i] OBVIOUS
  <2>2. CASE i = above BY <1>26, <2>2
  <2>3. CASE i # above
    <3>1. y <= y OBVIOUS
    <3> QED BY <1>21, <2>1, <2>3, <3>1
  <2> QED BY <2>2, <2>3
<1>15. ASSUME NEW i \in 1..N PROVE t[m[i]] = t[i] /\ m[t[i]] = t[i]
  <2>1. CASE i = below BY <1>4, <1>5, <1>6, <1>9, <2>1
  <2>2. CASE i # below
    <3>1. m[i] = p[i] /\ top[p[i]] = top[i] /\ p[i] \in 1..N BY <1>4, <1>9, <2>2
    <3>2. t[m[i]] = t[i] BY <1>5, <3>1
    <3>3. t[i] # below BY <1>5
    <3>4. m[t[i]] = p[t[i]] BY <1>5, <1>9, <3>3
    <3>5. p[t[i]] = t[i] BY <1>4, <1>5, <1>6
    <3> QED BY <3>2, <3>4, <3>5
  <2> QED BY <2>1, <2>2
<1>16. ASSUME NEW i \in 1..N, m[i] = i PROVE t[i] = i BY <1>4, <1>5, <1>9, <1>16
<1>17. ASSUME NEW i \in 1..N, m[i] # i PROVE q[i] < q[m[i]]
  <2>1. CASE i = below BY <1>9, <1>21, <1>26, <2>1
  <2>2. CASE i # below
    <3>1. m[i] = p[i] /\ p[i] # i BY <1>9, <1>17, <2>2
    <3>2. i # above BY <1>6, <3>1
    <3>3. r[i] < r[p[i]] /\ q[i] = r[i] BY <1>4, <1>21, <3>1, <3>2
    <3>4. p[i] \in 1..N /\ r[p[i]] <= q[p[i]] BY <1>27
    <3>5. PICK a \in Nat : a = r[i] OBVIOUS
    <3>6. PICK b \in Nat : b = r[p[i]] BY <3>4
    <3>7. PICK c \in Nat : c = q[p[i]] BY <1>24, <3>4
    <3>8. a < c BY <3>3, <3>4, <3>5, <3>6, <3>7
    <3> QED BY <3>1, <3>3, <3>5, <3>7, <3>8
  <2> QED BY <2>1, <2>2
<1>18. ASSUME NEW i \in 1..N, t[i] # i PROVE q[i] < q[t[i]]
  <2>1. i # above BY <1>5, <1>18
  <2>2. q[i] = r[i] BY <1>21, <2>1
  <2>3. CASE top[i] = below
    <3>1. t[i] = above BY <1>5, <2>3
    <3>2. r[i] <= r[below]
      <4>1. CASE i = below BY <1>24, <4>1
      <4>2. CASE i # below
        <5>1. r[i] < r[below] BY <1>4, <2>3, <4>2
        <5> QED BY <1>24, <5>1
      <4> QED BY <4>1, <4>2
    <3>3. PICK a \in Nat : a = r[i] OBVIOUS
    <3>4. a < rc BY <1>11, <1>25, <3>2, <3>3
    <3> QED BY <1>21, <2>2, <3>1, <3>3, <3>4
  <2>4. CASE top[i] # below
    <3>1. t[i] = top[i] BY <1>5, <2>4
    <3>2. r[i] < r[top[i]] BY <1>4, <1>18, <3>1
    <3>3. top[i] \in 1..N /\ r[top[i]] <= q[top[i]] BY <1>4, <1>27
    <3>4. PICK a \in Nat : a = r[i] OBVIOUS
    <3>5. PICK b \in Nat : b = r[top[i]] BY <3>3
    <3>6. PICK c \in Nat : c = q[top[i]] BY <1>24, <3>3
    <3>7. a < c BY <3>2, <3>3, <3>4, <3>5, <3>6
    <3> QED BY <2>2, <3>1, <3>4, <3>6, <3>7
  <2> QED BY <2>3, <2>4
<1>19. ASSUME NEW i \in 1..N PROVE Cardinality(Class(N, t, i)) >= Groups!PowerOfTwo[q[t[i]]]
  <2> DEFINE P == Groups!PowerOfTwo
  <2>0. ArePowers(P) BY GroupsPowers
  <2> HIDE DEF P
  <2>1. CASE t[i] = above
    <3> DEFINE A == Class(N, top, below)
               B == Class(N, top, above)
    <3>1. Class(N, t, i) = A \cup B BY <1>5, <2>1
    <3>2. A \cap B = {} BY <1>5
    <3>3. IsFiniteSet(A) /\ IsFiniteSet(B) BY ClassFinite
    <3>4. PICK a \in Nat : a = Cardinality(A) BY ClassFinite
    <3>5. PICK b \in Nat : b = Cardinality(B) BY ClassFinite
    <3>6. a >= P[r[below]] /\ b >= P[r[above]] BY <1>4, <3>4, <3>5 DEF P
    <3> HIDE DEF A, B
    <3>7. Cardinality(A \cup B) = Cardinality(A) + Cardinality(B) - Cardinality(A \cap B)
      BY <3>3, FS_Union
    <3>8. Cardinality(A \cap B) = 0 BY <3>2, FS_EmptySet
    <3>9. Cardinality(Class(N, t, i)) = a + b BY <3>1, <3>4, <3>5, <3>7, <3>8
    <3>10. PICK x \in Nat : x = P[r[below]] BY <1>24, <2>0 DEF ArePowers
    <3>11. PICK y \in Nat : y = P[r[above]] BY <1>24, <2>0 DEF ArePowers
    <3>12. CASE r[above] = r[below]
      <4>1. q[above] = ra + 1 BY <1>10, <1>11, <1>12, <1>21, <3>12 DEF Raised
      <4>2. P[q[above]] = 2 * y BY <1>10, <2>0, <3>11, <4>1 DEF ArePowers
      <4>3. x = y BY <3>10, <3>11, <3>12
      <4>4. a >= y /\ b >= y BY <3>6, <3>10, <3>11, <4>3
      <4>5. a + b >= 2 * y BY <4>4
      <4> QED BY <2>1, <3>9, <4>2, <4>5 DEF P
    <3>13. CASE r[above] # r[below]
      <4>1. P[q[above]] = y BY <1>10, <1>11, <1>12, <1>21, <3>11, <3>13 DEF Raised
      <4>2. b >= y BY <3>6, <3>11
      <4>3. a + b >= y BY <4>2
      <4> QED BY <2>1, <3>9, <4>1, <4>3 DEF P
    <3> QED BY <3>12, <3>13
  <2>2. CASE t[i] # above
    <3>1. Class(N, t, i) = Class(N, top, i) /\ t[i] = top[i] BY <1>5, <2>2
    <3>2. q[t[i]] = r[top[i]] BY <1>5, <1>21, <2>2, <3>1
    <3> QED BY <1>4, <3>1, <3>2
  <2> QED BY <2>1, <2>2
<1>20. Forest(v, N, t) BY <1>5, <1>23, <1>15, <1>16, <1>17, <1>18, <1>19 DEF Forest
<1> QED BY <1>3, <1>20

(* The classes of l and r become one, and the others stay as they are. *)
Joined(N, top, t, l, r) ==
  /\ t[l] = t[r]
  /\ \A i, j \in 1..N : top[i] = top[j] => t[i] = t[j]
  /\ \A i, j \in 1..N : t[i] = t[j] =>
       \/ top[i] = top[j]
       \/ top[i] = top[l] /\ top[j] = top[r]
       \/ top[i] = top[r] /\ top[j] = top[l]

LEMMA MovedJoined ==
  ASSUME NEW N \in Nat, NEW top \in [1..N -> 1..N], NEW l \in 1..N, NEW r \in 1..N,
         NEW below, NEW above, {below, above} = {top[l], top[r]},
         below # above, top[below] = below, top[above] = above
  PROVE  Joined(N, top, Moved(N, top, below, above), l, r)
<1>1. PICK t : t = Moved(N, top, below, above) OBVIOUS
<1>2. \A i \in 1..N : t[i] = IF top[i] = below THEN above ELSE top[i] BY <1>1 DEF Moved
<1>3. t[l] = t[r] BY <1>2
<1>4. \A i, j \in 1..N : top[i] = top[j] => t[i] = t[j] BY <1>2
<1>5. ASSUME NEW i \in 1..N, NEW j \in 1..N, t[i] = t[j]
      PROVE  \/ top[i] = top[j]
             \/ top[i] = top[l] /\ top[j] = top[r]
             \/ top[i] = top[r] /\ top[j] = top[l]
  BY <1>2, <1>5
<1> QED BY <1>1, <1>3, <1>4, <1>5 DEF Joined

LEMMA UnionForest ==
  ASSUME NEW N \in Nat, NEW u, NEW top, Forest(u, N, top), NEW l \in 1..N, NEW r \in 1..N
  PROVE  \E t : Forest(Groups!Union(u, l, r), N, t) /\ Joined(N, top, t, l, r)
<1>1. PICK a \in 1..N : a = Groups!Root(u, l) /\ a = top[l] BY RootIs, TopOfTop
<1>2. PICK b \in 1..N : b = Groups!Root(u, r) /\ b = top[r] BY RootIs, TopOfTop
<1>3. PICK v : v = Groups!Find(u, l, r) OBVIOUS
<1>4. Forest(v, N, top) BY <1>3, FindForest
<1>5. CASE a = b
  <2>1. Groups!Union(u, l, r) = v BY <1>1, <1>2, <1>3, <1>5 DEF Groups!Union, Groups!Connected
  <2>2. Joined(N, top, top, l, r) BY <1>1, <1>2, <1>5 DEF Joined
  <2> QED BY <1>4, <2>1, <2>2
<1>6. CASE a # b
  <2>1. Groups!Union(u, l, r) = Groups!Attach(v, a, b)
    BY <1>1, <1>2, <1>3, <1>6 DEF Groups!Union, Groups!Connected
  <2> DEFINE below == IF v.rank[a] < v.rank[b] THEN a ELSE b
             above == IF below = a THEN b ELSE a
  <2>2. top[a] = a /\ top[b] = b BY <1>1, <1>2, TopOfTop
  <2>3. v.rank[a] \in Nat /\ v.rank[b] \in Nat BY <1>4 DEF Forest
  <2>4. /\ below \in 1..N /\ above \in 1..N /\ below # above /\ top[below] = below
        /\ top[above] = above /\ v.rank[below] <= v.rank[above] /\ {below, above} = {a, b}
    BY <1>6, <2>2, <2>3
  <2>5. Groups!Attach(v, a, b) =
          [v EXCEPT !.parent[below] = above,
                    !.rank[above] = IF @ = v.rank[below] THEN @ + 1 ELSE @]
    BY DEF Groups!Attach
  <2> HIDE DEF below, above
  <2>6. PICK z : z = Groups!Attach(v, a, b) OBVIOUS
  <2>7. z = [parent |-> [v.parent EXCEPT ![below] = above],
             rank |-> [v.rank EXCEPT ![above] = Raised(v.rank[above], v.rank[below])]]
    BY <1>4, <2>5, <2>6 DEF Forest, Raised
  <2>8. PICK t : t = Moved(N, top, below, above) OBVIOUS
  <2>9. Forest(z, N, t) BY <1>4, <2>4, <2>7, <2>8, AttachBelow
  <2>10. top \in [1..N -> 1..N] BY DEF Forest
  <2>11. Joined(N, top, t, l, r) BY <1>1, <1>2, <2>4, <2>8, <2>10, MovedJoined
  <2> QED BY <2>1, <2>6, <2>9, <2>11
<1> QED BY <1>5, <1>6

LEMMA SingletonClass ==
  ASSUME NEW C, NEW i, C = {i}
  PROVE  Cardinality(C) >= Groups!PowerOfTwo[0]
<1>1. Cardinality(C) = 1 BY FS_Singleton
<1>2. Groups!PowerOfTwo[0] = 1 BY GroupsPowers DEF ArePowers
<1> QED BY <1>1, <1>2

LEMMA WithLenForest ==
  ASSUME NEW N \in Nat
  PROVE  Forest(Groups!WithLen(N), N, [i \in 1..N |-> i])
<1> DEFINE u == Groups!WithLen(N)
           t == [i \in 1..N |-> i]
<1>1. u \in [parent : [1..N -> 1..N], rank : [1..N -> Nat]] BY DEF Groups!WithLen
<1>2. u.parent = t /\ \A i \in 1..N : u.rank[i] = 0 BY DEF Groups!WithLen
<1>3. t \in [1..N -> 1..N] /\ \A i \in 1..N : t[i] = i OBVIOUS
<1> HIDE DEF u, t
<1>4. ASSUME NEW i \in 1..N PROVE Cardinality(Class(N, t, i)) >= Groups!PowerOfTwo[u.rank[t[i]]]
  <2>1. Class(N, t, i) = {i} BY <1>3 DEF Class
  <2>2. u.rank[t[i]] = 0 BY <1>2, <1>3
  <2> QED BY <2>1, <2>2, SingletonClass
<1>5. Forest(u, N, t) BY <1>1, <1>2, <1>3, <1>4 DEF Forest
<1> QED BY <1>5 DEF u, t

Extended(f, n, e) == [i \in 1..(n + 1) |-> IF i = n + 1 THEN e ELSE f[i]]

LEMMA AppendIs ==
  ASSUME NEW S, NEW n \in Nat, NEW f \in [1..n -> S], NEW e \in S
  PROVE  Append(f, e) = Extended(f, n, e)
<1>1. f \in Seq(S) BY SeqDef
<1>2. Len(f) = n BY <1>1, LenProperties
<1>3. PICK g \in Seq(S) : g = Append(f, e) BY <1>1, AppendProperties
<1>4. Len(g) = n + 1 /\ (\A i \in 1..n : g[i] = f[i]) /\ g[n + 1] = e
  BY <1>1, <1>2, <1>3, AppendProperties
<1>5. g \in [1..(n + 1) -> S] BY <1>4, LenProperties
<1> DEFINE h == [i \in 1..(n + 1) |-> IF i = n + 1 THEN e ELSE f[i]]
<1>6. \A i \in 1..(n + 1) : h[i] = g[i] BY <1>4
<1>7. h = [i \in 1..(n + 1) |-> h[i]] /\ g = [i \in 1..(n + 1) |-> g[i]] BY <1>5
<1> HIDE DEF h
<1>8. g = h BY <1>6, <1>7
<1> QED BY <1>3, <1>8 DEF h, Extended

Grown(N, top) == [i \in 1..(N + 1) |-> IF i = N + 1 THEN i ELSE top[i]]

LEMMA PushForest ==
  ASSUME NEW N \in Nat, NEW u, NEW top, Forest(u, N, top)
  PROVE  Forest(Groups!Push(u), N + 1, Grown(N, top))
<1>1. PICK p \in [1..N -> 1..N] : p = u.parent BY DEF Forest
<1>2. PICK r \in [1..N -> Nat] : r = u.rank BY DEF Forest
<1>3. /\ top \in [1..N -> 1..N]
      /\ \A i \in 1..N : top[p[i]] = top[i] /\ p[top[i]] = top[i]
      /\ \A i \in 1..N : p[i] = i => top[i] = i
      /\ \A i \in 1..N : p[i] # i => r[i] < r[p[i]]
      /\ \A i \in 1..N : top[i] # i => r[i] < r[top[i]]
      /\ \A i \in 1..N : Cardinality(Class(N, top, i)) >= Groups!PowerOfTwo[r[top[i]]]
  BY <1>1, <1>2 DEF Forest
<1>4. p \in Seq(1..N) /\ r \in Seq(Nat) /\ Len(p) = N /\ Len(r) = N
  <2>1. p \in Seq(1..N) /\ r \in Seq(Nat) BY SeqDef
  <2> QED BY <2>1, LenProperties
<1> DEFINE M == N + 1
           q == [i \in 1..M |-> IF i = M THEN M ELSE p[i]]
           s == [i \in 1..M |-> IF i = M THEN 0 ELSE r[i]]
           t == Grown(N, top)
<1>5. Append(p, M) = q /\ Append(r, 0) = s
  <2>1. M \in 1..M /\ 0 \in Nat OBVIOUS
  <2>2. p \in [1..N -> 1..M] OBVIOUS
  <2>3. q = Extended(p, N, M) /\ s = Extended(r, N, 0) BY DEF Extended
  <2> HIDE DEF q, s, M
  <2>4. Append(p, M) = Extended(p, N, M) BY <2>1, <2>2, AppendIs
  <2>5. Append(r, 0) = Extended(r, N, 0) BY <2>1, AppendIs
  <2> QED BY <2>3, <2>4, <2>5
<1>6. Groups!Push(u) = [parent |-> q, rank |-> s] BY <1>1, <1>2, <1>4, <1>5 DEF Groups!Push
<1>7. M \in 1..M /\ M \notin 1..N /\ 1..M = 1..N \cup {M} OBVIOUS
<1>8. /\ q \in [1..M -> 1..M] /\ q[M] = M /\ \A i \in 1..N : q[i] = p[i] /\ q[i] \in 1..N
      /\ s \in [1..M -> Nat] /\ s[M] = 0 /\ \A i \in 1..N : s[i] = r[i]
  BY <1>7
<1>9. t \in [1..M -> 1..M] /\ t[M] = M /\ \A i \in 1..N : t[i] = top[i] /\ t[i] \in 1..N
  BY <1>3, <1>7 DEF Grown
<1> HIDE DEF q, s, t, M
<1>10. ASSUME NEW i \in 1..M PROVE t[q[i]] = t[i] /\ q[t[i]] = t[i]
  <2>1. CASE i = M BY <1>8, <1>9, <2>1
  <2>2. CASE i \in 1..N
    <3>1. p[i] \in 1..N /\ top[i] \in 1..N BY <1>3, <2>2
    <3>2. t[q[i]] = top[p[i]] /\ q[t[i]] = p[top[i]] BY <1>8, <1>9, <2>2, <3>1
    <3> QED BY <1>3, <1>9, <2>2, <3>2
  <2> QED BY <1>7, <2>1, <2>2
<1>11. ASSUME NEW i \in 1..M PROVE q[i] = i => t[i] = i BY <1>3, <1>7, <1>8, <1>9
<1>12. ASSUME NEW i \in 1..M, q[i] # i PROVE s[i] < s[q[i]]
  <2>1. i \in 1..N BY <1>7, <1>8, <1>12
  <2>2. p[i] \in 1..N /\ q[i] = p[i] BY <1>8, <2>1
  <2>3. s[i] = r[i] /\ s[q[i]] = r[p[i]]
    <3>1. \A k \in 1..N : s[k] = r[k] BY <1>8
    <3>2. s[q[i]] = s[p[i]] BY <2>2
    <3> QED BY <2>1, <2>2, <3>1, <3>2
  <2>4. r[i] < r[p[i]] BY <1>3, <1>12, <2>1, <2>2
  <2> QED BY <2>3, <2>4
<1>13. ASSUME NEW i \in 1..M, t[i] # i PROVE s[i] < s[t[i]]
  <2>1. i \in 1..N BY <1>7, <1>9, <1>13
  <2>2. top[i] \in 1..N /\ t[i] = top[i] BY <1>9, <2>1
  <2>3. s[i] = r[i] /\ s[t[i]] = r[top[i]]
    <3>1. \A k \in 1..N : s[k] = r[k] BY <1>8
    <3>2. s[t[i]] = s[top[i]] BY <2>2
    <3> QED BY <2>1, <2>2, <3>1, <3>2
  <2>4. r[i] < r[top[i]] BY <1>3, <1>13, <2>1, <2>2
  <2> QED BY <2>3, <2>4
<1>14. ASSUME NEW i \in 1..M PROVE Cardinality(Class(M, t, i)) >= Groups!PowerOfTwo[s[t[i]]]
  <2>1. CASE i = M
    <3>1. Class(M, t, i) = {M} BY <1>7, <1>9, <2>1 DEF Class
    <3> QED BY <1>8, <1>9, <2>1, <3>1, SingletonClass
  <2>2. CASE i # M
    <3>1. i \in 1..N BY <1>7, <2>2
    <3>2. Class(M, t, i) = Class(N, top, i)
      <4>1. M # t[i] BY <1>7, <1>9, <3>1
      <4>2. \A j \in 1..M : t[j] = t[i] => j \in 1..N BY <1>7, <1>9, <4>1
      <4>3. \A j \in 1..N : j \in 1..M /\ (t[j] = t[i] <=> top[j] = top[i]) BY <1>7, <1>9, <3>1
      <4> QED BY <4>2, <4>3 DEF Class
    <3>3. s[t[i]] = r[top[i]] BY <1>8, <1>9, <3>1
    <3> QED BY <1>3, <3>1, <3>2, <3>3
  <2> QED BY <2>1, <2>2
<1>15. PICK v : v = Groups!Push(u) OBVIOUS
<1>16. v \in [parent : [1..M -> 1..M], rank : [1..M -> Nat]] /\ v.parent = q /\ v.rank = s
  BY <1>6, <1>8, <1>15
<1>17. Forest(v, M, t) BY <1>9, <1>10, <1>11, <1>12, <1>13, <1>14, <1>16 DEF Forest
<1> QED BY <1>15, <1>17 DEF M, t
-----------------------------------------------------------------------------
(***************************************************************************)
(* The candidate graph                                                     *)
(*                                                                         *)
(* e, s, w, a and m stand for edges, slots, rows, accepted and mode; N is  *)
(* the number of slots.                                                    *)
(***************************************************************************)
BucketOf(s, w, t) == {i \in DOMAIN s : s[i] # 0 /\ w[i][t[1]] = t[2]}

PairOf(s, i, j) == Groups!OrderedPair(s[i], s[j])

Adjacent(e, s, w, a, k, l) ==
  \/ \E n \in DOMAIN e : {e[n][1], e[n][2]} = {k, l}
  \/ /\ k # l
     /\ Groups!OrderedPair(k, l) \in a
     /\ \E i, j \in DOMAIN w : s[i] = k /\ s[j] = l /\ \E b \in 1..Bands : w[i][b] = w[j][b]

Closed(e, s, w, a, C) == \A k \in C, l \in Keys \ C : ~Adjacent(e, s, w, a, k, l)

Chosen(m, B) == IF m = "verified" THEN Groups!PairsOf(B) ELSE Groups!Anchored(B)

Table == (1..Bands) \X Hashes

IndexModes == {"unverified", "verified", "pairs"}

Shape(m, s, w, a, e, z, N) ==
  /\ N \in Nat /\ z \in Nat /\ m \in IndexModes \cup {"stream"}
  /\ s \in [1..N -> Keys \cup {0}]
  /\ \A i, j \in 1..N : s[i] = s[j] => i = j \/ s[i] = 0
  /\ a \subseteq Groups!AllPairs /\ (m # "verified" => a = Groups!AllPairs)
  /\ m # "stream" => w \in [1..N -> [1..Bands -> Hashes]] /\ e = <<>>
  /\ m = "stream" => DOMAIN w = {} /\ \A i \in 1..N : s[i] \in Keys
  /\ e \in Seq(Keys \X Keys)

LEMMA PairIs ==
  ASSUME Groups!GroupingAssumption, NEW x \in Keys, NEW y \in Keys
  PROVE  /\ Groups!OrderedPair(x, y) = Groups!OrderedPair(y, x)
         /\ x # y => Groups!OrderedPair(x, y) \in Groups!AllPairs
         /\ Groups!OrderedPair(x, y) = <<x, y>> \/ Groups!OrderedPair(x, y) = <<y, x>>
<1>1. x \in Nat /\ y \in Nat BY DEF Groups!GroupingAssumption
<1> QED BY <1>1 DEF Groups!OrderedPair, Groups!AllPairs

LEMMA AdjacentSymmetric ==
  ASSUME Groups!GroupingAssumption, NEW e, NEW s, NEW w, NEW a, NEW k \in Keys, NEW l \in Keys,
         Adjacent(e, s, w, a, k, l)
  PROVE  Adjacent(e, s, w, a, l, k)
<1>1. CASE \E n \in DOMAIN e : {e[n][1], e[n][2]} = {k, l}
  <2>1. {k, l} = {l, k} OBVIOUS
  <2> QED BY <1>1, <2>1 DEF Adjacent
<1>2. CASE /\ k # l
           /\ Groups!OrderedPair(k, l) \in a
           /\ \E i, j \in DOMAIN w : s[i] = k /\ s[j] = l /\ \E b \in 1..Bands : w[i][b] = w[j][b]
  <2>1. PICK i \in DOMAIN w, j \in DOMAIN w : s[i] = k /\ s[j] = l /\ \E b \in 1..Bands : w[i][b] = w[j][b]
    BY <1>2
  <2>2. \E b \in 1..Bands : w[j][b] = w[i][b] BY <2>1
  <2>3. Groups!OrderedPair(l, k) \in a BY <1>2, PairIs
  <2> QED BY <1>2, <2>1, <2>2, <2>3 DEF Adjacent
<1> QED BY <1>1, <1>2 DEF Adjacent

(* Slots that share a bucket are candidates. *)
LEMMA BucketAdjacent ==
  ASSUME Groups!GroupingAssumption, NEW m, NEW s, NEW w, NEW a, NEW e, NEW z, NEW N,
         Shape(m, s, w, a, e, z, N), m # "stream", NEW t \in Table,
         NEW i \in BucketOf(s, w, t), NEW j \in BucketOf(s, w, t), i # j
  PROVE  /\ i \in 1..N /\ j \in 1..N /\ s[i] \in Keys /\ s[j] \in Keys /\ s[i] # s[j]
         /\ PairOf(s, i, j) \in Groups!AllPairs
         /\ PairOf(s, i, j) = PairOf(s, j, i)
         /\ PairOf(s, i, j) \in a => Adjacent(e, s, w, a, s[i], s[j])
<1>1. DOMAIN s = 1..N /\ DOMAIN w = 1..N BY DEF Shape
<1>2. i \in 1..N /\ j \in 1..N /\ s[i] # 0 /\ s[j] # 0 BY <1>1 DEF BucketOf
<1>3. s[i] \in Keys /\ s[j] \in Keys /\ s[i] # s[j] BY <1>2 DEF Shape
<1>4. w[i][t[1]] = w[j][t[1]] /\ t[1] \in 1..Bands BY DEF BucketOf, Table
<1>5. PairOf(s, i, j) \in a => Adjacent(e, s, w, a, s[i], s[j])
  BY <1>1, <1>2, <1>3, <1>4 DEF Adjacent, PairOf
<1> QED BY <1>2, <1>3, <1>5, PairIs DEF PairOf

(* And candidates share one. *)
LEMMA AdjacentBuckets ==
  ASSUME Groups!GroupingAssumption, NEW m, NEW s, NEW w, NEW a, NEW e, NEW z, NEW N,
         Shape(m, s, w, a, e, z, N), m # "stream", NEW k \in Keys, NEW l \in Keys,
         Adjacent(e, s, w, a, k, l)
  PROVE  \E t \in Table : \E i, j \in BucketOf(s, w, t) :
           i # j /\ s[i] = k /\ s[j] = l /\ PairOf(s, i, j) \in a
<1>1. e = <<>> /\ DOMAIN s = 1..N /\ DOMAIN w = 1..N BY DEF Shape
<1>2. ~(\E n \in DOMAIN e : {e[n][1], e[n][2]} = {k, l}) BY <1>1
<1>3. k # l /\ Groups!OrderedPair(k, l) \in a BY <1>2 DEF Adjacent
<1>4. PICK i \in 1..N, j \in 1..N : s[i] = k /\ s[j] = l /\ \E b \in 1..Bands : w[i][b] = w[j][b]
  BY <1>1, <1>2 DEF Adjacent
<1>5. PICK b \in 1..Bands : w[i][b] = w[j][b] BY <1>4
<1>6. w[i][b] \in Hashes BY <1>5 DEF Shape
<1>7. PICK t \in Table : t = <<b, w[i][b]>> BY <1>6 DEF Table
<1>8. k # 0 /\ l # 0 BY DEF Groups!GroupingAssumption
<1>9. i \in BucketOf(s, w, t) /\ j \in BucketOf(s, w, t) BY <1>1, <1>4, <1>5, <1>7, <1>8 DEF BucketOf
<1>10. i # j BY <1>3, <1>4
<1> QED BY <1>3, <1>4, <1>7, <1>9, <1>10 DEF PairOf

(* What has been visited is connected. *)
Processed(m, s, w, a, todo_, work_, top) ==
  m \in {"unverified", "verified"} =>
    \A t \in Table : t \notin todo_ => \A p \in Chosen(m, BucketOf(s, w, t)) :
      PairOf(s, p[1], p[2]) \in a => top[p[1]] = top[p[2]] \/ p \in work_

Streamed(e, s, N, top) ==
  \A n \in DOMAIN e : \E i, j \in 1..N : s[i] = e[n][1] /\ s[j] = e[n][2] /\ top[i] = top[j]

Complete(e, s, w, a, N, top) ==
  \A k, l \in Keys : Adjacent(e, s, w, a, k, l) =>
    \E i, j \in 1..N : s[i] = k /\ s[j] = l /\ top[i] = top[j]

LEMMA VisitedComplete ==
  ASSUME Groups!GroupingAssumption, NEW m, NEW s, NEW w, NEW a, NEW e, NEW z, NEW N, NEW top,
         Shape(m, s, w, a, e, z, N), m \in {"unverified", "verified"},
         Processed(m, s, w, a, {}, {}, top)
  PROVE  Complete(e, s, w, a, N, top)
<1> SUFFICES ASSUME NEW k \in Keys, NEW l \in Keys, Adjacent(e, s, w, a, k, l)
             PROVE  \E i, j \in 1..N : s[i] = k /\ s[j] = l /\ top[i] = top[j]
  BY DEF Complete
<1>0. PICK t \in Table : \E i, j \in BucketOf(s, w, t) :
        i # j /\ s[i] = k /\ s[j] = l /\ PairOf(s, i, j) \in a
  <2>1. m # "stream" OBVIOUS
  <2> QED BY <2>1, AdjacentBuckets
<1> DEFINE B == BucketOf(s, w, t)
<1>1. PICK i \in B, j \in B : i # j /\ s[i] = k /\ s[j] = l /\ PairOf(s, i, j) \in a BY <1>0
<1>2. \A x, y \in B : x # y => /\ x \in 1..N /\ y \in 1..N
                               /\ PairOf(s, x, y) \in Groups!AllPairs /\ PairOf(s, x, y) = PairOf(s, y, x)
  <2>1. m # "stream" OBVIOUS
  <2> QED BY <2>1, BucketAdjacent
<1>3. i \in 1..N /\ j \in 1..N BY <1>1, <1>2
<1>4. \A p \in Chosen(m, B) : PairOf(s, p[1], p[2]) \in a => top[p[1]] = top[p[2]]
  BY DEF Processed
<1> HIDE DEF B
<1>5. CASE m = "verified"
  <2>1. Chosen(m, B) = {p \in B \X B : p[1] < p[2]} BY <1>5 DEF Chosen, Groups!PairsOf
  <2>2. i < j \/ j < i BY <1>1, <1>3
  <2>3. CASE i < j
    <3>1. <<i, j>> \in Chosen(m, B) BY <2>1, <2>3
    <3>2. top[i] = top[j] BY <1>1, <1>4, <3>1
    <3> QED BY <1>1, <1>3, <3>2
  <2>4. CASE j < i
    <3>1. <<j, i>> \in Chosen(m, B) BY <2>1, <2>4
    <3>2. PairOf(s, j, i) \in a BY <1>1, <1>2
    <3>3. top[j] = top[i] BY <1>4, <3>1, <3>2
    <3> QED BY <1>1, <1>3, <3>3
  <2> QED BY <2>2, <2>3, <2>4
<1>6. CASE m = "unverified"
  <2>1. Chosen(m, B) = {p \in B \X B : p[1] < p[2] /\ \A x \in B : p[1] <= x}
    <3>1. Chosen(m, B) = Groups!Anchored(B) BY <1>6 DEF Chosen
    <3>2. Groups!Anchored(B) = {p \in {q \in B \X B : q[1] < q[2]} : \A x \in B : p[1] <= x}
      BY DEF Groups!Anchored, Groups!PairsOf
    <3> QED BY <3>1, <3>2
  <2>2. B \subseteq Nat
    <3>1. B \subseteq DOMAIN s BY DEF B, BucketOf
    <3>2. DOMAIN s = 1..N BY DEF Shape
    <3> QED BY <3>1, <3>2
  <2>3. PICK c \in B : \A x \in B : c <= x BY <1>1, <2>2, LeastNumber
  <2>4. a = Groups!AllPairs BY <1>6 DEF Shape
  <2>5. ASSUME NEW x \in B PROVE top[c] = top[x]
    <3>1. CASE x = c BY <3>1
    <3>2. CASE x # c
      <4>1. c < x BY <2>2, <2>3, <3>2
      <4>2. <<c, x>> \in Chosen(m, B) BY <2>1, <2>3, <4>1
      <4>3. PairOf(s, c, x) \in a BY <1>2, <2>4, <3>2
      <4> QED BY <1>4, <4>2, <4>3
    <3> QED BY <3>1, <3>2
  <2>6. top[i] = top[j] BY <1>1, <2>5
  <2> QED BY <1>1, <1>3, <2>6
<1> QED BY <1>5, <1>6

LEMMA StreamComplete ==
  ASSUME Groups!GroupingAssumption, NEW m, NEW s, NEW w, NEW a, NEW e, NEW z, NEW N, NEW top,
         Shape(m, s, w, a, e, z, N), m = "stream", Streamed(e, s, N, top)
  PROVE  Complete(e, s, w, a, N, top)
<1> SUFFICES ASSUME NEW k \in Keys, NEW l \in Keys, Adjacent(e, s, w, a, k, l)
             PROVE  \E i, j \in 1..N : s[i] = k /\ s[j] = l /\ top[i] = top[j]
  BY DEF Complete
<1>1. DOMAIN w = {} BY DEF Shape
<1>2. PICK n \in DOMAIN e : {e[n][1], e[n][2]} = {k, l} BY <1>1 DEF Adjacent
<1>3. PICK i \in 1..N, j \in 1..N : s[i] = e[n][1] /\ s[j] = e[n][2] /\ top[i] = top[j]
  BY DEF Streamed
<1>4. (e[n][1] = k /\ e[n][2] = l) \/ (e[n][1] = l /\ e[n][2] = k) BY <1>2
<1> QED BY <1>3, <1>4

(* Nothing is connected that the graph does not connect. *)
Sound(e, s, w, a, N, top) ==
  \A C \in SUBSET Keys : Closed(e, s, w, a, C) =>
    \A i, j \in 1..N : top[i] = top[j] => (s[i] \in C <=> s[j] \in C)

LEMMA JoinedSound ==
  ASSUME Groups!GroupingAssumption, NEW e, NEW s, NEW w, NEW a, NEW N, NEW top, NEW t,
         Sound(e, s, w, a, N, top), NEW l \in 1..N, NEW r \in 1..N, Joined(N, top, t, l, r),
         s[l] \in Keys, s[r] \in Keys, Adjacent(e, s, w, a, s[l], s[r])
  PROVE  Sound(e, s, w, a, N, t)
<1> SUFFICES ASSUME NEW C \in SUBSET Keys, Closed(e, s, w, a, C), NEW i \in 1..N, NEW j \in 1..N,
                    t[i] = t[j]
             PROVE  s[i] \in C <=> s[j] \in C
  BY DEF Sound
<1>1. Adjacent(e, s, w, a, s[r], s[l]) BY AdjacentSymmetric
<1>2. s[l] \in C <=> s[r] \in C BY <1>1 DEF Closed
<1>3. \A x, y \in 1..N : top[x] = top[y] => (s[x] \in C <=> s[y] \in C) BY DEF Sound
<1>4. \/ top[i] = top[j]
      \/ top[i] = top[l] /\ top[j] = top[r]
      \/ top[i] = top[r] /\ top[j] = top[l]
  BY DEF Joined
<1> QED BY <1>2, <1>3, <1>4

-----------------------------------------------------------------------------
(***************************************************************************)
(* Components                                                              *)
(***************************************************************************)
Live(s, N) == {i \in 1..N : s[i] # 0}

Group(s, N, top, i) == {s[j] : j \in {n \in Live(s, N) : top[i] = top[n]}}

Component(e, s, w, a, c) ==
  /\ Closed(e, s, w, a, c)
  /\ \A part_ \in (SUBSET c) \ {{}, c} : \E k \in part_, l \in c \ part_ : Adjacent(e, s, w, a, k, l)

LEMMA GroupIs ==
  ASSUME Groups!GroupingAssumption, NEW m, NEW s, NEW w, NEW a, NEW e, NEW z, NEW N, NEW top,
         Shape(m, s, w, a, e, z, N), Sound(e, s, w, a, N, top), Complete(e, s, w, a, N, top),
         NEW i \in Live(s, N)
  PROVE  /\ Group(s, N, top, i) \subseteq Keys /\ s[i] \in Group(s, N, top, i)
         /\ Group(s, N, top, i) \subseteq {s[j] : j \in Live(s, N)}
         /\ Component(e, s, w, a, Group(s, N, top, i))
<1>1. PICK K : K = Group(s, N, top, i) OBVIOUS
<1>2. K = {s[j] : j \in {n \in Live(s, N) : top[i] = top[n]}} BY <1>1 DEF Group
<1>3. \A j \in Live(s, N) : j \in 1..N /\ s[j] \in Keys BY DEF Live, Shape
<1>4. \A j \in Live(s, N) : top[i] = top[j] => s[j] \in K BY <1>2
<1>5. \A k \in K : \E j \in Live(s, N) : k = s[j] /\ top[i] = top[j] BY <1>2
<1>6. K \subseteq Keys /\ s[i] \in K /\ K \subseteq {s[j] : j \in Live(s, N)} BY <1>3, <1>4, <1>5
<1>7. ASSUME NEW k \in K, NEW l \in Keys, Adjacent(e, s, w, a, k, l) PROVE l \in K
  <2>1. PICK x \in 1..N, y \in 1..N : s[x] = k /\ s[y] = l /\ top[x] = top[y]
    BY <1>6, <1>7 DEF Complete
  <2>2. PICK j \in Live(s, N) : k = s[j] /\ top[i] = top[j] BY <1>5
  <2>3. k # 0 /\ l # 0 BY <1>6 DEF Groups!GroupingAssumption
  <2>4. x = j BY <1>3, <2>1, <2>2, <2>3 DEF Shape
  <2>5. y \in Live(s, N) BY <2>1, <2>3 DEF Live
  <2> QED BY <1>4, <2>1, <2>2, <2>4, <2>5
<1>8. Closed(e, s, w, a, K) BY <1>7 DEF Closed
<1>9. ASSUME NEW P \in (SUBSET K) \ {{}, K}
      PROVE  \E k \in P, l \in K \ P : Adjacent(e, s, w, a, k, l)
  <2> SUFFICES ASSUME \A k \in P, l \in K \ P : ~Adjacent(e, s, w, a, k, l) PROVE FALSE OBVIOUS
  <2>1. Closed(e, s, w, a, P)
    <3> SUFFICES ASSUME NEW k \in P, NEW l \in Keys \ P, Adjacent(e, s, w, a, k, l) PROVE FALSE
      BY DEF Closed
    <3>1. l \in K BY <1>7, <1>9
    <3> QED BY <3>1
  <2>2. P \in SUBSET Keys BY <1>6, <1>9
  <2>3. \A x, y \in 1..N : top[x] = top[y] => (s[x] \in P <=> s[y] \in P) BY <2>1, <2>2 DEF Sound
  <2>4. PICK k \in P : TRUE BY <1>9
  <2>5. PICK l \in K : l \notin P BY <1>9
  <2>6. PICK x \in Live(s, N) : k = s[x] /\ top[i] = top[x] BY <1>5, <1>9
  <2>7. PICK y \in Live(s, N) : l = s[y] /\ top[i] = top[y] BY <1>5
  <2> QED BY <1>3, <2>3, <2>5, <2>6, <2>7
<1>10. Component(e, s, w, a, K) BY <1>8, <1>9 DEF Component
<1> QED BY <1>1, <1>6, <1>10

LEMMA ComponentIsGroup ==
  ASSUME Groups!GroupingAssumption, NEW m, NEW s, NEW w, NEW a, NEW e, NEW z, NEW N, NEW top,
         Shape(m, s, w, a, e, z, N), Sound(e, s, w, a, N, top), Complete(e, s, w, a, N, top),
         NEW c, c \subseteq {s[j] : j \in Live(s, N)}, c # {}, Component(e, s, w, a, c)
  PROVE  \E i \in Live(s, N) : c = Group(s, N, top, i)
<1>1. \A j \in Live(s, N) : j \in 1..N /\ s[j] \in Keys BY DEF Live, Shape
<1>2. PICK i \in Live(s, N) : s[i] \in c OBVIOUS
<1>3. PICK K : K = Group(s, N, top, i) OBVIOUS
<1>4. s[i] \in K /\ Closed(e, s, w, a, K) BY <1>3, GroupIs DEF Component
<1>5. c \in SUBSET Keys BY <1>1
<1>6. K \subseteq c
  <2>1. \A x, y \in 1..N : top[x] = top[y] => (s[x] \in c <=> s[y] \in c)
    BY <1>5 DEF Sound, Component
  <2>2. \A k \in K : \E j \in Live(s, N) : k = s[j] /\ top[i] = top[j] BY <1>3 DEF Group
  <2> QED BY <1>1, <1>2, <2>1, <2>2
<1>7. K = c
  <2> SUFFICES ASSUME K # c PROVE FALSE OBVIOUS
  <2>1. K \in (SUBSET c) \ {{}, c} BY <1>4, <1>6
  <2>2. PICK k \in K, l \in c \ K : Adjacent(e, s, w, a, k, l) BY <2>1 DEF Component
  <2> QED BY <1>4, <1>5, <2>2 DEF Closed
<1> QED BY <1>3, <1>7
-----------------------------------------------------------------------------
(***************************************************************************)
(* Visiting buckets and streams                                            *)
(***************************************************************************)
Progress(m, s, w, a, todo_, work_, top) ==
  /\ todo_ \subseteq Table
  /\ m \in {"stream", "pairs"} => todo_ = {} /\ work_ = {}
  /\ \A p \in work_ : \E t \in Table : \E i, j \in BucketOf(s, w, t) : i < j /\ p = <<i, j>>
  /\ Processed(m, s, w, a, todo_, work_, top)

Core(m, s, w, a, e, z, u, todo_, work_, N, top) ==
  /\ Shape(m, s, w, a, e, z, N)
  /\ Forest(u, N, top)
  /\ Progress(m, s, w, a, todo_, work_, top)
  /\ Streamed(e, s, N, top)
  /\ Sound(e, s, w, a, N, top)

LEMMA ChosenPairs ==
  ASSUME NEW m, NEW B, NEW p \in Chosen(m, B)
  PROVE  \E i, j \in B : i < j /\ p = <<i, j>>
BY DEF Chosen, Groups!PairsOf, Groups!Anchored

LEMMA VisitBucketCore ==
  ASSUME Groups!GroupingAssumption, NEW m, NEW s, NEW w, NEW a, NEW e, NEW z, NEW u, NEW D, NEW N, NEW top,
         Core(m, s, w, a, e, z, u, D, {}, N, top), NEW t \in D
  PROVE  Core(m, s, w, a, e, z, u, D \ {t}, Chosen(m, BucketOf(s, w, t)), N, top)
<1>1. D \subseteq Table /\ m \notin {"stream", "pairs"} BY DEF Core, Progress
<1>2. m \in {"unverified", "verified"} BY <1>1 DEF Core, Shape, IndexModes
<1> DEFINE W == Chosen(m, BucketOf(s, w, t))
<1>3. \A p \in W : \E i, j \in BucketOf(s, w, t) : i < j /\ p = <<i, j>> BY ChosenPairs
<1>4. \A p \in W : \E x \in Table : \E i, j \in BucketOf(s, w, x) : i < j /\ p = <<i, j>>
  BY <1>1, <1>3
<1>5. Processed(m, s, w, a, D \ {t}, W, top)
  <2> SUFFICES ASSUME NEW x \in Table, x \notin D \ {t}, NEW p \in Chosen(m, BucketOf(s, w, x)),
                      PairOf(s, p[1], p[2]) \in a
               PROVE  top[p[1]] = top[p[2]] \/ p \in W
    BY DEF Processed
  <2>1. CASE x = t BY <2>1
  <2>2. CASE x # t
    <3>1. x \notin D BY <2>2
    <3>2. Processed(m, s, w, a, D, {}, top) BY DEF Core, Progress
    <3> QED BY <1>2, <3>1, <3>2 DEF Processed
  <2> QED BY <2>1, <2>2
<1> HIDE DEF W
<1>6. Progress(m, s, w, a, D \ {t}, W, top) BY <1>1, <1>4, <1>5 DEF Progress
<1> QED BY <1>6 DEF Core, W

(* One pair leaves the work list once its slots are connected, or the      *)
(* verifier has refused it.                                                *)
LEMMA VisitPairCore ==
  ASSUME Groups!GroupingAssumption, NEW m, NEW s, NEW w, NEW a, NEW e, NEW z, NEW u, NEW D, NEW W,
         NEW N, NEW top, Core(m, s, w, a, e, z, u, D, W, N, top), NEW p \in W, NEW v,
         v = IF PairOf(s, p[1], p[2]) \in a THEN Groups!Union(u, p[1], p[2])
             ELSE Groups!Find(u, p[1], p[2])
  PROVE  \E q : Core(m, s, w, a, e, z, v, D, W \ {p}, N, q)
<1>1. m \notin {"stream", "pairs"} BY DEF Core, Progress
<1>2. m \in {"unverified", "verified"} /\ m # "stream" BY <1>1 DEF Core, Shape, IndexModes
<1>3. PICK t \in Table : \E i, j \in BucketOf(s, w, t) : i < j /\ p = <<i, j>>
  BY DEF Core, Progress
<1>4. PICK i \in BucketOf(s, w, t), j \in BucketOf(s, w, t) : i < j /\ p = <<i, j>> BY <1>3
<1>5. Shape(m, s, w, a, e, z, N) /\ N \in Nat BY DEF Core, Shape
<1>6. BucketOf(s, w, t) \subseteq 1..N BY <1>5 DEF BucketOf, Shape
<1>7. i # j /\ i \in 1..N /\ j \in 1..N BY <1>4, <1>5, <1>6
<1>8. /\ s[i] \in Keys /\ s[j] \in Keys
      /\ PairOf(s, i, j) \in a => Adjacent(e, s, w, a, s[i], s[j])
  BY <1>2, <1>5, <1>7, BucketAdjacent
<1>9. p[1] = i /\ p[2] = j BY <1>4
<1>10. Forest(u, N, top) /\ Sound(e, s, w, a, N, top) /\ Streamed(e, s, N, top) BY DEF Core
<1>11. Processed(m, s, w, a, D, W, top) /\ D \subseteq Table BY DEF Core, Progress
<1>12. \A q \in W : \E x \in Table : \E k, l \in BucketOf(s, w, x) : k < l /\ q = <<k, l>>
  BY DEF Core, Progress
<1>13. e = <<>> BY <1>2, <1>5 DEF Shape
<1>14. ASSUME NEW q, PairOf(s, i, j) \in a => q[i] = q[j],
              \A x, y \in 1..N : top[x] = top[y] => q[x] = q[y]
       PROVE  Progress(m, s, w, a, D, W \ {p}, q) /\ Streamed(e, s, N, q)
  <2>1. Processed(m, s, w, a, D, W \ {p}, q)
    <3> SUFFICES ASSUME NEW x \in Table, x \notin D, NEW r \in Chosen(m, BucketOf(s, w, x)),
                        PairOf(s, r[1], r[2]) \in a
                 PROVE  q[r[1]] = q[r[2]] \/ r \in W \ {p}
      BY DEF Processed
    <3>1. top[r[1]] = top[r[2]] \/ r \in W BY <1>2, <1>11 DEF Processed
    <3>2. PICK k \in BucketOf(s, w, x), l \in BucketOf(s, w, x) : r = <<k, l>> BY ChosenPairs
    <3>3. r[1] \in 1..N /\ r[2] \in 1..N
      <4>1. BucketOf(s, w, x) \subseteq 1..N BY <1>5 DEF BucketOf, Shape
      <4> QED BY <3>2, <4>1
    <3> QED BY <1>9, <1>14, <3>1, <3>3
  <2>2. Progress(m, s, w, a, D, W \ {p}, q) BY <1>1, <1>11, <1>12, <2>1 DEF Progress
  <2>3. Streamed(e, s, N, q) BY <1>13 DEF Streamed
  <2> QED BY <2>2, <2>3
<1>15. CASE PairOf(s, i, j) \in a
  <2>1. v = Groups!Union(u, i, j) BY <1>9, <1>15
  <2>2. PICK q : Forest(v, N, q) /\ Joined(N, top, q, i, j) BY <1>5, <1>7, <1>10, <2>1, UnionForest
  <2>3. Sound(e, s, w, a, N, q) BY <1>7, <1>8, <1>10, <1>15, <2>2, JoinedSound
  <2>4. Progress(m, s, w, a, D, W \ {p}, q) /\ Streamed(e, s, N, q)
    BY <1>14, <2>2 DEF Joined
  <2> QED BY <1>5, <2>2, <2>3, <2>4 DEF Core
<1>16. CASE PairOf(s, i, j) \notin a
  <2>1. v = Groups!Find(u, i, j) BY <1>9, <1>16
  <2>2. Forest(v, N, top) BY <1>5, <1>7, <1>10, <2>1, FindForest
  <2>3. Progress(m, s, w, a, D, W \ {p}, top) /\ Streamed(e, s, N, top) BY <1>14, <1>16
  <2> QED BY <1>5, <1>10, <2>2, <2>3 DEF Core
<1> QED BY <1>15, <1>16

(* Streams *)
StreamCore(e, s, w, a, u, N, top) ==
  /\ N \in Nat /\ s \in [1..N -> Keys]
  /\ \A i, j \in 1..N : s[i] = s[j] => i = j
  /\ DOMAIN w = {}
  /\ Forest(u, N, top)
  /\ Streamed(e, s, N, top)
  /\ Sound(e, s, w, a, N, top)

LEMMA StreamLength ==
  ASSUME NEW N \in Nat, NEW S, NEW s \in [1..N -> S]
  PROVE  Len(s) = N /\ s \in Seq(S)
<1>1. s \in Seq(S) BY SeqDef
<1> QED BY <1>1, LenProperties

LEMMA InternCore ==
  ASSUME NEW e, NEW s, NEW w, NEW a, NEW u, NEW N, NEW top, StreamCore(e, s, w, a, u, N, top),
         NEW k \in Keys
  PROVE  \E v, M, t :
           /\ StreamCore(e, Groups!InternKey(s, k), w, a, v, M, t)
           /\ \/ M = N /\ v = u
              \/ M = N + 1 /\ v = Groups!Push(u)
           /\ \E i \in 1..M : Groups!InternKey(s, k)[i] = k
           /\ \A i \in 1..N : i \in 1..M /\ Groups!InternKey(s, k)[i] = s[i]
<1>1. N \in Nat /\ s \in [1..N -> Keys] /\ Len(s) = N BY StreamLength DEF StreamCore
<1>2. CASE \E i \in 1..N : s[i] = k
  <2>1. Groups!InternKey(s, k) = s BY <1>1, <1>2 DEF Groups!InternKey, Groups!Contains
  <2> QED BY <1>2, <2>1
<1>3. CASE ~(\E i \in 1..N : s[i] = k)
  <2> DEFINE M == N + 1
             r == Extended(s, N, k)
             t == Grown(N, top)
  <2>1. Groups!InternKey(s, k) = r
    <3>1. Groups!InternKey(s, k) = Append(s, k) BY <1>1, <1>3 DEF Groups!InternKey, Groups!Contains
    <3> QED BY <1>1, <3>1, AppendIs
  <2>2. M \in Nat /\ M \in 1..M /\ M \notin 1..N /\ 1..M = 1..N \cup {M} BY <1>1
  <2>3. r \in [1..M -> Keys] /\ r[M] = k /\ \A i \in 1..N : r[i] = s[i] BY <1>1, <2>2 DEF Extended
  <2>4. t[M] = M /\ \A i \in 1..N : t[i] = top[i] BY <2>2 DEF Grown
  <2>5. Forest(Groups!Push(u), M, t) BY <1>1, PushForest DEF StreamCore
  <2> HIDE DEF M, r, t
  <2>6. top \in [1..N -> 1..N] BY DEF StreamCore, Forest
  <2>7. \A i, j \in 1..M : r[i] = r[j] => i = j
    <3>1. \A i, j \in 1..N : s[i] = s[j] => i = j BY DEF StreamCore
    <3> QED BY <1>3, <2>2, <2>3, <3>1
  <2>8. Streamed(e, r, M, t)
    <3> SUFFICES ASSUME NEW n \in DOMAIN e
                 PROVE  \E i, j \in 1..M : r[i] = e[n][1] /\ r[j] = e[n][2] /\ t[i] = t[j]
      BY DEF Streamed
    <3>1. PICK i \in 1..N, j \in 1..N : s[i] = e[n][1] /\ s[j] = e[n][2] /\ top[i] = top[j]
      BY DEF StreamCore, Streamed
    <3> QED BY <2>2, <2>3, <2>4, <3>1
  <2>9. Sound(e, r, w, a, M, t)
    <3> SUFFICES ASSUME NEW C \in SUBSET Keys, Closed(e, r, w, a, C), NEW i \in 1..M, NEW j \in 1..M,
                        t[i] = t[j]
                 PROVE  r[i] \in C <=> r[j] \in C
      BY DEF Sound
    <3>1. Closed(e, s, w, a, C)
      <4>1. DOMAIN w = {} BY DEF StreamCore
      <4>2. \A x, y : Adjacent(e, s, w, a, x, y) => Adjacent(e, r, w, a, x, y) BY <4>1 DEF Adjacent
      <4> QED BY <4>2 DEF Closed
    <3>2. \A x, y \in 1..N : top[x] = top[y] => (s[x] \in C <=> s[y] \in C)
      BY <3>1 DEF StreamCore, Sound
    <3>3. CASE i \in 1..N /\ j \in 1..N BY <2>3, <2>4, <3>2, <3>3
    <3>4. CASE i = M \/ j = M
      <4>1. i = j BY <2>2, <2>4, <2>6, <3>4
      <4> QED BY <4>1
    <3> QED BY <2>2, <3>3, <3>4
  <2>10. StreamCore(e, r, w, a, Groups!Push(u), M, t)
    BY <2>2, <2>3, <2>5, <2>7, <2>8, <2>9 DEF StreamCore
  <2>11. \A i \in 1..N : i \in 1..M /\ r[i] = s[i] BY <2>2, <2>3
  <2> QED BY <2>1, <2>2, <2>3, <2>10, <2>11 DEF M
<1> QED BY <1>2, <1>3

LEMMA JoinCore ==
  ASSUME Groups!GroupingAssumption, NEW e \in Seq(Keys \X Keys), NEW s, NEW w, NEW a, NEW u, NEW N,
         NEW top, StreamCore(e, s, w, a, u, N, top), NEW i \in 1..N, NEW j \in 1..N
  PROVE  \E t : StreamCore(Append(e, <<s[i], s[j]>>), s, w, a, Groups!Union(u, i, j), N, t)
<1>1. N \in Nat /\ s \in [1..N -> Keys] /\ Forest(u, N, top) BY DEF StreamCore
<1>2. PICK t : Forest(Groups!Union(u, i, j), N, t) /\ Joined(N, top, t, i, j) BY <1>1, UnionForest
<1>3. PICK k \in Keys : k = s[i] BY <1>1
<1>4. PICK l \in Keys : l = s[j] BY <1>1
<1>5. PICK x \in Keys \X Keys : x = <<k, l>> OBVIOUS
<1>6. PICK f : f = Append(e, x) OBVIOUS
<1>7. PICK n \in Nat : n = Len(e) BY LenProperties
<1>8. /\ DOMAIN e = 1..n /\ DOMAIN f = 1..(n + 1) /\ f[n + 1] = x
      /\ \A y \in 1..n : f[y] = e[y]
  <2>1. DOMAIN e = 1..n BY <1>7, LenProperties
  <2>2. f \in Seq(Keys \X Keys) /\ Len(f) = n + 1 /\ f[n + 1] = x /\ \A y \in 1..n : f[y] = e[y]
    BY <1>6, <1>7, AppendProperties
  <2>3. DOMAIN f = 1..(n + 1) BY <2>2, LenProperties
  <2> QED BY <2>1, <2>2, <2>3
<1>9. n + 1 \in 1..(n + 1) /\ 1..(n + 1) = 1..n \cup {n + 1} OBVIOUS
<1>10. \A y \in DOMAIN e : y \in DOMAIN f /\ f[y] = e[y] BY <1>8, <1>9
<1>11. \A y, z : Adjacent(e, s, w, a, y, z) => Adjacent(f, s, w, a, y, z) BY <1>10 DEF Adjacent
<1>12. Sound(f, s, w, a, N, top)
  <2>1. \A C : Closed(f, s, w, a, C) => Closed(e, s, w, a, C) BY <1>11 DEF Closed
  <2> QED BY <2>1 DEF StreamCore, Sound
<1>13. Adjacent(f, s, w, a, k, l)
  <2>1. n + 1 \in DOMAIN f /\ f[n + 1][1] = k /\ f[n + 1][2] = l BY <1>5, <1>8, <1>9
  <2> QED BY <2>1 DEF Adjacent
<1>14. Sound(f, s, w, a, N, t) BY <1>2, <1>3, <1>4, <1>12, <1>13, JoinedSound
<1>15. Streamed(f, s, N, t)
  <2> SUFFICES ASSUME NEW y \in DOMAIN f
               PROVE  \E b, c \in 1..N : s[b] = f[y][1] /\ s[c] = f[y][2] /\ t[b] = t[c]
    BY DEF Streamed
  <2>1. CASE y = n + 1
    <3>1. s[i] = f[y][1] /\ s[j] = f[y][2] BY <1>3, <1>4, <1>5, <1>8, <2>1
    <3>2. t[i] = t[j] BY <1>2 DEF Joined
    <3> QED BY <3>1, <3>2
  <2>2. CASE y \in DOMAIN e
    <3>1. PICK b \in 1..N, c \in 1..N : s[b] = e[y][1] /\ s[c] = e[y][2] /\ top[b] = top[c]
      BY <2>2 DEF StreamCore, Streamed
    <3>2. t[b] = t[c] BY <1>2, <3>1 DEF Joined
    <3> QED BY <1>10, <2>2, <3>1, <3>2
  <2> QED BY <1>8, <1>9, <2>1, <2>2
<1>16. StreamCore(f, s, w, a, Groups!Union(u, i, j), N, t)
  BY <1>1, <1>2, <1>14, <1>15 DEF StreamCore
<1> QED BY <1>3, <1>4, <1>5, <1>6, <1>16
-----------------------------------------------------------------------------
(***************************************************************************)
(* The result of grouping                                                  *)
(***************************************************************************)
LiveKeys(s) == {s[i] : i \in {j \in DOMAIN s : s[j] # 0}}

Expected(e, s, w, a, z) ==
  {c \in SUBSET LiveKeys(s) : Groups!Cardinality(c) >= Groups!Max({z, 1}) /\ Component(e, s, w, a, c)}

Grouped(e, s, w, a, z, g, c) ==
  c \in {"done", "selected"} =>
    /\ {x.members : x \in g} = Expected(e, s, w, a, z)
    /\ \A x \in g : x.representative \in x.members
    /\ c = "done" => \A x \in g : x.representative = Groups!Min(x.members)

LEMMA MaxAtLeastOne ==
  ASSUME NEW z \in Nat
  PROVE  Groups!Max({z, 1}) \in Nat /\ Groups!Max({z, 1}) >= 1
<1>1. \E x \in {z, 1} : \A y \in {z, 1} : x >= y
  <2>1. CASE z >= 1 BY <2>1
  <2>2. CASE ~(z >= 1) BY <2>2
  <2> QED BY <2>1, <2>2
<1>2. PICK m : m = Groups!Max({z, 1}) OBVIOUS
<1>3. m \in {z, 1} /\ \A y \in {z, 1} : m >= y BY <1>1, <1>2 DEF Groups!Max
<1> QED BY <1>2, <1>3

LEMMA GroupMin ==
  ASSUME NEW c \in SUBSET Nat, c # {}
  PROVE  Groups!Min(c) \in c
<1>1. \E m \in c : \A n \in c : m <= n BY LeastNumber
<1> QED BY <1>1 DEF Groups!Min

LEMMA NotEmpty ==
  ASSUME NEW z \in Nat, NEW c, Groups!Cardinality(c) >= Groups!Max({z, 1})
  PROVE  c # {}
<1> SUFFICES ASSUME c = {} PROVE FALSE OBVIOUS
<1>1. Groups!Cardinality(c) = Cardinality(c) BY Zenon DEF Groups!Cardinality, Cardinality, Groups!IsFiniteSet, IsFiniteSet
<1>2. Cardinality(c) = 0 BY FS_EmptySet
<1>3. PICK m \in Nat : m = Groups!Max({z, 1}) /\ m >= 1 BY MaxAtLeastOne
<1> QED BY <1>1, <1>2, <1>3

LEMMA ComponentsAre ==
  ASSUME Groups!GroupingAssumption, NEW N, NEW top,
         Core(mode, slots, rows, accepted, edges, min_size, uf, {}, {}, N, top), mode # "pairs"
  PROVE  Groups!Components = Expected(edges, slots, rows, accepted, min_size)
<1>1. /\ Shape(mode, slots, rows, accepted, edges, min_size, N) /\ Forest(uf, N, top)
      /\ Sound(edges, slots, rows, accepted, N, top) /\ N \in Nat /\ min_size \in Nat
      /\ DOMAIN slots = 1..N
  BY DEF Core, Shape
<1>2. Complete(edges, slots, rows, accepted, N, top)
  <2>1. CASE mode = "stream" BY <1>1, <2>1, StreamComplete DEF Core
  <2>2. CASE mode \in {"unverified", "verified"} BY <1>1, <2>2, VisitedComplete DEF Core, Progress
  <2> QED BY <1>1, <2>1, <2>2 DEF Shape, IndexModes
<1>3. Groups!Members = Live(slots, N) BY <1>1 DEF Groups!Members, Live
<1>4. LiveKeys(slots) = {slots[j] : j \in Live(slots, N)} BY <1>1 DEF LiveKeys, Live
<1>5. \A i, n \in 1..N : Groups!Connected(uf, i, n) <=> top[i] = top[n]
  BY <1>1, RootIs DEF Groups!Connected
<1>6. ASSUME NEW i \in Live(slots, N)
      PROVE  {slots[j] : j \in {n \in Groups!Members : Groups!Connected(uf, i, n)}} = Group(slots, N, top, i)
  <2>1. Live(slots, N) \subseteq 1..N BY DEF Live
  <2>2. {n \in Groups!Members : Groups!Connected(uf, i, n)} = {n \in Live(slots, N) : top[i] = top[n]}
    BY <1>3, <1>5, <2>1
  <2> QED BY <2>2 DEF Group
<1>7. PICK z : z = Groups!Max({min_size, 1}) OBVIOUS
<1>8. ASSUME NEW c
      PROVE  c \in Groups!Components <=>
               \E i \in Live(slots, N) : c = Group(slots, N, top, i) /\ Groups!Cardinality(c) >= z
  <2>1. Groups!Components =
          {x \in {{slots[j] : j \in {n \in Groups!Members : Groups!Connected(uf, i, n)}} : i \in Groups!Members} :
             Groups!Cardinality(x) >= z}
    BY <1>7 DEF Groups!Components
  <2>2. c \in {{slots[j] : j \in {n \in Groups!Members : Groups!Connected(uf, i, n)}} : i \in Groups!Members}
          <=> \E i \in Groups!Members : c = {slots[j] : j \in {n \in Groups!Members : Groups!Connected(uf, i, n)}}
    OBVIOUS
  <2> QED BY <1>3, <1>6, <2>1, <2>2
<1>9. ASSUME NEW c
      PROVE  c \in Expected(edges, slots, rows, accepted, min_size) <=>
               /\ c \subseteq {slots[j] : j \in Live(slots, N)} /\ Groups!Cardinality(c) >= z
               /\ Component(edges, slots, rows, accepted, c)
  BY <1>4, <1>7 DEF Expected
<1>10. ASSUME NEW c \in Groups!Components PROVE c \in Expected(edges, slots, rows, accepted, min_size)
  <2>1. PICK i \in Live(slots, N) : c = Group(slots, N, top, i) /\ Groups!Cardinality(c) >= z BY <1>8
  <2>2. c \subseteq {slots[j] : j \in Live(slots, N)} /\ Component(edges, slots, rows, accepted, c)
    BY <1>1, <1>2, <2>1, GroupIs
  <2> QED BY <1>9, <2>1, <2>2
<1>11. ASSUME NEW c \in Expected(edges, slots, rows, accepted, min_size) PROVE c \in Groups!Components
  <2>1. /\ c \subseteq {slots[j] : j \in Live(slots, N)} /\ Groups!Cardinality(c) >= z
        /\ Component(edges, slots, rows, accepted, c)
    BY <1>9
  <2>2. c # {} BY <1>1, <1>7, <2>1, NotEmpty
  <2>3. PICK i \in Live(slots, N) : c = Group(slots, N, top, i)
    BY <1>1, <1>2, <2>1, <2>2, ComponentIsGroup
  <2> QED BY <1>8, <2>1, <2>3
<1> QED BY <1>10, <1>11

LEMMA ExpectedKeys ==
  ASSUME Groups!GroupingAssumption, NEW m, NEW s, NEW w, NEW a, NEW e, NEW z, NEW N,
         Shape(m, s, w, a, e, z, N), NEW c \in Expected(e, s, w, a, z)
  PROVE  c # {} /\ c \in SUBSET Nat
<1>1. c \subseteq LiveKeys(s) /\ Groups!Cardinality(c) >= Groups!Max({z, 1}) /\ z \in Nat
  BY DEF Expected, Shape
<1>2. LiveKeys(s) \subseteq Keys BY DEF LiveKeys, Shape
<1>3. Keys \subseteq Nat BY DEF Groups!GroupingAssumption
<1> QED BY <1>1, <1>2, <1>3, NotEmpty

-----------------------------------------------------------------------------
(***************************************************************************)
(* Candidate pairs                                                         *)
(***************************************************************************)
IsPlace(s, w, x) ==
  \E t \in Table : \E i, j \in BucketOf(s, w, t) : i < j /\ x = <<t[1], t[2], i, j>>

(* Every place up to the position has its pair among those seen, and those *)
(* seen were returned once each.                                           *)
Iteration(m, s, w, it, em) ==
  m = "pairs" =>
    /\ em \in Seq(Groups!AllPairs)
    /\ it.position \in Nat \X Nat \X Nat \X Nat
    /\ \A q \in it.seen : \E x : IsPlace(s, w, x) /\ q = Groups!IdPair(x)
    /\ \A n \in DOMAIN em : \E q \in it.seen : em[n] = PairOf(s, q[1], q[2])
    /\ \A q \in it.seen : \E n \in DOMAIN em : em[n] = PairOf(s, q[1], q[2])
    /\ \A n, o \in DOMAIN em : em[n] = em[o] => n = o
    /\ \A x : IsPlace(s, w, x) => Groups!Precedes(it.position, x) \/ Groups!IdPair(x) \in it.seen

PairsDone(m, e, s, w, a, em, c) ==
  m = "pairs" /\ c = "done" =>
    Groups!ToSet(em) = {p \in Groups!AllPairs : Adjacent(e, s, w, a, p[1], p[2])}

LEMMA PrecedesIs ==
  ASSUME NEW p \in Nat \X Nat \X Nat \X Nat, NEW q \in Nat \X Nat \X Nat \X Nat
  PROVE  Groups!Precedes(p, q) <=>
           \/ p[1] < q[1]
           \/ p[1] = q[1] /\ p[2] < q[2]
           \/ p[1] = q[1] /\ p[2] = q[2] /\ p[3] < q[3]
           \/ p[1] = q[1] /\ p[2] = q[2] /\ p[3] = q[3] /\ p[4] < q[4]
<1>1. DOMAIN p = {1, 2, 3, 4} OBVIOUS
<1>2. Groups!Precedes(p, q) <=>
        \E n \in {1, 2, 3, 4} : p[n] < q[n] /\ \A m \in 1..(n - 1) : p[m] = q[m]
  BY <1>1 DEF Groups!Precedes
<1>3. 1..(1 - 1) = {} /\ 1..(2 - 1) = {1} /\ 1..(3 - 1) = {1, 2} /\ 1..(4 - 1) = {1, 2, 3} OBVIOUS
<1> QED BY <1>2, <1>3

LEMMA PrecedesTotal ==
  ASSUME NEW p \in Nat \X Nat \X Nat \X Nat, NEW q \in Nat \X Nat \X Nat \X Nat
  PROVE  p = q \/ Groups!Precedes(p, q) \/ Groups!Precedes(q, p)
<1>1. p = <<p[1], p[2], p[3], p[4]>> /\ q = <<q[1], q[2], q[3], q[4]>> OBVIOUS
<1>2. PICK a \in Nat, b \in Nat, c \in Nat, d \in Nat : p[1] = a /\ p[2] = b /\ p[3] = c /\ p[4] = d
  OBVIOUS
<1>3. PICK e \in Nat, f \in Nat, g \in Nat, h \in Nat : q[1] = e /\ q[2] = f /\ q[3] = g /\ q[4] = h
  OBVIOUS
<1>4. Groups!Precedes(p, q) <=> \/ a < e
                                \/ a = e /\ b < f
                                \/ a = e /\ b = f /\ c < g
                                \/ a = e /\ b = f /\ c = g /\ d < h
  BY <1>2, <1>3, PrecedesIs
<1>5. Groups!Precedes(q, p) <=> \/ e < a
                                \/ e = a /\ f < b
                                \/ e = a /\ f = b /\ g < c
                                \/ e = a /\ f = b /\ g = c /\ h < d
  BY <1>2, <1>3, PrecedesIs
<1>6. (a = e /\ b = f /\ c = g /\ d = h) \/ Groups!Precedes(p, q) \/ Groups!Precedes(q, p)
  BY <1>4, <1>5
<1> QED BY <1>1, <1>2, <1>3, <1>6

LEMMA PlaceIs ==
  ASSUME Groups!GroupingAssumption, NEW m, NEW s, NEW w, NEW a, NEW e, NEW z, NEW N,
         Shape(m, s, w, a, e, z, N), m = "pairs", NEW x, IsPlace(s, w, x)
  PROVE  /\ x \in Nat \X Nat \X Nat \X Nat /\ x[1] > 0
         /\ x[3] \in 1..N /\ x[4] \in 1..N /\ x[3] < x[4]
         /\ s[x[3]] \in Keys /\ s[x[4]] \in Keys
         /\ PairOf(s, x[3], x[4]) \in Groups!AllPairs
         /\ Adjacent(e, s, w, a, s[x[3]], s[x[4]])
<1>1. PICK t \in Table : \E i, j \in BucketOf(s, w, t) : i < j /\ x = <<t[1], t[2], i, j>> BY DEF IsPlace
<1>2. PICK i \in BucketOf(s, w, t), j \in BucketOf(s, w, t) : i < j /\ x = <<t[1], t[2], i, j>> BY <1>1
<1>3. N \in Nat /\ DOMAIN s = 1..N /\ a = Groups!AllPairs BY DEF Shape
<1>4. i \in 1..N /\ j \in 1..N BY <1>3 DEF BucketOf
<1>5. i # j /\ m # "stream" BY <1>2, <1>4
<1>6. /\ s[i] \in Keys /\ s[j] \in Keys /\ PairOf(s, i, j) \in Groups!AllPairs
      /\ PairOf(s, i, j) \in a => Adjacent(e, s, w, a, s[i], s[j])
  BY <1>5, BucketAdjacent
<1>7. t[1] \in 1..Bands /\ t[2] \in Nat /\ Bands \in Nat BY DEF Table, Groups!GroupingAssumption
<1>8. x[1] = t[1] /\ x[2] = t[2] /\ x[3] = i /\ x[4] = j BY <1>2
<1>9. t[1] \in Nat /\ t[1] > 0 /\ i \in Nat /\ j \in Nat BY <1>3, <1>4, <1>7
<1>10. x \in Nat \X Nat \X Nat \X Nat BY <1>2, <1>7, <1>9
<1> QED BY <1>2, <1>3, <1>4, <1>6, <1>8, <1>9, <1>10

(* Different pairs of identifiers are different pairs of keys. *)
LEMMA PairsDiffer ==
  ASSUME Groups!GroupingAssumption, NEW m, NEW s, NEW w, NEW a, NEW e, NEW z, NEW N,
         Shape(m, s, w, a, e, z, N),
         NEW i \in 1..N, NEW j \in 1..N, NEW k \in 1..N, NEW l \in 1..N, i < j, k < l,
         s[i] \in Keys, s[j] \in Keys, s[k] \in Keys, s[l] \in Keys,
         PairOf(s, i, j) = PairOf(s, k, l)
  PROVE  i = k /\ j = l
<1>1. N \in Nat /\ 0 \notin Keys BY DEF Shape, Groups!GroupingAssumption
<1>2. \A x, y \in 1..N : s[x] = s[y] /\ s[x] \in Keys => x = y BY <1>1 DEF Shape
<1>3. Groups!OrderedPair(s[i], s[j]) = <<s[i], s[j]>> \/ Groups!OrderedPair(s[i], s[j]) = <<s[j], s[i]>>
  BY PairIs
<1>4. Groups!OrderedPair(s[k], s[l]) = <<s[k], s[l]>> \/ Groups!OrderedPair(s[k], s[l]) = <<s[l], s[k]>>
  BY PairIs
<1>5. (s[i] = s[k] /\ s[j] = s[l]) \/ (s[i] = s[l] /\ s[j] = s[k]) BY <1>3, <1>4 DEF PairOf
<1>6. (i = k /\ j = l) \/ (i = l /\ j = k) BY <1>2, <1>5
<1> QED BY <1>1, <1>6

LEMMA PlacesAre ==
  \A x : x \in Groups!Places <=> IsPlace(slots, rows, x)
<1> SUFFICES ASSUME NEW x PROVE x \in Groups!Places <=> IsPlace(slots, rows, x) OBVIOUS
<1>1. \A t : Groups!Bucket(t) = BucketOf(slots, rows, t) BY DEF Groups!Bucket, BucketOf
<1>2. x \in Groups!Places <=>
        \E t \in Table : \E p \in Groups!PairsOf(Groups!Bucket(t)) : x = <<t[1], t[2], p[1], p[2]>>
  BY DEF Groups!Places, Table
<1>3. ASSUME NEW t \in Table
      PROVE  (\E p \in Groups!PairsOf(Groups!Bucket(t)) : x = <<t[1], t[2], p[1], p[2]>>) <=>
               \E i, j \in BucketOf(slots, rows, t) : i < j /\ x = <<t[1], t[2], i, j>>
  <2>1. PICK B : B = BucketOf(slots, rows, t) OBVIOUS
  <2>2. Groups!PairsOf(Groups!Bucket(t)) = {p \in B \X B : p[1] < p[2]} BY <1>1, <2>1 DEF Groups!PairsOf
  <2>3. ASSUME NEW p \in B \X B, p[1] < p[2], x = <<t[1], t[2], p[1], p[2]>>
        PROVE  \E i, j \in B : i < j /\ x = <<t[1], t[2], i, j>>
    BY <2>3
  <2>4. ASSUME NEW i \in B, NEW j \in B, i < j, x = <<t[1], t[2], i, j>>
        PROVE  \E p \in {p \in B \X B : p[1] < p[2]} : x = <<t[1], t[2], p[1], p[2]>>
    <3>1. <<i, j>> \in {p \in B \X B : p[1] < p[2]} BY <2>4
    <3>2. x = <<t[1], t[2], <<i, j>>[1], <<i, j>>[2]>> BY <2>4
    <3> QED BY <3>1, <3>2
  <2> QED BY <2>1, <2>2, <2>3, <2>4
<1> QED BY <1>2, <1>3 DEF IsPlace
-----------------------------------------------------------------------------
(***************************************************************************)
(* The steps of grouping                                                   *)
(***************************************************************************)
GroupsInv ==
  /\ \E N, top : Core(mode, slots, rows, accepted, edges, min_size, uf, todo, work, N, top)
  /\ Iteration(mode, slots, rows, iterator, emitted)
  /\ mode # "pairs" => Grouped(edges, slots, rows, accepted, min_size, groups, pc)
  /\ PairsDone(mode, edges, slots, rows, accepted, emitted, pc)

LEMMA GroupsInitInv ==
  ASSUME Groups!GroupingAssumption, Groups!Init
  PROVE  GroupsInv
<1>1. PICK r \in Requests : mode = r.mode /\ slots = r.slots /\ min_size = r.min_size
  BY DEF Groups!Init
<1>2. /\ r \in Groups!Request
      /\ r.mode = "stream" => r.slots = <<>>
      /\ \A i, j \in DOMAIN r.slots : r.slots[i] = r.slots[j] => i = j \/ r.slots[i] = 0
  BY DEF Groups!GroupingAssumption
<1>3. /\ mode \in IndexModes \cup {"stream"} /\ slots \in Seq(Keys \cup {0}) /\ min_size \in Nat
  BY <1>1, <1>2 DEF Groups!Request, IndexModes
<1>4. PICK N \in Nat : N = Len(slots) BY <1>3, LenProperties
<1>5. slots \in [1..N -> Keys \cup {0}] /\ DOMAIN slots = 1..N BY <1>3, <1>4, LenProperties
<1>6. rows \in [1..N -> [1..Bands -> Hashes]] BY <1>5 DEF Groups!Init
<1>7. mode = "stream" => 1..N = {}
  <2>1. mode = "stream" => N = 0 BY <1>1, <1>2, <1>4
  <2> QED BY <2>1
<1>8. accepted \subseteq Groups!AllPairs /\ (mode # "verified" => accepted = Groups!AllPairs)
  BY DEF Groups!Init
<1>9. edges = <<>> /\ edges \in Seq(Keys \X Keys) BY DEF Groups!Init
<1>10. Shape(mode, slots, rows, accepted, edges, min_size, N)
  BY <1>1, <1>2, <1>3, <1>5, <1>6, <1>7, <1>8, <1>9 DEF Shape
<1>11. PICK top : top = [i \in 1..N |-> i] OBVIOUS
<1>12. Forest(uf, N, top) BY <1>4, <1>11, WithLenForest DEF Groups!Init
<1>13. /\ todo = {t \in Table : mode \in {"verified", "unverified"} /\
                     \E i \in DOMAIN slots : slots[i] # 0 /\ rows[i][t[1]] = t[2]}
       /\ work = {} /\ emitted = <<>> /\ pc = "visit"
       /\ iterator = [position |-> <<0, 0, 0, 0>>, seen |-> {}]
  BY DEF Groups!Init, Table
<1>14. Progress(mode, slots, rows, accepted, todo, work, top)
  <2>1. todo \subseteq Table /\ (mode \in {"stream", "pairs"} => todo = {} /\ work = {})
    BY <1>13
  <2>2. ASSUME mode \in {"unverified", "verified"}, NEW t \in Table, t \notin todo
        PROVE  Chosen(mode, BucketOf(slots, rows, t)) = {}
    <3>1. BucketOf(slots, rows, t) = {} BY <1>13, <2>2 DEF BucketOf
    <3> QED BY <3>1, ChosenPairs
  <2>3. Processed(mode, slots, rows, accepted, todo, work, top) BY <2>2 DEF Processed
  <2> QED BY <1>13, <2>1, <2>3 DEF Progress
<1>15. Streamed(edges, slots, N, top)
  <2>1. DOMAIN edges = {} BY <1>9
  <2> QED BY <2>1 DEF Streamed
<1>16. Sound(edges, slots, rows, accepted, N, top) BY <1>11 DEF Sound
<1>17. Core(mode, slots, rows, accepted, edges, min_size, uf, todo, work, N, top)
  BY <1>10, <1>12, <1>14, <1>15, <1>16 DEF Core
<1>18. Iteration(mode, slots, rows, iterator, emitted)
  <2> SUFFICES ASSUME mode = "pairs" PROVE Iteration(mode, slots, rows, iterator, emitted)
    BY DEF Iteration
  <2>1. iterator.position \in Nat \X Nat \X Nat \X Nat /\ iterator.position = <<0, 0, 0, 0>>
    BY <1>13
  <2>2. iterator.seen = {} BY <1>13
  <2>3. emitted \in Seq(Groups!AllPairs) /\ DOMAIN emitted = {} BY <1>13
  <2>4. ASSUME NEW x, IsPlace(slots, rows, x) PROVE Groups!Precedes(iterator.position, x)
    <3>1. x \in Nat \X Nat \X Nat \X Nat /\ x[1] > 0 BY <1>10, <2>4, PlaceIs
    <3>2. iterator.position[1] < x[1] BY <2>1, <3>1
    <3> QED BY <2>1, <3>1, <3>2, PrecedesIs
  <2> QED BY <2>1, <2>2, <2>3, <2>4 DEF Iteration
<1>19. Grouped(edges, slots, rows, accepted, min_size, groups, pc) BY <1>13 DEF Grouped
<1>20. PairsDone(mode, edges, slots, rows, accepted, emitted, pc) BY <1>13 DEF PairsDone
<1> QED BY <1>17, <1>18, <1>19, <1>20 DEF GroupsInv

(* While pairs are visited there is no result yet. *)
LEMMA VisitStep ==
  ASSUME GroupsInv, pc = "visit", pc' = pc, UNCHANGED <<mode, iterator, emitted>>,
         UNCHANGED <<slots, rows>> \/ mode # "pairs",
         \E N, top : Core(mode', slots', rows', accepted', edges', min_size', uf', todo', work', N, top)
  PROVE  GroupsInv'
<1>1. Iteration(mode', slots', rows', iterator', emitted')
  <2>1. CASE mode = "pairs" BY <2>1 DEF GroupsInv
  <2>2. CASE mode # "pairs" BY <2>2 DEF Iteration
  <2> QED BY <2>1, <2>2
<1>2. Grouped(edges', slots', rows', accepted', min_size', groups', pc') BY DEF Grouped
<1>3. PairsDone(mode', edges', slots', rows', accepted', emitted', pc') BY DEF PairsDone
<1> QED BY <1>1, <1>2, <1>3 DEF GroupsInv

LEMMA VisitBucketInv ==
  ASSUME Groups!GroupingAssumption, GroupsInv, Groups!VisitBucket
  PROVE  GroupsInv'
<1>1. PICK N, top : Core(mode, slots, rows, accepted, edges, min_size, uf, todo, work, N, top)
  BY DEF GroupsInv
<1>2. PICK t \in todo : /\ todo' = todo \ {t}
                        /\ work' = IF mode = "verified" THEN Groups!PairsOf(Groups!Bucket(t))
                                   ELSE Groups!Anchored(Groups!Bucket(t))
  BY DEF Groups!VisitBucket
<1>3. work = {} /\ pc = "visit" /\ UNCHANGED <<mode, slots, rows, accepted, min_size>>
      /\ UNCHANGED <<uf, edges, iterator, emitted, groups, pc>>
  BY DEF Groups!VisitBucket, Groups!index
<1>4. Groups!Bucket(t) = BucketOf(slots, rows, t) BY DEF Groups!Bucket, BucketOf
<1>5. work' = Chosen(mode, BucketOf(slots, rows, t)) BY <1>2, <1>4 DEF Chosen
<1>6. Core(mode, slots, rows, accepted, edges, min_size, uf, todo, {}, N, top) BY <1>1, <1>3
<1>7. Core(mode, slots, rows, accepted, edges, min_size, uf, todo \ {t},
           Chosen(mode, BucketOf(slots, rows, t)), N, top)
  BY <1>6, VisitBucketCore
<1>8. Core(mode', slots', rows', accepted', edges', min_size', uf', todo', work', N, top)
  BY <1>2, <1>3, <1>5, <1>7
<1> QED BY <1>3, <1>8, VisitStep

LEMMA VisitPairInv ==
  ASSUME Groups!GroupingAssumption, GroupsInv, Groups!VisitPair
  PROVE  GroupsInv'
<1>1. PICK N, top : Core(mode, slots, rows, accepted, edges, min_size, uf, todo, work, N, top)
  BY DEF GroupsInv
<1>2. PICK p \in work : /\ uf' = IF Groups!KeyPair(p[1], p[2]) \in accepted
                                 THEN Groups!Union(uf, p[1], p[2]) ELSE Groups!Find(uf, p[1], p[2])
                        /\ work' = work \ {p}
  BY DEF Groups!VisitPair
<1>3. pc = "visit" /\ UNCHANGED <<mode, slots, rows, accepted, min_size>>
      /\ UNCHANGED <<todo, edges, iterator, emitted, groups, pc>>
  BY DEF Groups!VisitPair, Groups!index
<1>4. Groups!KeyPair(p[1], p[2]) = PairOf(slots, p[1], p[2]) BY DEF Groups!KeyPair, PairOf
<1>5. PICK v : v = IF PairOf(slots, p[1], p[2]) \in accepted THEN Groups!Union(uf, p[1], p[2])
                   ELSE Groups!Find(uf, p[1], p[2])
  OBVIOUS
<1>6. uf' = v BY <1>2, <1>4, <1>5
<1>7. PICK q : Core(mode, slots, rows, accepted, edges, min_size, v, todo, work \ {p}, N, q)
  BY <1>1, <1>5, VisitPairCore
<1>8. Core(mode', slots', rows', accepted', edges', min_size', uf', todo', work', N, q)
  BY <1>2, <1>3, <1>6, <1>7
<1> QED BY <1>3, <1>8, VisitStep

LEMMA StreamPairInv ==
  ASSUME Groups!GroupingAssumption, GroupsInv, NEW left \in Keys, NEW right \in Keys,
         Groups!StreamPair(left, right)
  PROVE  GroupsInv'
<1>1. PICK N, top : Core(mode, slots, rows, accepted, edges, min_size, uf, todo, work, N, top)
  BY DEF GroupsInv
<1>2. mode = "stream" /\ pc = "visit"
      /\ UNCHANGED <<mode, rows, accepted, todo, work, iterator, emitted, min_size, groups, pc>>
  BY DEF Groups!StreamPair
<1>3. Shape(mode, slots, rows, accepted, edges, min_size, N) BY <1>1 DEF Core
<1>4. /\ N \in Nat /\ slots \in [1..N -> Keys] /\ DOMAIN rows = {} /\ edges \in Seq(Keys \X Keys)
      /\ \A i, j \in 1..N : slots[i] = slots[j] => i = j
  <2>1. 0 \notin Keys BY DEF Groups!GroupingAssumption
  <2>2. /\ N \in Nat /\ slots \in [1..N -> Keys \cup {0}] /\ \A i \in 1..N : slots[i] \in Keys
        /\ DOMAIN rows = {} /\ edges \in Seq(Keys \X Keys)
        /\ \A i, j \in 1..N : slots[i] = slots[j] => i = j \/ slots[i] = 0
    BY <1>2, <1>3 DEF Shape
  <2>3. slots \in [1..N -> Keys] BY <2>2
  <2> QED BY <2>1, <2>2, <2>3
<1>5. StreamCore(edges, slots, rows, accepted, uf, N, top) BY <1>1, <1>4 DEF Core, StreamCore
<1>6. PICK one : one = Groups!InternKey(slots, left) OBVIOUS
<1>7. PICK two : two = Groups!InternKey(one, right) OBVIOUS
<1>8. PICK u1, N1, top1 :
        /\ StreamCore(edges, one, rows, accepted, u1, N1, top1)
        /\ (N1 = N /\ u1 = uf) \/ (N1 = N + 1 /\ u1 = Groups!Push(uf))
        /\ \E i \in 1..N1 : one[i] = left
  BY <1>5, <1>6, InternCore
<1>9. PICK u2, N2, top2 :
        /\ StreamCore(edges, two, rows, accepted, u2, N2, top2)
        /\ (N2 = N1 /\ u2 = u1) \/ (N2 = N1 + 1 /\ u2 = Groups!Push(u1))
        /\ \E i \in 1..N2 : two[i] = right
        /\ \A i \in 1..N1 : i \in 1..N2 /\ two[i] = one[i]
  BY <1>7, <1>8, InternCore
<1>10. PICK i0 \in 1..N1 : one[i0] = left BY <1>8
<1>11. i0 \in 1..N2 /\ two[i0] = left BY <1>9, <1>10
<1>12. N1 \in Nat /\ N2 \in Nat /\ two \in [1..N2 -> Keys] BY <1>8, <1>9 DEF StreamCore
<1>13. Len(slots) = N /\ Len(two) = N2 /\ DOMAIN two = 1..N2 BY <1>4, <1>12, StreamLength
<1>14. u2 = IF Len(two) = Len(slots) THEN uf
            ELSE IF Len(two) = Len(slots) + 1 THEN Groups!Push(uf) ELSE Groups!Push(Groups!Push(uf))
  <2>1. CASE N1 = N /\ N2 = N1 BY <1>4, <1>8, <1>9, <1>13, <2>1
  <2>2. CASE N1 = N /\ N2 = N1 + 1
    <3>1. N2 = N + 1 /\ N2 # N /\ N1 # N + 1 /\ N2 # N1 BY <1>4, <2>2
    <3> QED BY <1>8, <1>9, <1>13, <3>1
  <2>3. CASE N1 = N + 1 /\ N2 = N1
    <3>1. N2 = N + 1 /\ N2 # N /\ N1 # N /\ N2 # N1 + 1 BY <1>4, <2>3
    <3> QED BY <1>8, <1>9, <1>13, <3>1
  <2>4. CASE N1 = N + 1 /\ N2 = N1 + 1
    <3>1. N2 # N + 1 /\ N2 # N /\ N1 # N /\ N2 # N1 BY <1>4, <2>4
    <3> QED BY <1>8, <1>9, <1>13, <3>1
  <2> QED BY <1>8, <1>9, <2>1, <2>2, <2>3, <2>4
<1>15. PICK l \in 1..N2 : l = Groups!Slot(two, left) /\ two[l] = left
  BY <1>11, <1>13 DEF Groups!Slot
<1>16. PICK r \in 1..N2 : r = Groups!Slot(two, right) /\ two[r] = right
  BY <1>9, <1>13 DEF Groups!Slot
<1>17. /\ slots' = two /\ uf' = Groups!Union(u2, l, r) /\ edges' = Append(edges, <<left, right>>)
  BY <1>6, <1>7, <1>14, <1>15, <1>16 DEF Groups!StreamPair
<1>18. PICK t : StreamCore(Append(edges, <<two[l], two[r]>>), two, rows, accepted,
                           Groups!Union(u2, l, r), N2, t)
  BY <1>4, <1>9, JoinCore
<1>19. StreamCore(edges', slots', rows', accepted', uf', N2, t) BY <1>2, <1>15, <1>16, <1>17, <1>18
<1>20. Shape(mode', slots', rows', accepted', edges', min_size', N2)
  <2>1. edges' \in Seq(Keys \X Keys)
    <3>1. <<left, right>> \in Keys \X Keys OBVIOUS
    <3> QED BY <1>4, <1>17, <3>1, AppendProperties
  <2>2. /\ N2 \in Nat /\ slots' \in [1..N2 -> Keys] /\ DOMAIN rows' = {}
        /\ \A i, j \in 1..N2 : slots'[i] = slots'[j] => i = j
    BY <1>19 DEF StreamCore
  <2>3. slots' \in [1..N2 -> Keys \cup {0}] /\ \A i \in 1..N2 : slots'[i] \in Keys BY <2>2
  <2>4. /\ min_size' \in Nat /\ mode' = "stream" /\ accepted' \subseteq Groups!AllPairs
        /\ accepted' = Groups!AllPairs
    BY <1>2, <1>3 DEF Shape
  <2> QED BY <2>1, <2>2, <2>3, <2>4 DEF Shape
<1>21. Progress(mode', slots', rows', accepted', todo', work', t)
  <2>1. todo' = {} /\ work' = {} /\ mode' = "stream" BY <1>1, <1>2 DEF Core, Progress
  <2> QED BY <2>1 DEF Progress, Processed
<1>22. Core(mode', slots', rows', accepted', edges', min_size', uf', todo', work', N2, t)
  BY <1>19, <1>20, <1>21 DEF Core, StreamCore
<1> QED BY <1>2, <1>22, VisitStep

LEMMA CollectStep ==
  ASSUME GroupsInv, mode # "pairs",
         UNCHANGED <<mode, slots, rows, accepted, min_size, todo, work, uf, edges, iterator, emitted>>,
         Grouped(edges, slots, rows, accepted, min_size, groups', pc')
  PROVE  GroupsInv'
<1>1. \E N, top : Core(mode', slots', rows', accepted', edges', min_size', uf', todo', work', N, top)
  BY DEF GroupsInv
<1>2. Iteration(mode', slots', rows', iterator', emitted') BY DEF GroupsInv
<1>3. PairsDone(mode', edges', slots', rows', accepted', emitted', pc') BY DEF PairsDone
<1> QED BY <1>1, <1>2, <1>3 DEF GroupsInv

LEMMA VisitedComponents ==
  ASSUME Groups!GroupingAssumption, GroupsInv, Groups!Visited
  PROVE  /\ mode # "pairs" /\ Groups!Components = Expected(edges, slots, rows, accepted, min_size)
         /\ \A c \in Groups!Components : c # {} /\ c \in SUBSET Nat
<1>1. PICK N, top : Core(mode, slots, rows, accepted, edges, min_size, uf, todo, work, N, top)
  BY DEF GroupsInv
<1>2. todo = {} /\ work = {} /\ mode # "pairs" BY DEF Groups!Visited
<1>3. Core(mode, slots, rows, accepted, edges, min_size, uf, {}, {}, N, top) BY <1>1, <1>2
<1>4. Groups!Components = Expected(edges, slots, rows, accepted, min_size) BY <1>2, <1>3, ComponentsAre
<1>5. Shape(mode, slots, rows, accepted, edges, min_size, N) BY <1>3 DEF Core
<1> QED BY <1>2, <1>4, <1>5, ExpectedKeys

LEMMA CollectDefaultInv ==
  ASSUME Groups!GroupingAssumption, GroupsInv, Groups!CollectDefault
  PROVE  GroupsInv'
<1>1. PICK K : K = Groups!Components OBVIOUS
<1>2. /\ mode # "pairs" /\ K = Expected(edges, slots, rows, accepted, min_size)
      /\ \A c \in K : c # {} /\ c \in SUBSET Nat
  BY <1>1, VisitedComponents DEF Groups!CollectDefault
<1>3. groups' = {[representative |-> Groups!Min(c), members |-> c] : c \in K} /\ pc' = "done"
  BY <1>1 DEF Groups!CollectDefault
<1>4. {x.members : x \in groups'} = K
  <2>1. ASSUME NEW x \in groups' PROVE x.members \in K BY <1>3
  <2>2. ASSUME NEW c \in K PROVE \E x \in groups' : x.members = c
    <3>1. PICK x : x = [representative |-> Groups!Min(c), members |-> c] OBVIOUS
    <3>2. x \in groups' /\ x.members = c BY <1>3, <3>1
    <3> QED BY <3>2
  <2> QED BY <2>1, <2>2
<1>5. \A x \in groups' : x.members \in K /\ x.representative = Groups!Min(x.members) BY <1>3
<1>6. \A c \in K : Groups!Min(c) \in c BY <1>2, GroupMin
<1>7. Grouped(edges, slots, rows, accepted, min_size, groups', pc')
  BY <1>2, <1>4, <1>5, <1>6 DEF Grouped
<1>8. UNCHANGED <<mode, slots, rows, accepted, min_size, todo, work, uf, edges, iterator, emitted>>
  BY DEF Groups!CollectDefault, Groups!index
<1> QED BY <1>2, <1>7, <1>8, CollectStep

LEMMA CollectSelectedInv ==
  ASSUME Groups!GroupingAssumption, GroupsInv, Groups!CollectSelected
  PROVE  GroupsInv'
<1>1. PICK K : K = Groups!Components OBVIOUS
<1>2. mode # "pairs" /\ K = Expected(edges, slots, rows, accepted, min_size)
  BY <1>1, VisitedComponents DEF Groups!CollectSelected
<1>3. PICK pick \in [K -> Keys] :
        IF \A c \in K : pick[c] \in c
        THEN /\ groups' = {[representative |-> pick[c], members |-> c] : c \in K}
             /\ pc' = "selected"
        ELSE groups' = {} /\ pc' = "not_member"
  BY <1>1 DEF Groups!CollectSelected
<1>4. Grouped(edges, slots, rows, accepted, min_size, groups', pc')
  <2>1. CASE \A c \in K : pick[c] \in c
    <3>1. groups' = {[representative |-> pick[c], members |-> c] : c \in K} /\ pc' = "selected"
      BY <1>3, <2>1
    <3>2. {x.members : x \in groups'} = K
      <4>1. ASSUME NEW x \in groups' PROVE x.members \in K BY <3>1
      <4>2. ASSUME NEW c \in K PROVE \E x \in groups' : x.members = c
        <5>1. PICK x : x = [representative |-> pick[c], members |-> c] OBVIOUS
        <5>2. x \in groups' /\ x.members = c BY <3>1, <5>1
        <5> QED BY <5>2
      <4> QED BY <4>1, <4>2
    <3>3. \A x \in groups' : x.representative \in x.members BY <2>1, <3>1
    <3> QED BY <1>2, <3>1, <3>2, <3>3 DEF Grouped
  <2>2. CASE ~(\A c \in K : pick[c] \in c)
    <3>1. pc' = "not_member" BY <1>3, <2>2
    <3> QED BY <3>1 DEF Grouped
  <2> QED BY <2>1, <2>2
<1>5. UNCHANGED <<mode, slots, rows, accepted, min_size, todo, work, uf, edges, iterator, emitted>>
  BY DEF Groups!CollectSelected, Groups!index
<1> QED BY <1>2, <1>4, <1>5, CollectStep

(* The next place whose pair is new: what lies between is seen already. *)
LEMMA NextPlace ==
  ASSUME Groups!GroupingAssumption, NEW s, NEW w, NEW a, NEW e, NEW z, NEW N,
         Shape("pairs", s, w, a, e, z, N), NEW it, NEW em, Iteration("pairs", s, w, it, em),
         NEW x, IsPlace(s, w, x), Groups!IdPair(x) \notin it.seen,
         \A y : IsPlace(s, w, y) /\ Groups!Precedes(it.position, y) /\ Groups!Precedes(y, x)
                => Groups!IdPair(y) \in it.seen,
         NEW it2, it2 = [position |-> x, seen |-> it.seen \cup {Groups!IdPair(x)}],
         NEW em2, em2 = Append(em, PairOf(s, x[3], x[4]))
  PROVE  Iteration("pairs", s, w, it2, em2)
<1>1. /\ x \in Nat \X Nat \X Nat \X Nat /\ x[3] \in 1..N /\ x[4] \in 1..N /\ x[3] < x[4]
      /\ s[x[3]] \in Keys /\ s[x[4]] \in Keys /\ PairOf(s, x[3], x[4]) \in Groups!AllPairs
  BY PlaceIs
<1>2. PICK p \in Groups!AllPairs : p = PairOf(s, x[3], x[4]) BY <1>1
<1>3. PICK d : d = Groups!IdPair(x) OBVIOUS
<1>4. d = <<x[3], x[4]>> /\ d[1] = x[3] /\ d[2] = x[4] BY <1>3 DEF Groups!IdPair
<1>5. em \in Seq(Groups!AllPairs) BY DEF Iteration
<1>6. PICK n \in Nat : n = Len(em) BY <1>5, LenProperties
<1>7. DOMAIN em = 1..n BY <1>5, <1>6, LenProperties
<1>8. em2 \in Seq(Groups!AllPairs) /\ Len(em2) = n + 1 /\ em2[n + 1] = p /\ \A o \in 1..n : em2[o] = em[o]
  BY <1>2, <1>5, <1>6, AppendProperties
<1>9. DOMAIN em2 = 1..(n + 1) BY <1>8, LenProperties
<1>10. n + 1 \in 1..(n + 1) /\ n + 1 \notin 1..n /\ 1..(n + 1) = 1..n \cup {n + 1} OBVIOUS
<1>11. it2.position = x /\ it2.seen = it.seen \cup {d} BY <1>3
<1>12. \A q \in it2.seen : \E y : IsPlace(s, w, y) /\ q = Groups!IdPair(y) BY <1>3, <1>11 DEF Iteration
<1>13. \A o \in DOMAIN em2 : \E q \in it2.seen : em2[o] = PairOf(s, q[1], q[2])
  <2> SUFFICES ASSUME NEW o \in DOMAIN em2 PROVE \E q \in it2.seen : em2[o] = PairOf(s, q[1], q[2])
    OBVIOUS
  <2>1. CASE o = n + 1 BY <1>2, <1>4, <1>8, <1>11, <2>1
  <2>2. CASE o \in 1..n
    <3>1. PICK q \in it.seen : em[o] = PairOf(s, q[1], q[2]) BY <1>7, <2>2 DEF Iteration
    <3> QED BY <1>8, <1>11, <2>2, <3>1
  <2> QED BY <1>9, <1>10, <2>1, <2>2
<1>14. \A q \in it2.seen : \E o \in DOMAIN em2 : em2[o] = PairOf(s, q[1], q[2])
  <2> SUFFICES ASSUME NEW q \in it2.seen PROVE \E o \in DOMAIN em2 : em2[o] = PairOf(s, q[1], q[2])
    OBVIOUS
  <2>1. CASE q = d BY <1>2, <1>4, <1>8, <1>9, <1>10, <2>1
  <2>2. CASE q \in it.seen
    <3>1. PICK o \in 1..n : em[o] = PairOf(s, q[1], q[2]) BY <1>7, <2>2 DEF Iteration
    <3> QED BY <1>8, <1>9, <1>10, <3>1
  <2> QED BY <1>11, <2>1, <2>2
<1>15. \A o \in 1..n : em[o] # p
  <2> SUFFICES ASSUME NEW o \in 1..n, em[o] = p PROVE FALSE OBVIOUS
  <2>1. PICK q \in it.seen : em[o] = PairOf(s, q[1], q[2]) BY <1>7 DEF Iteration
  <2>2. PICK y : IsPlace(s, w, y) /\ q = Groups!IdPair(y) BY DEF Iteration
  <2>3. /\ y[3] \in 1..N /\ y[4] \in 1..N /\ y[3] < y[4] /\ s[y[3]] \in Keys /\ s[y[4]] \in Keys
    BY <2>2, PlaceIs
  <2>4. q = <<y[3], y[4]>> /\ q[1] = y[3] /\ q[2] = y[4] BY <2>2 DEF Groups!IdPair
  <2>5. PairOf(s, y[3], y[4]) = PairOf(s, x[3], x[4]) BY <1>2, <2>1, <2>4
  <2>6. y[3] = x[3] /\ y[4] = x[4] BY <1>1, <2>3, <2>5, PairsDiffer
  <2> QED BY <1>3, <1>4, <2>4, <2>6
<1>16. \A o, r \in DOMAIN em2 : em2[o] = em2[r] => o = r
  <2>1. \A o, r \in 1..n : em[o] = em[r] => o = r BY <1>7 DEF Iteration
  <2> QED BY <1>8, <1>9, <1>10, <1>15, <2>1
<1>17. ASSUME NEW y, IsPlace(s, w, y)
       PROVE  Groups!Precedes(it2.position, y) \/ Groups!IdPair(y) \in it2.seen
  <2>1. y \in Nat \X Nat \X Nat \X Nat BY <1>17, PlaceIs
  <2>2. x = y \/ Groups!Precedes(x, y) \/ Groups!Precedes(y, x) BY <1>1, <2>1, PrecedesTotal
  <2>3. CASE x = y BY <1>3, <1>11, <2>3
  <2>4. CASE Groups!Precedes(x, y) BY <1>11, <2>4
  <2>5. CASE Groups!Precedes(y, x)
    <3>1. Groups!Precedes(it.position, y) \/ Groups!IdPair(y) \in it.seen BY <1>17 DEF Iteration
    <3> QED BY <1>11, <1>17, <2>5, <3>1
  <2> QED BY <2>2, <2>3, <2>4, <2>5
<1> QED BY <1>1, <1>8, <1>11, <1>12, <1>13, <1>14, <1>16, <1>17 DEF Iteration

LEMMA NextPairInv ==
  ASSUME Groups!GroupingAssumption, GroupsInv, Groups!NextPair
  PROVE  GroupsInv'
<1>1. PICK N, top : Core(mode, slots, rows, accepted, edges, min_size, uf, todo, work, N, top)
  BY DEF GroupsInv
<1>2. mode = "pairs" /\ pc = "visit" /\ UNCHANGED <<mode, slots, rows, accepted, min_size>>
      /\ UNCHANGED <<todo, work, uf, edges, groups, pc>>
  BY DEF Groups!NextPair, Groups!index
<1>3. PICK x \in Groups!Ahead :
        /\ Groups!Unseen(Groups!IdPair(x))
        /\ \A y \in Groups!Ahead : Groups!Precedes(y, x) => ~Groups!Unseen(Groups!IdPair(y))
        /\ iterator' = [position |-> x, seen |-> iterator.seen \cup {Groups!IdPair(x)}]
        /\ emitted' = Append(emitted, Groups!KeyPair(x[3], x[4]))
  BY DEF Groups!NextPair
<1>4. \A y : y \in Groups!Ahead <=> IsPlace(slots, rows, y) /\ Groups!Precedes(iterator.position, y)
  BY PlacesAre DEF Groups!Ahead
<1>5. IsPlace(slots, rows, x) /\ Groups!IdPair(x) \notin iterator.seen BY <1>3, <1>4 DEF Groups!Unseen
<1>6. \A y : IsPlace(slots, rows, y) /\ Groups!Precedes(iterator.position, y) /\ Groups!Precedes(y, x)
             => Groups!IdPair(y) \in iterator.seen
  BY <1>3, <1>4 DEF Groups!Unseen
<1>7. emitted' = Append(emitted, PairOf(slots, x[3], x[4])) BY <1>3 DEF Groups!KeyPair, PairOf
<1>8. Shape("pairs", slots, rows, accepted, edges, min_size, N) BY <1>1, <1>2 DEF Core
<1>9. Iteration("pairs", slots, rows, iterator, emitted) BY <1>2 DEF GroupsInv
<1>10. Iteration("pairs", slots, rows, iterator', emitted')
  BY <1>3, <1>5, <1>6, <1>7, <1>8, <1>9, NextPlace
<1>11. Iteration(mode', slots', rows', iterator', emitted') BY <1>2, <1>10
<1>12. PairsDone(mode', edges', slots', rows', accepted', emitted', pc') BY <1>2 DEF PairsDone
<1>13. \E M, t : Core(mode', slots', rows', accepted', edges', min_size', uf', todo', work', M, t)
  BY <1>1, <1>2
<1> QED BY <1>2, <1>11, <1>12, <1>13 DEF GroupsInv

LEMMA NoMorePairsInv ==
  ASSUME Groups!GroupingAssumption, GroupsInv, Groups!NoMorePairs
  PROVE  GroupsInv'
<1>1. PICK N, top : Core(mode, slots, rows, accepted, edges, min_size, uf, todo, work, N, top)
  BY DEF GroupsInv
<1>2. mode = "pairs" /\ UNCHANGED <<mode, slots, rows, accepted, min_size>>
      /\ UNCHANGED <<todo, work, uf, edges, iterator, emitted, groups>>
  BY DEF Groups!NoMorePairs, Groups!index
<1>3. Shape(mode, slots, rows, accepted, edges, min_size, N) BY <1>1 DEF Core
<1>4. Iteration(mode, slots, rows, iterator, emitted) BY DEF GroupsInv
<1>5. \A x : IsPlace(slots, rows, x) => Groups!IdPair(x) \in iterator.seen
  BY <1>2, <1>4, PlacesAre DEF Groups!NoMorePairs, Groups!Ahead, Groups!Unseen, Iteration
<1>6. ASSUME NEW n \in DOMAIN emitted
      PROVE  emitted[n] \in Groups!AllPairs /\ Adjacent(edges, slots, rows, accepted, emitted[n][1], emitted[n][2])
  <2>1. PICK q \in iterator.seen : emitted[n] = PairOf(slots, q[1], q[2]) BY <1>2, <1>4 DEF Iteration
  <2>2. PICK x : IsPlace(slots, rows, x) /\ q = Groups!IdPair(x) BY <1>2, <1>4 DEF Iteration
  <2>3. q[1] = x[3] /\ q[2] = x[4] BY <2>2 DEF Groups!IdPair
  <2>4. /\ slots[x[3]] \in Keys /\ slots[x[4]] \in Keys
        /\ PairOf(slots, x[3], x[4]) \in Groups!AllPairs
        /\ Adjacent(edges, slots, rows, accepted, slots[x[3]], slots[x[4]])
    BY <1>2, <1>3, <2>2, PlaceIs
  <2>5. PICK k \in Keys : k = slots[x[3]] BY <2>4
  <2>6. PICK l \in Keys : l = slots[x[4]] BY <2>4
  <2>7. Adjacent(edges, slots, rows, accepted, k, l) /\ Adjacent(edges, slots, rows, accepted, l, k)
    BY <2>4, <2>5, <2>6, AdjacentSymmetric
  <2>8. emitted[n] = <<k, l>> \/ emitted[n] = <<l, k>> BY <2>1, <2>3, <2>5, <2>6, PairIs DEF PairOf
  <2> QED BY <2>1, <2>3, <2>4, <2>7, <2>8
<1>7. ASSUME NEW p \in Groups!AllPairs, Adjacent(edges, slots, rows, accepted, p[1], p[2])
      PROVE  \E n \in DOMAIN emitted : emitted[n] = p
  <2>1. p[1] \in Keys /\ p[2] \in Keys /\ p[1] < p[2] /\ p = <<p[1], p[2]>> BY DEF Groups!AllPairs
  <2>2. PICK t \in Table : \E i, j \in BucketOf(slots, rows, t) :
          i # j /\ slots[i] = p[1] /\ slots[j] = p[2] /\ PairOf(slots, i, j) \in accepted
    <3>1. mode # "stream" BY <1>2
    <3> QED BY <1>3, <1>7, <2>1, <3>1, AdjacentBuckets
  <2>3. PICK i \in BucketOf(slots, rows, t), j \in BucketOf(slots, rows, t) :
          i # j /\ slots[i] = p[1] /\ slots[j] = p[2]
    BY <2>2
  <2>4. PairOf(slots, i, j) = p
    <3>1. p[1] \in Nat /\ p[2] \in Nat BY <2>1 DEF Groups!GroupingAssumption
    <3>2. p[1] <= p[2] BY <2>1, <3>1
    <3> QED BY <2>1, <2>3, <3>2 DEF PairOf, Groups!OrderedPair
  <2>5. PairOf(slots, j, i) = p
    <3>1. mode # "stream" BY <1>2
    <3>2. PairOf(slots, i, j) = PairOf(slots, j, i) BY <1>3, <2>3, <3>1, BucketAdjacent
    <3> QED BY <2>4, <3>2
  <2>6. i \in Nat /\ j \in Nat
    <3>1. DOMAIN slots = 1..N BY <1>3 DEF Shape
    <3>2. i \in 1..N /\ j \in 1..N BY <3>1 DEF BucketOf
    <3> QED BY <3>2
  <2>7. PICK q \in iterator.seen : PairOf(slots, q[1], q[2]) = p
    <3>1. CASE i < j
      <4>1. IsPlace(slots, rows, <<t[1], t[2], i, j>>) BY <3>1 DEF IsPlace
      <4>2. Groups!IdPair(<<t[1], t[2], i, j>>) = <<i, j>> BY DEF Groups!IdPair
      <4>3. <<i, j>> \in iterator.seen BY <1>5, <4>1, <4>2
      <4> QED BY <2>4, <4>3
    <3>2. CASE j < i
      <4>1. IsPlace(slots, rows, <<t[1], t[2], j, i>>) BY <3>2 DEF IsPlace
      <4>2. Groups!IdPair(<<t[1], t[2], j, i>>) = <<j, i>> BY DEF Groups!IdPair
      <4>3. <<j, i>> \in iterator.seen BY <1>5, <4>1, <4>2
      <4> QED BY <2>5, <4>3
    <3> QED BY <2>3, <2>6, <3>1, <3>2
  <2> QED BY <1>2, <1>4, <2>7 DEF Iteration
<1>8. Groups!ToSet(emitted) = {p \in Groups!AllPairs : Adjacent(edges, slots, rows, accepted, p[1], p[2])}
  <2>1. \A p : p \in Groups!ToSet(emitted) <=> \E n \in DOMAIN emitted : p = emitted[n] BY DEF Groups!ToSet
  <2> QED BY <1>6, <1>7, <2>1
<1>9. PairsDone(mode', edges', slots', rows', accepted', emitted', pc') BY <1>2, <1>8 DEF PairsDone
<1>10. Iteration(mode', slots', rows', iterator', emitted') BY <1>2, <1>4
<1>11. \E M, t : Core(mode', slots', rows', accepted', edges', min_size', uf', todo', work', M, t)
  BY <1>1, <1>2
<1> QED BY <1>2, <1>9, <1>10, <1>11 DEF GroupsInv

LEMMA GroupsNextInv ==
  ASSUME Groups!GroupingAssumption, GroupsInv, [Groups!Next]_(Groups!vars)
  PROVE  GroupsInv'
<1>1. CASE UNCHANGED Groups!vars
  <2>1. UNCHANGED <<mode, slots, rows, accepted, edges, min_size, uf, todo, work, iterator, emitted, groups, pc>>
    BY <1>1 DEF Groups!vars
  <2> QED BY <2>1 DEF GroupsInv
<1>2. CASE Groups!Next
  BY <1>2, VisitBucketInv, VisitPairInv, StreamPairInv, CollectDefaultInv, CollectSelectedInv,
     NextPairInv, NoMorePairsInv
  DEF Groups!Next
<1> QED BY <1>1, <1>2

LEMMA EdgesAre ==
  /\ \A k, l : Groups!Edge(k, l) <=> Adjacent(edges, slots, rows, accepted, k, l)
  /\ \A c : Groups!IsComponent(c) <=> Component(edges, slots, rows, accepted, c)
<1>1. ASSUME NEW k, NEW l PROVE Groups!Edge(k, l) <=> Adjacent(edges, slots, rows, accepted, k, l)
  BY DEF Groups!Edge, Adjacent
<1>2. ASSUME NEW c PROVE Groups!IsComponent(c) <=> Component(edges, slots, rows, accepted, c)
  BY <1>1 DEF Groups!IsComponent, Component, Closed
<1> QED BY <1>1, <1>2

LEMMA InvGroups ==
  ASSUME GroupsInv
  PROVE  Groups!GroupsAreComponents
<1> SUFFICES ASSUME pc \in {"done", "selected"}, mode # "pairs"
             PROVE  /\ {g.members : g \in groups} = Groups!ExpectedMembers
                    /\ \A g \in groups : g.representative \in g.members
                    /\ pc = "done" => \A g \in groups : g.representative = Groups!Min(g.members)
  BY DEF Groups!GroupsAreComponents
<1>1. Grouped(edges, slots, rows, accepted, min_size, groups, pc) BY DEF GroupsInv
<1>2. {slots[i] : i \in Groups!Members} = LiveKeys(slots) BY DEF Groups!Members, LiveKeys
<1>3. Groups!ExpectedMembers = Expected(edges, slots, rows, accepted, min_size)
  BY <1>2, EdgesAre DEF Groups!ExpectedMembers, Expected
<1> QED BY <1>1, <1>3 DEF Grouped

LEMMA InvPairs ==
  ASSUME GroupsInv
  PROVE  Groups!PairsExact
<1> SUFFICES ASSUME mode = "pairs"
             PROVE  /\ \A m, n \in DOMAIN emitted : emitted[m] = emitted[n] => m = n
                    /\ pc = "done" => Groups!ToSet(emitted) = {p \in Groups!AllPairs : Groups!Edge(p[1], p[2])}
  BY DEF Groups!PairsExact
<1>1. \A m, n \in DOMAIN emitted : emitted[m] = emitted[n] => m = n BY DEF GroupsInv, Iteration
<1>2. {p \in Groups!AllPairs : Groups!Edge(p[1], p[2])} =
        {p \in Groups!AllPairs : Adjacent(edges, slots, rows, accepted, p[1], p[2])}
  BY EdgesAre
<1> QED BY <1>1, <1>2 DEF GroupsInv, PairsDone

LEMMA InvRanks ==
  ASSUME GroupsInv
  PROVE  Groups!RankBounded
<1>1. PICK N, top : Core(mode, slots, rows, accepted, edges, min_size, uf, todo, work, N, top)
  BY DEF GroupsInv
<1>2. N \in Nat /\ Forest(uf, N, top) BY <1>1 DEF Core, Shape
<1>3. DOMAIN uf.parent = 1..N BY <1>2 DEF Forest
<1>4. ASSUME NEW i \in 1..N, uf.parent[i] # i PROVE uf.rank[i] < uf.rank[uf.parent[i]]
  BY <1>2, <1>4 DEF Forest
<1>5. ASSUME NEW i \in 1..N
      PROVE  Groups!Cardinality({j \in 1..N : Groups!Connected(uf, i, j)}) >=
               Groups!PowerOfTwo[uf.rank[Groups!Root(uf, i)]]
  <2>1. \A j \in 1..N : Groups!Root(uf, j) = top[j] BY <1>2, RootIs
  <2>2. {j \in 1..N : Groups!Connected(uf, i, j)} = Class(N, top, i)
    BY <2>1 DEF Groups!Connected, Class
  <2>3. Groups!Cardinality(Class(N, top, i)) = Cardinality(Class(N, top, i))
    BY Zenon DEF Groups!Cardinality, Cardinality, Groups!IsFiniteSet, IsFiniteSet
  <2>4. Cardinality(Class(N, top, i)) >= Groups!PowerOfTwo[uf.rank[top[i]]] BY <1>2 DEF Forest
  <2> QED BY <2>1, <2>2, <2>3, <2>4
<1> QED BY <1>3, <1>4, <1>5 DEF Groups!RankBounded
-----------------------------------------------------------------------------
(***************************************************************************)
(* The whole                                                               *)
(***************************************************************************)

(* A step of something else leaves the counters as they are. *)
LEMMA ObservationStutters ==
  ASSUME ObservationInv, UNCHANGED Observation!vars
  PROVE  ObservationInv'
<1> USE DEF Observation!vars
<1>1. ObservationTypes' BY DEF ObservationInv, ObservationTypes
<1>2. NothingLost'
  <2>1. \A i \in 1..4 : Pending(recording, i)' = Pending(recording, i) BY DEF Pending
  <2>2. \A i \in 1..4 : Units(Pending(recording, i))' = Units(Pending(recording, i))
    BY <2>1 DEF Units
  <2> QED BY <2>2 DEF ObservationInv, NothingLost
<1>3. StartedBefore' BY DEF ObservationInv, StartedBefore
<1>4. Observation!SnapshotBounded' BY DEF ObservationInv, Observation!SnapshotBounded
<1> QED BY <1>1, <1>2, <1>3, <1>4 DEF ObservationInv

LEMMA DistributionStutters ==
  ASSUME DistributionInv, UNCHANGED sizes
  PROVE  DistributionInv'
  BY DEF DistributionInv

LEMMA BatchStutters ==
  ASSUME BatchInv, UNCHANGED Batch!vars
  PROVE  BatchInv'
<1> USE DEF Batch!vars
<1>1. BatchTypes' BY DEF BatchInv, BatchTypes
<1>2. Batch!BatchInOrder' BY DEF BatchInv, Batch!BatchInOrder
<1>3. ASSUME NEW c \in Call, pc'[c] = "install" PROVE Installed(c)'
  <2>1. Batch!Effective(c)' = Batch!Effective(c) BY DEF Batch!Effective
  <2>2. Batch!ChunkSize(c)' = Batch!ChunkSize(c) BY <2>1 DEF Batch!ChunkSize
  <2>3. Batch!ChunkNumbers(c)' = Batch!ChunkNumbers(c) BY <2>2 DEF Batch!ChunkNumbers
  <2>4. \A i : Batch!Chunk(c, i)' = Batch!Chunk(c, i) BY <2>2 DEF Batch!Chunk
  <2>5. Installed(c) BY <1>3 DEF BatchInv
  <2> QED BY <2>1, <2>3, <2>4, <2>5 DEF Installed
<1> QED BY <1>1, <1>2, <1>3 DEF BatchInv

(* The inductive invariant: that of the part the behaviour is about. *)
Inv ==
  /\ part = "sketch" => SketchInv
  /\ part = "batch" => BatchInv
  /\ part = "memory" => Memory!IInv
  /\ part = "observation" => ObservationInv
  /\ part = "distribution" => DistributionInv
  /\ part = "groups" => GroupsInv

LEMMA InitInv ==
  ASSUME Init
  PROVE  Inv
<1>1. part = "sketch" => Sketch!Init BY DEF Init
<1>2. part = "batch" => Batch!Init BY DEF Init
<1>3. part = "memory" => Memory!Init BY DEF Init
<1>4. part = "observation" => Observation!Init BY DEF Init
<1>5. part = "distribution" => Distribution!Init BY DEF Init
<1>6. part = "groups" => Groups!Init BY DEF Init
<1>7. part = "sketch" => SketchInv BY <1>1, SketchInitInv
<1>8. part = "batch" => BatchInv BY <1>2, BatchInitInv, Assumptions
<1>9. part = "memory" => Memory!IInv BY <1>3, MemoryInitInv, Assumptions
<1>10. part = "observation" => ObservationInv BY <1>4, ObservationInitInv, Assumptions
<1>11. part = "distribution" => DistributionInv BY <1>5, DistributionInitInv, Assumptions
<1>12. part = "groups" => GroupsInv BY <1>6, GroupsInitInv, Assumptions
<1> QED BY <1>7, <1>8, <1>9, <1>10, <1>11, <1>12 DEF Inv

(* A step is one of the part, and the part stays. *)
LEMMA StepOfPart ==
  ASSUME [Next]_vars
  PROVE  /\ part' = part
         /\ part = "sketch" => Sketch!Next \/ UNCHANGED Sketch!vars
         /\ part = "batch" => Batch!Next \/ UNCHANGED Batch!vars
         /\ part = "memory" => Memory!Next \/ UNCHANGED Memory!vars
         /\ part = "observation" => Observation!Next \/ UNCHANGED Observation!vars
         /\ part = "distribution" => Distribution!Next \/ UNCHANGED sizes
         /\ part = "groups" => Groups!Next \/ UNCHANGED Groups!vars
<1>1. CASE Next BY <1>1 DEF Next
<1>2. CASE UNCHANGED vars
  BY <1>2
  DEF vars, Sketch!vars, Batch!vars, Memory!vars, Observation!vars, Groups!vars
<1> QED BY <1>1, <1>2

LEMMA NextInv ==
  ASSUME Inv, [Next]_vars
  PROVE  Inv'
<1>0. part' = part BY StepOfPart
<1>1. part = "sketch" => SketchInv'
  <2>1. part = "sketch" => SketchInv /\ (Sketch!Next \/ UNCHANGED Sketch!vars)
    BY StepOfPart DEF Inv
  <2> QED BY <2>1, SketchNextInv, Assumptions
<1>2. part = "batch" => BatchInv'
  <2>1. part = "batch" => BatchInv /\ (Batch!Next \/ UNCHANGED Batch!vars)
    BY StepOfPart DEF Inv
  <2> QED BY <2>1, BatchNextInv, BatchStutters, Assumptions
<1>3. part = "memory" => Memory!IInv'
  <2>1. part = "memory" => Memory!IInv /\ (Memory!Next \/ UNCHANGED Memory!vars)
    BY StepOfPart DEF Inv
  <2> QED BY <2>1, MemoryNextInv, Assumptions
<1>4. part = "observation" => ObservationInv'
  <2>1. part = "observation" => ObservationInv /\ (Observation!Next \/ UNCHANGED Observation!vars)
    BY StepOfPart DEF Inv
  <2> QED BY <2>1, ObservationNextInv, ObservationStutters, Assumptions
<1>5. part = "distribution" => DistributionInv'
  <2>1. part = "distribution" => DistributionInv /\ (Distribution!Next \/ UNCHANGED sizes)
    BY StepOfPart DEF Inv
  <2> QED BY <2>1, DistributionNextInv, DistributionStutters, Assumptions
<1>6. part = "groups" => GroupsInv'
  <2>1. part = "groups" => GroupsInv /\ (Groups!Next \/ UNCHANGED Groups!vars)
    BY StepOfPart DEF Inv
  <2> QED BY <2>1, GroupsNextInv, Assumptions
<1> QED BY <1>0, <1>1, <1>2, <1>3, <1>4, <1>5, <1>6 DEF Inv

THEOREM Invariance == Spec => []Inv
<1>1. Init => Inv BY InitInv
<1>2. Inv /\ [Next]_vars => Inv' BY NextInv
<1> QED BY <1>1, <1>2, PTL DEF Spec

(* MinHash: for any word width, multiplier, shift and permutations, a      *)
(* sketch is the coordinatewise minimum over the set it stands for, and    *)
(* two sketches agree in a place exactly when one element is the first of  *)
(* both sets there: the mixing never maps two hashes to one value.         *)
THEOREM SketchesAreExact == Spec => []SketchesExact
<1>1. Inv => SketchesExact
  <2> SUFFICES ASSUME Inv, part = "sketch" PROVE Sketch!SketchOfSet /\ Sketch!AgreementIsShared
    BY DEF SketchesExact
  <2> QED BY InvSketchOfSet, InvAgreement, Assumptions DEF Inv
<1> QED BY <1>1, Invariance, PTL

(* SketchBatch: for any number of rows, calls, threads and processors, a   *)
(* call that returns has every row at its place, and its pool has as many  *)
(* threads as the call may use.                                            *)
THEOREM BatchesAreExact == Spec => []BatchExact
<1>1. Inv => BatchExact
  <2> SUFFICES ASSUME Inv, part = "batch" PROVE Batch!BatchInOrder /\ Batch!WithinThreads
    BY DEF BatchExact
  <2>1. BatchInv BY DEF Inv
  <2>2. Batch!BatchInOrder BY <2>1 DEF BatchInv
  <2> QED BY <2>1, <2>2, InvWithinThreads, Assumptions
<1> QED BY <1>1, Invariance, PTL

(* MemoryIndex: keys, slots and buckets of the index agree after every     *)
(* step, for any keys, bands, hashes and identifier space.                 *)
THEOREM SlotsAgree == Spec => []SlotsConsistent
<1>1. Inv => SlotsConsistent BY DEF Inv, SlotsConsistent
<1> QED BY <1>1, Invariance, PTL

(* MemoryIndex: query returns the live keys that share a band with the     *)
(* probe, and no other.                                                    *)
THEOREM QueriesExact == Spec => []QueryExact
<1>1. Inv => QueryExact
  <2> SUFFICES ASSUME Inv, part = "memory" PROVE Memory!QueryExact
    BY DEF QueryExact
  <2> QED BY InvQuery, Assumptions DEF Inv
<1> QED BY <1>1, Invariance, PTL

(* MemoryIndex implements SimilarityIndex, the map from keys to rows, and  *)
(* an identifier that was given to a key never resolves to another one.    *)
THEOREM ImplementsMap == Spec => ImplementsContents
<1>1. Init => (part = "memory" => Memory!Contents!Init)
  <2> SUFFICES ASSUME Init, part = "memory" PROVE Memory!Contents!Init OBVIOUS
  <2>1. Memory!Init BY DEF Init
  <2> QED BY <2>1 DEF Memory!Init, Memory!Contents!Init, Memory!Contents!NoRows, Memory!LiveRows
<1>2. ASSUME Inv, Inv', [Next]_vars
      PROVE  [part = "memory" =>
                /\ Memory!Contents!Next \/ Memory!LiveRows' = Memory!LiveRows
                /\ Memory!KeepsSlots]_vars
  <2> SUFFICES ASSUME Next, part = "memory"
               PROVE  /\ Memory!Contents!Next \/ Memory!LiveRows' = Memory!LiveRows
                      /\ Memory!KeepsSlots
    BY <1>2
  <2>1. Memory!Next /\ part' = part BY DEF Next
  <2>2. Memory!IInv /\ Memory!IInv' BY <1>2, <2>1 DEF Inv
  <2> QED BY <2>1, <2>2, MemoryImplements, SlotsKept, Assumptions
<1> QED BY <1>1, <1>2, Invariance, PTL DEF Spec, ImplementsContents

(* QueryObservation and BucketDistribution: for any threads and queries,   *)
(* no addition to a counter is lost and a snapshot lies between what was   *)
(* recorded before it and what was queried; for any bucket sizes, the      *)
(* percentiles are the nearest-rank ones.                                  *)
THEOREM StatisticsAreExact == Spec => []StatisticsExact
<1>1. Inv => StatisticsExact
  <2>1. ASSUME Inv, part = "observation"
        PROVE  Observation!TotalsExact /\ Observation!SnapshotBounded
    <3>1. ObservationInv BY <2>1 DEF Inv
    <3>2. Observation!SnapshotBounded BY <3>1 DEF ObservationInv
    <3> QED BY <3>1, <3>2, InvTotals
  <2>2. ASSUME Inv, part = "distribution" PROVE Distribution!PercentilesExact
    BY <2>2, InvPercentiles, Assumptions DEF Inv
  <2> QED BY <2>1, <2>2 DEF StatisticsExact
<1> QED BY <1>1, Invariance, PTL

(* Grouping: for any index or stream of pairs, in any order of buckets and *)
(* pairs, the groups are the connected components of the candidate graph,  *)
(* the iterator returns each colliding pair once, and find ends.           *)
THEOREM GroupingIsExact == Spec => []GroupingExact
<1>1. Inv => GroupingExact
  <2> SUFFICES ASSUME Inv, part = "groups"
               PROVE Groups!GroupsAreComponents /\ Groups!PairsExact /\ Groups!RankBounded
    BY DEF GroupingExact
  <2>1. GroupsInv BY DEF Inv
  <2> QED BY <2>1, InvGroups, InvPairs, InvRanks
<1> QED BY <1>1, Invariance, PTL

===============================================================================
