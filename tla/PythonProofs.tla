----------------------------- MODULE PythonProofs -----------------------------
(***************************************************************************)
(* Proofs about Python: what threads add through an Index survives a close *)
(* of another thread, and the list, the index and the mirror of the        *)
(* deduplication engine stay aligned, for any number of threads, calls,    *)
(* batches and faults.                                                     *)
(***************************************************************************)
EXTENDS Python, Integers, Sequences, TLAPS

-----------------------------------------------------------------------------
(***************************************************************************)
(* Index                                                                   *)
(***************************************************************************)

(* Where a thread holds the mutex. *)
Held == {"inside", "working", "drop", "worked", "read"}

(* A step outside the mutex keeps the invariant.                           *)
LEMMA IndexOutside ==
  ASSUME Index!IInv, NEW t \in Thread, NEW from, NEW to \in Index!Phase,
         Index!Go(t, from, to), to \notin Held, mutex' = mutex \/ from \in Held,
         UNCHANGED <<open, keys, committed, added>>
  PROVE  Index!IInv'
<1>1. pc' = [pc EXCEPT ![t] = to] /\ pc[t] = from BY DEF Index!Go
<1>2. pc \in [Thread -> Index!Phase] /\ pc' \in [Thread -> Index!Phase] BY <1>1 DEF Index!IInv
<1>3. pc'[t] = to /\ \A u \in Thread \ {t} : pc'[u] = pc[u] BY <1>1, <1>2
<1>4. \A u \in Thread : pc[u] \in Held => mutex = u BY DEF Index!IInv, Index!Excludes, Held
<1>5. \A u \in Thread : pc'[u] \in Held => mutex' = u BY <1>1, <1>3, <1>4
<1>6. Index!Excludes' BY <1>5 DEF Index!Excludes, Held
<1>7. Index!DropsCommitted' BY <1>3 DEF Index!IInv, Index!DropsCommitted, Held
<1>8. Index!AddedSurvives' BY DEF Index!IInv, Index!AddedSurvives
<1> QED BY <1>2, <1>6, <1>7, <1>8 DEF Index!IInv

(* A step that takes the mutex, or one of the thread that has it, keeps    *)
(* the invariant when what the thread itself may rely on holds after it.   *)
LEMMA IndexInside ==
  ASSUME Index!IInv, NEW t \in Thread, NEW from, NEW to \in Index!Phase,
         Index!Go(t, from, to), mutex' = t, mutex = Free \/ from \in Held,
         to \in {"working", "drop"} => open', to = "drop" => committed' = keys',
         Index!AddedSurvives'
  PROVE  Index!IInv'
<1>1. pc' = [pc EXCEPT ![t] = to] /\ pc[t] = from BY DEF Index!Go
<1>2. pc \in [Thread -> Index!Phase] /\ pc' \in [Thread -> Index!Phase] BY <1>1 DEF Index!IInv
<1>3. pc'[t] = to /\ \A u \in Thread \ {t} : pc'[u] = pc[u] BY <1>1, <1>2
<1>4. \A u \in Thread : pc[u] \in Held => mutex = u BY DEF Index!IInv, Index!Excludes, Held
<1>5. \A u \in Thread \ {t} : pc[u] \notin Held
  BY <1>1, <1>4, Assumptions DEF Index!ThreadAssumption
<1>6. Index!Excludes' BY <1>3, <1>5 DEF Index!Excludes, Held
<1>7. Index!DropsCommitted' BY <1>3, <1>5 DEF Index!DropsCommitted, Held
<1> QED BY <1>2, <1>6, <1>7 DEF Index!IInv

(* The mutex keeps every other thread out from the moment a method looks   *)
(* for the store to its last step, so close drops what it has committed.   *)
LEMMA IndexNextInvariant ==
  ASSUME Index!IInv, Index!Next
  PROVE  Index!IInv'
<1>1. PICK t \in Thread :
        (\E m \in Index!Method : Index!CallMethod(t, m)) \/ Index!CallClosed(t) \/ Index!Step(t)
  BY DEF Index!Next
<1>a. Index!AddedSurvives BY DEF Index!IInv
<1>h. pc[t] \in Held => mutex = t BY DEF Index!IInv, Index!Excludes, Held
<1>d. /\ pc[t] \in {"working", "drop"} => open
      /\ pc[t] = "drop" => committed = keys
  BY DEF Index!IInv, Index!DropsCommitted
<1>2. ASSUME NEW m \in Index!Method, Index!CallMethod(t, m) PROVE Index!IInv'
  BY <1>2, IndexOutside DEF Index!CallMethod, Index!store, Index!Phase, Held
<1>3. CASE Index!CallClosed(t)
  BY <1>3, IndexOutside DEF Index!CallClosed, Index!store, Index!Phase, Held
<1>4. CASE Index!Detach(t)
  BY <1>4, IndexOutside DEF Index!Detach, Index!store, Index!Phase, Held
<1>5. CASE Index!Reject(t)
  BY <1>5, IndexOutside DEF Index!Reject, Index!store, Index!Phase, Held
<1>6. CASE Index!Lock(t)
  <2>1. Index!Go(t, "lock", "inside") /\ mutex = Free /\ mutex' = t
        /\ UNCHANGED <<open, keys, committed, added>>
    BY <1>6 DEF Index!Lock, Index!Available, Index!store
  <2>2. Index!AddedSurvives' BY <1>a, <2>1 DEF Index!AddedSurvives
  <2> QED BY <2>1, <2>2, IndexInside DEF Index!Phase
<1>7. CASE Index!Find(t)
  <2> DEFINE to == IF open THEN "working" ELSE "worked"
  <2>1. Index!Go(t, "inside", to) /\ mutex' = mutex /\ UNCHANGED <<open, keys, committed, added>>
    BY <1>7 DEF Index!Find, Index!store
  <2>2. mutex' = t BY <1>h, <2>1 DEF Index!Go, Held
  <2>3. Index!AddedSurvives' BY <1>a, <2>1 DEF Index!AddedSurvives
  <2>4. to \in Index!Phase /\ to # "drop" BY DEF Index!Phase
  <2>5. to = "working" => open' BY <2>1
  <2> QED BY <2>1, <2>2, <2>3, <2>4, <2>5, IndexInside DEF Held
<1>8. CASE Index!Work(t)
  <2>1. pc[t] \in {"working", "drop"} /\ mutex' = mutex
    BY <1>8 DEF Index!Work, Index!Add, Index!NoChange, Index!Remove, Index!Commit,
      Index!CommitFails, Index!Drop, Index!Go
  <2>2. open /\ mutex' = t BY <1>h, <1>d, <2>1 DEF Held
  <2>3. added = keys BY <1>a, <2>2 DEF Index!AddedSurvives
  <2>4. ASSUME Index!Go(t, "working", "worked"), open' = open, added' = keys'
        PROVE  Index!IInv'
    <3>1. Index!AddedSurvives' BY <2>2, <2>4 DEF Index!AddedSurvives
    <3> QED BY <2>2, <2>4, <3>1, IndexInside DEF Index!Phase, Held
  <2>5. CASE Index!Add(t) BY <2>3, <2>4, <2>5 DEF Index!Add
  <2>6. CASE Index!NoChange(t) BY <2>3, <2>4, <2>6 DEF Index!NoChange, Index!store
  <2>7. ASSUME NEW key \in keys, Index!Remove(t, key) PROVE Index!IInv'
    BY <2>3, <2>4, <2>7 DEF Index!Remove
  <2>8. CASE Index!CommitFails(t) BY <2>3, <2>4, <2>8 DEF Index!CommitFails
  <2>9. CASE Index!Commit(t)
    <3> DEFINE to == IF method[t] = "close" THEN "drop" ELSE "worked"
    <3>1. /\ Index!Go(t, "working", to) /\ committed' = keys
          /\ UNCHANGED <<open, keys, added>>
      BY <2>9 DEF Index!Commit, Index!SyncsFirst
    <3>2. Index!AddedSurvives' BY <2>2, <2>3, <3>1 DEF Index!AddedSurvives
    <3>3. to \in Index!Phase BY DEF Index!Phase
    <3>4. open' BY <2>2, <3>1
    <3> QED BY <2>2, <3>1, <3>2, <3>3, <3>4, IndexInside DEF Held
  <2>10. CASE Index!Drop(t)
    <3>1. /\ Index!Go(t, "drop", "worked") /\ open' = FALSE
          /\ UNCHANGED <<committed, added>>
      BY <2>10 DEF Index!Drop
    <3>2. committed = keys BY <1>d, <3>1 DEF Index!Go
    <3>3. Index!AddedSurvives' BY <2>3, <3>1, <3>2 DEF Index!AddedSurvives
    <3> QED BY <2>2, <3>1, <3>3, IndexInside DEF Index!Phase, Held
  <2> QED BY <1>8, <2>5, <2>6, <2>7, <2>8, <2>9, <2>10 DEF Index!Work
<1>9. CASE Index!Unlock(t)
  BY <1>9, IndexOutside DEF Index!Unlock, Index!store, Index!Phase, Held
<1>10. CASE Index!Attach(t)
  BY <1>10, IndexOutside DEF Index!Attach, Index!store, Index!Phase, Held
<1>11. CASE Index!Return(t)
  BY <1>11, IndexOutside DEF Index!Return, Index!store, Index!Phase, Held
<1>12. CASE Index!ReadClosed(t)
  <2>1. Index!Go(t, "getter", "read") /\ mutex = Free /\ mutex' = t
        /\ UNCHANGED <<open, keys, committed, added>>
    BY <1>12 DEF Index!ReadClosed, Index!Available, Index!store
  <2>2. Index!AddedSurvives' BY <1>a, <2>1 DEF Index!AddedSurvives
  <2> QED BY <2>1, <2>2, IndexInside DEF Index!Phase
<1>13. CASE Index!ReturnClosed(t)
  BY <1>13, IndexOutside DEF Index!ReturnClosed, Index!store, Index!Phase, Held
<1> QED
  BY <1>1, <1>2, <1>3, <1>4, <1>5, <1>6, <1>7, <1>8, <1>9, <1>10, <1>11, <1>12, <1>13
  DEF Index!Step

-----------------------------------------------------------------------------
(***************************************************************************)
(* The entries of a batch                                                  *)
(***************************************************************************)

(* The keys of a batch are consecutive numbers from its first key. *)
LEMMA EntryKeys ==
  ASSUME NEW S, NEW first \in Nat, NEW rows \in Seq(S), NEW e \in Engine!Entry(first, rows)
  PROVE  /\ e.key \in Nat /\ first <= e.key /\ e.key < first + Len(rows)
         /\ e.key - first + 1 \in DOMAIN rows /\ e.record = rows[e.key - first + 1]
<1>1. PICK i \in DOMAIN rows : e = [key |-> first + i - 1, record |-> rows[i]] BY DEF Engine!Entry
<1>2. i \in 1..Len(rows) OBVIOUS
<1>3. e.key = first + i - 1 /\ e.record = rows[i] BY <1>1
<1> QED BY <1>2, <1>3

(* A batch that is not empty has an entry under its first key. *)
LEMMA EntryFirst ==
  ASSUME NEW S, NEW first \in Nat, NEW rows \in Seq(S), rows # <<>>
  PROVE  \E e \in Engine!Entry(first, rows) : e.key = first
<1>1. 1 \in DOMAIN rows OBVIOUS
<1>2. [key |-> first + 1 - 1, record |-> rows[1]] \in Engine!Entry(first, rows)
  BY <1>1 DEF Engine!Entry
<1> QED BY <1>2

(* Every position below the end of the list has its entry. *)
LEMMA EntryOfList ==
  ASSUME NEW S, NEW rows \in Seq(S), NEW k \in Nat, k < Len(rows)
  PROVE  [key |-> k, record |-> rows[k + 1]] \in Engine!Entry(0, rows)
<1>1. k + 1 \in DOMAIN rows OBVIOUS
<1>2. 0 + (k + 1) - 1 = k OBVIOUS
<1> QED BY <1>1, <1>2 DEF Engine!Entry

(* A list extended by a batch has the entries of both. *)
LEMMA EntryAppend ==
  ASSUME NEW S, NEW rows \in Seq(S), NEW more \in Seq(S)
  PROVE  Engine!Entry(0, rows \o more) = Engine!Entry(0, rows) \cup Engine!Entry(Len(rows), more)
<1> DEFINE all == rows \o more
<1>1. all \in Seq(S) /\ Len(all) = Len(rows) + Len(more) OBVIOUS
<1>2. \A i \in 1..Len(rows) : all[i] = rows[i] OBVIOUS
<1>3. \A i \in 1..Len(more) : all[Len(rows) + i] = more[i] OBVIOUS
<1>4. ASSUME NEW e \in Engine!Entry(0, all)
      PROVE  e \in Engine!Entry(0, rows) \cup Engine!Entry(Len(rows), more)
  <2>1. PICK i \in 1..Len(all) : e = [key |-> 0 + i - 1, record |-> all[i]]
    BY <1>1 DEF Engine!Entry
  <2>2. CASE i <= Len(rows)
    <3>1. i \in DOMAIN rows /\ all[i] = rows[i] BY <1>2, <2>2
    <3> QED BY <2>1, <3>1 DEF Engine!Entry
  <2>3. CASE ~(i <= Len(rows))
    <3> DEFINE j == i - Len(rows)
    <3>1. j \in 1..Len(more) BY <1>1, <2>3
    <3>2. j \in DOMAIN more /\ all[i] = more[j] BY <1>3, <3>1
    <3>3. 0 + i - 1 = Len(rows) + j - 1 OBVIOUS
    <3> HIDE DEF j
    <3> QED BY <2>1, <3>2, <3>3 DEF Engine!Entry
  <2> QED BY <2>2, <2>3
<1>5. ASSUME NEW e \in Engine!Entry(0, rows) PROVE e \in Engine!Entry(0, all)
  <2>1. PICK i \in 1..Len(rows) : e = [key |-> 0 + i - 1, record |-> rows[i]] BY DEF Engine!Entry
  <2>2. i \in DOMAIN all /\ all[i] = rows[i] BY <1>1, <1>2
  <2> HIDE DEF all
  <2> QED BY <2>1, <2>2 DEF Engine!Entry
<1>6. ASSUME NEW e \in Engine!Entry(Len(rows), more) PROVE e \in Engine!Entry(0, all)
  <2>1. PICK i \in 1..Len(more) : e = [key |-> Len(rows) + i - 1, record |-> more[i]]
    BY DEF Engine!Entry
  <2> DEFINE j == Len(rows) + i
  <2>2. j \in DOMAIN all /\ all[j] = more[i] BY <1>1, <1>3
  <2>3. Len(rows) + i - 1 = 0 + j - 1 OBVIOUS
  <2> HIDE DEF all, j
  <2> QED BY <2>1, <2>2, <2>3 DEF Engine!Entry
<1> QED BY <1>4, <1>5, <1>6

-----------------------------------------------------------------------------
(***************************************************************************)
(* The deduplication engine                                                *)
(***************************************************************************)

Of(t) == Engine!Entry(start[t], batch[t])

LEMMA PendingMember ==
  ASSUME NEW e
  PROVE  e \in Engine!Pending <=> \E u \in Thread : pc[u] = "inserted" /\ e \in Of(u)
BY DEF Engine!Pending, Of

LEMMA PendingMemberNext ==
  ASSUME NEW e
  PROVE  e \in Engine!Pending' <=> \E u \in Thread : pc'[u] = "inserted" /\ e \in Of(u)'
BY DEF Engine!Pending, Of

(* index = Settled and the batch of the call that is inside add_many. *)
LEMMA IndexMember ==
  ASSUME Engine!IInv, NEW e
  PROVE  e \in index <=> e \in Engine!Settled \/ \E u \in Thread : pc[u] = "mirror" /\ e \in Of(u)
BY DEF Engine!IInv, Engine!EntriesExact, Of

(* While nobody inserts, everything in the index is settled. *)
LEMMA NobodyInserts ==
  ASSUME Engine!IInv, \A u \in Thread : pc[u] # "mirror"
  PROVE  index = Engine!Settled
BY IndexMember

(* When the mutex is free, or held by a call that verifies, nobody inserts. *)
LEMMA LockExcludesInsert ==
  ASSUME Engine!IInv,
         lock = Free \/ \E t \in Thread : lock = t /\ pc[t] # "mirror"
  PROVE  \A u \in Thread : pc[u] # "mirror"
BY Assumptions DEF Engine!IInv, Engine!LockHeld, Engine!EngineAssumption

(* Every other call keeps its place. *)
Frame(t) ==
  \A u \in Thread \ {t} :
    pc'[u] = pc[u] /\ start'[u] = start[u] /\ batch'[u] = batch[u] /\ got'[u] = got[u]

LEMMA EndsFrame ==
  ASSUME Engine!TypeOK, NEW t \in Thread, Engine!Ends(t)
  PROVE  Frame(t) /\ pc'[t] = "idle"
BY DEF Engine!TypeOK, Engine!Ends, Engine!To, Frame

LEMMA EntryTypes ==
  ASSUME NEW first \in Nat, NEW rows \in Seq(Engine!Row)
  PROVE  Engine!Entry(first, rows) \subseteq Engine!Entries
<1>1. \A i \in 1..Len(rows) : first + i - 1 \in Nat /\ rows[i] \in Engine!Row OBVIOUS
<1> QED BY <1>1 DEF Engine!Entry, Engine!Entries

(* A call that ends, or goes on, keeps the types. *)
LEMMA EngineTypes ==
  ASSUME Engine!IInv, NEW t \in Thread, Engine!Call(t) \/ Engine!Step(t)
  PROVE  Engine!TypeOK'
<1> USE DEF Engine!IInv, Engine!TypeOK, Engine!Phase, Engine!To
<1>0. \A f \in Seq(Engine!Row), g \in Seq(Engine!Row) : f \o g \in Seq(Engine!Row) OBVIOUS
<1>e. ASSUME Engine!Ends(t)
      PROVE  /\ pc' \in [Thread -> Engine!Phase]
             /\ start' \in [Thread -> Nat] /\ batch' \in [Thread -> Seq(Engine!Row)]
             /\ got' \in [Thread -> SUBSET Engine!Entries]
  BY <1>e DEF Engine!Ends
<1>f. Of(t) \subseteq Engine!Entries BY EntryTypes DEF Of
<1>1. ASSUME NEW n \in 1..EngineBatch, Engine!StartAdd(t, n) PROVE Engine!TypeOK'
  <2>1. UNCHANGED <<records, open, index, mirrored, lock>> /\ calls' \in [Thread -> Nat]
    BY <1>1 DEF Engine!StartAdd, Engine!state
  <2>2. CASE Engine!Refused BY <1>1, <1>e, <2>1, <2>2 DEF Engine!StartAdd
  <2>3. CASE ~Engine!Refused
    <3> DEFINE new == [i \in 1..n |-> <<t, calls[t], i>>]
    <3>1. new \in Seq(Engine!Row)
      BY Assumptions DEF Engine!Row, Engine!EngineAssumption
    <3>2. /\ pc' = [pc EXCEPT ![t] = "collect"]
          /\ start' = [start EXCEPT ![t] = Len(records)] /\ batch' = [batch EXCEPT ![t] = new]
          /\ got' = got
      BY <1>1, <2>3 DEF Engine!StartAdd
    <3> HIDE DEF new
    <3>3. Len(records) \in Nat OBVIOUS
    <3> QED BY <2>1, <3>1, <3>2, <3>3
  <2> QED BY <2>2, <2>3
<1>2. CASE Engine!Group(t)
  <2>1. UNCHANGED <<records, open, index, mirrored, lock>> /\ calls' \in [Thread -> Nat]
    BY <1>2 DEF Engine!Group, Engine!state
  <2> QED BY <1>2, <1>e, <2>1 DEF Engine!Group
<1>3. CASE Engine!StartVerified(t)
  <2>1. UNCHANGED <<records, open, index, mirrored>> /\ calls' \in [Thread -> Nat] /\ lock' \in {lock, t}
    BY <1>3 DEF Engine!StartVerified, Engine!state
  <2> QED BY <1>3, <1>e, <2>1 DEF Engine!StartVerified, Engine!locals
<1>4. ASSUME NEW closes \in BOOLEAN, Engine!SyncOrClose(t, closes) PROVE Engine!TypeOK'
  <2>1. UNCHANGED <<records, index, mirrored, lock, pc, start, batch, got>> /\ calls' \in [Thread -> Nat]
    BY <1>4 DEF Engine!SyncOrClose, Engine!locals
  <2>2. open' \in BOOLEAN BY <1>4 DEF Engine!SyncOrClose
  <2> QED BY <2>1, <2>2
<1>5. CASE Engine!CollectFails(t) BY <1>5, <1>e DEF Engine!CollectFails, Engine!state
<1>6. CASE Engine!InsertIndex(t)
  <2>1. UNCHANGED <<records, open, mirrored, calls>> BY <1>6 DEF Engine!InsertIndex
  <2>2. index' \in {index, index \cup Of(t)} BY <1>6 DEF Engine!InsertIndex, Of
  <2>3. index' \subseteq Engine!Entries BY <1>f, <2>2
  <2> QED BY <1>6, <1>e, <2>1, <2>3 DEF Engine!InsertIndex, Engine!locals
<1>7. CASE Engine!InsertStore(t) BY <1>7 DEF Engine!InsertStore, Engine!locals
<1>8. CASE Engine!StoreFails(t) BY <1>8, <1>e DEF Engine!StoreFails, Engine!Removed
<1>9. CASE Engine!Extend(t)
  BY <1>9, <1>e, <1>0 DEF Engine!Extend, Engine!Extended, Engine!state
<1>10. CASE Engine!Reenter(t) BY <1>10 DEF Engine!Reenter, Engine!locals, Engine!state
<1>11. CASE Engine!ReentryEnds(t) BY <1>11, <1>e DEF Engine!ReentryEnds, Engine!locals, Engine!state
<1>12. CASE Engine!VerifierRaises(t) BY <1>12, <1>e DEF Engine!VerifierRaises, Engine!state
<1>13. CASE Engine!Verified(t) BY <1>13 DEF Engine!Verified, Engine!state
<1>14. CASE Engine!Convert(t) BY <1>14, <1>e DEF Engine!Convert, Engine!state
<1> QED BY <1>1, <1>2, <1>3, <1>4, <1>5, <1>6, <1>7, <1>8, <1>9, <1>10, <1>11, <1>12, <1>13,
           <1>14 DEF Engine!Call, Engine!Step

(* The mutex is taken and given back only by the call inside the engine,   *)
(* and the engine is closed only while nobody is inside.                   *)
LEMMA EngineLock ==
  ASSUME Engine!IInv, NEW t \in Thread, Engine!Call(t) \/ Engine!Step(t)
  PROVE  Engine!LockHeld'
<1> USE DEF Engine!IInv, Engine!TypeOK, Engine!LockHeld, Engine!To
<1>a. Free \notin Thread BY Assumptions DEF Engine!EngineAssumption
<1>e. ASSUME Engine!Ends(t) PROVE pc' = [pc EXCEPT ![t] = "idle"] BY <1>e DEF Engine!Ends
<1>1. ASSUME NEW n \in 1..EngineBatch, Engine!StartAdd(t, n) PROVE Engine!LockHeld'
  <2>1. lock' = lock /\ open' = open /\ pc[t] = "idle" BY <1>1 DEF Engine!StartAdd, Engine!state
  <2>2. pc' = [pc EXCEPT ![t] = "idle"] \/ pc' = [pc EXCEPT ![t] = "collect"]
    BY <1>1, <1>e DEF Engine!StartAdd
  <2> QED BY <2>1, <2>2
<1>2. CASE Engine!Group(t)
  <2>1. lock' = lock /\ open' = open /\ pc[t] = "idle" BY <1>2 DEF Engine!Group, Engine!state
  <2>2. pc' = [pc EXCEPT ![t] = "idle"] \/ pc' = [pc EXCEPT ![t] = "convert"]
    BY <1>2, <1>e DEF Engine!Group
  <2> QED BY <2>1, <2>2
<1>3. CASE Engine!StartVerified(t)
  <2>1. open' = open /\ pc[t] = "idle" BY <1>3 DEF Engine!StartVerified, Engine!state
  <2>2. CASE Engine!Refused
    <3>1. pc' = [pc EXCEPT ![t] = "idle"] /\ lock' = lock BY <1>3, <1>e, <2>2 DEF Engine!StartVerified
    <3> QED BY <2>1, <3>1
  <2>3. CASE ~Engine!Refused
    <3>1. pc' = [pc EXCEPT ![t] = "verify"] /\ lock' = t BY <1>3, <2>3 DEF Engine!StartVerified
    <3>2. lock = Free /\ open BY <2>3 DEF Engine!Refused
    <3> QED BY <1>a, <2>1, <3>1, <3>2
  <2> QED BY <2>2, <2>3
<1>4. ASSUME NEW closes \in BOOLEAN, Engine!SyncOrClose(t, closes) PROVE Engine!LockHeld'
  <2>1. lock' = lock /\ pc' = pc BY <1>4 DEF Engine!SyncOrClose
  <2>2. open' = open \/ lock = Free BY <1>4 DEF Engine!SyncOrClose, Engine!Refused
  <2> QED BY <2>1, <2>2
<1>5. CASE Engine!CollectFails(t) BY <1>5, <1>e DEF Engine!CollectFails, Engine!state
<1>6. CASE Engine!InsertIndex(t)
  <2>1. open' = open /\ pc[t] = "collect" BY <1>6 DEF Engine!InsertIndex
  <2>2. CASE Engine!Refused \/ Engine!Taken(Engine!Entry(start[t], batch[t]))
    <3>1. pc' = [pc EXCEPT ![t] = "idle"] /\ lock' = lock BY <1>6, <1>e, <2>2 DEF Engine!InsertIndex
    <3> QED BY <2>1, <3>1
  <2>3. CASE ~(Engine!Refused \/ Engine!Taken(Engine!Entry(start[t], batch[t])))
    <3>1. pc' = [pc EXCEPT ![t] = "mirror"] /\ lock' = t BY <1>6, <2>3 DEF Engine!InsertIndex
    <3>2. lock = Free /\ open BY <2>3 DEF Engine!Refused
    <3> QED BY <1>a, <2>1, <3>1, <3>2
  <2> QED BY <2>2, <2>3
<1>b. ASSUME pc[t] \in {"mirror", "verify", "reentered", "verified"}, lock' = Free, open' = open,
             \E to \in {"idle", "inserted", "convert"} : pc' = [pc EXCEPT ![t] = to]
      PROVE  Engine!LockHeld'
  <2>1. lock = t BY <1>b
  <2>2. \A u \in Thread \ {t} : pc'[u] = pc[u] /\ lock # u BY <1>b, <2>1
  <2>3. pc'[t] \in {"idle", "inserted", "convert"} BY <1>b
  <2> QED BY <1>a, <1>b, <2>2, <2>3
<1>7. CASE Engine!InsertStore(t) BY <1>7, <1>b DEF Engine!InsertStore
<1>8. CASE Engine!StoreFails(t) BY <1>8, <1>b, <1>e DEF Engine!StoreFails
<1>9. CASE Engine!Extend(t) BY <1>9, <1>e DEF Engine!Extend, Engine!state
<1>10. CASE Engine!Reenter(t) BY <1>10 DEF Engine!Reenter, Engine!state
<1>11. CASE Engine!ReentryEnds(t)
  <2>1. CASE Engine!Ends(t) /\ lock' = Free
    BY <1>11, <1>b, <1>e, <2>1 DEF Engine!ReentryEnds, Engine!state
  <2>2. CASE Engine!To(t, "verified") /\ UNCHANGED lock
    BY <1>11, <2>2 DEF Engine!ReentryEnds, Engine!state
  <2> QED BY <1>11, <2>1, <2>2 DEF Engine!ReentryEnds
<1>12. CASE Engine!VerifierRaises(t) BY <1>12, <1>b, <1>e DEF Engine!VerifierRaises, Engine!state
<1>13. CASE Engine!Verified(t) BY <1>13, <1>b DEF Engine!Verified, Engine!state
<1>14. CASE Engine!Convert(t) BY <1>14, <1>e DEF Engine!Convert, Engine!state
<1> QED BY <1>1, <1>2, <1>3, <1>4, <1>5, <1>6, <1>7, <1>8, <1>9, <1>10, <1>11, <1>12, <1>13,
           <1>14 DEF Engine!Call, Engine!Step

(* A step that inserts nothing, takes nothing away and begins no insertion *)
(* keeps the entries where they are.                                       *)
LEMMA QuietStep ==
  ASSUME Engine!IInv, Engine!TypeOK', Engine!LockHeld', NEW t \in Thread, Frame(t),
         UNCHANGED <<records, index, store, mirrored>>,
         pc[t] \notin {"mirror", "inserted"}, pc'[t] \notin {"mirror", "inserted"},
         pc'[t] = "collect" => batch'[t] # <<>> /\ start'[t] <= Len(records),
         pc'[t] = "convert" => got'[t] \subseteq Engine!Settled,
         Engine!ClosedIsCommitted'
  PROVE  Engine!IInv'
<1>1. \A u \in Thread : /\ pc'[u] = "inserted" <=> pc[u] = "inserted"
                        /\ pc'[u] = "mirror" <=> pc[u] = "mirror"
  BY DEF Frame
<1>2. \A u \in Thread : pc[u] \in {"mirror", "inserted"} => Of(u)' = Of(u)
  <2>1. \A u \in Thread : pc[u] \in {"mirror", "inserted"} =>
          start'[u] = start[u] /\ batch'[u] = batch[u]
    BY DEF Frame
  <2> QED BY <2>1 DEF Of
<1>3. Engine!Pending' = Engine!Pending
  BY <1>1, <1>2, PendingMember, PendingMemberNext
<1>4. Engine!Settled' = Engine!Settled BY <1>3 DEF Engine!Settled
<1>5. Engine!BatchesFollow'
  <2>1. Engine!BatchesFollow BY DEF Engine!IInv
  <2>2. ASSUME NEW u \in Thread, pc'[u] \in {"collect", "mirror", "inserted"}
        PROVE  /\ batch'[u] # <<>> /\ start'[u] <= Len(records')
               /\ pc'[u] \in {"mirror", "inserted"} => start'[u] = Len(records')
    <3>1. CASE u = t BY <2>2, <3>1
    <3>2. CASE u # t BY <2>1, <2>2, <3>2 DEF Frame, Engine!BatchesFollow, Engine!Inserting
    <3> QED BY <3>1, <3>2
  <2>3. \A u, v \in Thread : pc'[u] \in {"mirror", "inserted"} /\ pc'[v] \in {"mirror", "inserted"}
          => u = v
    BY <1>1, <2>1 DEF Engine!BatchesFollow, Engine!Inserting
  <2> QED BY <2>2, <2>3 DEF Engine!BatchesFollow, Engine!Inserting
<1>6. Engine!EntriesExact'
  <2>1. \A e : e \in index' <=> e \in Engine!Settled' \/ \E u \in Thread : pc'[u] = "mirror" /\ e \in Of(u)'
    BY <1>1, <1>2, <1>4, IndexMember
  <2>2. index' = Engine!Settled'
           \cup UNION {Engine!Entry(start'[u], batch'[u]) : u \in {v \in Thread : pc'[v] = "mirror"}}
    BY <2>1 DEF Of
  <2>3. mirrored' => store' = Engine!Settled'
    BY <1>4 DEF Engine!IInv, Engine!EntriesExact
  <2>4. \A u \in Thread : pc'[u] = "convert" => got'[u] \subseteq Engine!Settled'
    BY <1>4 DEF Engine!IInv, Engine!EntriesExact, Frame
  <2> QED BY <2>2, <2>3, <2>4 DEF Engine!EntriesExact
<1> QED BY <1>5, <1>6 DEF Engine!IInv

(* The steps that neither insert into the engine nor extend the list. *)
LEMMA EngineQuiet ==
  ASSUME Engine!IInv, Engine!TypeOK', Engine!LockHeld', NEW t \in Thread,
         \/ \E n \in 1..EngineBatch : Engine!StartAdd(t, n)
         \/ Engine!Group(t) \/ Engine!StartVerified(t) \/ Engine!CollectFails(t)
         \/ Engine!Reenter(t) \/ Engine!ReentryEnds(t) \/ Engine!VerifierRaises(t)
         \/ Engine!Verified(t) \/ Engine!Convert(t)
  PROVE  Engine!IInv'
<1>t. Engine!TypeOK /\ Engine!ClosedIsCommitted BY DEF Engine!IInv, Engine!EntriesExact
<1>e. Engine!Ends(t) => Frame(t) /\ pc'[t] = "idle" BY <1>t, EndsFrame
<1>s. UNCHANGED <<records, open, index, store, committed, mirrored>>
  BY DEF Engine!StartAdd, Engine!Group, Engine!StartVerified, Engine!CollectFails, Engine!Reenter,
    Engine!ReentryEnds, Engine!VerifierRaises, Engine!Verified, Engine!Convert, Engine!state
<1>c. Engine!ClosedIsCommitted' BY <1>s, <1>t DEF Engine!ClosedIsCommitted
<1>1. ASSUME NEW n \in 1..EngineBatch, Engine!StartAdd(t, n) PROVE Engine!IInv'
  <2>1. pc[t] = "idle" BY <1>1 DEF Engine!StartAdd
  <2>2. CASE Engine!Refused
    <3>1. Engine!Ends(t) BY <1>1, <2>2 DEF Engine!StartAdd
    <3> QED BY <1>c, <1>e, <1>s, <2>1, <3>1, QuietStep
  <2>3. CASE ~Engine!Refused
    <3> DEFINE new == [i \in 1..n |-> <<t, calls[t], i>>]
    <3>1. /\ pc' = [pc EXCEPT ![t] = "collect"] /\ got' = got
          /\ start' = [start EXCEPT ![t] = Len(records)] /\ batch' = [batch EXCEPT ![t] = new]
      BY <1>1, <2>3 DEF Engine!StartAdd, Engine!To
    <3>2. new # <<>>
      <4>1. 1 \in DOMAIN new BY Assumptions DEF Engine!EngineAssumption
      <4> QED BY <4>1
    <3> HIDE DEF new
    <3>3. Frame(t) /\ pc'[t] = "collect" /\ start'[t] = Len(records) /\ batch'[t] = new
      BY <1>t, <3>1 DEF Frame, Engine!TypeOK
    <3>4. Len(records) <= Len(records) BY <1>t DEF Engine!TypeOK
    <3> QED BY <1>c, <1>s, <2>1, <3>2, <3>3, <3>4, QuietStep
  <2> QED BY <2>2, <2>3
<1>2. CASE Engine!Group(t)
  <2>1. pc[t] = "idle" BY <1>2 DEF Engine!Group
  <2>2. CASE Engine!Refused
    <3>1. Engine!Ends(t) BY <1>2, <2>2 DEF Engine!Group
    <3> QED BY <1>c, <1>e, <1>s, <2>1, <3>1, QuietStep
  <2>3. CASE ~Engine!Refused
    <3>1. /\ pc' = [pc EXCEPT ![t] = "convert"] /\ got' = [got EXCEPT ![t] = index]
          /\ start' = start /\ batch' = batch
      BY <1>2, <2>3 DEF Engine!Group, Engine!To
    <3>2. Frame(t) /\ pc'[t] = "convert" BY <1>t, <3>1 DEF Frame, Engine!TypeOK
    <3>3. index = Engine!Settled BY <2>3, LockExcludesInsert, NobodyInserts DEF Engine!Refused
    <3>4. got'[t] \subseteq index BY <1>t, <3>1 DEF Engine!TypeOK
    <3> QED BY <1>c, <1>s, <2>1, <3>2, <3>3, <3>4, QuietStep
  <2> QED BY <2>2, <2>3
<1>3. CASE Engine!StartVerified(t)
  <2>1. pc[t] = "idle" BY <1>3 DEF Engine!StartVerified
  <2>2. CASE Engine!Refused
    <3>1. Engine!Ends(t) BY <1>3, <2>2 DEF Engine!StartVerified
    <3> QED BY <1>c, <1>e, <1>s, <2>1, <3>1, QuietStep
  <2>3. CASE ~Engine!Refused
    <3>1. pc' = [pc EXCEPT ![t] = "verify"] /\ UNCHANGED <<start, batch, got>>
      BY <1>3, <2>3 DEF Engine!StartVerified, Engine!To, Engine!locals
    <3>2. Frame(t) /\ pc'[t] = "verify" BY <1>t, <3>1 DEF Frame, Engine!TypeOK
    <3> QED BY <1>c, <1>s, <2>1, <3>2, QuietStep
  <2> QED BY <2>2, <2>3
<1>4. CASE Engine!CollectFails(t)
  <2>1. pc[t] = "collect" /\ Engine!Ends(t) BY <1>4 DEF Engine!CollectFails
  <2> QED BY <1>c, <1>e, <1>s, <2>1, QuietStep
<1>5. CASE Engine!Reenter(t)
  <2>1. /\ pc[t] = "verify" /\ pc' = [pc EXCEPT ![t] = "reentered"]
        /\ UNCHANGED <<start, batch, got>>
    BY <1>5 DEF Engine!Reenter, Engine!To, Engine!locals
  <2>2. Frame(t) /\ pc'[t] = "reentered" BY <1>t, <2>1 DEF Frame, Engine!TypeOK
  <2> QED BY <1>c, <1>s, <2>1, <2>2, QuietStep
<1>6. CASE Engine!ReentryEnds(t)
  <2>1. pc[t] = "reentered" BY <1>6 DEF Engine!ReentryEnds
  <2>2. CASE Engine!Ends(t) BY <1>c, <1>e, <1>s, <2>1, <2>2, QuietStep
  <2>3. CASE ~Engine!Ends(t)
    <3>1. pc' = [pc EXCEPT ![t] = "verified"] /\ UNCHANGED <<start, batch, got>>
      BY <1>6, <2>3 DEF Engine!ReentryEnds, Engine!To, Engine!locals
    <3>2. Frame(t) /\ pc'[t] = "verified" BY <1>t, <3>1 DEF Frame, Engine!TypeOK
    <3> QED BY <1>c, <1>s, <2>1, <3>2, QuietStep
  <2> QED BY <2>2, <2>3
<1>7. CASE Engine!VerifierRaises(t)
  <2>1. pc[t] = "verify" /\ Engine!Ends(t) BY <1>7 DEF Engine!VerifierRaises
  <2> QED BY <1>c, <1>e, <1>s, <2>1, QuietStep
<1>8. CASE Engine!Verified(t)
  <2>1. /\ pc[t] \in {"verify", "verified"} /\ pc' = [pc EXCEPT ![t] = "convert"]
        /\ got' = [got EXCEPT ![t] = index] /\ start' = start /\ batch' = batch
    BY <1>8 DEF Engine!Verified, Engine!To
  <2>2. Frame(t) /\ pc'[t] = "convert" BY <1>t, <2>1 DEF Frame, Engine!TypeOK
  <2>3. lock = t BY <2>1 DEF Engine!IInv, Engine!LockHeld
  <2>4. index = Engine!Settled BY <2>1, <2>3, LockExcludesInsert, NobodyInserts
  <2>5. got'[t] \subseteq index BY <1>t, <2>1 DEF Engine!TypeOK
  <2> QED BY <1>c, <1>s, <2>1, <2>2, <2>4, <2>5, QuietStep
<1>9. CASE Engine!Convert(t)
  <2>1. pc[t] = "convert" /\ Engine!Ends(t) BY <1>9 DEF Engine!Convert
  <2> QED BY <1>c, <1>e, <1>s, <2>1, QuietStep
<1> QED BY <1>1, <1>2, <1>3, <1>4, <1>5, <1>6, <1>7, <1>8, <1>9

(* sync commits what the mirror holds, and close too before the engine is  *)
(* gone; with the mutex free that is everything the index holds.           *)
LEMMA EngineSync ==
  ASSUME Engine!IInv, Engine!TypeOK', Engine!LockHeld', NEW t \in Thread,
         NEW closes \in BOOLEAN, Engine!SyncOrClose(t, closes)
  PROVE  Engine!IInv'
<1>1. UNCHANGED <<records, index, store, mirrored, pc, start, batch, got>> /\ pc[t] = "idle"
  BY DEF Engine!SyncOrClose, Engine!locals
<1>2. Frame(t) BY <1>1 DEF Frame
<1>3. Engine!ClosedIsCommitted'
  <2>0. Engine!ClosedIsCommitted BY DEF Engine!IInv, Engine!EntriesExact
  <2>1. CASE UNCHANGED <<open, committed>> BY <1>1, <2>0, <2>1 DEF Engine!ClosedIsCommitted
  <2>2. CASE ~UNCHANGED <<open, committed>>
    <3>1. ~Engine!Refused /\ committed' = Engine!Synced BY <2>2 DEF Engine!SyncOrClose
    <3>2. index = Engine!Settled BY <3>1, LockExcludesInsert, NobodyInserts DEF Engine!Refused
    <3>3. mirrored => store = index BY <3>2 DEF Engine!IInv, Engine!EntriesExact
    <3> QED BY <1>1, <3>1, <3>3 DEF Engine!ClosedIsCommitted, Engine!Synced
  <2> QED BY <2>1, <2>2
<1> QED BY <1>1, <1>2, <1>3, QuietStep

(* The call that is inserting is the only one: before the mirror has its   *)
(* batch nothing is pending, after that only its batch is.                 *)
LEMMA OneInserts ==
  ASSUME Engine!IInv, NEW t \in Thread, pc[t] \in {"mirror", "inserted"}
  PROVE  /\ \A u \in Thread \ {t} : pc[u] \notin {"mirror", "inserted"}
         /\ start[t] = Len(records) /\ batch[t] # <<>>
         /\ Engine!Pending = IF pc[t] = "inserted" THEN Of(t) ELSE {}
         /\ index = Engine!Entry(0, records) \cup Of(t)
         /\ start[t] \in Nat /\ batch[t] \in Seq(Engine!Row) /\ records \in Seq(Engine!Row)
<1>1. \A u \in Thread \ {t} : pc[u] \notin {"mirror", "inserted"}
  BY DEF Engine!IInv, Engine!BatchesFollow, Engine!Inserting
<1>2. start[t] = Len(records) /\ batch[t] # <<>>
  BY DEF Engine!IInv, Engine!BatchesFollow, Engine!Inserting
<1>3. Engine!Pending = IF pc[t] = "inserted" THEN Of(t) ELSE {} BY <1>1, PendingMember
<1>4. index = Engine!Entry(0, records) \cup Of(t) BY <1>1, <1>3, IndexMember DEF Engine!Settled
<1>5. start[t] \in Nat /\ batch[t] \in Seq(Engine!Row) /\ records \in Seq(Engine!Row)
  BY DEF Engine!IInv, Engine!TypeOK
<1> QED BY <1>1, <1>2, <1>3, <1>4, <1>5

(* A batch whose keys are free begins at the end of the list, and no other *)
(* batch waits to join the list.                                           *)
LEMMA FreeKeysFollow ==
  ASSUME Engine!IInv, NEW t \in Thread, pc[t] = "collect", lock = Free,
         ~Engine!Taken(Of(t))
  PROVE  /\ start[t] = Len(records)
         /\ \A u \in Thread : pc[u] \notin {"mirror", "inserted"}
<1>1. /\ start[t] \in Nat /\ batch[t] \in Seq(Engine!Row) /\ records \in Seq(Engine!Row)
      /\ batch[t] # <<>> /\ start[t] <= Len(records)
  BY DEF Engine!IInv, Engine!TypeOK, Engine!BatchesFollow
<1>2. PICK e \in Of(t) : e.key = start[t] BY <1>1, EntryFirst DEF Of
<1>3. \A f \in index : f.key # start[t]
  BY <1>2 DEF Engine!Taken, Engine!KeysOf
<1>4. start[t] = Len(records)
  <2>1. ASSUME start[t] < Len(records) PROVE FALSE
    <3> DEFINE f == [key |-> start[t], record |-> records[start[t] + 1]]
    <3>1. f \in Engine!Entry(0, records) BY <1>1, <2>1, EntryOfList
    <3>2. f \in index BY <3>1, IndexMember DEF Engine!Settled
    <3>3. f.key = start[t] OBVIOUS
    <3> HIDE DEF f
    <3> QED BY <1>3, <3>2, <3>3
  <2> QED BY <1>1, <2>1
<1>5. ASSUME NEW u \in Thread, pc[u] \in {"mirror", "inserted"} PROVE FALSE
  <2>1. /\ start[u] = Len(records) /\ start[u] \in Nat /\ batch[u] # <<>>
        /\ batch[u] \in Seq(Engine!Row) /\ Of(u) \subseteq index
    BY <1>5, OneInserts
  <2>2. PICK f \in Of(u) : f.key = start[u] BY <2>1, EntryFirst DEF Of
  <2> QED BY <1>3, <1>4, <2>1, <2>2
<1> QED BY <1>4, <1>5

(* add_many puts a batch into the index that continues the list, or leaves *)
(* the engine as it was.                                                   *)
LEMMA EngineInsertIndex ==
  ASSUME Engine!IInv, Engine!TypeOK', Engine!LockHeld', NEW t \in Thread, Engine!InsertIndex(t)
  PROVE  Engine!IInv'
<1>t. Engine!TypeOK /\ Engine!ClosedIsCommitted BY DEF Engine!IInv, Engine!EntriesExact
<1>s. UNCHANGED <<records, open, store, committed, mirrored>> /\ pc[t] = "collect"
  BY DEF Engine!InsertIndex
<1>1. CASE Engine!Refused \/ Engine!Taken(Of(t))
  <2>1. Engine!Ends(t) /\ index' = index BY <1>1 DEF Engine!InsertIndex, Of
  <2>2. Frame(t) /\ pc'[t] = "idle" BY <1>t, <2>1, EndsFrame
  <2>3. Engine!ClosedIsCommitted' BY <1>s, <1>t, <2>1 DEF Engine!ClosedIsCommitted
  <2> QED BY <1>s, <2>1, <2>2, <2>3, QuietStep
<1>2. CASE ~(Engine!Refused \/ Engine!Taken(Of(t)))
  <2>1. /\ index' = index \cup Of(t) /\ pc' = [pc EXCEPT ![t] = "mirror"]
        /\ UNCHANGED <<start, batch, got>>
    BY <1>2 DEF Engine!InsertIndex, Engine!To, Engine!locals, Of
  <2>2. lock = Free /\ open BY <1>2 DEF Engine!Refused
  <2>3. start[t] = Len(records) /\ \A u \in Thread : pc[u] \notin {"mirror", "inserted"}
    BY <1>2, <1>s, <2>2, FreeKeysFollow
  <2>4. pc'[t] = "mirror" /\ \A u \in Thread \ {t} : pc'[u] = pc[u] BY <1>t, <2>1 DEF Engine!TypeOK
  <2>5. Engine!Pending' = Engine!Pending BY <2>3, <2>4, PendingMember, PendingMemberNext
  <2>6. Engine!Settled' = Engine!Settled BY <1>s, <2>5 DEF Engine!Settled
  <2>7. index = Engine!Settled BY <2>2, LockExcludesInsert, NobodyInserts
  <2>8. Engine!BatchesFollow'
    <3>1. Engine!BatchesFollow BY DEF Engine!IInv
    <3>2. batch[t] # <<>> /\ start[t] <= Len(records) BY <1>s, <3>1 DEF Engine!BatchesFollow
    <3> QED BY <1>s, <2>1, <2>3, <2>4, <3>1, <3>2 DEF Engine!BatchesFollow, Engine!Inserting
  <2>9. Engine!EntriesExact'
    <3>1. {v \in Thread : pc'[v] = "mirror"} = {t} BY <2>3, <2>4
    <3>2. Engine!Entry(start'[t], batch'[t]) = Of(t) BY <2>1 DEF Of
    <3>3. UNION {Engine!Entry(start'[u], batch'[u]) : u \in {t}} = Of(t) BY <3>2
    <3>4. index' = Engine!Settled'
             \cup UNION {Engine!Entry(start'[u], batch'[u]) : u \in {v \in Thread : pc'[v] = "mirror"}}
      BY <2>1, <2>6, <2>7, <3>1, <3>3
    <3>5. mirrored' => store' = Engine!Settled'
      BY <1>s, <2>6 DEF Engine!IInv, Engine!EntriesExact
    <3>6. \A u \in Thread : pc'[u] = "convert" => got'[u] \subseteq Engine!Settled'
      BY <2>1, <2>4, <2>6 DEF Engine!IInv, Engine!EntriesExact
    <3>7. Engine!ClosedIsCommitted' BY <1>s, <2>2 DEF Engine!ClosedIsCommitted
    <3> QED BY <3>4, <3>5, <3>6, <3>7 DEF Engine!EntriesExact
  <2> QED BY <2>8, <2>9 DEF Engine!IInv
<1> QED BY <1>1, <1>2

(* A call that leaves the engine's mutex without an insertion going on has *)
(* nothing in the index but what is settled.                               *)
LEMMA NoMirrorNext ==
  ASSUME \A u \in Thread : pc'[u] # "mirror"
  PROVE  UNION {Engine!Entry(start'[u], batch'[u]) : u \in {v \in Thread : pc'[v] = "mirror"}} = {}
OBVIOUS

(* The mirror takes the batch, which is settled from then on. *)
LEMMA EngineInsertStore ==
  ASSUME Engine!IInv, Engine!TypeOK', Engine!LockHeld', NEW t \in Thread, Engine!InsertStore(t)
  PROVE  Engine!IInv'
<1>t. Engine!TypeOK BY DEF Engine!IInv
<1>1. /\ pc[t] = "mirror" /\ pc' = [pc EXCEPT ![t] = "inserted"]
      /\ UNCHANGED <<records, open, index, committed, mirrored, start, batch, got>>
  BY DEF Engine!InsertStore, Engine!To, Engine!locals
<1>2. mirrored => store' = store \cup Of(t) BY DEF Engine!InsertStore, Of
<1>3. /\ \A u \in Thread \ {t} : pc[u] \notin {"mirror", "inserted"}
      /\ start[t] = Len(records) /\ Engine!Pending = {}
      /\ index = Engine!Entry(0, records) \cup Of(t)
  BY <1>1, OneInserts
<1>4. pc'[t] = "inserted" /\ \A u \in Thread \ {t} : pc'[u] = pc[u] BY <1>1, <1>t DEF Engine!TypeOK
<1>5. Of(t)' = Of(t) BY <1>1 DEF Of
<1>6. Engine!Pending' = Of(t) BY <1>3, <1>4, <1>5, PendingMemberNext
<1>7. Engine!Settled = Engine!Entry(0, records) /\ Engine!Settled' = Engine!Entry(0, records) \cup Of(t)
  BY <1>1, <1>3, <1>6 DEF Engine!Settled
<1>8. Engine!BatchesFollow'
  BY <1>1, <1>3, <1>4 DEF Engine!IInv, Engine!BatchesFollow, Engine!Inserting
<1>9. Engine!EntriesExact'
  <2>1. UNION {Engine!Entry(start'[u], batch'[u]) : u \in {v \in Thread : pc'[v] = "mirror"}} = {}
    BY <1>3, <1>4, NoMirrorNext
  <2>2. mirrored' => store' = Engine!Settled'
    BY <1>1, <1>2, <1>7 DEF Engine!IInv, Engine!EntriesExact
  <2>3. \A u \in Thread : pc'[u] = "convert" => got'[u] \subseteq Engine!Settled'
    BY <1>1, <1>4, <1>7 DEF Engine!IInv, Engine!EntriesExact
  <2>4. open
    BY <1>1, Assumptions DEF Engine!IInv, Engine!LockHeld, Engine!EngineAssumption
  <2>5. Engine!ClosedIsCommitted' BY <1>1, <2>4 DEF Engine!ClosedIsCommitted
  <2> QED BY <1>1, <1>3, <1>7, <2>1, <2>2, <2>3, <2>5 DEF Engine!EntriesExact
<1> QED BY <1>8, <1>9 DEF Engine!IInv

(* The store refused the batch: what leaves the index is the batch, and    *)
(* all of it, since its keys lie beyond the list.                          *)
LEMMA EngineStoreFails ==
  ASSUME Engine!IInv, Engine!TypeOK', Engine!LockHeld', NEW t \in Thread, Engine!StoreFails(t)
  PROVE  Engine!IInv'
<1>t. Engine!TypeOK BY DEF Engine!IInv
<1>1. /\ pc[t] = "mirror" /\ Engine!Ends(t)
      /\ index' = {e \in index : e.key \notin Engine!KeysOf(Of(t))}
      /\ UNCHANGED <<records, open, store, committed, mirrored>>
  BY DEF Engine!StoreFails, Engine!Removed, Of
<1>2. Frame(t) /\ pc'[t] = "idle" BY <1>1, <1>t, EndsFrame
<1>3. /\ \A u \in Thread \ {t} : pc[u] \notin {"mirror", "inserted"}
      /\ start[t] = Len(records) /\ Engine!Pending = {}
      /\ index = Engine!Entry(0, records) \cup Of(t)
      /\ start[t] \in Nat /\ batch[t] \in Seq(Engine!Row) /\ records \in Seq(Engine!Row)
  BY <1>1, OneInserts
<1>4. \A u \in Thread : pc'[u] \notin {"mirror", "inserted"} BY <1>2, <1>3 DEF Frame
<1>5. Engine!Pending' = {} BY <1>4, PendingMemberNext
<1>6. Engine!Settled = Engine!Entry(0, records) /\ Engine!Settled' = Engine!Settled
  BY <1>1, <1>3, <1>5 DEF Engine!Settled
<1>7. index' = Engine!Entry(0, records)
  <2>1. \A e \in Engine!Entry(0, records) : e.key < Len(records) BY <1>3, EntryKeys
  <2>2. \A e \in Of(t) : Len(records) <= e.key /\ e.key \in Nat BY <1>3, EntryKeys DEF Of
  <2>3. \A e \in Engine!Entry(0, records) : e.key \in Nat BY <1>3, EntryKeys
  <2>4. \A e \in Engine!Entry(0, records) : e.key \notin Engine!KeysOf(Of(t))
    BY <1>3, <2>1, <2>2, <2>3 DEF Engine!KeysOf
  <2>5. \A e \in Of(t) : e.key \in Engine!KeysOf(Of(t)) BY DEF Engine!KeysOf
  <2> QED BY <1>1, <1>3, <2>4, <2>5
<1>8. Engine!BatchesFollow'
  BY <1>1, <1>2, <1>4 DEF Engine!IInv, Engine!BatchesFollow, Engine!Inserting, Frame
<1>9. Engine!EntriesExact'
  <2>1. UNION {Engine!Entry(start'[u], batch'[u]) : u \in {v \in Thread : pc'[v] = "mirror"}} = {}
    BY <1>4, NoMirrorNext
  <2>2. mirrored' => store' = Engine!Settled'
    BY <1>1, <1>6 DEF Engine!IInv, Engine!EntriesExact
  <2>3. \A u \in Thread : pc'[u] = "convert" => got'[u] \subseteq Engine!Settled'
    BY <1>2, <1>6 DEF Engine!IInv, Engine!EntriesExact, Frame
  <2>4. open
    BY <1>1, Assumptions DEF Engine!IInv, Engine!LockHeld, Engine!EngineAssumption
  <2>5. Engine!ClosedIsCommitted' BY <1>1, <2>4 DEF Engine!ClosedIsCommitted
  <2> QED BY <1>6, <1>7, <2>1, <2>2, <2>3, <2>5 DEF Engine!EntriesExact
<1> QED BY <1>8, <1>9 DEF Engine!IInv

(* The list takes the batch under the keys the index already gave it. *)
LEMMA EngineExtend ==
  ASSUME Engine!IInv, Engine!TypeOK', Engine!LockHeld', NEW t \in Thread, Engine!Extend(t)
  PROVE  Engine!IInv'
<1>t. Engine!TypeOK /\ Engine!ClosedIsCommitted BY DEF Engine!IInv, Engine!EntriesExact
<1>1. /\ pc[t] = "inserted" /\ Engine!Ends(t) /\ records' = records \o batch[t]
      /\ UNCHANGED <<open, index, store, committed, mirrored>>
  BY DEF Engine!Extend, Engine!Extended, Engine!state
<1>2. Frame(t) /\ pc'[t] = "idle" BY <1>1, <1>t, EndsFrame
<1>3. /\ \A u \in Thread \ {t} : pc[u] \notin {"mirror", "inserted"}
      /\ start[t] = Len(records) /\ Engine!Pending = Of(t)
      /\ index = Engine!Entry(0, records) \cup Of(t)
      /\ batch[t] \in Seq(Engine!Row) /\ records \in Seq(Engine!Row)
  BY <1>1, OneInserts
<1>4. \A u \in Thread : pc'[u] \notin {"mirror", "inserted"} BY <1>2, <1>3 DEF Frame
<1>5. Engine!Pending' = {} BY <1>4, PendingMemberNext
<1>6. Engine!Entry(0, records') = Engine!Entry(0, records) \cup Of(t)
  BY <1>1, <1>3, EntryAppend DEF Of
<1>7. Engine!Settled' = Engine!Settled /\ index = Engine!Settled
  BY <1>3, <1>5, <1>6 DEF Engine!Settled
<1>8. Engine!BatchesFollow'
  <2>1. Len(records) \in Nat /\ Len(records') \in Nat /\ Len(records) <= Len(records')
    BY <1>1, <1>3
  <2>2. ASSUME NEW u \in Thread, pc'[u] = "collect"
        PROVE  batch'[u] # <<>> /\ start'[u] <= Len(records')
    <3>1. /\ pc[u] = "collect" /\ batch'[u] = batch[u] /\ start'[u] = start[u] /\ start[u] \in Nat
      BY <1>2, <1>t, <2>2 DEF Frame, Engine!TypeOK
    <3>2. batch[u] # <<>> /\ start[u] <= Len(records)
      BY <3>1 DEF Engine!IInv, Engine!BatchesFollow
    <3> QED BY <2>1, <3>1, <3>2
  <2> QED BY <1>4, <2>2 DEF Engine!BatchesFollow, Engine!Inserting
<1>9. Engine!EntriesExact'
  <2>1. UNION {Engine!Entry(start'[u], batch'[u]) : u \in {v \in Thread : pc'[v] = "mirror"}} = {}
    BY <1>4, NoMirrorNext
  <2>2. mirrored' => store' = Engine!Settled'
    BY <1>1, <1>7 DEF Engine!IInv, Engine!EntriesExact
  <2>3. \A u \in Thread : pc'[u] = "convert" => got'[u] \subseteq Engine!Settled'
    BY <1>2, <1>7 DEF Engine!IInv, Engine!EntriesExact, Frame
  <2>4. Engine!ClosedIsCommitted' BY <1>1, <1>t DEF Engine!ClosedIsCommitted
  <2> QED BY <1>1, <1>7, <2>1, <2>2, <2>3, <2>4 DEF Engine!EntriesExact
<1> QED BY <1>8, <1>9 DEF Engine!IInv

LEMMA EngineInit ==
  ASSUME Engine!Init
  PROVE  Engine!IInv
<1> USE DEF Engine!Init
<1>1. Engine!TypeOK
  BY DEF Engine!TypeOK, Engine!Phase
<1>2. Engine!LockHeld BY Assumptions DEF Engine!LockHeld, Engine!EngineAssumption
<1>3. Engine!BatchesFollow BY DEF Engine!BatchesFollow, Engine!Inserting
<1>4. Engine!Pending = {} BY PendingMember
<1>5. Engine!Entry(0, records) = {} BY DEF Engine!Entry
<1>6. Engine!Settled = {} BY <1>4, <1>5 DEF Engine!Settled
<1>7. UNION {Engine!Entry(start[t], batch[t]) : t \in {u \in Thread : pc[u] = "mirror"}} = {}
  OBVIOUS
<1>8. Engine!EntriesExact
  BY <1>6, <1>7 DEF Engine!EntriesExact, Engine!ClosedIsCommitted
<1> QED BY <1>1, <1>2, <1>3, <1>8 DEF Engine!IInv

LEMMA EngineNextInvariant ==
  ASSUME Engine!IInv, Engine!Next
  PROVE  Engine!IInv'
<1>1. PICK t \in Thread : Engine!Call(t) \/ Engine!Step(t) BY DEF Engine!Next
<1>2. Engine!TypeOK' /\ Engine!LockHeld' BY <1>1, EngineTypes, EngineLock
<1> QED BY <1>1, <1>2, EngineQuiet, EngineSync, EngineInsertIndex, EngineInsertStore,
           EngineStoreFails, EngineExtend DEF Engine!Call, Engine!Step

(* With the mutex free nobody inserts, so index, list and mirror agree; an *)
(* entry a grouping returned is in the list, or belongs to a batch beyond  *)
(* its end.                                                                *)
LEMMA EngineInvariantImplies ==
  ASSUME Engine!IInv
  PROVE  /\ Engine!RecordsMatchIndex /\ Engine!MirrorMatchesIndex
         /\ Engine!GroupsNameRecords /\ Engine!ClosedIsCommitted
<1>1. lock = Free => index = Engine!Settled BY LockExcludesInsert, NobodyInserts
<1>2. Engine!RecordsMatchIndex BY <1>1 DEF Engine!RecordsMatchIndex, Engine!Settled
<1>3. Engine!MirrorMatchesIndex
  BY <1>1 DEF Engine!MirrorMatchesIndex, Engine!IInv, Engine!EntriesExact
<1>4. ASSUME NEW t \in Thread, pc[t] = "convert", NEW e \in got[t], e.key < Len(records)
      PROVE  records[e.key + 1] = e.record
  <2>1. e \in Engine!Settled BY <1>4 DEF Engine!IInv, Engine!EntriesExact
  <2>2. records \in Seq(Engine!Row) BY DEF Engine!IInv, Engine!TypeOK
  <2>3. CASE e \in Engine!Entry(0, records)
    <3>1. e.key \in Nat /\ e.record = records[e.key - 0 + 1] BY <2>2, <2>3, EntryKeys
    <3> QED BY <3>1
  <2>4. CASE e \in Engine!Pending
    <3>1. PICK u \in Thread : pc[u] = "inserted" /\ e \in Of(u) BY <2>4, PendingMember
    <3>2. start[u] = Len(records) /\ start[u] \in Nat /\ batch[u] \in Seq(Engine!Row)
      BY <3>1, OneInserts
    <3>3. e.key \in Nat /\ start[u] <= e.key BY <3>1, <3>2, EntryKeys DEF Of
    <3> QED BY <1>4, <3>2, <3>3
  <2> QED BY <2>1, <2>3, <2>4 DEF Engine!Settled
<1>5. Engine!GroupsNameRecords BY <1>4 DEF Engine!GroupsNameRecords
<1>6. Engine!ClosedIsCommitted BY DEF Engine!IInv, Engine!EntriesExact
<1> QED BY <1>2, <1>3, <1>5, <1>6

-----------------------------------------------------------------------------
(***************************************************************************)
(* The package                                                             *)
(***************************************************************************)

Inv ==
  /\ part = "index" => Index!IInv
  /\ part = "engine" => Engine!IInv

LEMMA InitInvariant == Init => Inv
<1> SUFFICES ASSUME Init PROVE Inv OBVIOUS
<1>1. part = "index" => Index!Init BY DEF Init
<1>2. part = "engine" => Engine!Init BY DEF Init
<1>3. Index!Init => Index!IInv
  BY DEF Index!Init, Index!IInv, Index!Phase, Index!Excludes, Index!DropsCommitted,
    Index!AddedSurvives
<1> QED BY <1>1, <1>2, <1>3, EngineInit DEF Inv

LEMMA NextInvariant == Inv /\ [Next]_vars => Inv'
<1> SUFFICES ASSUME Inv, [Next]_vars PROVE Inv' OBVIOUS
<1>0. part' = part BY DEF Next, vars
<1>1. CASE part = "index"
  <2>1. Index!Next \/ UNCHANGED vars BY <1>1 DEF Next
  <2>2. CASE UNCHANGED vars
    BY <1>1, <2>2 DEF Inv, vars, Index!IInv, Index!Excludes, Index!DropsCommitted,
      Index!AddedSurvives
  <2>3. CASE Index!Next BY <1>0, <1>1, <2>3, IndexNextInvariant DEF Inv
  <2> QED BY <2>1, <2>2, <2>3
<1>2. CASE part = "engine"
  <2>1. Engine!Next \/ UNCHANGED vars BY <1>2 DEF Next
  <2>2. CASE UNCHANGED vars
    <3>1. Engine!IInv BY <1>2 DEF Inv
    <3>2. UNCHANGED <<records, open, index, store, committed, mirrored, lock, pc, calls, start,
                      batch, got>>
      BY <2>2 DEF vars
    <3>3. Engine!Pending' = Engine!Pending BY <3>2 DEF Engine!Pending
    <3>4. Engine!Settled' = Engine!Settled BY <3>2, <3>3 DEF Engine!Settled
    <3>5. Engine!IInv'
      BY <3>1, <3>2, <3>4 DEF Engine!IInv, Engine!TypeOK, Engine!LockHeld, Engine!BatchesFollow,
        Engine!Inserting, Engine!EntriesExact, Engine!ClosedIsCommitted
    <3> QED BY <1>0, <1>2, <3>5 DEF Inv
  <2>3. CASE Engine!Next BY <1>0, <1>2, <2>3, EngineNextInvariant DEF Inv
  <2> QED BY <2>1, <2>2, <2>3
<1>3. CASE part \notin {"index", "engine"} BY <1>0, <1>3 DEF Inv
<1> QED BY <1>1, <1>2, <1>3

(* The invariant of the package is inductive for any threads, calls,       *)
(* batches and faults.                                                     *)
THEOREM PythonInvariant == Spec => []Inv
BY InitInvariant, NextInvariant, PTL DEF Spec

(* Nothing that add accepted on one thread is lost by a close on another,  *)
(* and nothing that remove took comes back: an open Index holds exactly    *)
(* what was accepted, a closed one has committed it.  close commits and    *)
(* drops in two steps; the mutex that it and run_write take keeps others   *)
(* out in between.  An engine that is closed has committed what its index  *)
(* held.                                                                   *)
THEOREM AddsSurvive == Spec => []AcceptedSurvives
<1>1. Inv => AcceptedSurvives
  <2>1. Index!IInv => Index!AddedSurvives BY DEF Index!IInv
  <2> QED BY <2>1, EngineInvariantImplies DEF Inv, AcceptedSurvives
<1> QED BY <1>1, PythonInvariant, PTL

(* The list of dedupe.py, the engine's index and its mirror agree whenever *)
(* nobody is inside the engine, although they are updated one after the    *)
(* other and the key of a record is read before its features exist.        *)
THEOREM EngineStaysAligned == Spec => []EngineAligned
<1>1. Inv => EngineAligned BY EngineInvariantImplies DEF Inv, EngineAligned
<1> QED BY <1>1, PythonInvariant, PTL

(* A group that _convert_group looks up after the engine released its      *)
(* mutex names the records that were grouped, whatever joined the list     *)
(* meanwhile.                                                              *)
THEOREM GroupsAreExact == Spec => []GroupsNameRecords
<1>1. Inv => GroupsNameRecords BY EngineInvariantImplies DEF Inv, GroupsNameRecords
<1> QED BY <1>1, PythonInvariant, PTL

=============================================================================
