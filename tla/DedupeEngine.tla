---------------------------- MODULE DedupeEngine ----------------------------
(***************************************************************************)
(* python/pari/dedupe.py and the native _DedupeEngine of crates/pari-py:   *)
(* a list of records in Python, and an in-memory index with an optional    *)
(* persistent mirror behind a mutex that is only ever tried, never waited  *)
(* for.  Records are ingested in batches; the key of a record is its       *)
(* position in the list.                                                   *)
(*                                                                         *)
(* Python threads share the handle.  A thread runs Python code while it    *)
(* holds the GIL, and others run while it collects features (user code),   *)
(* while the engine works detached, and while a verifier callback runs.    *)
(* A batch of add_many is a call of its own: between two batches the code  *)
(* keeps nothing but the count it returns.  Which records are grouped is   *)
(* the subject of Grouping; here a grouping returns the whole index.       *)
(***************************************************************************)
EXTENDS Naturals, FiniteSets, Sequences

CONSTANTS
  Thread,
  Free,       \* nobody holds the mutex
  MaxBatch,   \* bound: records of a batch
  MaxCalls,   \* bound: calls of a thread
  MaxFaults   \* bound: storage errors

EngineAssumption ==
  IsFiniteSet(Thread) /\ Free \notin Thread /\ {MaxBatch, MaxCalls, MaxFaults} \subseteq Nat

VARIABLES
  records,    \* DedupeIndex._records
  open, index, store, committed, mirrored,   \* DedupeState: keys with their records
  lock,
  pc, calls,
  start, batch,  \* first key and records of the batch a thread adds
  got,           \* keys with their records in the groups a thread computed
  faults

vars == <<records, open, index, store, committed, mirrored, lock, pc, calls, start, batch, got, faults>>
state == <<open, index, store, committed, mirrored>>
locals == <<start, batch, got>>

Entry(first, rows) == {[key |-> first + i - 1, record |-> rows[i]] : i \in DOMAIN rows}
KeysOf(entries) == {e.key : e \in entries}

Init ==
  /\ records = <<>>
  /\ open = TRUE /\ index = {} /\ store = {} /\ committed = {} /\ mirrored \in BOOLEAN
  /\ lock = Free
  /\ pc = [t \in Thread |-> "idle"] /\ calls = [t \in Thread |-> 0]
  /\ start = [t \in Thread |-> 0] /\ batch = [t \in Thread |-> <<>>] /\ got = [t \in Thread |-> {}]
  /\ faults = 0

To(t, next) == pc' = [pc EXCEPT ![t] = next]

(* A call returns, with a result or an error, and its locals are gone. *)
Ends(t) ==
  /\ To(t, "idle")
  /\ start' = [start EXCEPT ![t] = 0] /\ batch' = [batch EXCEPT ![t] = <<>>]
  /\ got' = [got EXCEPT ![t] = {}]

(* try_lock: a call meets a held mutex and fails with Busy. *)
Waits == lock = Free
Tries == TRUE

(* _ensure_open, which asks the engine, and a closed engine. *)
Refused == lock # Free \/ ~open

-----------------------------------------------------------------------------
(* add_features and one batch of _add_many_features: the key is read       *)
(* before the features are collected, which runs the caller's code.        *)
StartAdd(t, n) ==
  /\ pc[t] = "idle" /\ calls[t] < MaxCalls /\ Tries
  /\ calls' = [calls EXCEPT ![t] = @ + 1]
  /\ IF Refused THEN Ends(t)
     ELSE /\ To(t, "collect") /\ UNCHANGED got
          /\ start' = [start EXCEPT ![t] = Len(records)]
          /\ batch' = [batch EXCEPT ![t] = [i \in 1..n |-> <<t, calls[t], i>>]]
  /\ UNCHANGED <<records, state, lock, faults>>

(* The feature iterator raises. *)
CollectFails(t) ==
  /\ pc[t] = "collect" /\ Ends(t)
  /\ UNCHANGED <<records, state, lock, calls, faults>>

NeverTaken(entries) == FALSE
Taken(entries) == KeysOf(entries) \cap KeysOf(index) # {}

(* _DedupeEngine.add_many: insert_many into the index, all or nothing; a   *)
(* key that is in the index is an error.                                   *)
InsertIndex(t) ==
  LET new == Entry(start[t], batch[t]) IN
  /\ pc[t] = "collect" /\ Tries
  /\ IF Refused \/ Taken(new)
     THEN Ends(t) /\ UNCHANGED <<index, lock>>
     ELSE lock' = t /\ index' = index \cup new /\ To(t, "mirror") /\ UNCHANGED locals
  /\ UNCHANGED <<records, open, store, committed, mirrored, calls, faults>>

InsertStore(t) ==
  /\ pc[t] = "mirror" /\ To(t, "inserted")
  /\ store' = IF mirrored THEN store \cup Entry(start[t], batch[t]) ELSE store
  /\ lock' = Free
  /\ UNCHANGED <<records, open, index, committed, mirrored, calls, locals, faults>>

(* The store refuses the batch: the keys leave the index again. *)
NotRemoved(t) == index
Removed(t) == {e \in index : e.key \notin KeysOf(Entry(start[t], batch[t]))}

StoreFails(t) ==
  /\ pc[t] = "mirror" /\ mirrored
  /\ faults < MaxFaults /\ faults' = faults + 1
  /\ index' = Removed(t)
  /\ lock' = Free /\ Ends(t)
  /\ UNCHANGED <<records, open, store, committed, mirrored, calls>>

(* Back in Python the records join the list; the progress callback comes   *)
(* after that and cancels nothing that was added.                          *)
Prepended(t) == batch[t] \o records
Extended(t) == records \o batch[t]

Extend(t) ==
  /\ pc[t] = "inserted" /\ Ends(t)
  /\ records' = Extended(t)
  /\ UNCHANGED <<state, lock, calls, faults>>

-----------------------------------------------------------------------------
(* groups, candidate_groups and candidate_pairs without a verifier.        *)
Group(t) ==
  /\ pc[t] = "idle" /\ calls[t] < MaxCalls /\ Tries
  /\ calls' = [calls EXCEPT ![t] = @ + 1]
  /\ IF Refused THEN Ends(t)
     ELSE To(t, "convert") /\ got' = [got EXCEPT ![t] = index] /\ UNCHANGED <<start, batch>>
  /\ UNCHANGED <<records, state, lock, faults>>

(* groups with a verifier: the mutex is held while Python code runs.       *)
StartVerified(t) ==
  /\ pc[t] = "idle" /\ calls[t] < MaxCalls /\ Tries
  /\ calls' = [calls EXCEPT ![t] = @ + 1]
  /\ IF Refused THEN Ends(t) /\ UNCHANGED lock
     ELSE lock' = t /\ To(t, "verify") /\ UNCHANGED locals
  /\ UNCHANGED <<records, state, faults>>

(* The callback calls the same handle, whatever the method. *)
Reenter(t) ==
  /\ pc[t] = "verify" /\ To(t, "reentered")
  /\ UNCHANGED <<records, state, lock, calls, locals, faults>>

(* It gets the error Busy, and lets it through or handles it. *)
ReentryEnds(t) ==
  /\ pc[t] = "reentered" /\ Tries
  /\ \/ Ends(t) /\ lock' = Free
     \/ To(t, "verified") /\ UNCHANGED <<locals, lock>>
  /\ UNCHANGED <<records, state, calls, faults>>

(* A callback raises, or reads a record that is not in the list. *)
VerifierRaises(t) ==
  /\ pc[t] = "verify" /\ Ends(t) /\ lock' = Free
  /\ UNCHANGED <<records, state, calls, faults>>

Verified(t) ==
  /\ pc[t] \in {"verify", "verified"} /\ To(t, "convert")
  /\ got' = [got EXCEPT ![t] = index] /\ lock' = Free
  /\ UNCHANGED <<records, state, calls, start, batch, faults>>

(* _convert_group looks the members up in the list, and raises when one is *)
(* not there.                                                              *)
Convert(t) ==
  /\ pc[t] = "convert" /\ Ends(t)
  /\ UNCHANGED <<records, state, lock, calls, faults>>

-----------------------------------------------------------------------------
(* sync, and close which also drops the state; a sync that fails leaves    *)
(* the handle open, and closing a closed handle does nothing.              *)
NotSynced == committed
Synced == IF mirrored THEN store ELSE {}

SyncOrClose(t, closes) ==
  /\ pc[t] = "idle" /\ calls[t] < MaxCalls /\ Tries
  /\ calls' = [calls EXCEPT ![t] = @ + 1]
  /\ IF Refused THEN UNCHANGED <<open, committed, faults>>
     ELSE \/ committed' = Synced /\ open' = ~closes /\ UNCHANGED faults
          \/ /\ mirrored /\ faults < MaxFaults /\ faults' = faults + 1
             /\ UNCHANGED <<open, committed>>
  /\ UNCHANGED <<records, index, store, mirrored, lock, pc, locals>>

Call(t) ==
  \/ \E n \in 1..MaxBatch : StartAdd(t, n)
  \/ Group(t) \/ StartVerified(t)
  \/ \E closes \in BOOLEAN : SyncOrClose(t, closes)

Step(t) ==
  \/ CollectFails(t) \/ InsertIndex(t) \/ InsertStore(t) \/ StoreFails(t) \/ Extend(t)
  \/ Reenter(t) \/ ReentryEnds(t) \/ VerifierRaises(t) \/ Verified(t) \/ Convert(t)

Next == \E t \in Thread : Call(t) \/ Step(t)

Spec == Init /\ [][Next]_vars

-----------------------------------------------------------------------------
(* Properties                                                              *)
Pending == UNION {Entry(start[t], batch[t]) : t \in {u \in Thread : pc[u] = "inserted"}}

(* "Records are assigned stable keys in ingestion order" (dedupe.py): the  *)
(* index holds under each key the features of the record at that position  *)
(* of the list, and nothing else but the batch of a call that has not      *)
(* extended the list yet, whatever other threads add, close or abandon in  *)
(* between.                                                                *)
RecordsMatchIndex ==
  lock = Free => index = Entry(0, records) \cup Pending

(* The mirror holds what the index holds whenever nobody is inside the     *)
(* engine, also after an insert that only the store refused.               *)
MirrorMatchesIndex ==
  lock = Free /\ mirrored => store = index

(* Groups name the records whose features collided, although the list may  *)
(* have grown between the grouping and the lookup.                         *)
GroupsNameRecords ==
  \A t \in Thread : pc[t] = "convert" =>
    \A e \in got[t] : e.key < Len(records) => records[e.key + 1] = e.record

(* A handle closes only after everything its index holds was committed. *)
ClosedIsCommitted == ~open /\ mirrored => committed = index

Calling(t) == pc[t] # "idle"

-----------------------------------------------------------------------------
(* The inductive invariant behind these properties                         *)
Row == Thread \X Nat \X Nat
Entries == [key : Nat, record : Row]

Phase == {"idle", "collect", "mirror", "inserted", "convert", "verify", "reentered", "verified"}

TypeOK ==
  /\ records \in Seq(Row)
  /\ open \in BOOLEAN /\ mirrored \in BOOLEAN
  /\ lock \in Thread \cup {Free}
  /\ pc \in [Thread -> Phase] /\ calls \in [Thread -> Nat]
  /\ start \in [Thread -> Nat] /\ batch \in [Thread -> Seq(Row)]
  /\ index \subseteq Entries /\ got \in [Thread -> SUBSET Entries]

Inserting(t) == pc[t] \in {"mirror", "inserted"}

(* The mutex is held exactly by the call that is inside the engine, and    *)
(* nobody is inside a closed one.                                          *)
LockHeld ==
  /\ \A t \in Thread : lock = t <=> pc[t] \in {"mirror", "verify", "reentered", "verified"}
  /\ ~open => lock = Free

(* A batch begins where the list ended when its call read the length; the  *)
(* one batch that is in the index and not yet in the list begins where the *)
(* list ends now.                                                          *)
BatchesFollow ==
  /\ \A t \in Thread : pc[t] = "collect" \/ Inserting(t) =>
       /\ batch[t] # <<>> /\ start[t] <= Len(records)
       /\ Inserting(t) => start[t] = Len(records)
  /\ \A t, u \in Thread : Inserting(t) /\ Inserting(u) => t = u

(* The entries that every part of the engine has, or will not lose. *)
Settled == Entry(0, records) \cup Pending

EntriesExact ==
  /\ index = Settled \cup UNION {Entry(start[t], batch[t]) : t \in {u \in Thread : pc[u] = "mirror"}}
  /\ mirrored => store = Settled
  /\ \A t \in Thread : pc[t] = "convert" => got[t] \subseteq Settled
  /\ ClosedIsCommitted

IInv == TypeOK /\ LockHeld /\ BatchesFollow /\ EntriesExact

=============================================================================
