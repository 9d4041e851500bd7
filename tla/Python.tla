-------------------------------- MODULE Python --------------------------------
(***************************************************************************)
(* The Python package: Index behind its mutex and the GIL, the             *)
(* deduplication engine, and the owner of a persistent index who retries a *)
(* failed commit.                                                          *)
(* part is the module a behaviour is about, chosen in the initial state.   *)
(* The modules share no state, so following them one at a time loses       *)
(* nothing; variables that only other modules have are Unused.             *)
(***************************************************************************)

CONSTANTS
  Thread,      \* of the Python program
  Free,        \* nobody holds the lock
  IndexCalls, EngineCalls,   \* bounds: calls of a thread
  EngineBatch, \* bound: records of a batch of the engine
  CallFaults,  \* bound: commits of an Index that fail, storage errors of an engine
  Key, Band, Hash, Absent, None, Torn, MaxBatch, MaxFaults, MaxUnsynced  \* of the store

VARIABLES part, gil, mutex, open, keys, committed, pc, method, calls, added, faults,
  records, index, store, mirrored, lock, start, batch, got, target, recoverable,
  temporaries, temp, abandoned, base, overlay_buckets, overlay_keys, suppressed_base_keys,
  key_hashes, dirty, call, parent_error, report

vars == <<part, gil, mutex, open, keys, committed, pc, method, calls, added, faults,
          records, index, store, mirrored, lock, start, batch, got, target, recoverable,
          temporaries, temp, abandoned, base, overlay_buckets, overlay_keys,
          suppressed_base_keys, key_hashes, dirty, call, parent_error, report>>

Unused == "unused"

Index == INSTANCE PythonIndex WITH
  MaxCalls <- IndexCalls, MaxFaults <- CallFaults

Engine == INSTANCE DedupeEngine WITH
  MaxBatch <- EngineBatch, MaxCalls <- EngineCalls, MaxFaults <- CallFaults

Store == INSTANCE PersistentIndex

ASSUME Assumptions ==
  /\ Index!ThreadAssumption
  /\ Engine!EngineAssumption

Init ==
  \/ /\ part = "index" /\ Index!Init
     /\ records = Unused /\ index = Unused /\ store = Unused /\ mirrored = Unused
     /\ lock = Unused /\ start = Unused /\ batch = Unused /\ got = Unused /\ target = Unused
     /\ recoverable = Unused /\ temporaries = Unused /\ temp = Unused /\ abandoned = Unused
     /\ base = Unused /\ overlay_buckets = Unused /\ overlay_keys = Unused
     /\ suppressed_base_keys = Unused /\ key_hashes = Unused
     /\ dirty = Unused /\ call = Unused /\ parent_error = Unused /\ report = Unused
  \/ /\ part = "engine" /\ Engine!Init
     /\ gil = Unused /\ mutex = Unused /\ keys = Unused /\ method = Unused /\ added = Unused
     /\ target = Unused /\ recoverable = Unused /\ temporaries = Unused /\ temp = Unused
     /\ abandoned = Unused /\ base = Unused /\ overlay_buckets = Unused
     /\ overlay_keys = Unused /\ suppressed_base_keys = Unused /\ key_hashes = Unused
     /\ dirty = Unused /\ call = Unused /\ parent_error = Unused /\ report = Unused
  \/ /\ part = "store" /\ Store!Init
     /\ gil = Unused /\ mutex = Unused /\ open = Unused /\ keys = Unused
     /\ committed = Unused /\ method = Unused /\ calls = Unused /\ added = Unused
     /\ records = Unused /\ index = Unused /\ store = Unused /\ mirrored = Unused
     /\ lock = Unused /\ start = Unused /\ batch = Unused /\ got = Unused

Next ==
  \/ /\ part = "index" /\ Index!Next
     /\ UNCHANGED <<part, records, index, store, mirrored, lock, start, batch, got, target,
                    recoverable, temporaries, temp, abandoned, base, overlay_buckets,
                    overlay_keys, suppressed_base_keys, key_hashes, dirty, call, parent_error,
                    report>>
  \/ /\ part = "engine" /\ Engine!Next
     /\ UNCHANGED <<part, gil, mutex, keys, method, added, target, recoverable,
                    temporaries, temp, abandoned, base, overlay_buckets, overlay_keys,
                    suppressed_base_keys, key_hashes, dirty, call, parent_error, report>>
  \/ /\ part = "store" /\ Store!Next
     /\ UNCHANGED <<part, gil, mutex, open, keys, committed, method, calls, added, records,
                    index, store, mirrored, lock, start, batch, got>>

Spec == Init /\ [][Next]_vars

(* A thread inside a call, of either kind of handle. *)
Calling(t) ==
  \/ part = "index" /\ Index!Calling(t)
  \/ part = "engine" /\ Engine!Calling(t)

Step(t) ==
  \/ part = "index" /\ Index!Step(t)
  \/ part = "engine" /\ Engine!Step(t)

StoreVars == Store!vars

(* A thread that can take its next step inside a call takes it (each of    *)
(* them changes pc).  A commit, once called, runs to its return; and the   *)
(* owner of a dirty store keeps calling sync until it succeeds, as a       *)
(* caller of the Python close must (python/tests/test_close_recovery.py).  *)
FairSpec ==
  /\ Spec
  /\ \A t \in Thread : WF_pc(Step(t))
  /\ WF_StoreVars(part = "store" /\ Store!CommitStep)
  /\ SF_StoreVars(part = "store" /\ Store!BeginCommit("sync"))

-----------------------------------------------------------------------------
(* Nothing that add accepted is lost by a close on another thread, and     *)
(* nothing that remove took comes back: an open Index holds exactly what   *)
(* was accepted, a closed one has committed exactly that; and an engine    *)
(* closes only after everything its index holds was committed.             *)
AcceptedSurvives ==
  /\ part = "index" => Index!AddedSurvives
  /\ part = "engine" => Engine!ClosedIsCommitted

(* The engine holds under each key the features of the record at that      *)
(* position of the list (dedupe.py), whatever other threads add, close or  *)
(* abandon; and its persistent mirror holds what its index holds, also     *)
(* after an insert that only the store refused.                            *)
EngineAligned ==
  /\ part = "engine" => Engine!RecordsMatchIndex
  /\ part = "engine" => Engine!MirrorMatchesIndex

(* Groups name the records whose features collided, although the list may  *)
(* have grown between the grouping and the lookup.                         *)
GroupsNameRecords == part = "engine" => Engine!GroupsNameRecords

(* Every call returns: a thread that waits for the mutex of an Index while *)
(* it holds the GIL (the closed getter) never waits for one that wants the *)
(* GIL; and "verifier re-entry fails instead of deadlocking"               *)
(* (test_dedupe.py), when a callback calls the engine that is waiting for  *)
(* it.                                                                     *)
CallsReturn ==
  \A t \in Thread : Calling(t) ~> ~Calling(t)

(* A dirty persistent index whose owner retries sync reaches a durable     *)
(* commit, or is lost to a crash or a consuming close: no combination of   *)
(* faults leaves the handle in a state from which a commit cannot succeed  *)
(* any more.                                                               *)
SyncRetrySucceeds ==
  (part = "store" /\ pc = "idle" /\ dirty)
    ~> (part = "store" => report = "durable" \/ pc = "closed")

===============================================================================
