----------------------------- MODULE PythonIndex -----------------------------
(***************************************************************************)
(* crates/pari-py: Index and Index64, a persistent index behind a mutex    *)
(* that several Python threads share.  A method converts its arguments     *)
(* under the GIL, gives the GIL up (py.detach), waits for the mutex, looks *)
(* for the store, works on it, releases the mutex and takes the GIL again. *)
(* close commits and drops the store in two steps.  The closed getter,     *)
(* which repr and __enter__ use, waits for the mutex with the GIL in its   *)
(* hands.                                                                  *)
(*                                                                         *)
(* Nothing but the mutex keeps a second thread out between two steps of a  *)
(* method.  A key is the call that adds it.  What the store does with an   *)
(* operation is the subject of PersistentIndex.                            *)
(***************************************************************************)
EXTENDS Naturals, FiniteSets

CONSTANTS
  Thread,
  Free,       \* nobody holds the lock
  MaxCalls,   \* bound: calls of a thread
  MaxFaults   \* bound: commits that fail

ThreadAssumption ==
  IsFiniteSet(Thread) /\ Free \notin Thread /\ MaxCalls \in Nat /\ MaxFaults \in Nat

(* add and add_many; search, search_many, contains, stats, explain and     *)
(* len; remove; flush and sync; close and __exit__.                        *)
Method == {"add", "search", "remove", "sync", "close"}

VARIABLES
  gil, mutex,
  open, keys, committed,  \* the store, while there is one, and its file
  pc, method, calls,
  added,                  \* history: accepted by add and not taken by remove since
  faults

vars == <<gil, mutex, open, keys, committed, pc, method, calls, added, faults>>
store == <<open, keys, committed>>

Init ==
  /\ gil = Free /\ mutex = Free
  /\ open = TRUE /\ keys = {} /\ committed = {}
  /\ pc = [t \in Thread |-> "python"]
  /\ method = [t \in Thread |-> "search"] /\ calls = [t \in Thread |-> 0]
  /\ added = {} /\ faults = 0

Go(t, from, to) == pc[t] = from /\ pc' = [pc EXCEPT ![t] = to]

CallKey(t) == <<t, calls[t]>>

(* Python code calls a method or reads closed; the GIL passes from thread  *)
(* to thread between two such calls.                                       *)
CallMethod(t, m) ==
  /\ Go(t, "python", "called")
  /\ gil = Free /\ gil' = t
  /\ calls[t] < MaxCalls
  /\ calls' = [calls EXCEPT ![t] = @ + 1] /\ method' = [method EXCEPT ![t] = m]
  /\ UNCHANGED <<mutex, store, added, faults>>

CallClosed(t) ==
  /\ Go(t, "python", "getter")
  /\ gil = Free /\ gil' = t
  /\ calls[t] < MaxCalls
  /\ calls' = [calls EXCEPT ![t] = @ + 1]
  /\ UNCHANGED <<mutex, store, method, added, faults>>

-----------------------------------------------------------------------------
(* run_read, run_write and close.                                          *)
Detach(t) ==
  /\ Go(t, "called", "lock")
  /\ gil' = Free
  /\ UNCHANGED <<mutex, store, method, calls, added, faults>>

(* The conversion of a sketch fails: the method returns under the GIL. *)
Reject(t) ==
  /\ method[t] \in {"add", "search"}
  /\ Go(t, "called", "attached")
  /\ UNCHANGED <<gil, mutex, store, method, calls, added, faults>>

NoMutex == TRUE
Available == mutex = Free

Lock(t) ==
  /\ Go(t, "lock", "inside")
  /\ Available /\ mutex' = t
  /\ UNCHANGED <<gil, store, method, calls, added, faults>>

(* A method finds the store, or returns Closed; close then returns Ok. *)
Find(t) ==
  /\ Go(t, "inside", IF open THEN "working" ELSE "worked")
  /\ UNCHANGED <<gil, mutex, store, method, calls, added, faults>>

Add(t) ==
  /\ method[t] = "add"
  /\ Go(t, "working", "worked")
  /\ keys' = keys \cup {CallKey(t)} /\ added' = added \cup {CallKey(t)}
  /\ UNCHANGED <<gil, mutex, open, committed, method, calls, faults>>

(* An insert of a live key or an incompatible sketch is refused; a removal *)
(* of an absent key returns False; a query changes nothing.                *)
NoChange(t) ==
  /\ method[t] \in {"add", "search", "remove"}
  /\ Go(t, "working", "worked")
  /\ UNCHANGED <<gil, mutex, store, method, calls, added, faults>>

Remove(t, key) ==
  /\ method[t] = "remove" /\ key \in keys
  /\ Go(t, "working", "worked")
  /\ keys' = keys \ {key} /\ added' = added \ {key}
  /\ UNCHANGED <<gil, mutex, open, committed, method, calls, faults>>

DropsUnsynced == committed
SyncsFirst == keys

Commit(t) ==
  /\ method[t] \in {"sync", "close"}
  /\ Go(t, "working", IF method[t] = "close" THEN "drop" ELSE "worked")
  /\ committed' = (IF method[t] = "close" THEN SyncsFirst ELSE keys)
  /\ UNCHANGED <<gil, mutex, open, keys, method, calls, added, faults>>

(* A commit fails before or after its rename; the store stays open. *)
CommitFails(t) ==
  /\ method[t] \in {"sync", "close"} /\ faults < MaxFaults
  /\ Go(t, "working", "worked")
  /\ committed' \in {committed, keys} /\ faults' = faults + 1
  /\ UNCHANGED <<gil, mutex, open, keys, method, calls, added>>

(* *guard = None: what the store holds in memory goes with it. *)
Drop(t) ==
  /\ Go(t, "drop", "worked")
  /\ open' = FALSE /\ keys' = {}
  /\ UNCHANGED <<gil, mutex, committed, method, calls, added, faults>>

(* The guard is dropped at the end of the closure, before the GIL. *)
GuardOutlives(t) == mutex
Released(t) == Free

Unlock(t) ==
  /\ Go(t, "worked", "attach")
  /\ mutex' = Released(t)
  /\ UNCHANGED <<gil, store, method, calls, added, faults>>

Attach(t) ==
  /\ Go(t, "attach", "attached")
  /\ gil = Free /\ gil' = t
  /\ UNCHANGED <<mutex, store, method, calls, added, faults>>

Return(t) ==
  /\ Go(t, "attached", "python")
  /\ gil' = Free
  /\ method' = [method EXCEPT ![t] = "search"]
  /\ UNCHANGED <<mutex, store, calls, added, faults>>

(* closed *)
ReadClosed(t) ==
  /\ Go(t, "getter", "read")
  /\ Available /\ mutex' = t
  /\ UNCHANGED <<gil, store, method, calls, added, faults>>

ReturnClosed(t) ==
  /\ Go(t, "read", "python")
  /\ mutex' = Free /\ gil' = Free
  /\ UNCHANGED <<store, method, calls, added, faults>>

Work(t) ==
  \/ Add(t) \/ NoChange(t) \/ (\E key \in keys : Remove(t, key))
  \/ Commit(t) \/ CommitFails(t) \/ Drop(t)

Step(t) ==
  \/ Detach(t) \/ Reject(t) \/ Lock(t) \/ Find(t) \/ Work(t) \/ Unlock(t)
  \/ Attach(t) \/ Return(t) \/ ReadClosed(t) \/ ReturnClosed(t)

Next ==
  \E t \in Thread : (\E m \in Method : CallMethod(t, m)) \/ CallClosed(t) \/ Step(t)

Spec == Init /\ [][Next]_vars

-----------------------------------------------------------------------------
(* Properties                                                              *)

Calling(t) == pc[t] # "python"

(* Nothing that add accepted is lost by a close on another thread, and     *)
(* nothing that remove took comes back: an open index holds exactly what   *)
(* was accepted, a closed one has committed exactly that.  An add or a     *)
(* remove between the sync and the drop of close would break it.           *)
AddedSurvives == added = IF open THEN keys ELSE committed

(* Behind it: who works on the store holds the mutex, a method that found  *)
(* the store still has it, and close drops a store that it has committed.  *)
Phase ==
  {"python", "called", "getter", "lock", "inside", "working", "drop", "worked",
   "attach", "attached", "read"}

Excludes ==
  \A t \in Thread : pc[t] \in {"inside", "working", "drop", "worked", "read"} => mutex = t

DropsCommitted ==
  \A t \in Thread :
    /\ pc[t] \in {"working", "drop"} => open
    /\ pc[t] = "drop" => committed = keys

IInv == pc \in [Thread -> Phase] /\ Excludes /\ DropsCommitted /\ AddedSurvives

=============================================================================
