--------------------------- MODULE LazyPublication ---------------------------
(***************************************************************************)
(* crates/pari-store-lazy: how build_from_snapshot puts its container at   *)
(* the destination (atomic_create), with several conversions of one        *)
(* destination at once.                                                    *)
(*                                                                         *)
(* Unlike the persistent index, a conversion cleans its temporary name up  *)
(* without looking at what the name names, and links by name without a     *)
(* check; what it keeps is the identity of the file it wrote, for the      *)
(* rollback.  A temporary name is a process id and the next number of that *)
(* process; process ids repeat across pid namespaces, so two processes may *)
(* draw the same names.                                                    *)
(*                                                                         *)
(* A file is the conversion that created it.  It has at most one temporary *)
(* name, the one its conversion claimed, so the names in the directory are *)
(* the conversions whose file still has its name.                          *)
(***************************************************************************)
EXTENDS Naturals, FiniteSets

CONSTANTS
  Conversion,  \* calls of build_from_snapshot for the one destination
  Process,     \* the processes they run in
  ProcessOf,   \* the process of each conversion
  PidOf,       \* the process id of each process
  Free,        \* no file has the name
  Attempts,    \* TEMPORARY_CREATE_ATTEMPTS
  MaxFaults    \* bound: I/O errors, crashes and power losses in a behaviour

(* A process id is used by at most two of the processes: with a third one, *)
(* a conversion can remove the name of a second, and the second then links *)
(* what the third has begun to write under that name.                      *)
ConversionAssumption ==
  /\ Free \notin Conversion
  /\ ProcessOf \in [Conversion -> Process]
  /\ PidOf \in [Process -> Nat]
  /\ Attempts \in Nat /\ MaxFaults \in Nat
  /\ \A p, q, r \in Process :
       PidOf[p] = PidOf[q] /\ PidOf[q] = PidOf[r] => p = q \/ q = r \/ p = r

VARIABLES dest, recoverable,
  named,   \* conversions whose file still has its temporary name
  complete,
  next,    \* NEXT_TEMPORARY_ID of each process
  tries,   \* names each conversion found taken
  temp,    \* the number in the name each conversion claimed
  pc, result,
  reported, \* conversions whose error carries a second, failed cleanup
  faults

vars == <<dest, recoverable, named, complete, next, tries, temp, pc, result, reported, faults>>

Init ==
  /\ dest = Free /\ recoverable = {Free}
  /\ named = {} /\ complete = {}
  /\ next = [p \in Process |-> 0]
  /\ tries = [c \in Conversion |-> 0] /\ temp = [c \in Conversion |-> 0]
  /\ pc = [c \in Conversion |-> "start"]
  /\ result = [c \in Conversion |-> "none"]
  /\ reported = {}
  /\ faults = 0

-----------------------------------------------------------------------------
Go(c, from, to) == pc[c] = from /\ pc' = [pc EXCEPT ![c] = to]

Fault == faults < MaxFaults /\ faults' = faults + 1

Decide(c, r) == result' = [result EXCEPT ![c] = r]

Pid(c) == PidOf[ProcessOf[c]]

(* The file that has the name of number n with the process id of c. *)
At(c, n) == {d \in named : Pid(d) = Pid(c) /\ temp[d] = n}

Start(c) ==
  /\ Go(c, "start", IF dest = Free THEN "claim" ELSE "done")
  /\ IF dest = Free THEN UNCHANGED result ELSE Decide(c, "exists")
  /\ UNCHANGED <<dest, recoverable, named, complete, next, tries, temp, reported, faults>>

(* create_temporary: the next number of the process is drawn, and the name *)
(* claimed if no file has it.                                              *)
ClaimAny(c, n) == TRUE
CreateNew(c, n) == At(c, n) = {}

Draw(c) == next' = [next EXCEPT ![ProcessOf[c]] = @ + 1]

Claim(c) ==
  LET n == next[ProcessOf[c]] IN
  /\ tries[c] < Attempts
  /\ CreateNew(c, n)
  /\ Go(c, "claim", "write")
  /\ Draw(c)
  /\ named' = named \cup {c}
  /\ temp' = [temp EXCEPT ![c] = n]
  /\ UNCHANGED <<dest, recoverable, complete, tries, result, reported, faults>>

ClaimAgain(c) ==
  /\ tries[c] < Attempts /\ ~CreateNew(c, next[ProcessOf[c]])
  /\ Go(c, "claim", "claim")
  /\ Draw(c)
  /\ tries' = [tries EXCEPT ![c] = @ + 1]
  /\ UNCHANGED <<dest, recoverable, named, complete, temp, result, reported, faults>>

(* No name was free, or a name or the directory could not be created. *)
ClaimFails(c) ==
  /\ \/ tries[c] = Attempts /\ UNCHANGED <<next, faults>>
     \/ tries[c] < Attempts /\ Fault /\ (Draw(c) \/ UNCHANGED next)
  /\ Go(c, "claim", "done")
  /\ Decide(c, "error")
  /\ UNCHANGED <<dest, recoverable, named, complete, tries, temp, reported>>

(* write_all, flush, sync_all *)
WriteSynced(c) ==
  /\ Go(c, "write", "link")
  /\ complete' = complete \cup {c}
  /\ UNCHANGED <<dest, recoverable, named, next, tries, temp, result, reported, faults>>

-----------------------------------------------------------------------------
(* publish_temporary *)
LinkReplaces == TRUE
LinkClaims == dest = Free

Link(c) ==
  /\ \E file \in At(c, temp[c]) :
       /\ LinkClaims
       /\ dest' = file /\ recoverable' = recoverable \cup {file}
  /\ Go(c, "link", "unlink")
  /\ UNCHANGED <<named, complete, next, tries, temp, result, reported, faults>>

(* The destination exists, or the temporary name is gone. *)
LinkFails(c) ==
  /\ \/ At(c, temp[c]) # {} /\ ~LinkClaims /\ Decide(c, "exists")
     \/ At(c, temp[c]) = {} /\ Decide(c, "error")
  /\ Go(c, "link", "cleanup")
  /\ UNCHANGED <<dest, recoverable, named, complete, next, tries, temp, reported, faults>>

(* remove_file fails when the name is gone. *)
Unlink(c) ==
  /\ IF At(c, temp[c]) = {}
     THEN Go(c, "unlink", "rollback") /\ Decide(c, "error")
     ELSE Go(c, "unlink", "sync") /\ UNCHANGED result
  /\ named' = named \ At(c, temp[c])
  /\ UNCHANGED <<dest, recoverable, complete, next, tries, temp, reported, faults>>

NotSynced == recoverable
Synced == {dest}

Sync(c) ==
  /\ Go(c, "sync", "done")
  /\ recoverable' = Synced
  /\ Decide(c, "created")
  /\ UNCHANGED <<dest, named, complete, next, tries, temp, reported, faults>>

StepFails(c) ==
  /\ Fault
  /\ \/ Go(c, "write", "cleanup") \/ Go(c, "link", "cleanup")
     \/ Go(c, "unlink", "rollback") \/ Go(c, "sync", "rollback")
  /\ Decide(c, "error")
  /\ UNCHANGED <<dest, recoverable, named, complete, next, tries, temp, reported>>

-----------------------------------------------------------------------------
(* rollback_published compares the destination with the file written, ...  *)
OwnsDestination(c) == dest = c

RollbackCompare(c) ==
  /\ Go(c, "rollback", IF OwnsDestination(c) THEN "rollback_remove" ELSE "cleanup")
  /\ UNCHANGED <<dest, recoverable, named, complete, next, tries, temp, result, reported, faults>>

RollbackRemove(c) ==
  /\ Go(c, "rollback_remove", "rollback_sync")
  /\ dest' = Free /\ recoverable' = recoverable \cup {Free}
  /\ UNCHANGED <<named, complete, next, tries, temp, result, reported, faults>>

RollbackSync(c) ==
  /\ Go(c, "rollback_sync", "cleanup")
  /\ recoverable' = Synced
  /\ UNCHANGED <<dest, named, complete, next, tries, temp, result, reported, faults>>

(* ... and cleanup_owned_path removes the temporary name. *)
CleanupNothing(c) == named
Cleanup(c) == named \ At(c, temp[c])

CleanupOwnedPath(c) ==
  /\ Go(c, "cleanup", "done")
  /\ named' = Cleanup(c)
  /\ UNCHANGED <<dest, recoverable, complete, next, tries, temp, result, reported, faults>>

RecoveryFails(c) ==
  /\ Fault
  /\ \/ /\ \E from \in {"rollback", "rollback_remove", "rollback_sync"} : Go(c, from, "cleanup")
        /\ UNCHANGED named
     \/ Go(c, "cleanup", "done") /\ named' \in {named, Cleanup(c)}
  /\ reported' = reported \cup {c}
  /\ UNCHANGED <<dest, recoverable, complete, next, tries, temp, result>>

Stopped(c) == pc[c] \in {"done", "crashed"}

Crash(p) ==
  /\ \E c \in Conversion : ProcessOf[c] = p /\ ~Stopped(c)
  /\ Fault
  /\ pc' = [c \in Conversion |-> IF ProcessOf[c] = p /\ ~Stopped(c) THEN "crashed" ELSE pc[c]]
  /\ UNCHANGED <<dest, recoverable, named, complete, next, tries, temp, result, reported>>

PowerLoss ==
  /\ Fault
  /\ \E file \in recoverable : dest' = file /\ recoverable' = {file}
  /\ pc' = [c \in Conversion |-> IF Stopped(c) THEN pc[c] ELSE "crashed"]
  /\ UNCHANGED <<named, complete, next, tries, temp, result, reported>>

Convert(c) ==
  \/ Start(c) \/ Claim(c) \/ ClaimAgain(c) \/ ClaimFails(c) \/ WriteSynced(c)
  \/ Link(c) \/ LinkFails(c) \/ Unlink(c) \/ Sync(c) \/ StepFails(c)
  \/ RollbackCompare(c) \/ RollbackRemove(c) \/ RollbackSync(c) \/ CleanupOwnedPath(c)
  \/ RecoveryFails(c)

Next == (\E c \in Conversion : Convert(c)) \/ (\E p \in Process : Crash(p)) \/ PowerLoss

Spec == Init /\ [][Next]_vars

-----------------------------------------------------------------------------
(* Properties, for at most two processes with one process id               *)

(* The destination never names, now or after a power loss, a container     *)
(* that is not completely synced, although a conversion links and removes  *)
(* a name that another may have claimed meanwhile.                         *)
OnlyComplete == (recoverable \cup {dest}) \ {Free} \subseteq complete

(* A conversion that returned Ok keeps its own container at the            *)
(* destination, also after a power loss: the rollbacks and cleanups of the *)
(* others never reach it.                                                  *)
CreatedIsDurable ==
  \A c \in Conversion : result[c] = "created" => dest = c /\ recoverable = {c}

(* A conversion that failed without reporting a failed cleanup leaves      *)
(* neither a temporary name nor a destination.                             *)
FailedLeavesNothing ==
  \A c \in Conversion :
    pc[c] = "done" /\ result[c] # "created" /\ c \notin reported =>
      c \notin recoverable \cup {dest} /\ c \notin named

-----------------------------------------------------------------------------
(* The inductive invariant behind these properties                         *)

Status == {"start", "claim", "write", "link", "unlink", "sync", "rollback", "rollback_remove",
           "rollback_sync", "cleanup", "done", "crashed"}

TypeOK ==
  /\ dest \in Conversion \cup {Free} /\ recoverable \subseteq Conversion \cup {Free}
  /\ named \subseteq Conversion /\ complete \subseteq Conversion
  /\ next \in [Process -> Nat]
  /\ tries \in [Conversion -> Nat] /\ temp \in [Conversion -> Nat]
  /\ pc \in [Conversion -> Status]
  /\ result \in [Conversion -> {"none", "created", "exists", "error"}]
  /\ faults \in Nat

(* A conversion that has claimed a name drew its number before, and no two *)
(* conversions of a process drew one number.                               *)
Claimed(c) ==
  c \in named \/ pc[c] \in Status \ {"start", "claim", "done", "crashed"}

NumbersDrawn ==
  \A c \in Conversion : Claimed(c) =>
    /\ temp[c] < next[ProcessOf[c]]
    /\ \A d \in Conversion :
         Claimed(d) /\ ProcessOf[d] = ProcessOf[c] /\ temp[d] = temp[c] => d = c

(* No two files have one name.  While a conversion relies on its name the  *)
(* name is its own file's; or it is gone, removed by the one other         *)
(* conversion that could ever claim it, and cannot be claimed again.       *)
NamesUnique ==
  \A c, d \in named : Pid(c) = Pid(d) /\ temp[c] = temp[d] => c = d

NameKept ==
  \A c \in Conversion : pc[c] \in {"write", "link", "unlink"} /\ c \notin named =>
    /\ At(c, temp[c]) = {}
    /\ \A p \in Process : PidOf[p] = Pid(c) => temp[c] < next[p]

(* The destination names the file of the one conversion that has linked    *)
(* and not withdrawn it, and nothing of one that has not linked, or that   *)
(* has withdrawn its file and said nothing.                                *)
Published(c) ==
  pc[c] \in {"unlink", "sync", "rollback", "rollback_remove"} \/ result[c] = "created"

Unpublished(c) ==
  \/ pc[c] \in {"start", "claim", "write", "link", "cleanup"}
  \/ pc[c] = "done" /\ result[c] # "created"

DestinationOwned ==
  \A c \in Conversion :
    /\ Published(c) => dest = c
    /\ result[c] = "created" => pc[c] = "done" /\ recoverable = {c}
    /\ pc[c] = "rollback_sync" => dest # c
    /\ Unpublished(c) /\ c \notin reported => dest # c /\ c \notin recoverable

IInv ==
  /\ TypeOK
  /\ NumbersDrawn
  /\ NamesUnique
  /\ NameKept
  /\ \A c \in Conversion : pc[c] \in {"link", "unlink", "sync"} => c \in complete
  /\ \A c \in Conversion : pc[c] = "done" /\ c \in named => c \in reported
  /\ \A c \in Conversion : pc[c] \in {"start", "claim", "sync"} => c \notin named
  /\ OnlyComplete
  /\ DestinationOwned

=============================================================================
