------------------------- MODULE InitialPublication -------------------------
(***************************************************************************)
(* crates/pari-store: creation of an index at a path that several          *)
(* processes may claim at once (create_with_params_and_hook and            *)
(* commit_initial).                                                        *)
(*                                                                         *)
(* Each creator checks that the destination is absent, claims a temporary  *)
(* name, writes and syncs its snapshot there, and claims the destination   *)
(* with a hard link, which never replaces a name.  It then drops the       *)
(* temporary name, syncs the directory and opens the destination.  When a  *)
(* step after the link fails it withdraws the destination it published.    *)
(*                                                                         *)
(* A file is named by the creator that made it: identity is the (device,   *)
(* inode) pair of a handle the creator keeps open, so it is never reused.  *)
(* A name is a file-system entry; the steps between a check of a name and  *)
(* its use are separate, as the system calls are.                          *)
(***************************************************************************)
EXTENDS Naturals, FiniteSets

CONSTANTS
  Creator,    \* calls of create for the one destination
  Process,    \* the processes they run in
  ProcessOf,  \* the process of each creator
  Foreign,    \* files other programs put in place of the destination or a temporary
  Free,       \* no file has the name
  Attempts,   \* TEMPORARY_ALLOCATION_ATTEMPTS
  MaxFaults   \* bound: I/O errors, crashes and power losses in a behaviour

CreatorAssumption ==
  /\ Creator \cap Foreign = {}
  /\ Free \notin Creator \cup Foreign
  /\ ProcessOf \in [Creator -> Process]
  /\ Attempts \in Nat /\ MaxFaults \in Nat
  /\ IsFiniteSet(Creator)

VARIABLES
  dest,         \* the file the destination names, or Free
  recoverable,  \* what the destination may name after a power loss
  names,        \* temporary name -> the file it names, or Free
  complete,     \* files whose whole snapshot is synced
  next,         \* NEXT_TEMPORARY_FILE of each process
  pc,           \* where each call stands
  tx,           \* the locals of each call
  used,         \* foreign files already put in place
  faults

vars == <<dest, recoverable, names, complete, next, pc, tx, used, faults>>

File == Creator \cup Foreign

(* A temporary name is the process id and a sequence number.  Process ids  *)
(* repeat after a crash and across pid namespaces that share a directory,  *)
(* so the name is modelled as the sequence number alone.                   *)
Name == 0..(Attempts * Cardinality(Creator))

Status == {"start", "allocate", "write", "verify", "link", "unlink", "sync",
           "refresh", "rollback", "rollback_remove", "rollback_sync",
           "cleanup", "cleanup_remove", "done", "crashed"}

(* created: Ok.  exists: AlreadyExists for the destination.  exhausted: no *)
(* temporary name.  unopened: Err although the file is published.          *)
Result == {"none", "created", "exists", "exhausted", "unopened", "error"}

(* OwnedTemporaryFile and the error under construction: retried is the     *)
(* second removal attempt, by Drop; reported says that the error returned  *)
(* mentions a rollback or cleanup that failed.                             *)
Transaction == [temp : Name, owns_path : BOOLEAN, tries : 0..Attempts,
                retried : BOOLEAN, reported : BOOLEAN, result : Result]

Init ==
  /\ dest = Free
  /\ recoverable = {Free}
  /\ names = [n \in Name |-> Free]
  /\ complete = {}
  /\ next = [p \in Process |-> 0]
  /\ pc = [c \in Creator |-> "start"]
  /\ tx = [c \in Creator |-> [temp |-> 0, owns_path |-> FALSE, tries |-> 0,
                              retried |-> FALSE, reported |-> FALSE, result |-> "none"]]
  /\ used = {}
  /\ faults = 0

-----------------------------------------------------------------------------
Go(c, from, to) == pc[c] = from /\ pc' = [pc EXCEPT ![c] = to]

Fault == faults < MaxFaults /\ faults' = faults + 1

(* The call's error, or success, is decided. *)
Decide(c, r) == tx' = [tx EXCEPT ![c].result = r]

(* ensure_destination_absent. *)
DestinationAbsent(c) ==
  /\ dest = Free
  /\ Go(c, "start", "allocate")
  /\ UNCHANGED <<dest, recoverable, names, complete, next, tx, used, faults>>

DestinationPresent(c) ==
  /\ dest # Free
  /\ Go(c, "start", "done")
  /\ Decide(c, "exists")
  /\ UNCHANGED <<dest, recoverable, names, complete, next, used, faults>>

(* allocate: the next sequence number names the temporary file if no file  *)
(* has that name; otherwise the number is spent and the loop goes on, a    *)
(* bounded number of times.                                                *)
ClaimAnyName(n) == TRUE
ClaimName(n) == names[n] = Free

Unowned(c, n) == [tx EXCEPT ![c].temp = n]
Owned(c, n) == [tx EXCEPT ![c].temp = n, ![c].owns_path = TRUE]

Allocate(c) ==
  LET n == next[ProcessOf[c]] IN
  /\ tx[c].tries < Attempts
  /\ ClaimName(n)
  /\ Go(c, "allocate", "write")
  /\ names' = [names EXCEPT ![n] = c]
  /\ next' = [next EXCEPT ![ProcessOf[c]] = n + 1]
  /\ tx' = Owned(c, n)
  /\ UNCHANGED <<dest, recoverable, complete, used, faults>>

AllocateAgain(c) ==
  LET n == next[ProcessOf[c]] IN
  /\ tx[c].tries < Attempts
  /\ ~ClaimName(n)
  /\ Go(c, "allocate", "allocate")
  /\ next' = [next EXCEPT ![ProcessOf[c]] = n + 1]
  /\ tx' = [tx EXCEPT ![c].tries = @ + 1]
  /\ UNCHANGED <<dest, recoverable, names, complete, used, faults>>

AllocateExhausted(c) ==
  /\ tx[c].tries = Attempts
  /\ Go(c, "allocate", "done")
  /\ Decide(c, "exhausted")
  /\ UNCHANGED <<dest, recoverable, names, complete, next, used, faults>>

(* The destination could not be examined, its directory or the temporary   *)
(* file could not be created, or the identity could not be taken and       *)
(* cleanup_failed_allocation removed the file again.                       *)
AllocateFails(c) ==
  /\ tx[c].tries < Attempts
  /\ Fault
  /\ \/ Go(c, "start", "done") /\ UNCHANGED next
     \/ /\ Go(c, "allocate", "done")
        /\ \E spent \in {0, 1} : next' = [next EXCEPT ![ProcessOf[c]] = @ + spent]
  /\ Decide(c, "error")
  /\ UNCHANGED <<dest, recoverable, names, complete, used>>

(* write_synced. *)
WriteNothing(c) == complete
Written(c) == complete \cup {c}

WriteSynced(c) ==
  /\ Go(c, "write", "verify")
  /\ complete' = Written(c)
  /\ UNCHANGED <<dest, recoverable, names, next, tx, used, faults>>

WriteFails(c) ==
  /\ Fault
  /\ Go(c, "write", "cleanup")
  /\ Decide(c, "error")
  /\ UNCHANGED <<dest, recoverable, names, complete, next, used>>

-----------------------------------------------------------------------------
(***************************************************************************)
(* publish_no_replace                                                      *)
(***************************************************************************)

(* verify_owned_path: the temporary name still names the file written. *)
OwnsPath(c) == names[tx[c].temp] = c

Verify(c) ==
  /\ OwnsPath(c)
  /\ Go(c, "verify", "link")
  /\ UNCHANGED <<dest, recoverable, names, complete, next, tx, used, faults>>

VerifyFails(c) ==
  /\ ~OwnsPath(c)
  /\ Go(c, "verify", "cleanup")
  /\ tx' = [tx EXCEPT ![c].owns_path = FALSE, ![c].result = "error"]
  /\ UNCHANGED <<dest, recoverable, names, complete, next, used, faults>>

(* hard_link: the destination names whatever the temporary name names,     *)
(* provided it named nothing before.                                       *)
LinkReplacing == TRUE
LinkClaims == dest = Free

Link(c) ==
  /\ LinkClaims
  /\ Go(c, "link", "unlink")
  /\ dest' = names[tx[c].temp]
  /\ recoverable' = recoverable \cup {names[tx[c].temp]}
  /\ UNCHANGED <<names, complete, next, tx, used, faults>>

(* Another creator was faster: only the temporary file is cleaned up. *)
LinkCollidesWithdrawing(c) ==
  /\ ~LinkClaims
  /\ Go(c, "link", "rollback_remove")
  /\ Decide(c, "exists")
  /\ UNCHANGED <<dest, recoverable, names, complete, next, used, faults>>

LinkCollides(c) ==
  /\ ~LinkClaims
  /\ Go(c, "link", "cleanup")
  /\ Decide(c, "exists")
  /\ UNCHANGED <<dest, recoverable, names, complete, next, used, faults>>

LinkFails(c) ==
  /\ Fault
  /\ \E from \in {"verify", "link"} : Go(c, from, "cleanup")
  /\ Decide(c, "error")
  /\ UNCHANGED <<dest, recoverable, names, complete, next, used>>

(* remove_temporary: the name goes, whatever it names by now. *)
Unlink(c) ==
  /\ Go(c, "unlink", "sync")
  /\ names' = [names EXCEPT ![tx[c].temp] = Free]
  /\ tx' = [tx EXCEPT ![c].owns_path = FALSE]
  /\ UNCHANGED <<dest, recoverable, complete, next, used, faults>>

UnlinkFails(c) ==
  /\ Fault
  /\ Go(c, "unlink", "rollback")
  /\ Decide(c, "error")
  /\ UNCHANGED <<dest, recoverable, names, complete, next, used>>

(* sync_directory. *)
SyncNothing == recoverable
Synced == {dest}

Sync(c) ==
  /\ Go(c, "sync", "refresh")
  /\ recoverable' = Synced
  /\ UNCHANGED <<dest, names, complete, next, tx, used, faults>>

SyncFails(c) ==
  /\ Fault
  /\ Go(c, "sync", "rollback")
  /\ Decide(c, "error")
  /\ UNCHANGED <<dest, recoverable, names, complete, next, used>>

(* refresh_after_commit: the destination is opened by name. *)
Refresh(c) ==
  /\ dest # Free
  /\ Go(c, "refresh", "done")
  /\ Decide(c, "created")
  /\ UNCHANGED <<dest, recoverable, names, complete, next, used, faults>>

(* The destination is gone, or could not be read: the call returns an      *)
(* error and leaves the published file where it is.                        *)
RefreshFails(c) ==
  /\ IF dest = Free THEN UNCHANGED faults ELSE Fault
  /\ Go(c, "refresh", "done")
  /\ Decide(c, "unopened")
  /\ UNCHANGED <<dest, recoverable, names, complete, next, used>>

-----------------------------------------------------------------------------
(***************************************************************************)
(* recover_after_initial_publication and remove_owned_path                 *)
(***************************************************************************)

Reported(c) == tx' = [tx EXCEPT ![c].reported = TRUE]

(* rollback_owned_destination compares identities first... *)
RollbackOwns(c) ==
  /\ dest = c
  /\ Go(c, "rollback", "rollback_remove")
  /\ UNCHANGED <<dest, recoverable, names, complete, next, tx, used, faults>>

RollbackPreserves(c) ==
  /\ dest # c
  /\ Go(c, "rollback", "cleanup")
  /\ UNCHANGED <<dest, recoverable, names, complete, next, tx, used, faults>>

(* ...and then removes the destination by name. *)
RollbackRemove(c) ==
  /\ Go(c, "rollback_remove", "rollback_sync")
  /\ dest' = Free
  /\ recoverable' = recoverable \cup {Free}
  /\ UNCHANGED <<names, complete, next, tx, used, faults>>

RollbackSync(c) ==
  /\ Go(c, "rollback_sync", "cleanup")
  /\ recoverable' = Synced
  /\ UNCHANGED <<dest, names, complete, next, tx, used, faults>>

(* Any step of the rollback fails; the error says so. *)
RollbackUnreported(c) == UNCHANGED tx
RollbackReported(c) == Reported(c)

RollbackFails(c) ==
  /\ Fault
  /\ \E from \in {"rollback", "rollback_remove", "rollback_sync"} : Go(c, from, "cleanup")
  /\ RollbackReported(c)
  /\ UNCHANGED <<dest, recoverable, names, complete, next, used>>

(* remove_owned_path has nothing to do, or the name is somebody else's. *)
CleanupNothing(c) ==
  /\ ~(tx[c].owns_path /\ OwnsPath(c))
  /\ Go(c, "cleanup", "done")
  /\ tx' = [tx EXCEPT ![c].owns_path = FALSE]
  /\ UNCHANGED <<dest, recoverable, names, complete, next, used, faults>>

CleanupOwns(c) ==
  /\ tx[c].owns_path /\ OwnsPath(c)
  /\ Go(c, "cleanup", "cleanup_remove")
  /\ UNCHANGED <<dest, recoverable, names, complete, next, tx, used, faults>>

CleanupRemove(c) ==
  /\ Go(c, "cleanup_remove", "done")
  /\ names' = [names EXCEPT ![tx[c].temp] = Free]
  /\ tx' = [tx EXCEPT ![c].owns_path = FALSE]
  /\ UNCHANGED <<dest, recoverable, complete, next, used, faults>>

(* The removal fails: the error says so, and Drop tries once more. *)
CleanupFails(c) ==
  /\ Fault
  /\ \E from \in {"cleanup", "cleanup_remove"} :
       tx[c].owns_path /\ Go(c, from, IF tx[c].retried THEN "done" ELSE "cleanup")
  /\ tx' = [tx EXCEPT ![c].reported = TRUE, ![c].retried = TRUE]
  /\ UNCHANGED <<dest, recoverable, names, complete, next, used>>

-----------------------------------------------------------------------------
(***************************************************************************)
(* The surroundings                                                        *)
(***************************************************************************)

(* Another program puts its own file in place of the destination or of a   *)
(* temporary name, as the crate's tests do.                                *)
Replace(f) ==
  /\ f \notin used /\ dest # Free
  /\ dest' = f
  /\ recoverable' = recoverable \cup {f}
  /\ used' = used \cup {f}
  /\ UNCHANGED <<names, complete, next, pc, tx, faults>>

ReplaceTemporary(f, n) ==
  /\ f \notin used /\ names[n] # Free
  /\ names' = [names EXCEPT ![n] = f]
  /\ used' = used \cup {f}
  /\ UNCHANGED <<dest, recoverable, complete, next, pc, tx, faults>>

Stopped(c) == pc[c] \in {"done", "crashed"}

Crash(p) ==
  /\ \E c \in Creator : ProcessOf[c] = p /\ ~Stopped(c)
  /\ Fault
  /\ pc' = [c \in Creator |-> IF ProcessOf[c] = p /\ ~Stopped(c) THEN "crashed" ELSE pc[c]]
  /\ UNCHANGED <<dest, recoverable, names, complete, next, tx, used>>

PowerLoss ==
  /\ Fault
  /\ \E file \in recoverable : dest' = file /\ recoverable' = {file}
  /\ pc' = [c \in Creator |-> IF Stopped(c) THEN pc[c] ELSE "crashed"]
  /\ UNCHANGED <<names, complete, next, tx, used>>

-----------------------------------------------------------------------------
Create(c) ==
  \/ DestinationAbsent(c) \/ DestinationPresent(c)
  \/ Allocate(c) \/ AllocateAgain(c) \/ AllocateExhausted(c) \/ AllocateFails(c)
  \/ WriteSynced(c) \/ WriteFails(c)
  \/ Verify(c) \/ VerifyFails(c)
  \/ Link(c) \/ LinkCollides(c) \/ LinkFails(c)
  \/ Unlink(c) \/ UnlinkFails(c)
  \/ Sync(c) \/ SyncFails(c)
  \/ Refresh(c) \/ RefreshFails(c)

Recover(c) ==
  \/ RollbackOwns(c) \/ RollbackPreserves(c) \/ RollbackRemove(c) \/ RollbackSync(c)
  \/ RollbackFails(c)
  \/ CleanupNothing(c) \/ CleanupOwns(c) \/ CleanupRemove(c) \/ CleanupFails(c)

Next ==
  \/ \E c \in Creator : Create(c) \/ Recover(c)
  \/ \E f \in Foreign : Replace(f) \/ \E n \in Name : ReplaceTemporary(f, n)
  \/ \E p \in Process : Crash(p)
  \/ PowerLoss

Spec == Init /\ [][Next]_vars

-----------------------------------------------------------------------------
(***************************************************************************)
(* Properties                                                              *)
(***************************************************************************)

(* Types, and: a call holds a temporary name from the moment it claims one *)
(* until its cleanup, so no early return forgets the file.                 *)
TypeOK ==
  /\ dest \in File \cup {Free}
  /\ recoverable \in SUBSET (File \cup {Free})
  /\ names \in [Name -> File \cup {Free}]
  /\ complete \in SUBSET Creator
  /\ next \in [Process -> Name]
  /\ pc \in [Creator -> Status]
  /\ tx \in [Creator -> Transaction]
  /\ used \in SUBSET Foreign
  /\ faults \in 0..MaxFaults
  /\ \A c \in Creator : pc[c] \in {"write", "verify", "link", "unlink"} => tx[c].owns_path

(* The destination never names, now or after a power loss, a creator's     *)
(* file whose snapshot is not completely synced.                           *)
OnlyComplete == (recoverable \cup {dest}) \cap Creator \subseteq complete

(* Two calls never share a temporary file: each claimed name still names   *)
(* its claimer's file or one that somebody else put there deliberately, so *)
(* no call writes into, links or removes the file of another.              *)
TemporariesDisjoint ==
  \A c \in Creator :
    pc[c] # "crashed" /\ tx[c].owns_path => names[tx[c].temp] \in {c} \cup used

(* A create that returned Ok keeps its file at the destination whatever    *)
(* the other creators do and wherever they fail, and no power loss undoes  *)
(* it; so at most one create succeeds.                                     *)
CreatedIsDurable ==
  used = {} =>
    \A c \in Creator : tx[c].result = "created" => dest = c /\ recoverable = {c}

(* A create that returned an error before reopening, without reporting a   *)
(* failed rollback or cleanup, leaves nothing: no temporary name, and,     *)
(* among creators alone, no destination, nor one that a power loss could   *)
(* bring back.                                                             *)
FailedLeavesNothing ==
  \A c \in Creator :
    /\ pc[c] = "done"
    /\ tx[c].result \in {"exists", "exhausted", "error"}
    /\ ~tx[c].reported
    => /\ \A n \in Name : names[n] # c
       /\ used = {} => dest # c /\ c \notin recoverable

(* "Creation never replaces an existing file" (docs/persistence.md): no    *)
(* step of a create, successful, colliding or failing, puts another file   *)
(* in place of the one the destination names, and among creators alone the *)
(* only file ever withdrawn is the withdrawing creator's own.              *)
PreservesOthers ==
  dest # Free /\ dest' # dest /\ faults' = faults /\ used' = used
    => /\ dest' = Free
       /\ used = {} => pc[dest] = "rollback_remove" /\ pc'[dest] = "rollback_sync"

(* A failed publication "rolls back the final name only while it still     *)
(* identifies the transaction's file, preserving any concurrent            *)
(* replacement" (docs/persistence.md): no step of a create removes a file  *)
(* another program put at the destination.                                 *)
RollbackPreservesReplacement ==
  [][(dest \in Foreign) /\ faults' = faults /\ used' = used => dest' = dest]_vars

(* The race has a winner: unless some I/O fails or another program         *)
(* interferes or temporary names run out, some create succeeds, however    *)
(* the creators' checks, links and collisions interleave.                  *)
Decided ==
  \/ \E c \in Creator : tx[c].result \in {"created", "exhausted"}
  \/ faults > 0
  \/ used # {}

-----------------------------------------------------------------------------
(***************************************************************************)
(* The inductive invariant behind these properties                         *)
(***************************************************************************)

(* Every sequence number a process has drawn is some creator's attempt, so *)
(* the numbers stay among Name: <<c, k>> when c has made its k-th attempt. *)
Spent ==
  {a \in Creator \X (1..Attempts) :
     \/ a[2] <= tx[a[1]].tries
     \/ pc[a[1]] \notin {"start", "allocate"} /\ a[2] = tx[a[1]].tries + 1}

NumbersBounded == \A p \in Process : next[p] <= Cardinality(Spent)

(* A creator's file has no temporary name but the one the creator holds,   *)
(* no two calls hold one name, and a call that returns holds none unless   *)
(* its error says so.                                                      *)
Owning(c) == pc[c] # "crashed" /\ tx[c].owns_path

NamesOwned ==
  \A c \in Creator :
    /\ \A n \in Name : names[n] = c => tx[c].owns_path /\ tx[c].temp = n
    /\ \A d \in Creator : d # c /\ Owning(c) /\ Owning(d) => tx[c].temp # tx[d].temp
    /\ pc[c] \in {"start", "allocate", "sync", "refresh"} => ~tx[c].owns_path
    /\ pc[c] = "cleanup_remove" => tx[c].owns_path
    /\ pc[c] = "done" => ~tx[c].owns_path \/ tx[c].reported

(* What is linked was synced before. *)
LinkedAfterSync ==
  \A c \in Creator : pc[c] \in {"verify", "link", "unlink", "sync", "refresh"} => c \in complete

(* Among creators alone the destination names the file of the one creator  *)
(* that has linked and not withdrawn it, and nothing of a creator that has *)
(* not linked, or that has withdrawn its file and said nothing.            *)
Published(c) ==
  \/ pc[c] \in {"unlink", "sync", "refresh", "rollback", "rollback_remove"}
  \/ tx[c].result = "created"

Unpublished(c) ==
  \/ pc[c] \in {"start", "allocate", "write", "verify", "link", "cleanup", "cleanup_remove"}
  \/ pc[c] = "done" /\ tx[c].result \in {"exists", "exhausted", "error"}

DestinationOwned ==
  \A c \in Creator :
    /\ Published(c) => dest = c
    /\ pc[c] = "refresh" \/ tx[c].result = "created" => recoverable = {c}
    /\ pc[c] = "rollback_sync" => dest # c
    /\ Unpublished(c) /\ ~tx[c].reported => dest # c /\ c \notin recoverable

IInv ==
  /\ TypeOK
  /\ NumbersBounded
  /\ NamesOwned
  /\ TemporariesDisjoint
  /\ LinkedAfterSync
  /\ OnlyComplete
  /\ \A c \in Creator : tx[c].result = "created" => pc[c] = "done"
  /\ used = {} => DestinationOwned

=============================================================================
