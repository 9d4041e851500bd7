-------------------------- MODULE BuildPublication --------------------------
(***************************************************************************)
(* crates/pari-store-build: the temporary files of build_external and the  *)
(* publication of its result, with several builders of one destination.    *)
(*                                                                         *)
(* Every temporary name is the destination, a nonce and a suffix.  The     *)
(* nonce is the clock xor the process id, so builders may share one; the   *)
(* files are created with create_new.  TemporaryFiles tracks a name before *)
(* its file is created and removes every tracked name on return, by name.  *)
(* The finished container is claimed with a hard link.                     *)
(*                                                                         *)
(* A file is <<builder, suffix>>: the builder that created it.  A builder  *)
(* that collides removes the other's names; when a third one has the same  *)
(* nonce, it then creates them anew and the second goes on with its files, *)
(* so the properties are about destinations for which no three builders    *)
(* share a nonce.                                                          *)
(* A build uses one run and one segment here; ExternalBuild has the        *)
(* contents.                                                               *)
(***************************************************************************)
EXTENDS Naturals

CONSTANTS
  Builder,    \* calls of build_external for the one destination
  Nonce,
  Free,       \* no file has the name
  MaxFaults   \* bound: I/O errors, crashes and power losses in a behaviour

Kind == {"run", "descriptors", "memberships", "bucket", "commit"}
File == Builder \X Kind

BuilderAssumption == Free \notin File /\ MaxFaults \in Nat

VARIABLES
  nonce,       \* of each builder
  names,       \* what each temporary name names
  dest,        \* what the destination names
  recoverable, \* what it may name after a power loss
  mode,        \* what each builder does
  at,          \* its step, while it builds
  tracked,     \* names in its TemporaryFiles, the first ones of Suffix
  dropped,     \* those Drop has removed
  identity,    \* the file it took for its own before linking
  outcome,     \* its result, and which removals failed
  complete,    \* builders whose container is written and synced
  mixed,       \* history: builders that read a file of another
  faults

vars == <<nonce, names, dest, recoverable, mode, at, tracked, dropped, identity, outcome,
          complete, mixed, faults>>
files == <<names, dest, recoverable>>
inputs == <<complete, mixed>>

(* Temporary names in the order they are tracked: a permutation of Kind. *)
Suffix == <<"run", "descriptors", "memberships", "bucket", "commit">>

(* build_external_with_hook: the system calls that meet other builders. *)
Program == <<
  <<"check", "none">>,
  <<"create", "run">>,
  <<"open", "run">>, <<"create", "descriptors">>, <<"create", "memberships">>,
  <<"open", "descriptors">>, <<"open", "memberships">>, <<"create", "bucket">>,
  <<"create", "commit">>, <<"open", "bucket">>, <<"write", "none">>,
  <<"identity", "none">>, <<"link", "none">>, <<"unlink", "none">>, <<"sync", "none">> >>

(* The names tracked before each step: those of the descriptors and the    *)
(* memberships are tracked together, before either file is created.        *)
TrackedAt == <<0, 0, 1, 1, 3, 3, 3, 3, 4, 5, 5, 5, 5, 5, 5>>

Mode == {"build", "rollback", "rollback_remove", "rollback_sync", "cleanup", "drop", "done", "crashed"}

Name == Nonce \X Kind
OwnWithoutNonce(b, suffix) == <<CHOOSE n \in Nonce : TRUE, suffix>>
Own(b, suffix) == <<nonce[b], suffix>>
Commit(b) == <<b, "commit">>

Init ==
  /\ nonce \in [Builder -> Nonce]
  /\ names = [n \in Name |-> Free]
  /\ dest = Free /\ recoverable = {Free}
  /\ mode = [b \in Builder |-> "build"]
  /\ at = [b \in Builder |-> 1]
  /\ tracked = [b \in Builder |-> 0] /\ dropped = [b \in Builder |-> 0]
  /\ identity = [b \in Builder |-> Free]
  /\ outcome = [b \in Builder |-> [result |-> "none", reported |-> FALSE, leaked |-> FALSE]]
  /\ complete = {} /\ mixed = {}
  /\ faults = 0

-----------------------------------------------------------------------------
Doing(b, op) == mode[b] = "build" /\ Program[at[b]][1] = op
Target(b) == Own(b, Program[at[b]][2])

Advance(b) == at' = [at EXCEPT ![b] = @ + 1] /\ UNCHANGED <<mode, outcome>>

(* Return with a result; TemporaryFiles is dropped on the way. *)
Return(b, result, to) ==
  /\ mode' = [mode EXCEPT ![b] = to]
  /\ outcome' = [outcome EXCEPT ![b].result = result]
  /\ UNCHANGED at

Fault == faults < MaxFaults /\ faults' = faults + 1

Check(b) ==
  /\ Doing(b, "check")
  /\ IF dest = Free THEN Advance(b) ELSE Return(b, "exists", "drop")
  /\ UNCHANGED <<nonce, files, tracked, dropped, identity, inputs, faults>>

(* track, and open with create_new. *)
Track(b) == [tracked EXCEPT ![b] = TrackedAt[at[b] + 1]]

TruncateFile(n) == TRUE
CreateNew(n) == names[n] = Free

CreateFile(b) ==
  /\ Doing(b, "create")
  /\ tracked' = Track(b)
  /\ IF CreateNew(Target(b))
     THEN names' = [names EXCEPT ![Target(b)] = <<b, Target(b)[2]>>] /\ Advance(b)
     ELSE Return(b, "error", "drop") /\ UNCHANGED names
  /\ UNCHANGED <<nonce, dest, recoverable, dropped, identity, inputs, faults>>

(* A later pass opens what an earlier one wrote, by name. *)
OpenFile(b) ==
  /\ Doing(b, "open")
  /\ IF names[Target(b)] = Free
     THEN Return(b, "error", "drop") /\ UNCHANGED mixed
     ELSE /\ Advance(b)
          /\ mixed' = IF names[Target(b)] = <<b, Target(b)[2]>> THEN mixed ELSE mixed \cup {b}
  /\ UNCHANGED <<nonce, files, tracked, dropped, identity, complete, faults>>

(* The rest of write_final_container, sync_all included. *)
WriteContainer(b) ==
  /\ Doing(b, "write")
  /\ complete' = complete \cup {b}
  /\ Advance(b)
  /\ UNCHANGED <<nonce, files, tracked, dropped, identity, mixed, faults>>

-----------------------------------------------------------------------------
(* publish_no_replace_with                                                 *)
TakeIdentity(b) ==
  LET file == names[Own(b, "commit")] IN
  /\ Doing(b, "identity")
  /\ identity' = [identity EXCEPT ![b] = file]
  /\ IF file = Free THEN Return(b, "error", "drop") ELSE Advance(b)
  /\ UNCHANGED <<nonce, files, tracked, dropped, inputs, faults>>

LinkReplaces == TRUE
LinkClaims == dest = Free

Link(b) ==
  LET file == names[Own(b, "commit")] IN
  /\ Doing(b, "link")
  /\ IF file # Free /\ LinkClaims
     THEN dest' = file /\ recoverable' = recoverable \cup {file} /\ Advance(b)
     ELSE /\ Return(b, IF file = Free THEN "error" ELSE "exists", "drop")
          /\ UNCHANGED <<dest, recoverable>>
  /\ UNCHANGED <<nonce, names, tracked, dropped, identity, inputs, faults>>

(* remove_temporary fails too when the name is gone. *)
Unlink(b) ==
  /\ Doing(b, "unlink")
  /\ names' = [names EXCEPT ![Own(b, "commit")] = Free]
  /\ IF names[Own(b, "commit")] = Free THEN Return(b, "error", "rollback") ELSE Advance(b)
  /\ UNCHANGED <<nonce, dest, recoverable, tracked, dropped, identity, inputs, faults>>

NotSynced == recoverable
Synced == {dest}

Sync(b) ==
  /\ Doing(b, "sync")
  /\ recoverable' = Synced
  /\ Return(b, "published", "drop")
  /\ UNCHANGED <<nonce, names, dest, tracked, dropped, identity, inputs, faults>>

(* A step fails: after the link the destination is withdrawn. *)
FailsForward(b) == "drop"
FailsTo(b) == IF Doing(b, "unlink") \/ Doing(b, "sync") THEN "rollback" ELSE "drop"

StepFails(b) ==
  /\ mode[b] = "build" /\ Fault
  /\ tracked' = IF Doing(b, "create") THEN Track(b) ELSE tracked
  /\ Return(b, "error", FailsTo(b))
  /\ UNCHANGED <<nonce, files, dropped, identity, inputs>>

-----------------------------------------------------------------------------
(* recover_after_publication: rollback_final, then remove_file_if_exists.  *)
Continue(b, from, to) ==
  mode[b] = from /\ mode' = [mode EXCEPT ![b] = to] /\ UNCHANGED <<at, outcome>>

RollbackCompare(b) ==
  /\ Continue(b, "rollback", IF dest # Free /\ dest = identity[b] THEN "rollback_remove" ELSE "cleanup")
  /\ UNCHANGED <<nonce, files, tracked, dropped, identity, inputs, faults>>

RollbackRemove(b) ==
  /\ Continue(b, "rollback_remove", "rollback_sync")
  /\ dest' = Free /\ recoverable' = recoverable \cup {Free}
  /\ UNCHANGED <<nonce, names, tracked, dropped, identity, inputs, faults>>

RollbackSync(b) ==
  /\ Continue(b, "rollback_sync", "cleanup")
  /\ recoverable' = Synced
  /\ UNCHANGED <<nonce, names, dest, tracked, dropped, identity, inputs, faults>>

Cleanup(b) ==
  /\ Continue(b, "cleanup", "drop")
  /\ names' = [names EXCEPT ![Own(b, "commit")] = Free]
  /\ UNCHANGED <<nonce, dest, recoverable, tracked, dropped, identity, inputs, faults>>

RecoveryFails(b) ==
  /\ Fault
  /\ \E from \in {"rollback", "rollback_remove", "rollback_sync", "cleanup"} :
       /\ mode[b] = from
       /\ mode' = [mode EXCEPT ![b] = IF from = "cleanup" THEN "drop" ELSE "cleanup"]
  /\ outcome' = [outcome EXCEPT ![b].reported = TRUE]
  /\ UNCHANGED <<nonce, files, at, tracked, dropped, identity, inputs>>

-----------------------------------------------------------------------------
(* Drop for TemporaryFiles: one name per step; failures are ignored.       *)
DropName(b) ==
  /\ mode[b] = "drop" /\ dropped[b] < tracked[b]
  /\ dropped' = [dropped EXCEPT ![b] = @ + 1]
  /\ \/ /\ names' = [names EXCEPT ![Own(b, Suffix[dropped[b] + 1])] = Free]
        /\ UNCHANGED <<outcome, faults>>
     \/ /\ Fault
        /\ outcome' = [outcome EXCEPT ![b].leaked = TRUE]
        /\ UNCHANGED names
  /\ UNCHANGED <<nonce, dest, recoverable, mode, at, tracked, identity, inputs>>

DropDone(b) ==
  /\ dropped[b] = tracked[b]
  /\ Continue(b, "drop", "done")
  /\ UNCHANGED <<nonce, files, tracked, dropped, identity, inputs, faults>>

Stopped(b) == mode[b] \in {"done", "crashed"}

Crash(b) ==
  /\ ~Stopped(b) /\ Fault
  /\ mode' = [mode EXCEPT ![b] = "crashed"]
  /\ UNCHANGED <<nonce, files, at, tracked, dropped, identity, outcome, inputs>>

PowerLoss ==
  /\ Fault
  /\ \E file \in recoverable : dest' = file /\ recoverable' = {file}
  /\ mode' = [b \in Builder |-> IF Stopped(b) THEN mode[b] ELSE "crashed"]
  /\ UNCHANGED <<nonce, names, at, tracked, dropped, identity, outcome, inputs>>

Build(b) ==
  \/ Check(b) \/ CreateFile(b) \/ OpenFile(b) \/ WriteContainer(b)
  \/ TakeIdentity(b) \/ Link(b) \/ Unlink(b) \/ Sync(b) \/ StepFails(b)
  \/ RollbackCompare(b) \/ RollbackRemove(b) \/ RollbackSync(b) \/ Cleanup(b) \/ RecoveryFails(b)
  \/ DropName(b) \/ DropDone(b)

Next == (\E b \in Builder : Build(b) \/ Crash(b)) \/ PowerLoss

Spec == Init /\ [][Next]_vars

-----------------------------------------------------------------------------
(* Properties                                                              *)

NoThreeShare ==
  \A b, c, d \in Builder :
    nonce[b] = nonce[c] /\ nonce[c] = nonce[d] => b = c \/ c = d \/ b = d

(* The destination never names, now or after a power loss, a container     *)
(* that is not completely written and synced, or one put together from     *)
(* files of two builders, although builders that share a nonce remove each *)
(* other's files by name.                                                  *)
OnlyOwnComplete ==
  NoThreeShare =>
    \A file \in (recoverable \cup {dest}) \ {Free} :
      file[2] = "commit" /\ file[1] \in complete \ mixed

(* A build that returned Ok has its own container at the destination, it   *)
(* stays there whatever the other builders do, and no power loss undoes    *)
(* it.                                                                     *)
PublishedIsDurable ==
  NoThreeShare =>
    \A b \in Builder :
      outcome[b].result = "published" => dest = Commit(b) /\ recoverable = {Commit(b)}

(* A build that returned an error leaves no temporary name of its own and  *)
(* no destination, nor one that a power loss could bring back, unless its  *)
(* error or an ignored failure of a removal says otherwise.                *)
FailedLeavesNothing ==
  \A b \in Builder :
    mode[b] = "done" /\ ~outcome[b].leaked =>
      /\ \A n \in Name : names[n] = Free \/ names[n][1] # b
      /\ NoThreeShare /\ outcome[b].result # "published" /\ ~outcome[b].reported
           => Commit(b) \notin recoverable \cup {dest}

(* Builders with nonces of their own never disturb each other: without a   *)
(* fault one of them publishes.                                            *)
Decided ==
  (\A b, c \in Builder : b # c => nonce[b] # nonce[c])
    => faults > 0 \/ \E b \in Builder : outcome[b].result = "published"

-----------------------------------------------------------------------------
(* The inductive invariant behind these properties                         *)

Step == 1..15     \* DOMAIN Program

TypeOK ==
  /\ nonce \in [Builder -> Nonce] /\ names \in [Name -> File \cup {Free}]
  /\ mode \in [Builder -> Mode]
  /\ at \in [Builder -> Step]
  /\ tracked \in [Builder -> 0..5] /\ dropped \in [Builder -> 0..5]
  /\ identity \in [Builder -> File \cup {Free}]
  /\ outcome \in [Builder -> [result : {"none", "published", "exists", "error"},
                              reported : BOOLEAN, leaked : BOOLEAN]]
  /\ complete \subseteq Builder /\ mixed \subseteq Builder

(* A file has the name its builder gave it, which the builder tracked      *)
(* before, and loses it when the builder drops the name.                   *)
TrackedBefore ==
  \A n \in Name : names[n] = Free \/
    \E b \in Builder, i \in 1..5 :
      /\ n = Own(b, Suffix[i]) /\ names[n] = <<b, Suffix[i]>>
      /\ i <= tracked[b]
      /\ i <= dropped[b] => outcome[b].leaked

(* The files a build has created before each step. *)
CreatedAt == <<0, 0, 1, 1, 2, 3, 3, 3, 4, 5, 5, 5, 5, 5, 5>>

InStep ==
  \A b \in Builder :
    /\ mode[b] = "build" => tracked[b] = TrackedAt[at[b]] /\ outcome[b].result = "none"
    /\ mode[b] \in Mode \ {"drop", "done", "crashed"} => dropped[b] = 0
    /\ dropped[b] <= tracked[b]
    /\ mode[b] = "done" => dropped[b] = tracked[b]

(* A builder past its first file: of two that share a nonce only one is,   *)
(* and what it has created is its own or was removed by the other, which   *)
(* then creates nothing any more.                                          *)
Active(b) == mode[b] = "build" /\ at[b] > 2

OneActive ==
  \A b, c \in Builder : b # c /\ nonce[b] = nonce[c] /\ Active(b) =>
    /\ ~Active(c)
    /\ names[Own(b, "run")] = Free => mode[c] # "build"

OwnFiles ==
  \A b \in Builder : Active(b) =>
    \A i \in 1..CreatedAt[at[b]] : names[Own(b, Suffix[i])] \in {Free, <<b, Suffix[i]>>}

(* As for the conversions to a lazy index. *)
Linked(b) ==
  \/ Doing(b, "unlink") \/ Doing(b, "sync")
  \/ mode[b] \in {"rollback", "rollback_remove"}

Published(b) == Linked(b) \/ outcome[b].result = "published"

Unpublished(b) ==
  \/ mode[b] = "build" /\ ~Linked(b)
  \/ mode[b] \in {"cleanup", "drop", "done"} /\ outcome[b].result # "published"

DestinationOwned ==
  \A b \in Builder :
    /\ Published(b) => dest = Commit(b)
    /\ Linked(b) \/ Doing(b, "link") => b \in complete /\ identity[b] = Commit(b)
    /\ outcome[b].result = "published" =>
         recoverable = {Commit(b)} /\ mode[b] \in {"drop", "done", "crashed"}
    /\ mode[b] = "rollback_sync" => dest # Commit(b)
    /\ Unpublished(b) /\ ~outcome[b].reported => Commit(b) \notin recoverable \cup {dest}

IInv ==
  /\ TypeOK
  /\ TrackedBefore
  /\ InStep
  /\ NoThreeShare =>
       /\ OneActive
       /\ OwnFiles
       /\ mixed = {}
       /\ \A b \in Builder : Doing(b, "identity") => b \in complete
       /\ \A file \in (recoverable \cup {dest}) \ {Free} : \E b \in complete : file = Commit(b)
       /\ DestinationOwned

=============================================================================
