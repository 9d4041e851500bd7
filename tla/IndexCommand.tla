---------------------------- MODULE IndexCommand ----------------------------
(***************************************************************************)
(* crates/pari-cli: the index command.  Records are read line by line into *)
(* batches, each batch is inserted into a staged persistent index and      *)
(* committed there, and after the last line the staged file is published   *)
(* under the requested name (IndexOutputTransaction) and a summary is      *)
(* printed.  Several commands may be given the same name; their staged     *)
(* names differ.                                                           *)
(*                                                                         *)
(* A file is the command that staged it; each commit replaces the file     *)
(* under the staged name (PersistentIndex), which nobody else uses.        *)
(***************************************************************************)
EXTENDS InputLines

CONSTANTS
  Command,    \* index commands with the same output
  Input,      \* what may be on standard input or in the input file: sequences of lines
  Free,       \* no file has the name
  MaxBatch,   \* bound: --batch-size
  MaxFaults   \* bound: I/O errors, crashes and power losses in a behaviour

CommandAssumption ==
  /\ IsFiniteSet(Command) /\ Free \notin Command
  /\ \A input \in Input : input \in Seq(Line)
  /\ MaxBatch \in Nat /\ MaxFaults \in Nat

-----------------------------------------------------------------------------
VARIABLES
  input, scheme, batch_size,  \* the arguments, alike for every command
  pc,
  line,        \* lines read
  batch,       \* keys waiting for an insert
  store,       \* keys in the staged index, in memory
  committed,   \* keys in the staged file
  staged,      \* commands whose staged name exists
  identity,    \* commands whose identity was taken
  dest, recoverable,
  outcome,     \* exit status
  items,       \* the number of items in the summary
  reported,    \* commands whose error names a failed cleanup
  faults

vars == <<input, scheme, batch_size, pc, line, batch, store, committed, staged, identity, dest,
          recoverable, outcome, items, reported, faults>>
arguments == <<input, scheme, batch_size>>
ingest == <<line, batch, store, committed>>
published == <<dest, recoverable>>
result == <<outcome, items, reported>>

Init ==
  /\ input \in Input /\ scheme \in Scheme /\ batch_size \in 0..MaxBatch
  /\ pc = [c \in Command |-> "begin"]
  /\ line = [c \in Command |-> 0] /\ batch = [c \in Command |-> <<>>]
  /\ store = [c \in Command |-> {}] /\ committed = [c \in Command |-> {}]
  /\ staged = {} /\ identity = {}
  /\ dest = Free /\ recoverable = {Free}
  /\ outcome = [c \in Command |-> "none"] /\ items = [c \in Command |-> 0] /\ reported = {}
  /\ faults = 0

Go(c, from, to) == pc[c] = from /\ pc' = [pc EXCEPT ![c] = to]

Fault == faults < MaxFaults /\ faults' = faults + 1

Status(c, s) == outcome' = [outcome EXCEPT ![c] = s]

(* index, and IndexOutputTransaction::begin *)
Begin(c) ==
  /\ IF batch_size > 0 /\ dest = Free
     THEN Go(c, "begin", "create") /\ UNCHANGED outcome
     ELSE Go(c, "begin", "done") /\ Status(c, "error")
  /\ UNCHANGED <<arguments, ingest, staged, identity, published, items, reported, faults>>

(* PersistentIndex::create at the staged name. *)
Create(c) ==
  /\ Go(c, "create", "read")
  /\ staged' = staged \cup {c}
  /\ UNCHANGED <<arguments, ingest, identity, published, result, faults>>

-----------------------------------------------------------------------------
(* for_json_lines with the closure of build_index.                         *)
ReadLine(c) ==
  LET next == input[line[c] + 1] IN
  /\ line[c] < Len(input)
  /\ line' = [line EXCEPT ![c] = @ + 1]
  /\ IF next.text = "blank"
     THEN Go(c, "read", "read") /\ UNCHANGED <<batch, outcome>>
     ELSE IF next.text = "record" /\ MakeSketch(next, scheme)
          THEN /\ batch' = [batch EXCEPT ![c] = Append(@, next.key)]
               /\ Go(c, "read", IF Len(batch'[c]) = batch_size THEN "insert" ELSE "read")
               /\ UNCHANGED outcome
          ELSE Go(c, "read", "abort") /\ Status(c, "error") /\ UNCHANGED batch
  /\ UNCHANGED <<arguments, store, committed, staged, identity, published, items, reported, faults>>

(* The last, smaller batch. *)
RestDropped(c) == "sync"
Rest(c) == IF batch[c] = <<>> THEN "sync" ELSE "insert"

EndOfInput(c) ==
  /\ line[c] = Len(input)
  /\ Go(c, "read", Rest(c))
  /\ UNCHANGED <<arguments, ingest, staged, identity, published, result, faults>>

(* insert_many: all keys of the batch, or an error. *)
InsertMany(c) ==
  LET keys == Range(batch[c]) IN
  /\ IF IsInjective(batch[c]) /\ keys \cap store[c] = {}
     THEN /\ store' = [store EXCEPT ![c] = @ \cup keys]
          /\ Go(c, "insert", "sync") /\ UNCHANGED outcome
     ELSE Go(c, "insert", "abort") /\ Status(c, "error") /\ UNCHANGED store
  /\ UNCHANGED <<arguments, line, batch, committed, staged, identity, published, items, reported, faults>>

(* store.sync, and the batch is cleared; after the last line the summary   *)
(* is taken and the store closed.                                          *)
NotCleared(c) == batch[c]
Cleared(c) == <<>>

Sync(c) ==
  /\ committed' = [committed EXCEPT ![c] = store[c]]
  /\ batch' = [batch EXCEPT ![c] = Cleared(c)]
  /\ IF line[c] = Len(input) /\ Len(batch[c]) < batch_size
     THEN /\ Go(c, "sync", "publish")
          /\ items' = [items EXCEPT ![c] = Cardinality(store[c])]
     ELSE Go(c, "sync", "read") /\ UNCHANGED items
  /\ UNCHANGED <<arguments, line, store, staged, identity, published, outcome, reported, faults>>

-----------------------------------------------------------------------------
(* IndexOutputTransaction::publish_with                                    *)
TakeIdentity(c) ==
  /\ Go(c, "publish", "link")
  /\ identity' = identity \cup {c}
  /\ UNCHANGED <<arguments, ingest, staged, published, result, faults>>

LinkReplaces == TRUE
LinkClaims == dest = Free

Link(c) ==
  /\ IF LinkClaims
     THEN /\ dest' = c /\ recoverable' = recoverable \cup {c}
          /\ Go(c, "link", "unlink") /\ UNCHANGED outcome
     ELSE Go(c, "link", "abort") /\ Status(c, "error") /\ UNCHANGED published
  /\ UNCHANGED <<arguments, ingest, staged, identity, items, reported, faults>>

(* The staged name goes, then its companion name, which no store uses. *)
RemoveStaged(c) ==
  /\ Go(c, "unlink", "companion")
  /\ staged' = staged \ {c}
  /\ UNCHANGED <<arguments, ingest, identity, published, result, faults>>

RemoveCompanion(c) ==
  /\ Go(c, "companion", "sync_parent")
  /\ UNCHANGED <<arguments, ingest, staged, identity, published, result, faults>>

NotSynced == recoverable
Synced == {dest}

SyncParent(c) ==
  /\ Go(c, "sync_parent", "summary")
  /\ recoverable' = Synced
  /\ UNCHANGED <<arguments, ingest, staged, identity, dest, result, faults>>

(* The summary is printed after the publication: when standard output      *)
(* cannot be written, println! panics, and the published index stays.      *)
PrintSummary(c) ==
  /\ Go(c, "summary", "done")
  /\ Status(c, "ok")
  /\ UNCHANGED <<arguments, ingest, staged, identity, published, items, reported, faults>>

PrintSummaryFails(c) ==
  /\ Fault
  /\ Go(c, "summary", "done")
  /\ Status(c, "panic")
  /\ UNCHANGED <<arguments, ingest, staged, identity, published, items, reported>>

(* A step fails: the staged index could not be created or reopened, the    *)
(* input, a progress event, a commit or a publication step failed.         *)
FailsTo(c) == IF pc[c] \in {"unlink", "companion", "sync_parent"} THEN "rollback" ELSE "abort"

StepFails(c) ==
  /\ Fault
  /\ pc[c] \in {"create", "read", "insert", "sync", "publish", "link", "unlink", "companion", "sync_parent"}
  /\ Go(c, pc[c], FailsTo(c))
  /\ \E made \in SUBSET {c} : (made # {} => pc[c] = "create") /\ staged' = staged \cup made
  /\ Status(c, "error")
  /\ UNCHANGED <<arguments, ingest, identity, published, items, reported>>

-----------------------------------------------------------------------------
(* recover_after_publication: rollback_final, then remove_staged_files.    *)
RollbackCompare(c) ==
  /\ Go(c, "rollback", IF dest = c /\ c \in identity THEN "rollback_remove" ELSE "abort")
  /\ UNCHANGED <<arguments, ingest, staged, identity, published, result, faults>>

RollbackRemove(c) ==
  /\ Go(c, "rollback_remove", "rollback_sync")
  /\ dest' = Free /\ recoverable' = recoverable \cup {Free}
  /\ UNCHANGED <<arguments, ingest, staged, identity, result, faults>>

RollbackSync(c) ==
  /\ Go(c, "rollback_sync", "abort")
  /\ recoverable' = Synced
  /\ UNCHANGED <<arguments, ingest, staged, identity, dest, result, faults>>

(* remove_staged_files, from abort, from the recovery or from Drop. *)
KeepStaged(c) == staged
RemoveStagedFiles(c) == staged \ {c}

Abort(c) ==
  /\ \/ Go(c, "abort", "done") \/ Go(c, "drop", "done")
  /\ staged' = RemoveStagedFiles(c)
  /\ UNCHANGED <<arguments, ingest, identity, published, result, faults>>

(* A cleanup fails: the error says so, and Drop tries once more. *)
RecoveryFails(c) ==
  /\ Fault
  /\ \/ \E from \in {"rollback", "rollback_remove", "rollback_sync"} : Go(c, from, "abort")
     \/ Go(c, "abort", "drop")
     \/ Go(c, "drop", "done")
  /\ reported' = reported \cup {c}
  /\ UNCHANGED <<arguments, ingest, staged, identity, published, outcome, items>>

Stopped(c) == pc[c] \in {"done", "crashed"}

Crash(c) ==
  /\ ~Stopped(c) /\ Fault
  /\ pc' = [pc EXCEPT ![c] = "crashed"]
  /\ UNCHANGED <<arguments, ingest, staged, identity, published, result>>

PowerLoss ==
  /\ Fault
  /\ \E file \in recoverable : dest' = file /\ recoverable' = {file}
  /\ pc' = [c \in Command |-> IF Stopped(c) THEN pc[c] ELSE "crashed"]
  /\ UNCHANGED <<arguments, ingest, staged, identity, result>>

Index(c) ==
  \/ Begin(c) \/ Create(c) \/ ReadLine(c) \/ EndOfInput(c) \/ InsertMany(c) \/ Sync(c)
  \/ TakeIdentity(c) \/ Link(c) \/ RemoveStaged(c) \/ RemoveCompanion(c) \/ SyncParent(c)
  \/ PrintSummary(c) \/ PrintSummaryFails(c) \/ StepFails(c)
  \/ RollbackCompare(c) \/ RollbackRemove(c) \/ RollbackSync(c) \/ Abort(c) \/ RecoveryFails(c)

Next == (\E c \in Command : Index(c) \/ Crash(c)) \/ PowerLoss

Spec == Init /\ [][Next]_vars

-----------------------------------------------------------------------------
(* Properties                                                              *)

(* Exits that are reached only after the publication. *)
Printing == {"ok", "panic"}

(* "Invalid or unreadable input therefore leaves no partial index at the   *)
(* final path" (docs/cli.md): whatever the output names, now or after a    *)
(* power loss, is an index of the whole input, although batches were       *)
(* committed before a later line failed.                                   *)
OnlyWholeInput ==
  \A c \in (recoverable \cup {dest}) \ {Free} : Usable(input, scheme) /\ committed[c] = KeysOf(input)

(* A command that exits with success has published its own index, durably, *)
(* and reports as many items as the index holds; one that could not print  *)
(* its summary has published the same.                                     *)
SucceededIsDurable ==
  \A c \in Command : outcome[c] \in Printing =>
    dest = c /\ recoverable = {c} /\ items[c] = Cardinality(committed[c])

(* A command that returns an error that names no failed cleanup leaves     *)
(* neither its staged file nor an output, also when it had published one.  *)
(* (A summary that cannot be printed is a panic, not an error of index.)   *)
FailedLeavesNothing ==
  \A c \in Command :
    pc[c] = "done" /\ outcome[c] = "error" /\ c \notin reported =>
      c \notin staged /\ c \notin recoverable \cup {dest}

(* Usable input is indexed: whatever the batch size and the commands that  *)
(* race for the name, one of them succeeds unless some I/O fails.          *)
Indexed ==
  Usable(input, scheme) /\ batch_size > 0 => faults > 0 \/ \E c \in Command : outcome[c] = "ok"

-----------------------------------------------------------------------------
(* The inductive invariant                                                 *)
Ingesting == {"begin", "create", "read", "insert"}
Unlinked == Ingesting \cup {"sync", "publish", "link"}
Linked == {"unlink", "companion", "sync_parent", "rollback", "rollback_remove"}
Ending == {"abort", "drop", "done"}
Phase == Unlinked \cup Linked \cup Ending \cup {"rollback_sync", "summary", "crashed"}

(* Types, for every state of the commands. *)
TypeOK ==
  /\ input \in Input /\ scheme \in Scheme /\ batch_size \in Nat
  /\ pc \in [Command -> Phase] /\ line \in [Command -> Nat] /\ batch \in [Command -> Seq(Nat)]
  /\ store \in [Command -> SUBSET Nat] /\ committed \in [Command -> SUBSET Nat]
  /\ staged \subseteq Command /\ identity \subseteq Command
  /\ dest \in Command \cup {Free} /\ recoverable \subseteq Command \cup {Free}
  /\ outcome \in [Command -> {"none", "error"} \cup Printing] /\ DOMAIN items = Command
  /\ reported \subseteq Command

(* Until it is published, the staged index and the batch are the lines read so far. *)
ReadSoFar(c) ==
  /\ pc[c] \in Ingesting => Ingested(input, scheme, line[c], batch[c], store[c])
  /\ pc[c] = "sync" => Ingested(input, scheme, line[c], <<>>, store[c])

Named(c) == c \in recoverable \cup {dest}

(* What is about to be published, or can be found under the name, is whole. *)
WholeWhenNamed(c) ==
  pc[c] \in {"publish", "link"} \/ Named(c) =>
    /\ Usable(input, scheme) /\ committed[c] = KeysOf(input)
    /\ items[c] = Cardinality(committed[c])

(* Who holds the name, from the link to the exit or the rollback. *)
HoldsName(c) ==
  /\ pc[c] \in Unlinked => ~Named(c)
  /\ pc[c] \in Linked => dest = c
  /\ pc[c] \in Linked \cup {"link"} => c \in identity
  /\ pc[c] = "rollback_sync" => dest # c
  /\ pc[c] \in Ending /\ outcome[c] \notin Printing /\ c \notin reported => ~Named(c)
  /\ outcome[c] \in Printing => pc[c] = "done"
  /\ pc[c] = "summary" \/ outcome[c] \in Printing => dest = c /\ recoverable = {c}

StagedRemoved(c) ==
  /\ pc[c] = "begin" => c \notin staged
  /\ pc[c] = "done" /\ outcome[c] = "error" /\ c \notin reported => c \notin staged

IInv ==
  TypeOK /\ \A c \in Command : ReadSoFar(c) /\ WholeWhenNamed(c) /\ HoldsName(c) /\ StagedRemoved(c)

=============================================================================
