--------------------------- MODULE PersistentIndex ---------------------------
(***************************************************************************)
(* crates/pari-store: PersistentIndexCore, the single-writer local index.  *)
(*                                                                         *)
(* A handle merges three things into every answer: the committed           *)
(* generation it opened (base), the mutations since (overlay), and the     *)
(* committed keys hidden until the next compaction (suppressed_base_keys). *)
(* A commit stages a complete snapshot in a temporary file, renames it     *)
(* over the target, syncs the directory when asked, and reopens the        *)
(* target.  Every one of those steps may fail, and the process or the      *)
(* machine may stop between any two of them.                               *)
(*                                                                         *)
(* One handle is modelled: docs/persistence.md allows one writer per path. *)
(* The commit holds &mut self, so no operation of the handle runs inside   *)
(* it; what can happen inside it is a fault or a crash.                    *)
(***************************************************************************)
EXTENDS IndexTypes, Naturals, FiniteSets

CONSTANTS
  None,        \* Option::None
  Torn,        \* a file whose bytes never reached the disk completely
  MaxBatch,    \* bound: longest insert_many batch
  MaxFaults,   \* bound: I/O errors, crashes and power losses in a behaviour
  MaxUnsynced  \* bound: generations whose directory entry may be volatile

ASSUME BoundAssumption == MaxBatch \in Nat /\ MaxFaults \in Nat /\ MaxUnsynced \in Nat

VARIABLES
  (* The file system. *)
  target,        \* what the index path names now
  recoverable,   \* what the path may name after a power loss
  temporaries,   \* how many temporary names lie beside it
  (* The handle: PersistentIndexCore. *)
  base,                  \* Option<LazyBase>: bucket tables read from disk
  overlay_buckets,       \* uncommitted bucket tables
  overlay_keys,          \* keys whose current row is in the overlay
  suppressed_base_keys,  \* committed keys hidden from queries
  key_hashes,            \* every live key and its row
  dirty,
  (* Control: where a commit stands, and what the last call reported. *)
  temp,          \* the OwnedTemporaryFile of the commit under way, or None
  pc,
  call,          \* the entry point that runs the commit
  parent_error,  \* the directory sync after the rename failed
  report,
  faults,
  (* History, for the properties. *)
  abandoned      \* temporary names given up: by a crash, or by an error that says so

fsVars == <<target, recoverable>>
temporaryVars == <<temporaries, temp, abandoned>>
indexVars == <<base, overlay_buckets, overlay_keys, suppressed_base_keys,
               key_hashes, dirty>>
vars == <<target, recoverable, temporaries, base, overlay_buckets, overlay_keys,
          suppressed_base_keys, key_hashes, dirty, temp, pc, call, parent_error,
          report, faults, abandoned>>

(* A complete index file.  A phase-1 file has no Buckets section. *)
Snapshot == [rows : Rows, buckets : Tables \cup {None}]

File == Snapshot \cup {Torn}

(* A transaction-owned temporary file. *)
Temporary == [file : Snapshot, synced : BOOLEAN]

ASSUME NoneAssumption == None \notin Tables /\ None \notin Temporary
ASSUME TornAssumption == Torn \notin Snapshot

Calls == {"flush", "sync", "close", "py_close"}

(* The entry points that pass sync_parent = true to commit. *)
SyncsParent(c) == c # "flush"

-----------------------------------------------------------------------------
(***************************************************************************)
(* Opening a file                                                          *)
(***************************************************************************)

(* The handle open() builds from a file: lazy buckets and a clean handle,  *)
(* or, for a legacy file, every key rebuilt into the overlay of a dirty    *)
(* handle with no base.                                                    *)
LoadFrom(file) ==
  /\ key_hashes' = file.rows
  /\ suppressed_base_keys' = {}
  /\ IF file.buckets = None
       THEN /\ base' = None
            /\ overlay_buckets' = Materialize(file.rows)
            /\ overlay_keys' = Live(file.rows)
       ELSE /\ base' = file.buckets
            /\ overlay_buckets' = EmptyTables
            /\ overlay_keys' = {}

(* rebuild_overlay_all: every live key moves to the overlay and the base   *)
(* is forgotten.                                                           *)
RebuildOverlayAll ==
  /\ overlay_buckets' = Materialize(key_hashes)
  /\ overlay_keys' = Live(key_hashes)
  /\ suppressed_base_keys' = {}
  /\ base' = None

(* The handle is dropped or its process is gone. *)
DropHandle ==
  /\ base' = None
  /\ overlay_buckets' = EmptyTables
  /\ overlay_keys' = {}
  /\ suppressed_base_keys' = {}
  /\ key_hashes' = NoRows
  /\ dirty' = FALSE

-----------------------------------------------------------------------------
(* An index file, current or legacy, that earlier runs left on disk. *)
CommittedFile(rows) ==
  {[rows |-> rows, buckets |-> Materialize(rows)], [rows |-> rows, buckets |-> None]}

Init ==
  /\ \E rows \in Rows : target \in CommittedFile(rows)
  /\ recoverable = {target}
  /\ temporaries = 0 /\ temp = None /\ abandoned = 0
  /\ base = None
  /\ overlay_buckets = EmptyTables
  /\ overlay_keys = {}
  /\ suppressed_base_keys = {}
  /\ key_hashes = NoRows
  /\ dirty = FALSE
  /\ pc = "closed"
  /\ call = "none"
  /\ parent_error = FALSE
  /\ report = "none"
  /\ faults = 0

Fault == faults < MaxFaults /\ faults' = faults + 1

(* A legacy handle is dirty from the start, so the next commit upgrades    *)
(* the file.                                                               *)
OpensCleanAlways(file) == FALSE
OpensDirty(file) == file.buckets = None

(* PersistentIndex32/64::open. *)
Open ==
  /\ pc = "closed"
  /\ target # Torn
  /\ LoadFrom(target)
  /\ dirty' = OpensDirty(target)
  /\ pc' = "idle"
  /\ report' = "none"
  /\ UNCHANGED <<target, recoverable, temporaryVars, call, parent_error, faults>>

(* Reading or validating the file failed: there is no handle. *)
OpenFails ==
  /\ pc = "closed"
  /\ Fault
  /\ report' = "error"
  /\ UNCHANGED <<fsVars, temporaryVars, indexVars, pc, call, parent_error>>

-----------------------------------------------------------------------------
(***************************************************************************)
(* Mutations                                                               *)
(***************************************************************************)

Batch == UNION {[1..n -> [key : Key, row : Row]] : n \in 0..MaxBatch}

(* The whole batch is validated before anything changes. *)
NoDuplicate(batch) ==
  \A i \in DOMAIN batch :
    /\ batch[i].key \notin Live(key_hashes)
    /\ \A j \in DOMAIN batch : batch[j].key = batch[i].key => i = j

BatchKeys(batch) == {batch[i].key : i \in DOMAIN batch}

BatchRow(batch, k) == batch[CHOOSE i \in DOMAIN batch : batch[i].key = k].row

(* insert_overlay of every item. *)
InsertMany(batch) ==
  /\ pc = "idle"
  /\ NoDuplicate(batch)
  /\ key_hashes' = [k \in Key |-> IF k \in BatchKeys(batch)
                                    THEN BatchRow(batch, k) ELSE key_hashes[k]]
  /\ overlay_buckets' =
       [b \in Band |-> [h \in Hash |->
          overlay_buckets[b][h] \cup {k \in BatchKeys(batch) : BatchRow(batch, k)[b] = h}]]
  /\ overlay_keys' = overlay_keys \cup BatchKeys(batch)
  /\ dirty' = (dirty \/ BatchKeys(batch) # {})
  /\ report' = "none"
  /\ UNCHANGED <<fsVars, temporaryVars, base, suppressed_base_keys, pc, call, parent_error,
                 faults>>

InsertRejected(batch) ==
  /\ pc = "idle"
  /\ ~NoDuplicate(batch)
  /\ report' = "duplicate"
  /\ UNCHANGED <<fsVars, temporaryVars, indexVars, pc, call, parent_error, faults>>

(* remove_overlay_key: the key leaves the bucket of its row in every band. *)
RemoveOverlayNothing(tables, k, row) == tables
RemoveOverlayKey(tables, k, row) ==
  [b \in Band |-> [h \in Hash |-> IF h = row[b] THEN tables[b][h] \ {k}
                                                ELSE tables[b][h]]]

SuppressNothing(k) == suppressed_base_keys
Suppress(k) ==
  IF base # None /\ k \notin overlay_keys
    THEN suppressed_base_keys \cup {k} ELSE suppressed_base_keys

(* remove: a key whose row came from the base is suppressed, a key whose   *)
(* row is in the overlay just leaves it.                                   *)
Remove(k) ==
  /\ pc = "idle"
  /\ k \in Live(key_hashes)
  /\ key_hashes' = [key_hashes EXCEPT ![k] = Absent]
  /\ overlay_keys' = overlay_keys \ {k}
  /\ overlay_buckets' = RemoveOverlayKey(overlay_buckets, k, key_hashes[k])
  /\ suppressed_base_keys' = Suppress(k)
  /\ dirty' = TRUE
  /\ report' = "none"
  /\ UNCHANGED <<fsVars, temporaryVars, base, pc, call, parent_error, faults>>

(* collect_candidates: base members that are live and not suppressed, then *)
(* overlay members, then only the live ones.                               *)
BaseCandidates(probe) ==
  IF base = None THEN {}
  ELSE {k \in Members(base, probe) :
          k \in Live(key_hashes) /\ k \notin suppressed_base_keys}

Query(probe) ==
  {k \in BaseCandidates(probe) \cup Members(overlay_buckets, probe) :
     k \in Live(key_hashes)}

-----------------------------------------------------------------------------
(***************************************************************************)
(* Commit: flush, sync, close and the Python close                         *)
(***************************************************************************)

(* The call returns r.  The Rust close consumes its handle whatever        *)
(* happened; the Python close drops it only after a successful sync.       *)
Return(c, r) ==
  /\ report' = r
  /\ call' = "none"
  /\ pc' = IF c = "close" \/ (c = "py_close" /\ r # "error")
             THEN "closed" ELSE "idle"

Success(c) == IF SyncsParent(c) THEN "durable" ELSE "committed"

(* sync_parent_directory makes the present directory entry the only one a  *)
(* power loss can leave.                                                   *)
CleanNeedsNoSync(c) == recoverable
AfterCleanCommit(c) == IF SyncsParent(c) THEN {target} ELSE recoverable

(* commit on a clean handle only syncs the directory. *)
CommitClean(c) ==
  /\ pc = "idle"
  /\ ~dirty
  /\ recoverable' = AfterCleanCommit(c)
  /\ Return(c, Success(c))
  /\ IF pc' = "closed" THEN DropHandle ELSE UNCHANGED indexVars
  /\ UNCHANGED <<target, temporaryVars, parent_error, faults>>

CommitCleanFails(c) ==
  /\ pc = "idle"
  /\ ~dirty
  /\ SyncsParent(c)
  /\ Fault
  /\ Return(c, "error")
  /\ IF pc' = "closed" THEN DropHandle ELSE UNCHANGED indexVars
  /\ UNCHANGED <<fsVars, temporaryVars, parent_error>>

(* encode_snapshot: the snapshot is rebuilt from key_hashes alone. *)
EncodeOverlayOnly ==
  LET rows == [k \in Key |-> IF k \in overlay_keys THEN key_hashes[k] ELSE Absent]
  IN  [rows |-> rows, buckets |-> Materialize(rows)]
EncodeSnapshot == [rows |-> key_hashes, buckets |-> Materialize(key_hashes)]

(* write_synced: the file is complete on disk before it is published. *)
WriteUnsynced(snapshot) == [file |-> snapshot, synced |-> FALSE]
WriteSynced(snapshot) == [file |-> snapshot, synced |-> TRUE]

(* stage_snapshot succeeds. *)
StageOverOpenBase(c) ==
  /\ pc = "idle" /\ dirty /\ base # None
  /\ temp' = WriteSynced(EncodeSnapshot) /\ temporaries' = temporaries + 1
  /\ call' = c
  /\ pc' = "staged"
  /\ report' = "none"
  /\ UNCHANGED <<target, recoverable, indexVars, parent_error, faults, abandoned>>

Stage(c) ==
  /\ pc = "idle"
  /\ dirty
  /\ c = "flush" => Cardinality(recoverable) <= MaxUnsynced
  /\ temp' = WriteSynced(EncodeSnapshot) /\ temporaries' = temporaries + 1
  /\ call' = c
  /\ pc' = "staged"
  /\ report' = "none"
  /\ UNCHANGED <<target, recoverable, indexVars, parent_error, faults, abandoned>>

(* remove_owned_path: the transaction's own temporary name, one of names,  *)
(* goes; a name that another program has taken over is not its own.        *)
KeepOwnedPath(names) == names
RemoveOwnedPath(names) == names - 1

(* cleanup_after, and cleanup_failed_allocation: the temporary name is     *)
(* removed, or it stays and the error of the call says so too.             *)
CleanupAfter(names) ==
  \/ temporaries' = RemoveOwnedPath(names) /\ UNCHANGED abandoned
  \/ temporaries' = names /\ abandoned' = abandoned + 1

(* Staging failed before the temporary name was claimed or, in its         *)
(* allocation or in write_synced, after it; the handle, base included, is  *)
(* as it was.                                                              *)
StageFails(c) ==
  /\ pc = "idle"
  /\ dirty
  /\ Fault
  /\ UNCHANGED <<temporaries, abandoned>> \/ CleanupAfter(temporaries + 1)
  /\ Return(c, "error")
  /\ IF pc' = "closed" THEN DropHandle ELSE UNCHANGED indexVars
  /\ UNCHANGED <<target, recoverable, temp, parent_error>>

(* publish_replace: base is closed, then the rename makes the new          *)
(* generation the target.  Until the directory is synced a power loss may  *)
(* bring back any generation the directory entry has had.                  *)
Publish ==
  /\ pc = "staged"
  /\ base' = None
  /\ target' = temp.file
  /\ recoverable' = recoverable \cup {IF temp.synced THEN temp.file ELSE Torn}
  /\ temp' = None /\ temporaries' = temporaries - 1
  /\ pc' = IF SyncsParent(call) THEN "renamed" ELSE "published"
  /\ UNCHANGED <<overlay_buckets, overlay_keys, suppressed_base_keys, key_hashes,
                 dirty, call, parent_error, report, faults, abandoned>>

(* The identity check or the rename failed: the temporary file is cleaned  *)
(* up and every key moves to the overlay, because base is already closed.  *)
PublishFails ==
  /\ pc = "staged"
  /\ Fault
  /\ CleanupAfter(temporaries) /\ temp' = None
  /\ Return(call, "error")
  /\ IF pc' = "closed" THEN DropHandle
     ELSE RebuildOverlayAll /\ UNCHANGED <<key_hashes, dirty>>
  /\ UNCHANGED <<target, recoverable, parent_error>>

SyncParentDirectory ==
  /\ pc = "renamed"
  /\ recoverable' = {target}
  /\ parent_error' = FALSE
  /\ pc' = "published"
  /\ UNCHANGED <<target, temporaryVars, indexVars, call, report, faults>>

SyncParentDirectoryIgnored ==
  /\ pc = "renamed"
  /\ Fault
  /\ pc' = "published"
  /\ UNCHANGED <<fsVars, temporaryVars, indexVars, call, parent_error, report>>

SyncParentDirectoryFails ==
  /\ pc = "renamed"
  /\ Fault
  /\ parent_error' = TRUE
  /\ pc' = "published"
  /\ UNCHANGED <<fsVars, temporaryVars, indexVars, call, report>>

(* refresh_after_commit: the handle is replaced by one opened on the       *)
(* target, kept dirty when the directory sync failed.                      *)
Refresh ==
  /\ pc = "published"
  /\ target # Torn
  /\ Return(call, IF parent_error THEN "error" ELSE Success(call))
  /\ IF pc' = "closed" THEN DropHandle
     ELSE LoadFrom(target) /\ dirty' = (parent_error \/ OpensDirty(target))
  /\ parent_error' = FALSE
  /\ UNCHANGED <<fsVars, temporaryVars, faults>>

(* The published target could not be reopened. *)
RefreshFails ==
  /\ pc = "published"
  /\ Fault
  /\ Return(call, "error")
  /\ IF pc' = "closed" THEN DropHandle
     ELSE RebuildOverlayAll /\ dirty' = TRUE /\ UNCHANGED key_hashes
  /\ parent_error' = FALSE
  /\ UNCHANGED <<fsVars, temporaryVars>>

-----------------------------------------------------------------------------
(***************************************************************************)
(* Losing the handle                                                       *)
(***************************************************************************)

(* How many temporary names the commit under way owns. *)
Owned == IF temp = None THEN 0 ELSE 1

(* The handle is dropped without a commit, or its process dies at any      *)
(* point of a commit.  Its temporary name stays, and is never read again.  *)
Crash ==
  /\ pc # "closed"
  /\ Fault
  /\ DropHandle
  /\ temp' = None /\ abandoned' = abandoned + Owned
  /\ pc' = "closed"
  /\ parent_error' = FALSE
  /\ report' = "none"
  /\ call' = "none"
  /\ UNCHANGED <<fsVars, temporaries>>

(* The machine stops: the directory entry falls back to any generation     *)
(* not yet superseded by a synced one.  With it the last temporary names   *)
(* may go, or one come back whose rename or removal was not synced.        *)
PowerLoss ==
  /\ Fault
  /\ \E file \in recoverable : target' = file /\ recoverable' = {file}
  /\ \E names \in 0..temporaries + 1 : temporaries' = names /\ abandoned' = names
  /\ DropHandle
  /\ temp' = None
  /\ pc' = "closed"
  /\ parent_error' = FALSE
  /\ report' = "none"
  /\ call' = "none"

-----------------------------------------------------------------------------
CommitStep ==
  \/ Publish \/ PublishFails
  \/ SyncParentDirectory \/ SyncParentDirectoryFails
  \/ Refresh \/ RefreshFails

BeginCommit(c) ==
  \/ CommitClean(c) \/ CommitCleanFails(c)
  \/ Stage(c) \/ StageFails(c)

Next ==
  \/ Open \/ OpenFails
  \/ \E batch \in Batch : InsertMany(batch) \/ InsertRejected(batch)
  \/ \E k \in Key : Remove(k)
  \/ \E c \in Calls : BeginCommit(c)
  \/ CommitStep
  \/ Crash \/ PowerLoss

Spec == Init /\ [][Next]_vars

-----------------------------------------------------------------------------
(***************************************************************************)
(* Properties                                                              *)
(***************************************************************************)

(* Types, and: every temporary name beside the index is the one of the     *)
(* commit under way, or was given up by a crash, a power loss or a call    *)
(* whose error says so.  However many commits failed and at whichever      *)
(* step, none leaves a name that nobody knows of ("Pari removes the        *)
(* temporary name after success and ordinary failures",                    *)
(* docs/persistence.md).                                                   *)
TypeOK ==
  /\ target \in File
  /\ recoverable \in SUBSET File
  /\ temporaries \in Nat /\ abandoned \in Nat
  /\ temp \in Temporary \cup {None}
  /\ base \in Tables \cup {None}
  /\ overlay_buckets \in Tables
  /\ overlay_keys \in SUBSET Key
  /\ suppressed_base_keys \in SUBSET Key
  /\ key_hashes \in Rows
  /\ dirty \in BOOLEAN
  /\ pc \in {"closed", "idle", "staged", "renamed", "published"}
  /\ call \in Calls \cup {"none"}
  /\ parent_error \in BOOLEAN
  /\ report \in {"none", "duplicate", "error", "committed", "durable"}
  /\ faults \in 0..MaxFaults
  /\ temporaries = abandoned + Owned

(* Whatever mixture of committed buckets, overlay and suppression a        *)
(* history of inserts, removals, re-insertions, failed and successful      *)
(* commits has left, every query answers exactly the live keys that share  *)
(* a band with the probe: no deleted or replaced row of the committed      *)
(* generation shows through, and no live key is missed.                    *)
QueryExact ==
  pc = "idle" => \A probe \in Row : Query(probe) = Matches(key_hashes, probe)

(* A handle that reports itself clean has nothing the committed file       *)
(* lacks: its live rows are the target's rows and its base reads the       *)
(* target's own buckets.                                                   *)
CleanMeansCommitted ==
  pc = "idle" /\ ~dirty =>
    /\ target.rows = key_hashes
    /\ target.buckets = Materialize(key_hashes)
    /\ base = target.buckets
    /\ overlay_keys = {} /\ suppressed_base_keys = {}

(* No power loss, at any point of any commit, leaves the path naming an    *)
(* incomplete file: the snapshot is synced before the rename exposes it.   *)
NeverTorn == target # Torn /\ Torn \notin recoverable

(* While a successful sync is the last thing that happened to an open      *)
(* handle, every generation a power loss could leave holds exactly the     *)
(* live rows.  A sync of a handle an earlier flush left clean counts too.  *)
DurableReport ==
  pc = "idle" /\ report = "durable" =>
    \A file \in recoverable : file.rows = key_hashes

(* No step of a commit, failed or not, changes the live rows of a handle   *)
(* that survives it: an encoding, publication, directory-sync or reopening *)
(* error never drops or resurrects a mutation.  A step between two idle    *)
(* states is one of a commit when it reports what a commit reports.        *)
CommitKeepsMutations ==
  [][/\ pc # "closed" /\ pc' # "closed"
     /\ pc = "idle" /\ pc' = "idle" => report' \in {"error", "committed", "durable"}
     => key_hashes' = key_hashes]_vars

(* The rows a file holds; an incomplete file holds none of the abstract    *)
(* generations.                                                            *)
RowsOf(file) == IF file = Torn THEN Absent ELSE file.rows

Contract == INSTANCE DurableIndex WITH
  open <- pc # "closed",
  live <- key_hashes,
  current <- RowsOf(target),
  recoverable <- {RowsOf(file) : file \in recoverable}

(* The store implements the contract of DurableIndex: every step of the    *)
(* handle and every fault is one step, or none, of that specification.     *)
ImplementsContract == Contract!Spec

-----------------------------------------------------------------------------
(***************************************************************************)
(* The inductive invariant behind the safety properties                    *)
(***************************************************************************)

(* Every file that is or may become the target is complete, and its        *)
(* buckets, when it has any, are those of its rows.                        *)
WellFormed(file) ==
  file # Torn /\ file.buckets \in {None, Materialize(file.rows)}

FilesWellFormed ==
  /\ WellFormed(target)
  /\ \A file \in recoverable : WellFormed(file)
  /\ temp # None => temp.synced /\ WellFormed(temp.file)

(* The overlay holds exactly the overlay keys, under their current rows. *)
OverlayExact ==
  /\ overlay_keys \subseteq Live(key_hashes)
  /\ overlay_buckets = TablesOf(overlay_keys, key_hashes)

(* Seen through suppression, the base holds exactly the live keys that the *)
(* overlay does not; a suppressed key is live only through the overlay.    *)
BaseExact ==
  IF base = None
    THEN Live(key_hashes) \subseteq overlay_keys
    ELSE /\ \A k \in suppressed_base_keys : k \in Live(key_hashes) => k \in overlay_keys
         /\ \A k \in Key \ suppressed_base_keys, b \in Band, h \in Hash :
              k \in base[b][h] <=> /\ k \in Live(key_hashes)
                                   /\ k \notin overlay_keys
                                   /\ key_hashes[k][b] = h

IndexExact == pc \in {"idle", "staged"} => OverlayExact /\ BaseExact

(* The commit under way owns its temporary file until it is published. *)
StagedOwns == temp = None <=> pc # "staged"

(* What a commit has achieved when it stands at each of its steps. *)
CommitProgress ==
  /\ pc = "staged" => temp.file.rows = key_hashes /\ call # "none"
  /\ pc \in {"renamed", "published"} => target.rows = key_hashes /\ call # "none"
  /\ pc \in {"renamed", "published"} => target.buckets # None
  /\ pc = "staged" => temp.file.buckets # None
  /\ pc = "staged" => dirty
  /\ pc = "published" /\ SyncsParent(call) /\ ~parent_error => recoverable = {target}
  /\ pc # "published" => ~parent_error
  /\ pc \in {"idle", "closed"} => call = "none"

IInv ==
  /\ TypeOK
  /\ StagedOwns
  /\ FilesWellFormed
  /\ IndexExact
  /\ CommitProgress
  /\ CleanMeansCommitted
  /\ DurableReport

=============================================================================
