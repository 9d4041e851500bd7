----------------------------- MODULE Publication -----------------------------
(***************************************************************************)
(* The protocols that publish files without replacing any: create of the   *)
(* persistent index, raced by other creators or by another program (race   *)
(* and foreign), the external builder, the conversion to a lazy index and  *)
(* the staged outputs of a Python workload; and the external builder's     *)
(* spilling and merging (merge), which makes the file it publishes.        *)
(* part is the module a behaviour is about, chosen in the initial state.   *)
(* The modules share no state, so following them one at a time loses       *)
(* nothing; variables that only other modules have are Unused.             *)
(***************************************************************************)

CONSTANTS
  Creator,             \* calls of create, or of build_from_snapshot, ...
  Process, ProcessOf,  \* ... the processes they run in ...
  PidOf,               \* ... and the process id of each process
  Contender,           \* the creators that meet other programs; the external builders
  Intruder,            \* files of other programs
  Nonce,               \* of the external builders
  OutputCount,         \* outputs of a workload
  Free,                \* no file has the name
  None,
  Attempts, MaxForeign, MaxFaults

VARIABLES part, dest, recoverable, names, complete, next, pc, tx, used, faults, nonce,
  mode, at, tracked, dropped, identity, outcome, mixed, named, tries, temp, result,
  reported, source, limit, position, buffer, runs, heads, current, count, offset,
  descriptors, memberships, taken, segments, peak, final, staged, foreign, aliased,
  published, errors, raised, late

vars == <<part, dest, recoverable, names, complete, next, pc, tx, used, faults, nonce,
          mode, at, tracked, dropped, identity, outcome, mixed, named, tries, temp, result,
          reported, source, limit, position, buffer, runs, heads, current, count, offset,
          descriptors, memberships, taken, segments, peak, final, staged, foreign, aliased,
          published, errors, raised, late>>

Unused == "unused"

ContenderProcess == [c \in Contender |-> ProcessOf[c]]

Race == INSTANCE InitialPublicationProofs WITH
  Foreign <- {}

Foreign == INSTANCE InitialPublicationProofs WITH
  Creator <- Contender, ProcessOf <- ContenderProcess, Foreign <- Intruder

Build == INSTANCE BuildPublication WITH
  Builder <- Contender

Lazy == INSTANCE LazyPublication WITH
  Conversion <- Creator

Merge == INSTANCE ExternalBuild WITH
  HeaderSize <- 5, EntrySize <- 4, TargetSize <- 16, MaxSections <- 99,
  MaxSectionSize <- 99, Bands <- 2, Hash <- {0, 1}, MaxItems <- 4, MaxBuffer <- 3

Outputs == INSTANCE StagedOutputs WITH
  Outputs <- OutputCount

ASSUME Assumptions ==
  /\ Race!CreatorAssumption
  /\ Foreign!CreatorAssumption
  /\ Build!BuilderAssumption
  /\ Lazy!ConversionAssumption
  /\ Merge!SegmentAssumption
  /\ Merge!BuildAssumption
  /\ Outputs!OutputsAssumption

Init ==
  \/ /\ part = "race" /\ Race!Init
     /\ nonce = Unused /\ mode = Unused /\ at = Unused /\ tracked = Unused
     /\ dropped = Unused /\ identity = Unused /\ outcome = Unused /\ mixed = Unused
     /\ named = Unused /\ tries = Unused /\ temp = Unused /\ result = Unused
     /\ reported = Unused /\ source = Unused /\ limit = Unused /\ position = Unused
     /\ buffer = Unused /\ runs = Unused /\ heads = Unused /\ current = Unused
     /\ count = Unused /\ offset = Unused /\ descriptors = Unused /\ memberships = Unused
     /\ taken = Unused /\ segments = Unused /\ peak = Unused /\ final = Unused
     /\ staged = Unused /\ foreign = Unused /\ aliased = Unused /\ published = Unused
     /\ errors = Unused /\ raised = Unused /\ late = Unused
  \/ /\ part = "foreign" /\ Foreign!Init
     /\ nonce = Unused /\ mode = Unused /\ at = Unused /\ tracked = Unused
     /\ dropped = Unused /\ identity = Unused /\ outcome = Unused /\ mixed = Unused
     /\ named = Unused /\ tries = Unused /\ temp = Unused /\ result = Unused
     /\ reported = Unused /\ source = Unused /\ limit = Unused /\ position = Unused
     /\ buffer = Unused /\ runs = Unused /\ heads = Unused /\ current = Unused
     /\ count = Unused /\ offset = Unused /\ descriptors = Unused /\ memberships = Unused
     /\ taken = Unused /\ segments = Unused /\ peak = Unused /\ final = Unused
     /\ staged = Unused /\ foreign = Unused /\ aliased = Unused /\ published = Unused
     /\ errors = Unused /\ raised = Unused /\ late = Unused
  \/ /\ part = "build" /\ Build!Init
     /\ next = Unused /\ pc = Unused /\ tx = Unused /\ used = Unused /\ named = Unused
     /\ tries = Unused /\ temp = Unused /\ result = Unused /\ reported = Unused
     /\ source = Unused /\ limit = Unused /\ position = Unused /\ buffer = Unused
     /\ runs = Unused /\ heads = Unused /\ current = Unused /\ count = Unused
     /\ offset = Unused /\ descriptors = Unused /\ memberships = Unused /\ taken = Unused
     /\ segments = Unused /\ peak = Unused /\ final = Unused /\ staged = Unused
     /\ foreign = Unused /\ aliased = Unused /\ published = Unused /\ errors = Unused
     /\ raised = Unused /\ late = Unused
  \/ /\ part = "lazy" /\ Lazy!Init
     /\ names = Unused /\ tx = Unused /\ used = Unused /\ nonce = Unused /\ mode = Unused
     /\ at = Unused /\ tracked = Unused /\ dropped = Unused /\ identity = Unused
     /\ outcome = Unused /\ mixed = Unused /\ source = Unused /\ limit = Unused
     /\ position = Unused /\ buffer = Unused /\ runs = Unused /\ heads = Unused
     /\ current = Unused /\ count = Unused /\ offset = Unused /\ descriptors = Unused
     /\ memberships = Unused /\ taken = Unused /\ segments = Unused /\ peak = Unused
     /\ final = Unused /\ staged = Unused /\ foreign = Unused /\ aliased = Unused
     /\ published = Unused /\ errors = Unused /\ raised = Unused /\ late = Unused
  \/ /\ part = "merge" /\ Merge!Init
     /\ dest = Unused /\ recoverable = Unused /\ names = Unused /\ complete = Unused
     /\ next = Unused /\ tx = Unused /\ used = Unused /\ faults = Unused /\ nonce = Unused
     /\ mode = Unused /\ at = Unused /\ tracked = Unused /\ dropped = Unused
     /\ identity = Unused /\ outcome = Unused /\ mixed = Unused /\ named = Unused
     /\ tries = Unused /\ temp = Unused /\ result = Unused /\ reported = Unused
     /\ final = Unused /\ staged = Unused /\ foreign = Unused /\ aliased = Unused
     /\ published = Unused /\ errors = Unused /\ raised = Unused /\ late = Unused
  \/ /\ part = "outputs" /\ Outputs!Init
     /\ dest = Unused /\ recoverable = Unused /\ names = Unused /\ complete = Unused
     /\ tx = Unused /\ used = Unused /\ nonce = Unused /\ mode = Unused /\ at = Unused
     /\ tracked = Unused /\ dropped = Unused /\ identity = Unused /\ outcome = Unused
     /\ mixed = Unused /\ named = Unused /\ tries = Unused /\ temp = Unused
     /\ result = Unused /\ reported = Unused /\ source = Unused /\ limit = Unused
     /\ position = Unused /\ buffer = Unused /\ runs = Unused /\ heads = Unused
     /\ current = Unused /\ count = Unused /\ offset = Unused /\ descriptors = Unused
     /\ memberships = Unused /\ taken = Unused /\ segments = Unused /\ peak = Unused

Next ==
  \/ /\ part = "race" /\ Race!Next
     /\ UNCHANGED <<part, nonce, mode, at, tracked, dropped, identity, outcome, mixed,
                    named, tries, temp, result, reported, source, limit, position, buffer,
                    runs, heads, current, count, offset, descriptors, memberships, taken,
                    segments, peak, final, staged, foreign, aliased, published, errors,
                    raised, late>>
  \/ /\ part = "foreign" /\ Foreign!Next
     /\ UNCHANGED <<part, nonce, mode, at, tracked, dropped, identity, outcome, mixed,
                    named, tries, temp, result, reported, source, limit, position, buffer,
                    runs, heads, current, count, offset, descriptors, memberships, taken,
                    segments, peak, final, staged, foreign, aliased, published, errors,
                    raised, late>>
  \/ /\ part = "build" /\ Build!Next
     /\ UNCHANGED <<part, next, pc, tx, used, named, tries, temp, result, reported, source,
                    limit, position, buffer, runs, heads, current, count, offset,
                    descriptors, memberships, taken, segments, peak, final, staged,
                    foreign, aliased, published, errors, raised, late>>
  \/ /\ part = "lazy" /\ Lazy!Next
     /\ UNCHANGED <<part, names, tx, used, nonce, mode, at, tracked, dropped, identity,
                    outcome, mixed, source, limit, position, buffer, runs, heads, current,
                    count, offset, descriptors, memberships, taken, segments, peak, final,
                    staged, foreign, aliased, published, errors, raised, late>>
  \/ /\ part = "merge" /\ Merge!Next
     /\ UNCHANGED <<part, dest, recoverable, names, complete, next, tx, used, faults,
                    nonce, mode, at, tracked, dropped, identity, outcome, mixed, named,
                    tries, temp, result, reported, final, staged, foreign, aliased,
                    published, errors, raised, late>>
  \/ /\ part = "outputs" /\ Outputs!Next
     /\ UNCHANGED <<part, dest, recoverable, names, complete, tx, used, nonce, mode, at,
                    tracked, dropped, identity, outcome, mixed, named, tries, temp, result,
                    reported, source, limit, position, buffer, runs, heads, current, count,
                    offset, descriptors, memberships, taken, segments, peak>>

Spec == Init /\ [][Next]_vars

BuildVars == Build!vars
MergeVars == Merge!vars

(* Every create and every build runs until it returns or its process dies; *)
(* each step of a create changes pc.                                       *)
FairSpec ==
  /\ Spec
  /\ \A c \in Creator : WF_pc(part = "race" /\ (Race!Create(c) \/ Race!Recover(c)))
  /\ \A c \in Contender : WF_BuildVars(part = "build" /\ Build!Build(c))
  /\ WF_MergeVars(part = "merge" /\ Merge!Next)

-----------------------------------------------------------------------------
(* The destination never names a torn or half-written index: what create,  *)
(* the builder or the conversion put there is complete and, where nonces   *)
(* or process ids may repeat, the publisher's own. Behind it, no two       *)
(* creators ever write one temporary file, although they draw their names  *)
(* from one counter per process.  Of builders no three share a nonce, of   *)
(* processes that convert no three a process id (section 2 of README.md).  *)
OnlyComplete ==
  /\ part = "race" => Race!TypeOK /\ Race!OnlyComplete /\ Race!TemporariesDisjoint
  /\ part = "foreign" => Foreign!OnlyComplete /\ Foreign!TemporariesDisjoint
  /\ part = "build" => Build!OnlyOwnComplete
  /\ part = "lazy" => Lazy!OnlyComplete

(* What a creator, a builder or a conversion reports as published survives *)
(* a power loss; a workload that succeeded has published all its outputs   *)
(* and removed the staged names.                                           *)
ReportedIsPublished ==
  /\ part = "race" => Race!CreatedIsDurable
  /\ part = "build" => Build!PublishedIsDurable
  /\ part = "lazy" => Lazy!CreatedIsDurable
  /\ part = "outputs" => Outputs!PublishedTogether

(* A publication that failed, and did not report a failed cleanup, left    *)
(* neither a temporary nor a destination behind.  Exempt is what nobody is *)
(* told of: a temporary of the builder whose removal by Drop failed.       *)
FailedLeavesNothing ==
  /\ part = "race" => Race!FailedLeavesNothing
  /\ part = "foreign" => Foreign!FailedLeavesNothing
  /\ part = "build" => Build!FailedLeavesNothing
  /\ part = "lazy" => Lazy!FailedLeavesNothing
  /\ part = "outputs" => Outputs!FailedLeavesNothing

(* The external builder writes the segments of the reference builder,      *)
(* whatever its buffer and however the records of a bucket were spread     *)
(* over runs; they pass the checks of the lazy reader; and it never holds  *)
(* more records than its buffer allows.                                    *)
MergeMatchesReference ==
  /\ part = "merge" => Merge!SameAsReference
  /\ part = "merge" => Merge!WrittenOpens
  /\ part = "merge" => Merge!MemoryBounded

(* "Creation never replaces an existing file" (docs/persistence.md): no    *)
(* step of a create replaces the file the destination names, and the only  *)
(* file a creator withdraws is its own; no step of a workload changes an   *)
(* output name that holds another program's file, unless that file came    *)
(* between the comparison and the removal.                                 *)
OthersKept ==
  [][/\ part = "race" => Race!PreservesOthers
     /\ part = "outputs" => Outputs!KeepsForeign]_vars

(* The race has a winner: unless some I/O fails, names run out or builders *)
(* share a nonce, some create and some build succeeds, however checks,     *)
(* links and collisions interleave; and the spilling, merging and cutting  *)
(* of a valid source ends in a written file.                               *)
SomeoneIsPublished ==
  <>(/\ part = "race" => Race!Decided
     /\ part = "build" => Build!Decided
     /\ part = "merge" => Merge!Built)

===============================================================================
