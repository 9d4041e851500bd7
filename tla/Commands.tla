------------------------------- MODULE Commands -------------------------------
(***************************************************************************)
(* The commands pari index, pari search and pari dedup.                    *)
(* part is the module a behaviour is about, chosen in the initial state.   *)
(* The modules share no state, so following them one at a time loses       *)
(* nothing; variables that only other modules have are Unused.             *)
(***************************************************************************)

EXTENDS InputLines

CONSTANTS
  Command,     \* index commands with the same output
  Key,         \* of the index that is searched
  IndexInput, SearchInput, DedupInput,   \* inputs of the commands
  Free,        \* no file has the name
  MaxBatch, MaxSize, MaxEvery, MaxFaults, MaxReplace

VARIABLES part, input, scheme, batch_size, pc, line, batch, store, committed, staged,
  identity, dest, recoverable, outcome, items, reported, faults, file, replaced, progress, every, chosen,
  query_index, candidate_count, buffer, stdout, events, status, min_size, emit, output,
  linked, index, source, old, written

vars == <<part, input, scheme, batch_size, pc, line, batch, store, committed, staged,
          identity, dest, recoverable, outcome, items, reported, faults, file, replaced, progress, every,
          chosen, query_index, candidate_count, buffer, stdout, events, status, min_size,
          emit, output, linked, index, source, old, written>>

Unused == "unused"

Index == INSTANCE IndexCommand WITH
  Input <- IndexInput

Search == INSTANCE SearchCommand WITH
  Input <- SearchInput

Dedup == INSTANCE DedupCommand WITH
  Input <- DedupInput

ASSUME Assumptions ==
  /\ SchemeAssumption
  /\ Index!CommandAssumption
  /\ Search!SearchAssumption
  /\ Dedup!DedupAssumption

Init ==
  \/ /\ part = "index" /\ Index!Init
     /\ file = Unused /\ replaced = Unused /\ progress = Unused /\ every = Unused
     /\ chosen = Unused /\ query_index = Unused /\ candidate_count = Unused
     /\ buffer = Unused /\ stdout = Unused /\ events = Unused /\ status = Unused
     /\ min_size = Unused /\ emit = Unused /\ output = Unused /\ linked = Unused
     /\ index = Unused /\ source = Unused /\ old = Unused /\ written = Unused
  \/ /\ part = "search" /\ Search!Init
     /\ scheme = Unused /\ batch_size = Unused /\ batch = Unused /\ committed = Unused
     /\ staged = Unused /\ identity = Unused /\ dest = Unused /\ recoverable = Unused
     /\ outcome = Unused /\ items = Unused /\ reported = Unused /\ min_size = Unused /\ emit = Unused /\ output = Unused
     /\ linked = Unused /\ index = Unused /\ source = Unused /\ old = Unused
     /\ written = Unused
  \/ /\ part = "dedup" /\ Dedup!Init
     /\ store = Unused /\ committed = Unused /\ staged = Unused /\ identity = Unused
     /\ dest = Unused /\ recoverable = Unused /\ outcome = Unused /\ items = Unused
     /\ reported = Unused /\ file = Unused
     /\ replaced = Unused /\ progress = Unused /\ every = Unused /\ chosen = Unused
     /\ query_index = Unused /\ candidate_count = Unused /\ buffer = Unused
     /\ stdout = Unused /\ events = Unused

Next ==
  \/ /\ part = "index" /\ Index!Next
     /\ UNCHANGED <<part, file, replaced, progress, every, chosen, query_index,
                    candidate_count, buffer, stdout, events, status, min_size, emit,
                    output, linked, index, source, old, written>>
  \/ /\ part = "search" /\ Search!Next
     /\ UNCHANGED <<part, scheme, batch_size, batch, committed, staged, identity, dest,
                    recoverable, outcome, items, reported, min_size, emit, output, linked, index, source,
                    old, written>>
  \/ /\ part = "dedup" /\ Dedup!Next
     /\ UNCHANGED <<part, store, committed, staged, identity, dest, recoverable, outcome,
                    items, reported, file, replaced, progress, every, chosen, query_index, candidate_count,
                    buffer, stdout, events>>

Spec == Init /\ [][Next]_vars

IndexVars == Index!vars

(* An index command runs until it exits; its input ends. *)
FairSpec == Spec /\ \A c \in Command : WF_IndexVars(part = "index" /\ Index!Index(c))

-----------------------------------------------------------------------------
(* The output of pari index never names an index of part of the input,     *)
(* although batches are committed one by one; success, or a summary that   *)
(* could not be printed, means an index that survives a power loss; an     *)
(* error, unless it reports a failed cleanup, leaves neither the staging   *)
(* file nor an output behind.                                              *)
IndexAllOrNothing ==
  /\ part = "index" => Index!OnlyWholeInput
  /\ part = "index" => Index!SucceededIsDurable
  /\ part = "index" => Index!FailedLeavesNothing

(* Search writes, in the order of the input, one exact answer per query of *)
(* the index it opened, also when the file is replaced meanwhile; its      *)
(* progress events count exactly what was handled so far.                  *)
AnswersInOrder ==
  /\ part = "search" => Search!AnswersInOrder
  /\ part = "search" => Search!ProgressExact

(* Dedup never truncates its input through another name of it, unless the  *)
(* name became an alias after the last check; what it writes describes the *)
(* groups of the whole input, and a rejected input leaves the output as it *)
(* was.                                                                    *)
DedupWhole ==
  /\ part = "dedup" => Dedup!InputPreserved
  /\ part = "dedup" => Dedup!OutputOfWholeInput

(* Usable input is indexed: whatever the batch size and the commands that  *)
(* race for the name, one of them succeeds unless some I/O fails.          *)
UsableIsIndexed ==
  <>(part = "index" => Index!Indexed)

===============================================================================
