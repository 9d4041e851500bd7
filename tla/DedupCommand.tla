---------------------------- MODULE DedupCommand ----------------------------
(***************************************************************************)
(* crates/pari-cli: the dedup command.  Records are read in batches into   *)
(* an in-memory index; then the output is opened, which truncates it, and  *)
(* the candidate pairs or the duplicate groups of the index are written.   *)
(*                                                                         *)
(* The output name may be free, name some other file or be an alias of the *)
(* input (the same name, a hard link or a symbolic link), and another      *)
(* program may make a free name an alias of the input while the command    *)
(* runs.  Which records are candidates and how they are grouped is the     *)
(* subject of Grouping: here neighbouring keys are candidates.             *)
(***************************************************************************)
EXTENDS InputLines, Relation

CONSTANTS
  Input,                        \* what the input file may hold: sequences of lines
  MaxBatch, MaxSize, MaxFaults  \* bounds: --batch-size, --min-size, I/O errors

DedupAssumption ==
  (\A input \in Input : input \in Seq(Line)) /\ {MaxBatch, MaxSize, MaxFaults} \subseteq Nat

-----------------------------------------------------------------------------
(* candidate_pairs and duplicate_groups_with of the index with these keys. *)
Pairs(keys) == {p \in keys \X keys : p[2] = p[1] + 1}

Groups(keys, min_size) ==
  LET linked == ReflexiveTransitiveClosure([x, y \in keys |-> x = y + 1 \/ y = x + 1], keys)
  IN  {g \in {{y \in keys : linked[x, y]} : x \in keys} : Cardinality(g) >= min_size}

VARIABLES
  input, scheme, batch_size, min_size, emit,   \* arguments
  output,    \* what the output name is: "free", "other", "alias" or "stdout"
  linked,    \* history: the name became an alias after the last check
  pc, line, batch, index,
  source,    \* the input file
  old,       \* the output file, or the free name, is as it was
  written,   \* results in the output
  status, faults

vars == <<input, scheme, batch_size, min_size, emit, output, linked, pc, line, batch, index, source,
          old, written, status, faults>>
arguments == <<input, scheme, batch_size, min_size, emit>>

Init ==
  /\ input \in Input /\ scheme \in Scheme
  /\ batch_size \in 0..MaxBatch /\ min_size \in 0..MaxSize /\ emit \in {"pairs", "groups"}
  /\ output \in {"free", "other", "alias", "stdout"} /\ linked = FALSE
  /\ pc = "begin" /\ line = 0 /\ batch = <<>> /\ index = {}
  /\ source = input
  /\ old = TRUE /\ written = <<>>
  /\ status = "none" /\ faults = 0

Error == pc' = "done" /\ status' = "error"

(* Another program links the input under the output name. *)
LinkAlias ==
  /\ output = "free" /\ pc # "done"
  /\ output' = "alias" /\ linked' = (pc = "truncate")
  /\ UNCHANGED <<arguments, pc, line, batch, index, source, old, written, status, faults>>

(* ensure_distinct_input_output *)
EnsureDistinct == output # "alias"

(* dedup *)
Begin ==
  /\ pc = "begin"
  /\ IF min_size > 0 /\ batch_size > 0 /\ EnsureDistinct
     THEN pc' = "read" /\ UNCHANGED status ELSE Error
  /\ UNCHANGED <<arguments, output, linked, line, batch, index, source, old, written, faults>>

ReadLine ==
  LET next == source[line + 1] IN
  /\ pc = "read" /\ line < Len(source)
  /\ line' = line + 1
  /\ IF next.text = "blank" THEN UNCHANGED <<pc, batch, status>>
     ELSE IF next.text = "record" /\ MakeSketch(next, scheme)
     THEN /\ batch' = Append(batch, next.key)
          /\ pc' = (IF Len(batch') = batch_size THEN "insert" ELSE "read")
          /\ UNCHANGED status
     ELSE Error /\ UNCHANGED batch
  /\ UNCHANGED <<arguments, output, linked, index, source, old, written, faults>>

(* The last, smaller batch; then the output is opened. *)
RestDropped == "check"
Rest == IF batch = <<>> THEN "check" ELSE "insert"

EndOfInput ==
  /\ pc = "read" /\ line = Len(source)
  /\ pc' = Rest
  /\ UNCHANGED <<arguments, output, linked, line, batch, index, source, old, written, status, faults>>

(* insert_many: all keys of the batch, or an error. *)
InsertMany ==
  LET keys == Range(batch) IN
  /\ pc = "insert"
  /\ IF IsInjective(batch) /\ keys \cap index = {}
     THEN /\ index' = index \cup keys /\ batch' = <<>>
          /\ pc' = (IF line = Len(source) /\ Len(batch) < batch_size THEN "check" ELSE "read")
          /\ UNCHANGED status
     ELSE Error /\ UNCHANGED <<batch, index>>
  /\ UNCHANGED <<arguments, output, linked, line, source, old, written, faults>>

-----------------------------------------------------------------------------
(* open_writer: the names are compared again, then the file is truncated.  *)
NoRecheck == TRUE
Recheck == EnsureDistinct

CheckOutput ==
  /\ pc = "check"
  /\ IF Recheck THEN pc' = "truncate" /\ UNCHANGED status ELSE Error
  /\ UNCHANGED <<arguments, output, linked, line, batch, index, source, old, written, faults>>

Truncate ==
  /\ pc = "truncate" /\ pc' = "write"
  /\ old' = FALSE
  /\ source' = (IF output = "alias" THEN <<>> ELSE source)
  /\ output' = (IF output = "free" THEN "other" ELSE output)
  /\ UNCHANGED <<arguments, linked, line, batch, index, written, status, faults>>

(* write_pairs or write_groups, and the flush. *)
Results == IF emit = "pairs" THEN Pairs(index) ELSE Groups(index, min_size)

Write ==
  /\ pc = "write"
  /\ IF Results \subseteq Range(written)
     THEN pc' = "done" /\ status' = "ok" /\ UNCHANGED written
     ELSE /\ \E r \in Results \ Range(written) : written' = Append(written, r)
          /\ UNCHANGED <<pc, status>>
  /\ UNCHANGED <<arguments, output, linked, line, batch, index, source, old, faults>>

(* The input, an event, or the output fails; some results may be lost. *)
StepFails ==
  /\ pc \in {"read", "insert", "check", "truncate", "write"}
  /\ faults < MaxFaults /\ faults' = faults + 1
  /\ Error
  /\ IF pc = "write" THEN \E n \in 0..Len(written) : written' = SubSeq(written, 1, n) ELSE UNCHANGED written
  /\ UNCHANGED <<arguments, output, linked, line, batch, index, source, old>>

Next ==
  \/ LinkAlias \/ Begin \/ ReadLine \/ EndOfInput \/ InsertMany
  \/ CheckOutput \/ Truncate \/ Write \/ StepFails

Spec == Init /\ [][Next]_vars

-----------------------------------------------------------------------------
(* Properties                                                              *)
(* "Pari rejects the same path and aliases such as hard links or symlinks  *)
(* so the source records are preserved" (docs/cli.md), also when the alias *)
(* appears while records are read.  An alias made between the last check   *)
(* and the opening is not seen.                                            *)
InputPreserved == ~linked => source = input

(* An input that fails, in whatever batch, leaves the output as it was: it *)
(* is truncated only after the whole input was indexed, and then holds     *)
(* results of the whole input, each once, and all when the command         *)
(* succeeds.                                                               *)
OutputOfWholeInput ==
  ~old =>
    LET keys == KeysOf(input)
        results == IF emit = "pairs" THEN Pairs(keys) ELSE Groups(keys, min_size) IN
    /\ Usable(input, scheme)
    /\ Range(written) \subseteq results /\ IsInjective(written)
    /\ status = "ok" => Range(written) = results

-----------------------------------------------------------------------------
(* The inductive invariant                                                 *)
Reading == {"begin", "read", "insert"}

(* Types, for every state of the command. *)
TypeOK ==
  /\ input \in Input /\ scheme \in Scheme /\ batch_size \in Nat /\ min_size \in Nat
  /\ emit \in {"pairs", "groups"} /\ output \in {"free", "other", "alias", "stdout"}
  /\ linked \in BOOLEAN /\ old \in BOOLEAN
  /\ pc \in Reading \cup {"check", "truncate", "write", "done"}
  /\ line \in Nat /\ batch \in Seq(Nat) /\ index \subseteq Nat
  /\ written \in Seq(Results) /\ status \in {"none", "ok", "error"}

(* Until the output is opened, the index and the batch are the lines read  *)
(* so far; then the index is the whole input.                              *)
ReadSoFar ==
  /\ pc \in Reading => Ingested(input, scheme, line, batch, index)
  /\ pc \in {"check", "truncate", "write"} \/ ~old => Usable(input, scheme) /\ index = KeysOf(input)

(* What is known of the two files. *)
FilesKept ==
  /\ pc \notin {"write", "done"} => old /\ source = input
  /\ IF linked THEN output = "alias" ELSE source = input
  /\ pc = "truncate" /\ output = "alias" => linked
  /\ pc = "write" => ~old

WrittenOnce ==
  /\ old => written = <<>>
  /\ IsInjective(written)
  /\ status = "ok" => pc = "done" /\ Range(written) = Results

IInv == TypeOK /\ ReadSoFar /\ FilesKept /\ WrittenOnce

=============================================================================
