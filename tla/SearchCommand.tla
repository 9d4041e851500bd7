--------------------------- MODULE SearchCommand ---------------------------
(***************************************************************************)
(* crates/pari-cli: the search command.  It reads the signature scheme     *)
(* from the index file, opens that name as an index of the scheme, and     *)
(* answers query lines one by one through a buffered standard output, with *)
(* progress events on standard error.                                      *)
(*                                                                         *)
(* An index file is its scheme and its keys; another program may replace   *)
(* the file under the name at any time.  What an open index answers is     *)
(* the subject of PersistentIndex: here the answer to a query is a fixed   *)
(* set of keys near it.                                                    *)
(***************************************************************************)
EXTENDS InputLines

CONSTANTS
  Key,        \* keys an index may hold, positive numbers
  Input,      \* what the queries may be: sequences of lines
  MaxEvery,   \* bound: --progress-every
  MaxFaults,  \* bound: I/O errors in a behaviour
  MaxReplace  \* bound: replacements of the index file

SearchAssumption ==
  /\ \A input \in Input : input \in Seq(Line)
  /\ IsFiniteSet(Key) /\ Key \subseteq Nat
  /\ {MaxEvery, MaxFaults, MaxReplace} \subseteq Nat

IndexFile == [scheme : Scheme, keys : {{}, Key}]

(* PersistentIndex::query *)
Answer(keys, query) == {k \in keys : k \in {query, query + 1}}

VARIABLES
  file, replaced,                \* the index file, and how often it was replaced
  input, progress, every,        \* arguments
  pc,
  chosen,                        \* the scheme index_signature_scheme returned
  store,                         \* the index that was opened
  line, query_index, candidate_count,
  buffer, stdout,                \* results in BufWriter and results written
  events,                        \* progress events on standard error
  status, faults

vars == <<file, replaced, input, progress, every, pc, chosen, store, line, query_index, candidate_count,
          buffer, stdout, events, status, faults>>
arguments == <<input, progress, every>>
counters == <<line, query_index, candidate_count>>

Init ==
  /\ file \in IndexFile /\ replaced = 0
  /\ input \in Input /\ progress \in BOOLEAN /\ every \in 0..MaxEvery
  /\ pc = "scheme" /\ chosen = None /\ store = None
  /\ line = 0 /\ query_index = 0 /\ candidate_count = 0
  /\ buffer = <<>> /\ stdout = <<>> /\ events = <<>>
  /\ status = "none" /\ faults = 0

(* Another program renames its index over the name. *)
Replace(new) ==
  /\ replaced < MaxReplace /\ new # file
  /\ file' = new /\ replaced' = replaced + 1
  /\ UNCHANGED <<arguments, pc, chosen, store, counters, buffer, stdout, events, status, faults>>

(* search: index_signature_scheme *)
ReadScheme ==
  /\ pc = "scheme" /\ pc' = "open"
  /\ chosen' = file.scheme
  /\ UNCHANGED <<file, replaced, arguments, store, counters, buffer, stdout, events, status, faults>>

(* ProgressReporter::new, and open as an index of the scheme. *)
ReporterValid == progress => every > 0

OpenAnyScheme == TRUE
OpenAccepts == file.scheme = chosen

Open ==
  /\ pc = "open"
  /\ IF ReporterValid /\ OpenAccepts
     THEN store' = file /\ pc' = "read" /\ UNCHANGED status
     ELSE store' = None /\ pc' = "done" /\ status' = "refused"
  /\ UNCHANGED <<file, replaced, arguments, chosen, counters, buffer, stdout, events, faults>>

(* ProgressReporter::is_due and emit. *)
IsDueLate(completed) == completed > 0 /\ completed % every = 1
IsDue(completed) == completed > 0 /\ completed % every = 0

Event(completed, candidates, final) ==
  [completed |-> completed, candidates |-> candidates, possible |-> completed * Cardinality(store.keys),
   final |-> final]

Emit(event) == events' = IF progress THEN Append(events, event) ELSE events

(* One line: the sketch, the query, the result, and an event when due. *)
SearchLine ==
  LET next == input[line + 1]
      candidates == Answer(store.keys, next.key) IN
  /\ pc = "read" /\ line < Len(input)
  /\ line' = line + 1
  /\ IF next.text = "blank"
     THEN UNCHANGED <<pc, query_index, candidate_count, buffer, events, status>>
     ELSE IF next.text = "record" /\ MakeSketch(next, chosen)
     THEN /\ buffer' = Append(buffer, [query |-> query_index, line |-> line + 1, candidates |-> candidates])
          /\ query_index' = query_index + 1
          /\ candidate_count' = IF progress THEN candidate_count + Cardinality(candidates) ELSE 0
          /\ IF progress /\ IsDue(query_index')
             THEN Emit(Event(query_index', candidate_count', FALSE)) ELSE UNCHANGED events
          /\ UNCHANGED <<pc, status>>
     ELSE /\ pc' = "drop" /\ status' = "bad_line"
          /\ UNCHANGED <<query_index, candidate_count, buffer, events>>
  /\ UNCHANGED <<file, replaced, arguments, chosen, store, stdout, faults>>

(* BufWriter writes when it is full. *)
Spill ==
  /\ pc = "read" /\ buffer # <<>>
  /\ stdout' = stdout \o buffer /\ buffer' = <<>>
  /\ UNCHANGED <<file, replaced, arguments, pc, chosen, store, counters, events, status, faults>>

(* The end of the input: flush, then the final event. *)
Flush ==
  /\ pc = "read" /\ line = Len(input)
  /\ pc' = "report"
  /\ stdout' = stdout \o buffer /\ buffer' = <<>>
  /\ UNCHANGED <<file, replaced, arguments, chosen, store, counters, events, status, faults>>

Report ==
  /\ pc = "report" /\ pc' = "done" /\ status' = "ok"
  /\ Emit(Event(query_index, candidate_count, TRUE))
  /\ UNCHANGED <<file, replaced, arguments, chosen, store, counters, buffer, stdout, faults>>

(* After an error the writer is dropped, which writes what it holds. *)
DropDiscards == stdout
DropFlushes == stdout \o buffer

Drop ==
  /\ pc = "drop" /\ pc' = "done"
  /\ stdout' = DropFlushes /\ buffer' = <<>>
  /\ UNCHANGED <<file, replaced, arguments, chosen, store, counters, events, status, faults>>

(* The index, the input, an output or an event cannot be read or written;  *)
(* an output that fails loses what the buffer held.                        *)
StepFails ==
  /\ faults < MaxFaults /\ faults' = faults + 1
  /\ \/ pc \in {"scheme", "open"} /\ pc' = "done" /\ UNCHANGED buffer
     \/ pc = "read" /\ pc' = "drop" /\ buffer' \in {<<>>, buffer}
     \/ pc = "report" /\ pc' = "done" /\ UNCHANGED buffer
  /\ status' = "failed"
  /\ UNCHANGED <<file, replaced, arguments, chosen, store, counters, stdout, events>>

Next ==
  \/ \E new \in IndexFile : Replace(new)
  \/ ReadScheme \/ Open \/ SearchLine \/ Spill \/ Flush \/ Report \/ Drop \/ StepFails

Spec == Init /\ [][Next]_vars

-----------------------------------------------------------------------------
(* Properties                                                              *)

(* Of the lines that are queries, those that are unusable, judged by the   *)
(* scheme of the index that was opened, and those before the first one.    *)
UnusableLines(lines, index) == {i \in Filled(lines) : ~UsableRecord(lines[i], index.scheme)}
AnsweredLines(lines, index) == {i \in Filled(lines) : \A j \in UnusableLines(lines, index) : i < j}

(* Queries before line n. *)
Rank(lines, n) == Cardinality({i \in Filled(lines) : i < n})

(* Results are numbered by query, not by line, in the order of the queries. *)
Correct(lines, index, results) ==
  \A n \in DOMAIN results :
    LET r == results[n] IN
    /\ r.query = n - 1
    /\ r.line \in AnsweredLines(lines, index)
    /\ Rank(lines, r.line) = n - 1
    /\ r.candidates = Answer(index.keys, lines[r.line].key)

(* Everything on standard output answers, in order and without a gap, the  *)
(* usable queries against the one index that was opened, also when the     *)
(* file was replaced between the reading of its scheme and the opening.    *)
(* A bad line ends the command after every query before it was answered;   *)
(* success means that all were.                                            *)
AnswersInOrder ==
  store # None =>
    /\ Correct(input, store, stdout \o buffer)
    /\ pc = "done" /\ status \in {"ok", "bad_line"} => Len(stdout) = Cardinality(AnsweredLines(input, store))
    /\ status = "ok" => UnusableLines(input, store) = {}

(* The first queries, as many as were completed, and the candidates of     *)
(* some lines, each with its line.                                         *)
Reported(lines, index, completed) == {i \in AnsweredLines(lines, index) : Rank(lines, i) < completed}

Matches(lines, index, some) == {p \in some \X index.keys : p[2] \in Answer(index.keys, lines[p[1]].key)}

ExactEvent(lines, index, e) ==
  /\ e.candidates = Cardinality(Matches(lines, index, Reported(lines, index, e.completed)))
  /\ e.candidates <= e.possible
  /\ e.final => e.completed = Cardinality(Filled(lines))

(* "Final JSON progress includes the exact process-local candidate count   *)
(* and rate" (docs/cli.md): each event counts the candidates of exactly    *)
(* the queries it reports, out of that many times the items; events come   *)
(* every progress_every queries and the final one last.                    *)
ProgressExact ==
  \A n \in DOMAIN events :
    /\ ExactEvent(input, store, events[n])
    /\ IF events[n].final THEN n = Len(events) ELSE events[n].completed = n * every

-----------------------------------------------------------------------------
(* The inductive invariant                                                 *)
Result == [query : Nat, line : Nat, candidates : SUBSET Key]
EventRecord == [completed : Nat, candidates : Nat, possible : Nat, final : BOOLEAN]

(* Types, for every state of the command. *)
TypeOK ==
  /\ file \in IndexFile /\ input \in Input /\ progress \in BOOLEAN /\ every \in Nat
  /\ pc \in {"scheme", "open", "read", "report", "drop", "done"}
  /\ chosen \in Scheme \cup {None}
  /\ line \in 0..Len(input) /\ query_index \in Nat /\ candidate_count \in Nat
  /\ buffer \in Seq(Result) /\ stdout \in Seq(Result) /\ events \in Seq(EventRecord)

(* An index was opened, as one of its own scheme, or nothing was written. *)
OpenedOrSilent ==
  \/ /\ store \in IndexFile /\ store.scheme = chosen /\ ReporterValid
     /\ pc \notin {"scheme", "open"}
  \/ /\ store = None /\ stdout = <<>> /\ buffer = <<>> /\ events = <<>>
     /\ line = 0 /\ query_index = 0 /\ candidate_count = 0
     /\ \/ pc \in {"scheme", "open"} /\ status = "none"
        \/ pc = "done" /\ status \in {"refused", "failed"}

(* The lines up to n are usable, and each query among them has its result. *)
AnsweredTo(n) ==
  /\ Between(input, 0, n) \cap UnusableLines(input, store) = {}
  /\ Len(stdout \o buffer) = Cardinality(Between(input, 0, n))

AnsweredSoFar ==
  /\ Correct(input, store, stdout \o buffer)
  /\ pc \in {"read", "report"} =>
       /\ status = "none" /\ AnsweredTo(line) /\ query_index = Cardinality(Between(input, 0, line))
       /\ progress => candidate_count = Cardinality(Matches(input, store, Between(input, 0, line)))
  /\ pc = "report" => line = Len(input) /\ buffer = <<>>
  /\ status = "bad_line" =>
       /\ pc \in {"drop", "done"} /\ line \in UnusableLines(input, store) /\ AnsweredTo(line - 1)
       /\ pc = "done" => buffer = <<>>
  /\ status = "ok" => pc = "done" /\ buffer = <<>> /\ AnsweredTo(Len(input))

EventsSoFar ==
  /\ ProgressExact
  /\ pc = "read" /\ progress =>
       Len(events) * every <= query_index /\ query_index < Len(events) * every + every
  /\ pc # "done" => \A n \in DOMAIN events : ~events[n].final

IInv == TypeOK /\ OpenedOrSilent /\ AnsweredSoFar /\ EventsSoFar

=============================================================================
