---------------------------- MODULE StagedOutputs ----------------------------
(***************************************************************************)
(* python/pari/_outputs.py: the context manager that stages the outputs of *)
(* a workload beside their final names and publishes them together when    *)
(* the body succeeds.                                                      *)
(*                                                                         *)
(* A file is <<who, output>>, made by the workload or by another program.  *)
(* Other programs may create or replace a final name at any time; they do  *)
(* not know the staged names.  Outputs are published in their order.       *)
(***************************************************************************)
EXTENDS Naturals, FiniteSets

CONSTANTS
  Outputs,      \* bound: number of outputs
  Free,         \* no file has the name
  MaxForeign,   \* bound: files made by other programs
  MaxFaults     \* bound: operations that fail

File == {"own", "odd", "old", "foreign"} \X Nat

OutputsAssumption ==
  /\ {Outputs, MaxForeign, MaxFaults} \subseteq Nat
  /\ Free \notin File

Output == 1..Outputs

VARIABLES
  final, staged,   \* what the names hold
  foreign,         \* files other programs have made
  aliased,         \* two outputs have the same resolved path
  pc, next,        \* and the output the step is about
  published,       \* outputs whose link succeeded, with the identity taken before
  errors,          \* a cleanup failed
  raised,          \* the body or the publication raised
  late,            \* history: another file came after the pending comparison
  faults

vars == <<final, staged, foreign, aliased, pc, next, published, errors, raised, late, faults>>

Own(o) == <<"own", o>>

Init ==
  /\ final \in [Output -> {Free, <<"old", 0>>}]
  /\ staged = [o \in Output |-> Free]
  /\ foreign = 0 /\ aliased \in BOOLEAN
  /\ pc = "enter" /\ next = 1 /\ published = {} /\ errors = FALSE /\ raised = FALSE
  /\ late = FALSE /\ faults = 0

Fault == faults < MaxFaults /\ faults' = faults + 1

To(place) == pc' = place /\ next' = 1

(* Another program creates a final name, or replaces what it holds. *)
Foreign(o) ==
  /\ foreign < MaxForeign /\ pc # "done"
  /\ foreign' = foreign + 1
  /\ final' = [final EXCEPT ![o] = <<"foreign", foreign + 1>>]
  /\ late' = (late \/ (pc = "remove_final" /\ next = o))
  /\ UNCHANGED <<staged, aliased, pc, next, published, errors, raised, faults>>

(* __enter__: distinct names, none of which exists. *)
Enter ==
  /\ pc = "enter"
  /\ IF aliased \/ \E o \in Output : final[o] # Free
     THEN To("done") /\ raised' = TRUE
     ELSE To("body") /\ UNCHANGED raised
  /\ UNCHANGED <<final, staged, foreign, aliased, published, errors, faults, late>>

(* The body writes an output, or one of them is not a regular file. *)
WriteStaged(o, kind) ==
  /\ pc = "body" /\ staged[o] = Free
  /\ staged' = [staged EXCEPT ![o] = <<kind, o>>]
  /\ UNCHANGED <<final, foreign, aliased, pc, next, published, errors, raised, faults, late>>

BodyRaises ==
  /\ pc = "body" /\ To("clean_staged") /\ raised' = TRUE
  /\ UNCHANGED <<final, staged, foreign, aliased, published, errors, faults, late>>

(* __exit__: every output must be there. *)
AllStaged == \A o \in Output : staged[o] # Free

Exit ==
  /\ pc = "body"
  /\ IF AllStaged THEN To("identify") /\ UNCHANGED raised ELSE To("clean_staged") /\ raised' = TRUE
  /\ UNCHANGED <<final, staged, foreign, aliased, published, errors, faults, late>>

(* _identity with require_regular, then os.link, which refuses a name that *)
(* exists, then the link is noted.                                         *)
Identify ==
  /\ pc = "identify"
  /\ IF next \in Output /\ staged[next] # Own(next)
     THEN To("clean_staged") /\ raised' = TRUE
     ELSE /\ pc' = (IF next \in Output THEN "link" ELSE "unlink")
          /\ next' = (IF next \in Output THEN next ELSE 1)
          /\ UNCHANGED raised
  /\ UNCHANGED <<final, staged, foreign, aliased, published, errors, faults, late>>

LinkClaims(o) == final[o] = Free

Link ==
  /\ pc = "link"
  /\ IF LinkClaims(next)
     THEN /\ final' = [final EXCEPT ![next] = staged[next]]
          /\ published' = published \cup {next}
          /\ pc' = "identify" /\ next' = next + 1 /\ UNCHANGED raised
     ELSE To("clean_staged") /\ raised' = TRUE /\ UNCHANGED <<final, published>>
  /\ UNCHANGED <<staged, foreign, aliased, errors, faults, late>>

NotUnlinked(o) == staged
Unlinked(o) == [staged EXCEPT ![o] = Free]

Unlink ==
  /\ pc = "unlink"
  /\ IF next \in Output
     THEN staged' = Unlinked(next) /\ next' = next + 1 /\ UNCHANGED pc
     ELSE To("done") /\ UNCHANGED staged
  /\ UNCHANGED <<final, foreign, aliased, published, errors, raised, faults, late>>

(* An operation of the publication fails. *)
PublicationFails ==
  /\ pc \in {"identify", "link", "unlink"} /\ Fault
  /\ To("clean_staged") /\ raised' = TRUE
  /\ UNCHANGED <<final, staged, foreign, aliased, published, errors, late>>

-----------------------------------------------------------------------------
(* _cleanup: the staged names, then the published ones that still hold the *)
(* file that was linked.                                                   *)
CleanStaged ==
  /\ pc = "clean_staged"
  /\ IF next \in Output
     THEN staged' = [staged EXCEPT ![next] = Free] /\ next' = next + 1 /\ UNCHANGED pc
     ELSE To("clean_final") /\ UNCHANGED staged
  /\ UNCHANGED <<final, foreign, aliased, published, errors, raised, faults, late>>

(* The comparison and the removal are two operations.                      *)
ComparesNothing(o) == o \in published
StillOwn(o) == o \in published /\ final[o] = Own(o)

CompareFinal ==
  /\ pc = "clean_final"
  /\ IF next \in Output /\ StillOwn(next) THEN pc' = "remove_final" /\ UNCHANGED next
     ELSE IF next \in Output THEN next' = next + 1 /\ UNCHANGED pc
     ELSE To("done")
  /\ late' = FALSE
  /\ UNCHANGED <<final, staged, foreign, aliased, published, errors, raised, faults>>

RemoveFinal ==
  /\ pc = "remove_final" /\ pc' = "clean_final" /\ next' = next + 1
  /\ final' = [final EXCEPT ![next] = Free]
  /\ UNCHANGED <<staged, foreign, aliased, published, errors, raised, faults, late>>

(* One removal fails; the others go on and the error names it. *)
StopsCleaning == next' = Outputs + 1
GoesOn == next' = next + 1

CleanFails ==
  /\ pc \in {"clean_staged", "clean_final", "remove_final"} /\ next \in Output /\ Fault
  /\ pc' = (IF pc = "clean_staged" THEN pc ELSE "clean_final")
  /\ GoesOn /\ errors' = TRUE
  /\ UNCHANGED <<final, staged, foreign, aliased, published, raised, late>>

Next ==
  \/ \E o \in Output : Foreign(o) \/ \E kind \in {"own", "odd"} : WriteStaged(o, kind)
  \/ Enter \/ BodyRaises \/ Exit \/ Identify \/ Link \/ Unlink \/ PublicationFails
  \/ CleanStaged \/ CompareFinal \/ RemoveFinal \/ CleanFails

Spec == Init /\ [][Next]_vars

-----------------------------------------------------------------------------
(* Properties                                                              *)
OwnFinals == {o \in Output : final[o] = Own(o)}

(* "A parsing, callback, or publication failure leaves no transaction-     *)
(* owned final artifacts" (docs/code-workloads.md), nor staged ones; when  *)
(* one file could not be removed, the others were.                         *)
FailedLeavesNothing ==
  pc = "done" /\ raised =>
    LET left == OwnFinals \cup {o \in Output : staged[o] # Free} IN
    IF errors THEN Cardinality(left) <= faults ELSE left = {}

(* Without an error the outputs were published together and nothing is     *)
(* left beside them; only another program can have taken one away since.   *)
PublishedTogether ==
  pc = "done" /\ ~raised =>
    /\ published = Output /\ \A o \in Output : staged[o] = Free
    /\ Cardinality(Output \ OwnFinals) <= foreign

(* No step of the workload changes a name that holds another program's     *)
(* file, unless that file came between the comparison and the removal.     *)
KeepsForeign ==
  \A o \in Output : final[o] \notin {Free, Own(o)} =>
    \/ final'[o] = final[o]
    \/ foreign' = foreign + 1
    \/ late /\ pc = "remove_final" /\ next = o

-----------------------------------------------------------------------------
(* The inductive invariant behind these properties                         *)

Phase == {"enter", "body", "identify", "link", "unlink", "clean_staged", "clean_final",
          "remove_final", "done"}

Cleaning == {"clean_staged", "clean_final", "remove_final"}

TypeOK ==
  /\ final \in [Output -> {Free} \cup File] /\ staged \in [Output -> {Free} \cup File]
  /\ foreign \in Nat /\ faults \in Nat
  /\ pc \in Phase /\ next \in 1..(Outputs + 1)
  /\ published \subseteq Output

(* Only a link puts a file of the workload at a final name, in order; the  *)
(* staged file it takes was identified just before.                        *)
LinkedInOrder ==
  /\ OwnFinals \subseteq published
  /\ pc \in {"enter", "body"} => published = {}
  /\ pc \in {"identify", "link"} => published = 1..(next - 1) /\ AllStaged
  /\ pc = "link" => next \in Output /\ staged[next] = Own(next)
  /\ pc = "unlink" => published = Output
  /\ pc = "enter" => \A o \in Output : staged[o] = Free

(* An error was raised before any cleanup.  Until then every published     *)
(* name is the workload's, except for those another program took since.    *)
Unraised ==
  /\ pc \in Cleaning => raised
  /\ pc \in Phase \ (Cleaning \cup {"done"}) => ~raised
  /\ ~raised =>
       /\ Cardinality(published \ OwnFinals) <= foreign
       /\ pc = "unlink" => \A o \in Output : o < next => staged[o] = Free
       /\ pc = "done" => published = Output /\ \A o \in Output : staged[o] = Free

(* What the cleanup has passed and not removed: nothing without an error,  *)
(* and no more files than operations that failed.                          *)
PassedStaged ==
  {o \in Output : staged[o] # Free /\ (pc = "clean_staged" => o < next)}
PassedFinal ==
  {o \in OwnFinals : pc # "clean_staged" /\ (pc \in {"clean_final", "remove_final"} => o < next)}
Left == PassedStaged \cup PassedFinal

LeftBounded ==
  raised => (~errors => Left = {}) /\ Cardinality(Left) <= faults

IInv ==
  /\ TypeOK
  /\ LinkedInOrder
  /\ Unraised
  /\ LeftBounded
  /\ pc = "remove_final" => next \in Output /\ (~late => final[next] = Own(next))

=============================================================================
