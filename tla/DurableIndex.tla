---------------------------- MODULE DurableIndex ----------------------------
(***************************************************************************)
(* What a local persistent index promises its owner (docs/persistence.md), *)
(* without overlays, temporary files, renames or reopening: the index is a *)
(* map from live keys to rows; a call that commits replaces the committed  *)
(* generation by the live one in a single step; a durable report means     *)
(* that no power loss can bring back anything else; a crash loses the      *)
(* handle and nothing that was committed.                                  *)
(***************************************************************************)
EXTENDS IndexTypes

VARIABLES
  open,         \* somebody holds a handle
  live,         \* the rows its owner sees
  current,      \* the committed generation
  recoverable,  \* the generations a power loss may leave
  report        \* the outcome of the last call

vars == <<open, live, current, recoverable, report>>

Init ==
  /\ open = FALSE
  /\ live = NoRows
  /\ current \in Rows
  /\ recoverable = {current}
  /\ report = "none"

OpenIndex ==
  /\ ~open
  /\ open' = TRUE
  /\ live' = current
  /\ report' = "none"
  /\ UNCHANGED <<current, recoverable>>

(* New keys appear; no live key loses or changes its row. *)
Insert ==
  /\ open
  /\ live' \in Rows
  /\ \A k \in Live(live) : live'[k] = live[k]
  /\ report' = "none"
  /\ UNCHANGED <<open, current, recoverable>>

Delete ==
  /\ open
  /\ \E k \in Live(live) : live' = [live EXCEPT ![k] = Absent]
  /\ report' = "none"
  /\ UNCHANGED <<open, current, recoverable>>

(* A call fails or is under way, and nothing else changes. *)
Report ==
  /\ report' \in {"none", "error", "duplicate"}
  /\ UNCHANGED <<open, live, current, recoverable>>

Publish ==
  /\ open
  /\ current' = live
  /\ recoverable' = recoverable \cup {live}
  /\ UNCHANGED <<open, live, report>>

Harden ==
  /\ recoverable' = {current}
  /\ UNCHANGED <<open, live, current, report>>

(* A commit returns; the handle may be consumed by the call. *)
Return ==
  /\ open
  /\ report' \in {"committed", "durable", "error"}
  /\ recoverable' \in {recoverable, {current}}
  /\ report' # "error" => current = live
  /\ report' = "durable" => recoverable' = {live}
  /\ \/ open' = TRUE /\ live' = live
     \/ open' = FALSE /\ live' = NoRows
  /\ UNCHANGED current

Crash ==
  /\ open
  /\ open' = FALSE
  /\ live' = NoRows
  /\ report' = "none"
  /\ UNCHANGED <<current, recoverable>>

PowerLoss ==
  /\ current' \in recoverable
  /\ recoverable' = {current'}
  /\ open' = FALSE
  /\ live' = NoRows
  /\ report' = "none"

Next ==
  \/ OpenIndex \/ Insert \/ Delete \/ Report
  \/ Publish \/ Harden \/ Return
  \/ Crash \/ PowerLoss

Spec == Init /\ [][Next]_vars

=============================================================================
