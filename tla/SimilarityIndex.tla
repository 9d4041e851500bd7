--------------------------- MODULE SimilarityIndex ---------------------------
(***************************************************************************)
(* What every index of pari promises about its contents, whatever keeps    *)
(* them: a map from live keys to rows, in which an insert only adds keys   *)
(* that were not live and a removal only takes keys away.  No step gives a *)
(* live key another row.                                                   *)
(***************************************************************************)
EXTENDS IndexTypes

VARIABLE rows

Init == rows = NoRows

Insert ==
  /\ rows' \in Rows
  /\ \A k \in Live(rows) : rows'[k] = rows[k]

Remove ==
  /\ rows' \in Rows
  /\ \A k \in Key : rows'[k] \in {rows[k], Absent}

Next == Insert \/ Remove

Spec == Init /\ [][Next]_rows

=============================================================================
