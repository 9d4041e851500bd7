----------------------------- MODULE IndexTypes -----------------------------
(***************************************************************************)
(* The data every local-store module shares: band-hash rows, the rows of   *)
(* an index, and the bucket tables built from them.                        *)
(*                                                                         *)
(* A sketch reaches the store only through band_hashes, one hash per LSH   *)
(* band, so a sketch is a Row.  An index maps each live key to its row;    *)
(* a key that is not live is mapped to Absent.  Bucket membership is a set *)
(* of keys: queries sort and deduplicate, so the order of a bucket vector  *)
(* is never observable.                                                    *)
(***************************************************************************)
CONSTANTS
  Key,    \* external u64 keys
  Band,   \* LSH band numbers, 0 .. params.bands - 1
  Hash,   \* values of one band hash
  Absent  \* marks a key with no row

Row == [Band -> Hash]

Rows == [Key -> Row \cup {Absent}]

(* Bucket tables: Vec<HashMap<u64, Vec<u64>>>, one table per band. *)
Tables == [Band -> [Hash -> SUBSET Key]]

ASSUME AbsentAssumption == Absent \notin Row

Live(rows) == {k \in Key : rows[k] # Absent}

NoRows == [k \in Key |-> Absent]

EmptyTables == [b \in Band |-> [h \in Hash |-> {}]]

(* The tables that hold exactly the keys of S under their rows: what       *)
(* add_overlay_key builds key by key, and what materialize_sorted_buckets  *)
(* writes into a snapshot when S is every live key.                        *)
TablesOf(S, rows) ==
  [b \in Band |-> [h \in Hash |-> {k \in S : rows[k] # Absent /\ rows[k][b] = h}]]

Materialize(rows) == TablesOf(Live(rows), rows)

(* The keys a table returns for a probe: the union of one bucket per band. *)
Members(tables, probe) == UNION {tables[b][probe[b]] : b \in Band}

(* The reference answer of a query: the live keys that agree with the      *)
(* probe on at least one band.                                             *)
Matches(rows, probe) == {k \in Live(rows) : \E b \in Band : rows[k][b] = probe[b]}

=============================================================================
