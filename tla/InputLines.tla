----------------------------- MODULE InputLines -----------------------------
(***************************************************************************)
(* crates/pari-cli: the lines that index, search and dedup read and the    *)
(* sketch a line gives.  A line is a JSON object with values or with a     *)
(* precomputed signature, a scheme and a producer seed, unless it is blank *)
(* or not such an object.  What is abstracted of a signature is whether it *)
(* has the right number of values and whether they fit 32 bits.            *)
(***************************************************************************)
EXTENDS Naturals, FiniteSets, Sequences, Functions

CONSTANTS
  Scheme,   \* pari-affine32-v1 and pari-affine64-v1
  Narrow,   \* the 32-bit one
  None      \* an absent field

SchemeAssumption == Narrow \in Scheme /\ None \notin Scheme

Line == [text : {"record", "blank", "not_json"}, key : Nat, values : BOOLEAN,
         signature : {"none", "fits", "too_short", "wider_than_u32"},
         scheme : Scheme \cup {None}, seed : {"none", "same", "other"}]

Values(key) ==
  [text |-> "record", key |-> key, values |-> TRUE, signature |-> "none", scheme |-> None, seed |-> "none"]
Signature(key, scheme) ==
  [Values(key) EXCEPT !.values = FALSE, !.signature = "fits", !.scheme = scheme]
Blank == [Values(0) EXCEPT !.text = "blank"]

(* make_sketch32 and make_sketch64, by the scheme, return a sketch. *)
SketchAnyWidth(line, scheme) ==
  IF line.values THEN line.signature = "none" /\ line.scheme = None /\ line.seed = "none"
  ELSE line.signature # "none" /\ line.scheme = scheme /\ line.signature # "too_short" /\ line.seed # "other"
MakeSketch(line, scheme) ==
  IF line.values
  THEN line.signature = "none" /\ line.scheme = None /\ line.seed = "none"
  ELSE /\ line.signature # "none"
       /\ line.scheme = scheme
       /\ line.signature # "too_short"
       /\ line.seed # "other"
       /\ scheme = Narrow => line.signature # "wider_than_u32"

-----------------------------------------------------------------------------
(* What the input asks for, for the properties: a record is usable when    *)
(* its signature could have been computed with these parameters.           *)
Comparable(r, scheme) ==
  \/ r.values /\ {r.signature, r.seed} = {"none"} /\ r.scheme = None
  \/ /\ ~r.values /\ r.scheme = scheme /\ r.seed \in {"none", "same"}
     /\ r.signature \in IF scheme = Narrow THEN {"fits"} ELSE {"fits", "wider_than_u32"}

UsableRecord(r, scheme) == r.text = "record" /\ Comparable(r, scheme)

Filled(input) == {i \in DOMAIN input : input[i].text # "blank"}
KeysOf(input) == {input[i].key : i \in Filled(input)}

(* Every line is blank or a usable record, and no key comes twice. *)
Usable(input, scheme) ==
  /\ \A i \in Filled(input) : UsableRecord(input[i], scheme)
  /\ \A i, j \in Filled(input) : input[i].key = input[j].key => i = j

(* A command that has read n lines in batches: the lines up to m are in    *)
(* its index, whose keys these are, and the others in the batch, each in a *)
(* place of its own.                                                       *)
Between(input, m, n) == {i \in Filled(input) : m < i /\ i <= n}

SplitAt(input, m, n, batch, keys) ==
  LET stored == Between(input, 0, m)
      waiting == Between(input, m, n) IN
  /\ keys = {input[i].key : i \in stored}
  /\ \A i, j \in stored : input[i].key = input[j].key => i = j
  /\ Range(batch) = {input[i].key : i \in waiting}
  /\ \A i, j \in waiting : i # j =>
       \E p, q \in DOMAIN batch : p # q /\ batch[p] = input[i].key /\ batch[q] = input[j].key

Ingested(input, scheme, n, batch, keys) ==
  /\ n \in 0..Len(input)
  /\ \A i \in Between(input, 0, n) : UsableRecord(input[i], scheme)
  /\ \E m \in 0..n : SplitAt(input, m, n, batch, keys)

=============================================================================
