------------------------------ MODULE MCCommands ------------------------------
(* Commands for TLC: the inputs it enumerates. *)
EXTENDS Commands

CONSTANTS affine32, affine64

(* A line of every other kind. *)
Odd ==
  {[Values(0) EXCEPT !.text = "not_json"]}
  \cup {[Values(2) EXCEPT !.values = FALSE], [Values(2) EXCEPT !.seed = "same"]}
  \cup {[Values(2) EXCEPT !.scheme = s] : s \in Scheme}
  \cup UNION {{Signature(2, s), [Signature(2, s) EXCEPT !.values = TRUE],
               [Signature(2, s) EXCEPT !.scheme = None],
               [Signature(2, s) EXCEPT !.signature = "too_short"],
               [Signature(2, s) EXCEPT !.signature = "wider_than_u32"],
               [Signature(2, s) EXCEPT !.seed = "same"],
               [Signature(2, s) EXCEPT !.seed = "other"]} : s \in Scheme}

(* Short mixes of blank lines, records and repeated keys, and a good       *)
(* record followed by any other kind of line.                              *)
MCIndexInput ==
  UNION {[1..n -> {Blank, Values(1), Values(2)}] : n \in 0..3} \cup {<<Values(1), x>> : x \in Odd}
MCSearchInput ==
  UNION {[1..n -> {Blank, Values(1), Values(2)}] : n \in 0..4} \cup {<<Values(1), x, Values(1)>> : x \in Odd}
MCDedupInput ==
  UNION {[1..n -> {Blank} \cup {Values(k) : k \in 1..3}] : n \in 0..3} \cup {<<Values(1), x>> : x \in Odd}
===============================================================================
