------------------------------- MODULE MinHash -------------------------------
(***************************************************************************)
(* crates/pari-core: MinHash32 and MinHash64, which differ in the width of *)
(* their words only.  A sketch keeps, for each of num_perm permutations of *)
(* the words, the smallest permuted value of the hashes it was given.      *)
(*                                                                         *)
(* Values enter as their SHA-1 words.  The draws of SplitMix64 from a seed *)
(* are a constant: first num_perm multipliers, then num_perm offsets, so   *)
(* the offsets of a seed depend on the number of permutations.             *)
(***************************************************************************)
EXTENDS Naturals, Sequences, FiniteSets, FiniteSetsExt

CONSTANTS
  Width,     \* bits of a word, 32 or 64
  Shift,     \* the shifts of fmix
  Factor,    \* its odd factors
  Seed,
  Draw,      \* seed -> what SplitMix64 draws from it
  MaxPerm,   \* bound: num_perm
  Value,     \* the hashes considered
  Name,      \* the sketches a program holds
  None       \* no sketch yet

PowerOfTwo[n \in Nat] == IF n = 0 THEN 1 ELSE 2 * PowerOfTwo[n - 1]

Modulus == PowerOfTwo[Width]
Word == 0..(Modulus - 1)
MaxWord == Modulus - 1

MinHashAssumption ==
  /\ Width \in Nat \ {0} /\ MaxPerm \in Nat
  /\ Shift \in [1..3 -> Nat \ {0}]
  /\ Factor \in [1..2 -> {x \in Nat : x % 2 = 1}]
  /\ Value \subseteq Word
  /\ Draw \in [Seed -> [1..(2 * MaxPerm) -> Word]]
  /\ None \notin [seed : Seed, hashvalues : Seq(Word)]

VARIABLES
  sketch,   \* name -> seed and hashvalues
  added     \* history: name -> the hashes that were added to it, or to what was merged

vars == <<sketch, added>>

(* fmix32 and fmix64 *)
ShiftRight(x, n) ==
  LET shifted[i \in 0..n] == IF i = 0 THEN x ELSE shifted[i - 1] \div 2 IN shifted[n]

Bit(x, i) == ShiftRight(x, i) % 2

Xor(x, y) ==
  LET sum[i \in 0..Width] ==
        IF i = 0 THEN 0
        ELSE sum[i - 1] + (IF Bit(x, i - 1) = Bit(y, i - 1) THEN 0 ELSE PowerOfTwo[i - 1])
  IN sum[Width]

XorShift(x, n) == Xor(x, ShiftRight(x, n))
WrappingMul(x, y) == (x * y) % Modulus
WrappingAdd(x, y) == (x + y) % Modulus

Fmix(h) ==
  LET a == WrappingMul(XorShift(h, Shift[1]), Factor[1])
      b == WrappingMul(XorShift(a, Shift[2]), Factor[2])
  IN XorShift(b, Shift[3])

(* new: the arrays every sketch of a seed and a length shares. *)
AnyMultiplier(x) == x
OddMultiplier(x) == IF x % 2 = 0 THEN x + 1 ELSE x
Multipliers(seed, n) == [i \in 1..n |-> OddMultiplier(Draw[seed][i])]
Offsets(seed, n) == [i \in 1..n |-> Draw[seed][n + i]]

Permuted(seed, n, i, h) ==
  WrappingAdd(WrappingMul(Multipliers(seed, n)[i], Fmix(h)), Offsets(seed, n)[i])

NumPerm(s) == Len(sketch[s].hashvalues)

EmptyValues(n) == [i \in 1..n |-> MaxWord]

-----------------------------------------------------------------------------
Init == sketch = [s \in Name |-> None] /\ added = [s \in Name |-> {}]

(* validate_num_perm rejects 0; the other limit is the range of u32. *)
New(s, n, seed) ==
  /\ n > 0
  /\ sketch' = [sketch EXCEPT ![s] = [seed |-> seed, hashvalues |-> EmptyValues(n)]]
  /\ added' = [added EXCEPT ![s] = {}]

(* update, one by one what update_many does. *)
Lower(current, permuted) == IF permuted < current THEN permuted ELSE current

Update(s, h) ==
  /\ sketch[s] # None
  /\ sketch' = [sketch EXCEPT ![s].hashvalues =
       [i \in DOMAIN @ |-> Lower(@[i], Permuted(sketch[s].seed, NumPerm(s), i, h))]]
  /\ added' = [added EXCEPT ![s] = @ \cup {h}]

(* ensure_compatible *)
SameLength(s, t) == NumPerm(s) = NumPerm(t)
Compatible(s, t) == sketch[s].seed = sketch[t].seed /\ NumPerm(s) = NumPerm(t)

Last(current, incoming) == incoming
Least(current, incoming) == Min({current, incoming})

Merge(s, t) ==
  /\ sketch[s] # None /\ sketch[t] # None
  /\ Compatible(s, t)
  /\ sketch' = [sketch EXCEPT ![s].hashvalues =
       [i \in DOMAIN @ |-> Least(@[i], sketch[t].hashvalues[i])]]
  /\ added' = [added EXCEPT ![s] = @ \cup added[t]]

Clear(s) ==
  /\ sketch[s] # None
  /\ sketch' = [sketch EXCEPT ![s].hashvalues = EmptyValues(NumPerm(s))]
  /\ added' = [added EXCEPT ![s] = {}]

(* A stored signature comes back with the seed it was made with, which     *)
(* from_signature leaves to the caller.                                    *)
FromSignature(s, t) ==
  /\ sketch[t] # None
  /\ sketch' = [sketch EXCEPT ![s] = [seed |-> sketch[t].seed, hashvalues |-> sketch[t].hashvalues]]
  /\ added' = [added EXCEPT ![s] = added[t]]

Next ==
  \E s \in Name :
    \/ \E n \in 0..MaxPerm, seed \in Seed : New(s, n, seed)
    \/ \E h \in Value : Update(s, h)
    \/ \E t \in Name : Merge(s, t) \/ FromSignature(s, t)
    \/ Clear(s)

Spec == Init /\ [][Next]_vars

(* jaccard counts the positions at which two compatible sketches agree. *)
Matches(s, t) ==
  {i \in 1..NumPerm(s) : sketch[s].hashvalues[i] = sketch[t].hashvalues[i]}

-----------------------------------------------------------------------------
(* Properties                                                              *)

(* A sketch is a function of the set it stands for: the minimum, under     *)
(* each permutation, of the values added since it was created or cleared   *)
(* and of those of everything merged into it, whatever the order, the      *)
(* repetitions and the trips through a stored signature.                   *)
SketchOfSet ==
  \A s \in Name : sketch[s] # None =>
    \A i \in 1..NumPerm(s) :
      sketch[s].hashvalues[i] =
        Min({MaxWord} \cup {Permuted(sketch[s].seed, NumPerm(s), i, h) : h \in added[s]})

(* An element of S comes first under permutation i. *)
First(s, i) ==
  CHOOSE h \in added[s] : \A g \in added[s] :
    Permuted(sketch[s].seed, NumPerm(s), i, h) <= Permuted(sketch[s].seed, NumPerm(s), i, g)

(* Two sketches of sets that are not empty agree at exactly the positions  *)
(* where the same element comes first in both sets: odd multipliers and    *)
(* fmix are one-to-one on words, so no agreement comes from a collision of *)
(* different elements, and the estimate for disjoint sets is 0.            *)
AgreementIsShared ==
  \A s, t \in Name :
    /\ sketch[s] # None /\ sketch[t] # None /\ added[s] # {} /\ added[t] # {}
    /\ Compatible(s, t)
    => Matches(s, t) = {i \in 1..NumPerm(s) : First(s, i) = First(t, i)}

=============================================================================
