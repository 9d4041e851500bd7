---------------------------- MODULE StorageProofs ----------------------------
(***************************************************************************)
(* Proofs about what is stored, for any constants: the two readers of the  *)
(* container over any body of cells, the descriptor, and the backend       *)
(* handle over the in-process backend with batches of any length.  The     *)
(* lazy index, and the operators that fold over a batch of probes, are     *)
(* only model checked.                                                     *)
(***************************************************************************)
EXTENDS Storage, Integers, Sequences, FiniteSetTheorems, SequenceTheorems, WellFoundedInduction, TLAPS

-----------------------------------------------------------------------------
(***************************************************************************)
(* Induction and recursion                                                 *)
(*                                                                         *)
(* A property is proved for all numbers by way of the set of numbers that  *)
(* have it, and a recursive function is known by way of the function that  *)
(* gives each value from the one before it.                                *)
(***************************************************************************)

(* A set of numbers has a least one. *)
LEMMA LeastNumber ==
  ASSUME NEW T \in SUBSET Nat, T # {}
  PROVE  \E m \in T : \A n \in T : m <= n
<1> DEFINE R == {ss \in Nat \X Nat : ss[1] < ss[2]}
<1>1. IsWellFoundedOn(R, Nat)
  BY NatLessThanWellFounded DEF OpToRel
<1>2. PICK x \in T : \A y \in T : ~(<<y, x>> \in R)
  BY <1>1, WFMin
<1>3. ASSUME NEW y \in T PROVE x <= y
  <2>1. <<y, x>> \in Nat \X Nat OBVIOUS
  <2>2. ~(y < x) BY <1>2, <2>1
  <2> QED BY <2>2
<1> QED BY <1>3

LEMMA Induction ==
  ASSUME NEW S, 0 \in S, \A n \in Nat : n \in S => n + 1 \in S
  PROVE  \A n \in Nat : n \in S
<1> DEFINE T == {n \in Nat : n \notin S}
<1> SUFFICES ASSUME T # {} PROVE FALSE OBVIOUS
<1>1. PICK m \in T : \A n \in T : m <= n BY LeastNumber
<1>2. m # 0 OBVIOUS
<1>3. m - 1 \in Nat /\ m - 1 \notin T BY <1>1, <1>2
<1>4. m - 1 \in S BY <1>3
<1> QED BY <1>4, <1>3

LEMMA InductionUpTo ==
  ASSUME NEW N \in Nat, NEW S, 0 \in S, \A n \in 0..(N - 1) : n \in S => n + 1 \in S
  PROVE  \A n \in 0..N : n \in S
<1> DEFINE T == {n \in Nat : n <= N => n \in S}
<1>1. 0 \in T OBVIOUS
<1>2. \A n \in Nat : n \in T => n + 1 \in T OBVIOUS
<1> HIDE DEF T
<1>3. \A n \in Nat : n \in T BY <1>1, <1>2, Induction
<1> QED BY <1>3 DEF T

(* f is base at 0, and G[n] gives its value at n from the one before. *)
IsRecursive(f, N, base, G, S) ==
  f \in [0..N -> S] /\ f[0] = base /\ \A n \in 1..N : f[n] = G[n][f[n - 1]]

LEMMA RecursionExists ==
  ASSUME NEW N \in Nat, NEW S, NEW base \in S, NEW G \in [1..N -> [S -> S]]
  PROVE  \E f : IsRecursive(f, N, base, G, S)
<1> DEFINE T == {m \in 0..N : \E f : IsRecursive(f, m, base, G, S)}
<1>1. 0 \in T
  <2>1. IsRecursive([i \in 0..0 |-> base], 0, base, G, S) BY DEF IsRecursive
  <2> QED BY <2>1
<1>2. ASSUME NEW m \in 0..(N - 1), m \in T PROVE m + 1 \in T
  <2>1. PICK f : IsRecursive(f, m, base, G, S) BY <1>2
  <2> DEFINE v == G[m + 1][f[m]]
             g == [i \in 0..(m + 1) |-> IF i = m + 1 THEN v ELSE f[i]]
  <2>2. f[m] \in S /\ m + 1 \in 1..N BY <2>1 DEF IsRecursive
  <2>3. v \in S BY <2>2
  <2>4. g \in [0..(m + 1) -> S] BY <2>1, <2>3 DEF IsRecursive
  <2>5. ASSUME NEW n \in 1..(m + 1) PROVE g[n] = G[n][g[n - 1]]
    <3>1. CASE n = m + 1 BY <3>1, <2>1
    <3>2. CASE n # m + 1
      <4>1. n \in 1..m /\ n - 1 \in 0..m BY <3>2
      <4>2. g[n] = f[n] /\ g[n - 1] = f[n - 1] BY <4>1
      <4> QED BY <4>1, <4>2, <2>1 DEF IsRecursive
    <3> QED BY <3>1, <3>2
  <2>6. g[0] = base BY <2>1 DEF IsRecursive
  <2>7. IsRecursive(g, m + 1, base, G, S) BY <2>4, <2>5, <2>6 DEF IsRecursive
  <2> QED BY <2>7
<1>3. \A m \in 0..N : m \in T
  <2> HIDE DEF T
  <2> QED BY <1>1, <1>2, InductionUpTo
<1> QED BY <1>3

-----------------------------------------------------------------------------
(***************************************************************************)
(* The container                                                           *)
(*                                                                         *)
(* Neither reader changes the file, so both follow the same walk: its      *)
(* state k is where a reader stands that has accepted k frames.  The       *)
(* readers differ in the frames they accept.                               *)
(***************************************************************************)

CellSeq == Seq(Cell)
SectionRecord ==
  [kind : Cell, required : BOOLEAN, offset : Nat, length : Nat, sum : Cell]
WalkState == [cursor : Nat, sections : Seq(SectionRecord)]

Fits(c) == Container!FrameFits(c) /\ Container!Bounded(Container!FrameAt(c)) /\ Container!PayloadFits(c)

After(s) ==
  IF Fits(s.cursor)
  THEN LET frame == Container!FrameAt(s.cursor) IN
       [cursor |-> s.cursor + 4 + frame.length,
        sections |-> IF Container!Known(frame)
                     THEN Append(s.sections, Container!Section(s.cursor, frame)) ELSE s.sections]
  ELSE s

Start == [cursor |-> 0, sections |-> <<>>]

IsWalk(walk) ==
  /\ walk \in [0..header.count -> WalkState]
  /\ walk[0] = Start
  /\ \A k \in 1..header.count : walk[k] = After(walk[k - 1])

LEMMA BodyIs ==
  ASSUME Container!ContainerAssumption, body \in Container!Bodies
  PROVE  body \in CellSeq /\ Len(body) \in Nat /\ body \in [1..Len(body) -> Cell]
<1>1. PICK n \in 0..MaxBody : body \in [1..n -> Cell] BY DEF Container!Bodies
<1>2. n \in Nat BY DEF Container!ContainerAssumption
<1> QED BY <1>1, <1>2 DEF CellSeq

LEMMA FrameType ==
  ASSUME Container!ContainerAssumption, body \in CellSeq, NEW c \in Nat, Container!FrameFits(c)
  PROVE  LET frame == Container!FrameAt(c) IN
         /\ frame.kind \in Cell /\ frame.flags \in Cell /\ frame.length \in Cell /\ frame.sum \in Cell
         /\ frame.length \in Nat
         /\ Container!Section(c, frame) \in SectionRecord
<1> DEFINE frame == Container!FrameAt(c)
<1>1. Len(body) \in Nat /\ body \in [1..Len(body) -> Cell] BY DEF CellSeq
<1>2. {c + 1, c + 2, c + 3, c + 4} \subseteq 1..Len(body)
  BY <1>1 DEF Container!FrameFits, Container!FrameSize
<1>3. frame.kind \in Cell /\ frame.flags \in Cell /\ frame.length \in Cell /\ frame.sum \in Cell
  BY <1>1, <1>2 DEF Container!FrameAt
<1>4. frame.length \in Nat BY <1>3 DEF Container!ContainerAssumption
<1>5. Container!Required(frame) \in BOOLEAN BY DEF Container!Required
<1>6. Container!Section(c, frame) \in SectionRecord
  <2> HIDE DEF frame
  <2> QED BY <1>3, <1>4, <1>5 DEF Container!Section, SectionRecord, Container!FrameSize
<1> QED BY <1>3, <1>4, <1>6

LEMMA AfterType ==
  ASSUME Container!ContainerAssumption, body \in CellSeq, NEW s \in WalkState
  PROVE  After(s) \in WalkState
<1>1. s.cursor \in Nat /\ s.sections \in Seq(SectionRecord) BY DEF WalkState
<1>2. CASE ~Fits(s.cursor) BY <1>2 DEF After
<1>3. CASE Fits(s.cursor)
  <2> DEFINE frame == Container!FrameAt(s.cursor)
             x == Container!Section(s.cursor, frame)
  <2>1. frame.length \in Nat /\ x \in SectionRecord
    BY <1>1, <1>3, FrameType DEF Fits
  <2>2. After(s) = [cursor |-> s.cursor + 4 + frame.length,
                    sections |-> IF Container!Known(frame) THEN Append(s.sections, x) ELSE s.sections]
    BY <1>3 DEF After
  <2> HIDE DEF frame, x
  <2>3. Append(s.sections, x) \in Seq(SectionRecord) BY <1>1, <2>1
  <2> QED BY <1>1, <2>1, <2>2, <2>3 DEF WalkState
<1> QED BY <1>2, <1>3

LEMMA WalkExists ==
  ASSUME Container!ContainerAssumption, body \in CellSeq, header.count \in Nat
  PROVE  \E walk : IsWalk(walk)
<1> DEFINE G == [k \in 1..header.count |-> [s \in WalkState |-> After(s)]]
<1>1. G \in [1..header.count -> [WalkState -> WalkState]] BY AfterType
<1>2. Start \in WalkState BY DEF Start, WalkState
<1>3. PICK f : IsRecursive(f, header.count, Start, G, WalkState)
  <2> HIDE DEF G
  <2> QED BY <1>1, <1>2, RecursionExists
<1>4. ASSUME NEW k \in 1..header.count PROVE f[k] = After(f[k - 1])
  <2> HIDE DEF G
  <2>1. f[k] = G[k][f[k - 1]] /\ f[k - 1] \in WalkState BY <1>3 DEF IsRecursive
  <2>2. G[k][f[k - 1]] = After(f[k - 1]) BY <2>1 DEF G
  <2> QED BY <2>1, <2>2
<1>5. IsWalk(f) BY <1>3, <1>4 DEF IsWalk, IsRecursive
<1> QED BY <1>5

(* What a reader that accepts the frames in positions Ok of the walk is    *)
(* doing, when its header check came out as hdr.                           *)
At(r, walk, k) ==
  /\ r.cursor = walk[k].cursor /\ r.sections = walk[k].sections
  /\ r.left = header.count - k

ReaderRecord(r) ==
  r = [status |-> r.status, cursor |-> r.cursor, left |-> r.left,
            sections |-> r.sections]

Stands(r, walk, Ok, k) ==
  /\ At(r, walk, k)
  /\ 0..(k - 1) \subseteq Ok
  /\ \/ r.status = "sections"
     \/ r.status = "refused" /\ k < header.count /\ k \notin Ok
     \/ r.status = "refused" /\ k = header.count /\ r.cursor # Len(body)
     \/ r.status = "accepted" /\ k = header.count /\ r.cursor = Len(body)

Follows(r, walk, Ok, hdr) ==
  /\ ReaderRecord(r)
  /\ \/ r = Container!Reader
     \/ r.status = "refused" /\ ~(hdr /\ header.count <= MaxSectionCount)
     \/ /\ hdr /\ header.count <= MaxSectionCount
        /\ \E k \in 0..header.count : Stands(r, walk, Ok, k)

DecodeGood(c) ==
  Fits(c) /\ Container!DecodeAccepts(Container!FrameAt(c), Container!Payload(c, Container!FrameAt(c)))
LayoutGood(c) ==
  Fits(c) /\ Container!LayoutAccepts(Container!FrameAt(c), Container!Payload(c, Container!FrameAt(c)))

DecodeOk(walk) == {k \in 0..(header.count - 1) : DecodeGood(walk[k].cursor)}
LayoutOk(walk) == {k \in 0..(header.count - 1) : LayoutGood(walk[k].cursor)}

LEMMA StartFollows ==
  ASSUME NEW walk, IsWalk(walk), header.count \in Nat, NEW Ok, NEW hdr \in BOOLEAN
  PROVE  Follows(Container!Started(hdr), walk, Ok, hdr)
<1> DEFINE r == Container!Started(hdr)
<1>1. CASE hdr /\ header.count <= MaxSectionCount
  <2>1. r = [status |-> "sections", cursor |-> 0, left |-> header.count, sections |-> <<>>]
    BY <1>1 DEF Container!Started, Container!Reader
  <2> HIDE DEF r
  <2>2. At(r, walk, 0) BY <2>1 DEF At, IsWalk, Start
  <2>3. Stands(r, walk, Ok, 0) BY <2>1, <2>2 DEF Stands
  <2>4. ReaderRecord(r) BY <2>1 DEF ReaderRecord
  <2>5. 0 \in 0..header.count OBVIOUS
  <2>6. Follows(r, walk, Ok, hdr) BY <1>1, <2>3, <2>4, <2>5 DEF Follows
  <2> QED BY <2>6 DEF r
<1>2. CASE ~(hdr /\ header.count <= MaxSectionCount)
  <2>1. r = [status |-> "refused", cursor |-> 0, left |-> 0, sections |-> <<>>]
    BY <1>2 DEF Container!Started, Container!Reader
  <2> HIDE DEF r
  <2>2. ReaderRecord(r) BY <2>1 DEF ReaderRecord
  <2>3. r.status = "refused" BY <2>1
  <2>4. Follows(r, walk, Ok, hdr) BY <1>2, <2>2, <2>3 DEF Follows
  <2> QED BY <2>4 DEF r
<1> QED BY <1>1, <1>2

(* A reader in its section loop stands at some k. *)
LEMMA LoopStands ==
  ASSUME NEW walk, NEW Ok, NEW hdr \in BOOLEAN, NEW r, Follows(r, walk, Ok, hdr),
         r.status = "sections"
  PROVE  /\ hdr /\ header.count <= MaxSectionCount
         /\ \E k \in 0..header.count : At(r, walk, k) /\ 0..(k - 1) \subseteq Ok
<1>1. r # Container!Reader BY DEF Container!Reader
<1> QED BY <1>1 DEF Follows, Stands

LEMMA EndFollows ==
  ASSUME NEW walk, NEW Ok, NEW hdr \in BOOLEAN, NEW r, Follows(r, walk, Ok, hdr),
         header.count \in Nat, r.status = "sections", r.left = 0
  PROVE  Follows(Container!Ended(r), walk, Ok, hdr)
<1>1. PICK k \in 0..header.count : At(r, walk, k) /\ 0..(k - 1) \subseteq Ok BY LoopStands
<1>2. k = header.count BY <1>1 DEF At
<1> DEFINE q == Container!Ended(r)
<1>3. q = [status |-> IF r.cursor = Len(body) THEN "accepted" ELSE "refused", cursor |-> r.cursor,
           left |-> r.left, sections |-> r.sections]
  BY DEF Container!Ended, Follows, ReaderRecord
<1> HIDE DEF q
<1>4. At(q, walk, k) BY <1>1, <1>3 DEF At
<1>5. Stands(q, walk, Ok, k) BY <1>1, <1>2, <1>3, <1>4 DEF Stands
<1>6. ReaderRecord(q) BY <1>3 DEF ReaderRecord
<1>7. hdr /\ header.count <= MaxSectionCount BY LoopStands
<1>8. Follows(q, walk, Ok, hdr) BY <1>5, <1>6, <1>7 DEF Follows
<1> QED BY <1>8 DEF q

LEMMA PassedIs ==
  ASSUME NEW r, ReaderRecord(r), NEW frame
  PROVE  Container!Passed(r, frame) =
           [status |-> r.status, cursor |-> r.cursor + 4 + frame.length, left |-> r.left - 1,
            sections |-> IF Container!Known(frame) THEN Append(r.sections, Container!Section(r.cursor, frame))
                         ELSE r.sections]
<1> DEFINE a == r.cursor + 4 + frame.length
           b == r.left - 1
           c == IF Container!Known(frame) THEN Append(r.sections, Container!Section(r.cursor, frame))
                ELSE r.sections
           st == r.status
           cu == r.cursor
           le == r.left
           se == r.sections
<1>1. r = [status |-> st, cursor |-> cu, left |-> le, sections |-> se] BY DEF ReaderRecord
<1>2. Container!Passed(r, frame) = [r EXCEPT !.cursor = a, !.left = b, !.sections = c]
  BY Zenon DEF Container!Passed, Container!FrameSize
<1> HIDE DEF a, b, c, st, cu, le, se
<1>3. [r EXCEPT !.cursor = a] = [status |-> st, cursor |-> a, left |-> le, sections |-> se] BY <1>1
<1>4. [[status |-> st, cursor |-> a, left |-> le, sections |-> se] EXCEPT !.left = b]
        = [status |-> st, cursor |-> a, left |-> b, sections |-> se]
  OBVIOUS
<1>5. [[status |-> st, cursor |-> a, left |-> b, sections |-> se] EXCEPT !.sections = c]
        = [status |-> st, cursor |-> a, left |-> b, sections |-> c]
  OBVIOUS
<1>6. [r EXCEPT !.cursor = a, !.left = b, !.sections = c]
        = [[[r EXCEPT !.cursor = a] EXCEPT !.left = b] EXCEPT !.sections = c]
  OBVIOUS
<1>7. Container!Passed(r, frame) = [status |-> st, cursor |-> a, left |-> b, sections |-> c]
  BY <1>2, <1>3, <1>4, <1>5, <1>6, Zenon
<1> QED BY <1>7, Zenon DEF a, b, c, st

LEMMA SectionFollows ==
  ASSUME NEW walk, IsWalk(walk), NEW Ok \in SUBSET (0..(header.count - 1)), NEW hdr \in BOOLEAN, NEW r,
         Follows(r, walk, Ok, hdr), header.count \in Nat, r.status = "sections", r.left > 0,
         NEW good \in BOOLEAN,
         \A k \in 0..(header.count - 1) : walk[k].cursor = r.cursor => (good <=> k \in Ok),
         good => Fits(r.cursor)
  PROVE  Follows(IF good THEN Container!Passed(r, Container!FrameAt(r.cursor))
                         ELSE Container!Refused(r), walk, Ok, hdr)
<1>1. PICK k \in 0..header.count : At(r, walk, k) /\ 0..(k - 1) \subseteq Ok BY LoopStands
<1>2. k \in 0..(header.count - 1) BY <1>1 DEF At
<1>3. good <=> k \in Ok BY <1>1, <1>2 DEF At
<1> DEFINE frame == Container!FrameAt(r.cursor)
           p == Container!Passed(r, frame)
           q == Container!Refused(r)
<1>4. CASE good
  <2>1. p = [status |-> r.status, cursor |-> r.cursor + 4 + frame.length, left |-> r.left - 1,
             sections |-> IF Container!Known(frame) THEN Append(r.sections, Container!Section(r.cursor, frame))
                          ELSE r.sections]
    BY PassedIs DEF Follows
  <2>2. walk[k + 1] = After(walk[k]) BY <1>2 DEF IsWalk
  <2>3. After(walk[k]) =
          [cursor |-> r.cursor + 4 + frame.length,
           sections |-> IF Container!Known(frame) THEN Append(r.sections, Container!Section(r.cursor, frame))
                          ELSE r.sections]
    BY <1>1, <1>4 DEF After, At
  <2> HIDE DEF p, frame
  <2>4. At(p, walk, k + 1) BY <1>1, <1>2, <2>1, <2>2, <2>3 DEF At
  <2>5. 0..k \subseteq Ok BY <1>1, <1>2, <1>3, <1>4
  <2>6. Stands(p, walk, Ok, k + 1)
    <3>1. (k + 1) - 1 = k BY <1>2
    <3> QED BY <2>1, <2>4, <2>5, <3>1 DEF Stands
  <2>7. ReaderRecord(p) BY <2>1 DEF ReaderRecord
  <2>8. k + 1 \in 0..header.count BY <1>2
  <2>9. Follows(p, walk, Ok, hdr) BY <2>6, <2>7, <2>8, LoopStands DEF Follows
  <2> QED BY <1>4, <2>9 DEF p, frame
<1>5. CASE ~good
  <2>1. q = [status |-> "refused", cursor |-> r.cursor, left |-> r.left, sections |-> r.sections]
    BY DEF Container!Refused, Follows, ReaderRecord
  <2> HIDE DEF q
  <2>2. At(q, walk, k) BY <1>1, <2>1 DEF At
  <2>3. Stands(q, walk, Ok, k) BY <1>1, <1>2, <1>3, <1>5, <2>1, <2>2 DEF Stands
  <2>4. ReaderRecord(q) BY <2>1 DEF ReaderRecord
  <2>5. Follows(q, walk, Ok, hdr) BY <2>3, <2>4, LoopStands DEF Follows
  <2> QED BY <1>5, <2>5 DEF q
<1> QED BY <1>4, <1>5

(* How a reader ends depends on the file only. *)
LEMMA EndIs ==
  ASSUME NEW walk, NEW Ok \in SUBSET (0..(header.count - 1)), NEW hdr \in BOOLEAN, NEW r,
         Follows(r, walk, Ok, hdr), header.count \in Nat, r.status \in {"accepted", "refused"}
  PROVE  /\ r.status = "accepted" <=>
              /\ hdr /\ header.count <= MaxSectionCount
              /\ Ok = 0..(header.count - 1)
              /\ walk[header.count].cursor = Len(body)
         /\ r.status = "accepted" =>
              r.sections = walk[header.count].sections /\ r.cursor = walk[header.count].cursor
<1>1. r # Container!Reader BY DEF Container!Reader
<1>2. CASE ~(hdr /\ header.count <= MaxSectionCount)
  BY <1>1, <1>2 DEF Follows
<1>3. CASE hdr /\ header.count <= MaxSectionCount
  <2>1. PICK k \in 0..header.count : Stands(r, walk, Ok, k) BY <1>1, <1>3 DEF Follows
  <2>2. At(r, walk, k) /\ 0..(k - 1) \subseteq Ok BY <2>1 DEF Stands
  <2>3. CASE k < header.count /\ k \notin Ok /\ r.status = "refused"
    <3>1. k \in 0..(header.count - 1) BY <2>3
    <3> QED BY <2>3, <3>1
  <2>4. CASE k = header.count /\ r.status = "refused" /\ r.cursor # Len(body)
    BY <2>2, <2>4 DEF At
  <2>5. CASE k = header.count /\ r.status = "accepted" /\ r.cursor = Len(body)
    <3>1. Ok = 0..(header.count - 1) BY <2>2, <2>5
    <3> QED BY <1>3, <2>2, <2>5, <3>1 DEF At
  <2> QED BY <2>1, <2>3, <2>4, <2>5 DEF Stands
<1> QED BY <1>2, <1>3

-----------------------------------------------------------------------------
(* The sections of a walk whose frames all fit. *)

AllFit(walk) == \A k \in 0..(header.count - 1) : Fits(walk[k].cursor)

LEMMA WalkStep ==
  ASSUME Container!ContainerAssumption, body \in CellSeq, header.count \in Nat,
         NEW walk, IsWalk(walk), AllFit(walk), NEW k \in 0..(header.count - 1)
  PROVE  LET frame == Container!FrameAt(walk[k].cursor)
             x == Container!Section(walk[k].cursor, frame) IN
         /\ walk[k] \in WalkState /\ walk[k + 1] \in WalkState
         /\ walk[k].cursor \in Nat /\ walk[k].sections \in Seq(SectionRecord)
         /\ frame.length \in Nat /\ x \in SectionRecord
         /\ walk[k + 1].cursor = walk[k].cursor + 4 + frame.length
         /\ walk[k + 1].cursor <= Len(body)
         /\ Container!Known(frame) => walk[k + 1].sections = Append(walk[k].sections, x)
         /\ ~Container!Known(frame) => walk[k + 1].sections = walk[k].sections
<1> DEFINE c == walk[k].cursor
           frame == Container!FrameAt(c)
           x == Container!Section(c, frame)
<1>1. walk[k] \in WalkState /\ walk[k + 1] \in WalkState BY DEF IsWalk
<1>2. c \in Nat /\ walk[k].sections \in Seq(SectionRecord) BY <1>1 DEF WalkState
<1>3. Fits(c) BY DEF AllFit
<1>4. frame.length \in Nat /\ x \in SectionRecord BY <1>2, <1>3, FrameType DEF Fits
<1>5. walk[k + 1] = After(walk[k])
  <2>1. k + 1 \in 1..header.count /\ (k + 1) - 1 = k OBVIOUS
  <2> QED BY <2>1 DEF IsWalk
<1>6. After(walk[k]) =
        [cursor |-> c + 4 + frame.length,
         sections |-> IF Container!Known(frame) THEN Append(walk[k].sections, x) ELSE walk[k].sections]
  BY <1>3 DEF After
<1>7. c + 4 + frame.length <= Len(body)
  BY <1>3 DEF Fits, Container!PayloadFits, Container!FrameSize
<1> HIDE DEF c, frame, x
<1>8. walk[k + 1].cursor = c + 4 + frame.length
  /\ (Container!Known(frame) => walk[k + 1].sections = Append(walk[k].sections, x))
  /\ (~Container!Known(frame) => walk[k + 1].sections = walk[k].sections)
  BY <1>5, <1>6
<1> QED BY <1>1, <1>2, <1>4, <1>7, <1>8 DEF c, frame, x

(* A section of the walk is that of a known frame, and the other way      *)
(* round.                                                                  *)
IsSection(walk, j, s) ==
  /\ Container!Known(Container!FrameAt(walk[j].cursor))
  /\ s = Container!Section(walk[j].cursor, Container!FrameAt(walk[j].cursor))

LEMMA SectionsAre ==
  ASSUME Container!ContainerAssumption, body \in CellSeq, header.count \in Nat,
         NEW walk, IsWalk(walk), AllFit(walk)
  PROVE  \A k \in 0..header.count :
           /\ \A i \in DOMAIN walk[k].sections :
                \E j \in 0..(k - 1) : IsSection(walk, j, walk[k].sections[i])
           /\ \A j \in 0..(k - 1) : Container!Known(Container!FrameAt(walk[j].cursor)) =>
                \E i \in DOMAIN walk[k].sections : IsSection(walk, j, walk[k].sections[i])
<1> DEFINE From(k) == \A i \in DOMAIN walk[k].sections :
                        \E j \in 0..(k - 1) : IsSection(walk, j, walk[k].sections[i])
           To(k) == \A j \in 0..(k - 1) : Container!Known(Container!FrameAt(walk[j].cursor)) =>
                        \E i \in DOMAIN walk[k].sections : IsSection(walk, j, walk[k].sections[i])
           T == {k \in 0..header.count : From(k) /\ To(k)}
<1>1. 0 \in T
  <2>1. walk[0].sections = <<>> BY DEF IsWalk, Start
  <2>2. 0..(0 - 1) = {} OBVIOUS
  <2>3. DOMAIN <<>> = {} OBVIOUS
  <2> QED BY <2>1, <2>2, <2>3
<1>2. ASSUME NEW k \in 0..(header.count - 1), k \in T PROVE k + 1 \in T
  <2> DEFINE frame == Container!FrameAt(walk[k].cursor)
             x == Container!Section(walk[k].cursor, frame)
             ss == walk[k].sections
  <2>1. /\ ss \in Seq(SectionRecord) /\ x \in SectionRecord
        /\ Container!Known(frame) => walk[k + 1].sections = Append(ss, x)
        /\ ~Container!Known(frame) => walk[k + 1].sections = ss
    BY WalkStep
  <2>2. k + 1 \in 0..header.count /\ 0..((k + 1) - 1) = 0..(k - 1) \cup {k} OBVIOUS
  <2>3. From(k) /\ To(k) BY <1>2
  <2>4. CASE ~Container!Known(frame) BY <2>1, <2>2, <2>3, <2>4
  <2>5. CASE Container!Known(frame)
    <3>1. IsSection(walk, k, x) BY <2>5 DEF IsSection
    <3> HIDE DEF x
    <3>2. walk[k + 1].sections = Append(ss, x) BY <2>1, <2>5
    <3>3. /\ DOMAIN ss = 1..Len(ss) /\ Len(ss) \in Nat
          /\ DOMAIN Append(ss, x) = 1..(Len(ss) + 1)
          /\ Append(ss, x)[Len(ss) + 1] = x
          /\ \A i \in 1..Len(ss) : Append(ss, x)[i] = ss[i]
      BY <2>1
    <3>4. From(k + 1)
      <4> SUFFICES ASSUME NEW i \in 1..(Len(ss) + 1)
                   PROVE  \E j \in 0..((k + 1) - 1) : IsSection(walk, j, Append(ss, x)[i])
        BY <3>2, <3>3
      <4>1. CASE i = Len(ss) + 1
        <5>1. k \in 0..((k + 1) - 1) BY <2>2
        <5> QED BY <3>1, <3>3, <4>1, <5>1
      <4>2. CASE i # Len(ss) + 1
        <5>1. i \in 1..Len(ss) BY <4>2, <3>3
        <5> QED BY <2>2, <2>3, <3>3, <5>1
      <4> QED BY <4>1, <4>2
    <3>5. To(k + 1)
      <4> SUFFICES ASSUME NEW j \in 0..((k + 1) - 1), Container!Known(Container!FrameAt(walk[j].cursor))
                   PROVE  \E i \in 1..(Len(ss) + 1) : IsSection(walk, j, Append(ss, x)[i])
        BY <3>2, <3>3
      <4>1. CASE j = k
        <5>1. Len(ss) + 1 \in 1..(Len(ss) + 1) BY <3>3
        <5> QED BY <3>1, <3>3, <4>1, <5>1
      <4>2. CASE j # k
        <5>1. j \in 0..(k - 1) BY <2>2, <4>2
        <5>2. PICK i \in DOMAIN ss : IsSection(walk, j, ss[i]) BY <2>3, <5>1
        <5>3. i \in 1..(Len(ss) + 1) BY <3>3
        <5> QED BY <3>3, <5>2, <5>3
      <4> QED BY <4>1, <4>2
    <3> QED BY <2>2, <3>4, <3>5
  <2> QED BY <2>4, <2>5
<1>3. \A k \in 0..header.count : k \in T
  <2> HIDE DEF T
  <2> QED BY <1>1, <1>2, InductionUpTo
<1> QED BY <1>3

(* The sections lie one behind the other before the cursor. *)
Tiled(s) ==
  /\ s.cursor <= Len(body)
  /\ \A i \in DOMAIN s.sections :
       /\ s.sections[i].offset >= 4
       /\ s.sections[i].offset + s.sections[i].length <= s.cursor
       /\ i > 1 => s.sections[i].offset >= s.sections[i - 1].offset + s.sections[i - 1].length + 4

LEMMA WalkTiled ==
  ASSUME Container!ContainerAssumption, body \in CellSeq, header.count \in Nat,
         NEW walk, IsWalk(walk), AllFit(walk)
  PROVE  \A k \in 0..header.count : Tiled(walk[k])
<1> DEFINE T == {k \in 0..header.count : Tiled(walk[k])}
<1>1. 0 \in T
  <2>1. Len(body) \in Nat BY DEF CellSeq
  <2>2. walk[0] = [cursor |-> 0, sections |-> <<>>] BY DEF IsWalk, Start
  <2>3. DOMAIN <<>> = {} OBVIOUS
  <2> QED BY <2>1, <2>2, <2>3 DEF Tiled
<1>2. ASSUME NEW k \in 0..(header.count - 1), k \in T PROVE k + 1 \in T
  <2> DEFINE c == walk[k].cursor
             frame == Container!FrameAt(c)
             x == Container!Section(c, frame)
             ss == walk[k].sections
  <2>1. /\ ss \in Seq(SectionRecord) /\ x \in SectionRecord /\ c \in Nat /\ frame.length \in Nat
        /\ walk[k + 1].cursor = c + 4 + frame.length /\ walk[k + 1].cursor <= Len(body)
        /\ Container!Known(frame) => walk[k + 1].sections = Append(ss, x)
        /\ ~Container!Known(frame) => walk[k + 1].sections = ss
    BY WalkStep
  <2>2. Tiled(walk[k]) BY <1>2
  <2>3. /\ DOMAIN ss = 1..Len(ss) /\ Len(ss) \in Nat
        /\ \A i \in 1..Len(ss) : ss[i] \in SectionRecord
    BY <2>1
  <2>4. \A i \in 1..Len(ss) : ss[i].offset \in Nat /\ ss[i].length \in Nat BY <2>3 DEF SectionRecord
  <2>5. \A i \in 1..Len(ss) :
          /\ ss[i].offset >= 4 /\ ss[i].offset + ss[i].length <= c
          /\ i > 1 => ss[i].offset >= ss[i - 1].offset + ss[i - 1].length + 4
    BY <2>2, <2>3 DEF Tiled
  <2>6. x.offset = c + 4 /\ x.length = frame.length BY DEF Container!Section, Container!FrameSize
  <2> DEFINE e == c + 4 + frame.length
  <2>10. c \in Nat /\ e \in Nat /\ c <= e /\ e <= Len(body) /\ walk[k + 1].cursor = e
    BY <2>1
  <2>11. x.offset + x.length = e /\ x.offset >= 4 /\ x.offset = c + 4 BY <2>1, <2>6
  <2> HIDE DEF c, frame, x, ss, e
  <2>7. CASE ~Container!Known(frame)
    <3>1. \A i \in 1..Len(ss) : ss[i].offset + ss[i].length <= e
      BY <2>4, <2>5, <2>10
    <3>2. walk[k + 1].sections = ss BY <2>1, <2>7
    <3>3. Tiled(walk[k + 1]) BY <2>3, <2>5, <2>10, <3>1, <3>2 DEF Tiled
    <3>4. k + 1 \in 0..header.count OBVIOUS
    <3> QED BY <3>3, <3>4
  <2>8. CASE Container!Known(frame)
    <3> DEFINE tt == Append(ss, x)
    <3>1. walk[k + 1].sections = tt BY <2>1, <2>8
    <3>2. /\ DOMAIN tt = 1..(Len(ss) + 1)
          /\ tt[Len(ss) + 1] = x
          /\ \A i \in 1..Len(ss) : tt[i] = ss[i]
      BY <2>1
    <3> HIDE DEF tt
    <3>3. ASSUME NEW i \in 1..(Len(ss) + 1)
          PROVE  /\ tt[i].offset >= 4 /\ tt[i].offset + tt[i].length <= e
                 /\ i > 1 => tt[i].offset >= tt[i - 1].offset + tt[i - 1].length + 4
      <4>1. CASE i = Len(ss) + 1
        <5>1. i > 1 => i - 1 \in 1..Len(ss) BY <4>1, <2>3
        <5>2. tt[i] = x BY <3>2, <4>1
        <5>3. ASSUME i > 1 PROVE x.offset >= tt[i - 1].offset + tt[i - 1].length + 4
          <6>1. tt[i - 1] = ss[i - 1] /\ i - 1 \in 1..Len(ss) BY <5>1, <5>3, <3>2
          <6>2. ss[i - 1].offset + ss[i - 1].length <= c /\ ss[i - 1].offset \in Nat /\ ss[i - 1].length \in Nat
            BY <6>1, <2>4, <2>5
          <6>3. c \in Nat /\ x.offset = c + 4 BY <2>10, <2>11
          <6>4. x.offset >= ss[i - 1].offset + ss[i - 1].length + 4 BY <6>2, <6>3
          <6> QED BY <6>1, <6>4
        <5>4. x.offset + x.length <= e BY <2>10, <2>11
        <5> QED BY <5>2, <5>3, <5>4, <2>11
      <4>2. CASE i # Len(ss) + 1
        <5>1. i \in 1..Len(ss) /\ (i > 1 => i - 1 \in 1..Len(ss)) BY <4>2, <2>3
        <5>2. tt[i] = ss[i] /\ (i > 1 => tt[i - 1] = ss[i - 1]) BY <5>1, <3>2
        <5>3. ss[i].offset + ss[i].length <= e BY <5>1, <2>4, <2>5, <2>10
        <5> QED BY <5>1, <5>2, <5>3, <2>5
      <4> QED BY <4>1, <4>2
    <3>4. Tiled(walk[k + 1]) BY <2>10, <3>1, <3>2, <3>3 DEF Tiled
    <3>5. k + 1 \in 0..header.count OBVIOUS
    <3> QED BY <3>4, <3>5
  <2> QED BY <2>7, <2>8
<1>3. \A k \in 0..header.count : k \in T
  <2> HIDE DEF T
  <2> QED BY <1>1, <1>2, InductionUpTo
<1> QED BY <1>3

(* TotalLength, by its partial sums. *)
Sums(s, g) ==
  /\ \A i \in 0..Len(s) : g[i] \in Nat
  /\ g[0] = 0
  /\ \A i \in 0..(Len(s) - 1) : g[i + 1] = g[i] + s[i + 1].length

LEMMA TotalHasSums ==
  ASSUME NEW s \in Seq(SectionRecord)
  PROVE  \E g : Sums(s, g) /\ Container!TotalLength(s) = g[Len(s)]
<1> DEFINE G == [i \in 1..Len(s) |-> [v \in Nat |-> v + s[i].length]]
<1>1. Len(s) \in Nat /\ \A i \in 1..Len(s) : s[i].length \in Nat
  <2>1. Len(s) \in Nat /\ \A i \in 1..Len(s) : s[i] \in SectionRecord OBVIOUS
  <2> QED BY <2>1 DEF SectionRecord
<1>2. G \in [1..Len(s) -> [Nat -> Nat]] BY <1>1
<1>3. PICK f : IsRecursive(f, Len(s), 0, G, Nat)
  <2> HIDE DEF G
  <2> QED BY <1>1, <1>2, RecursionExists
<1>4. f \in [0..Len(s) -> Nat] /\ f[0] = 0 BY <1>3 DEF IsRecursive
<1>5. ASSUME NEW i \in 1..Len(s) PROVE f[i] = f[i - 1] + s[i].length
  <2>1. f[i] = G[i][f[i - 1]]
    <3> HIDE DEF G
    <3> QED BY <1>3 DEF IsRecursive
  <2>2. f[i - 1] \in Nat BY <1>1, <1>4
  <2> QED BY <2>1, <2>2
<1> DEFINE g == CHOOSE h : h = [i \in 0..Len(s) |-> IF i = 0 THEN 0 ELSE h[i - 1] + s[i].length]
<1>6. f = [i \in 0..Len(s) |-> IF i = 0 THEN 0 ELSE f[i - 1] + s[i].length] BY <1>1, <1>4, <1>5
<1>7. g = [i \in 0..Len(s) |-> IF i = 0 THEN 0 ELSE g[i - 1] + s[i].length] BY <1>6
<1>8. Container!TotalLength(s) = g[Len(s)] BY DEF Container!TotalLength
<1> HIDE DEF g
<1>9. g[0] = 0 /\ \A i \in 0..(Len(s) - 1) : g[i + 1] = g[i] + s[i + 1].length
  <2> DEFINE K == [i \in 0..Len(s) |-> IF i = 0 THEN 0 ELSE g[i - 1] + s[i].length]
  <2>1. K[0] = 0 BY <1>1
  <2>2. ASSUME NEW i \in 0..(Len(s) - 1) PROVE K[i + 1] = g[i] + s[i + 1].length
    <3>1. i + 1 \in 0..Len(s) /\ i + 1 # 0 /\ (i + 1) - 1 = i BY <1>1
    <3>2. K[i + 1] = g[(i + 1) - 1] + s[i + 1].length BY <3>1
    <3> QED BY <3>1, <3>2
  <2>3. g = K BY <1>7
  <2> HIDE DEF K
  <2> QED BY <2>1, <2>2, <2>3
<1>10. \A i \in 0..Len(s) : g[i] \in Nat
  <2> DEFINE T == {i \in 0..Len(s) : g[i] \in Nat}
  <2>1. 0 \in T BY <1>1, <1>9
  <2>2. ASSUME NEW i \in 0..(Len(s) - 1), i \in T PROVE i + 1 \in T
    <3>1. i + 1 \in 1..Len(s) BY <1>1
    <3>2. g[i] \in Nat /\ s[i + 1].length \in Nat BY <1>1, <2>2, <3>1
    <3>3. g[i + 1] \in Nat BY <3>2, <1>9
    <3> QED BY <1>1, <3>1, <3>3
  <2> HIDE DEF T
  <2>3. \A i \in 0..Len(s) : i \in T BY <1>1, <2>1, <2>2, InductionUpTo
  <2> QED BY <2>3 DEF T
<1> QED BY <1>8, <1>9, <1>10 DEF Sums

LEMMA TotalOfAppend ==
  ASSUME NEW s \in Seq(SectionRecord), NEW x \in SectionRecord
  PROVE  /\ Container!TotalLength(s) \in Nat
         /\ Container!TotalLength(Append(s, x)) = Container!TotalLength(s) + x.length
<1> DEFINE t == Append(s, x)
<1>1. /\ t \in Seq(SectionRecord) /\ Len(s) \in Nat /\ Len(t) = Len(s) + 1 /\ t[Len(s) + 1] = x
      /\ \A i \in 1..Len(s) : t[i] = s[i]
  OBVIOUS
<1> HIDE DEF t
<1>2. PICK g : Sums(s, g) /\ Container!TotalLength(s) = g[Len(s)] BY TotalHasSums
<1>3. PICK h : Sums(t, h) /\ Container!TotalLength(t) = h[Len(t)] BY <1>1, TotalHasSums
<1>4. \A i \in 0..Len(s) : g[i] = h[i]
  <2> DEFINE T == {i \in 0..Len(s) : g[i] = h[i]}
  <2>1. 0 \in T BY <1>1, <1>2, <1>3 DEF Sums
  <2>2. ASSUME NEW i \in 0..(Len(s) - 1), i \in T PROVE i + 1 \in T
    <3>1. i + 1 \in 1..Len(s) /\ i \in 0..(Len(t) - 1) /\ i + 1 \in 0..Len(s) BY <1>1
    <3>2. g[i + 1] = g[i] + s[i + 1].length BY <1>2 DEF Sums
    <3>3. h[i + 1] = h[i] + t[i + 1].length BY <1>3, <3>1 DEF Sums
    <3>4. t[i + 1] = s[i + 1] BY <1>1, <3>1
    <3> QED BY <2>2, <3>1, <3>2, <3>3, <3>4
  <2> HIDE DEF T
  <2>3. \A i \in 0..Len(s) : i \in T BY <1>1, <2>1, <2>2, InductionUpTo
  <2> QED BY <2>3 DEF T
<1>5. Len(s) \in 0..Len(s) /\ Len(s) \in 0..(Len(t) - 1) BY <1>1
<1>6. h[Len(s) + 1] = h[Len(s)] + t[Len(s) + 1].length BY <1>3, <1>5 DEF Sums
<1>7. h[Len(s)] = g[Len(s)] /\ g[Len(s)] \in Nat BY <1>2, <1>4, <1>5 DEF Sums
<1>8. Container!TotalLength(t) = Container!TotalLength(s) + x.length
  BY <1>1, <1>2, <1>3, <1>6, <1>7
<1> QED BY <1>2, <1>7, <1>8 DEF t

LEMMA TotalOfNone == Container!TotalLength(<<>>) = 0
<1>1. <<>> \in Seq(SectionRecord) /\ Len(<<>>) = 0 OBVIOUS
<1>2. PICK g : Sums(<<>>, g) /\ Container!TotalLength(<<>>) = g[Len(<<>>)] BY <1>1, TotalHasSums
<1> QED BY <1>1, <1>2 DEF Sums

(* Without unknown sections the frames and payloads fill the file. *)
Filled(s, k) ==
  /\ Len(s.sections) <= k
  /\ Len(s.sections) = k => 4 * k + Container!TotalLength(s.sections) = s.cursor

LEMMA WalkFilled ==
  ASSUME Container!ContainerAssumption, body \in CellSeq, header.count \in Nat,
         NEW walk, IsWalk(walk), AllFit(walk)
  PROVE  \A k \in 0..header.count : Filled(walk[k], k)
<1> DEFINE T == {k \in 0..header.count : Filled(walk[k], k)}
<1>1. 0 \in T
  <2>1. walk[0] = [cursor |-> 0, sections |-> <<>>] BY DEF IsWalk, Start
  <2>2. Len(<<>>) = 0 OBVIOUS
  <2>3. Filled(walk[0], 0) BY <2>1, <2>2, TotalOfNone DEF Filled
  <2> QED BY <2>3
<1>2. ASSUME NEW k \in 0..(header.count - 1), k \in T PROVE k + 1 \in T
  <2> DEFINE c == walk[k].cursor
             frame == Container!FrameAt(c)
             x == Container!Section(c, frame)
             ss == walk[k].sections
  <2>1. /\ ss \in Seq(SectionRecord) /\ x \in SectionRecord /\ c \in Nat /\ frame.length \in Nat
        /\ walk[k + 1].cursor = c + 4 + frame.length
        /\ Container!Known(frame) => walk[k + 1].sections = Append(ss, x)
        /\ ~Container!Known(frame) => walk[k + 1].sections = ss
    BY WalkStep
  <2>2. /\ Len(ss) <= k
        /\ Len(ss) = k => 4 * k + Container!TotalLength(ss) = c
    BY <1>2 DEF Filled
  <2>3. x.length = frame.length BY DEF Container!Section
  <2> HIDE DEF c, frame, x, ss
  <2>4. /\ Container!TotalLength(ss) \in Nat
        /\ Container!TotalLength(Append(ss, x)) = Container!TotalLength(ss) + x.length
    BY <2>1, TotalOfAppend
  <2>5. Len(ss) \in Nat /\ Len(Append(ss, x)) = Len(ss) + 1 BY <2>1
  <2>6. CASE ~Container!Known(frame)
    <3>1. walk[k + 1].sections = ss BY <2>1, <2>6
    <3>2. Len(ss) <= k + 1 /\ Len(ss) # k + 1 BY <2>2, <2>5
    <3>3. Filled(walk[k + 1], k + 1) BY <3>1, <3>2 DEF Filled
    <3> QED BY <3>3
  <2>7. CASE Container!Known(frame)
    <3>1. walk[k + 1].sections = Append(ss, x) BY <2>1, <2>7
    <3>2. Len(Append(ss, x)) <= k + 1 BY <2>2, <2>5
    <3>3. ASSUME Len(Append(ss, x)) = k + 1
          PROVE  4 * (k + 1) + Container!TotalLength(Append(ss, x)) = c + 4 + frame.length
      <4>1. Len(ss) = k BY <3>3, <2>5
      <4>2. 4 * k + Container!TotalLength(ss) = c BY <4>1, <2>2
      <4> DEFINE n == frame.length
                 total == Container!TotalLength(ss)
      <4>3. n \in Nat /\ total \in Nat /\ c \in Nat /\ 4 * k + total = c BY <4>2, <2>1, <2>4
      <4>4. Container!TotalLength(Append(ss, x)) = total + n BY <2>3, <2>4
      <4> HIDE DEF n, total
      <4>5. 4 * (k + 1) + (total + n) = c + 4 + n BY <4>3
      <4> QED BY <4>4, <4>5 DEF n
    <3>4. walk[k + 1].cursor = c + 4 + frame.length BY <2>1
    <3>5. Filled(walk[k + 1], k + 1) BY <3>1, <3>2, <3>3, <3>4 DEF Filled
    <3> QED BY <3>5
  <2> QED BY <2>6, <2>7
<1>3. \A k \in 0..header.count : k \in T
  <2> HIDE DEF T
  <2> QED BY <1>1, <1>2, InductionUpTo
<1> QED BY <1>3

(* FlattenSeq, by its prefixes. *)
Prefixes(p, S, g) ==
  /\ \A i \in 0..Len(p) : g[i] \in Seq(S)
  /\ g[0] = <<>>
  /\ \A i \in 0..(Len(p) - 1) : g[i + 1] = g[i] \o p[i + 1]

LEMMA FlattenHasPrefixes ==
  ASSUME NEW S, NEW p \in Seq(Seq(S))
  PROVE  \E g : Prefixes(p, S, g) /\ Container!FlattenSeq(p) = g[Len(p)]
<1> DEFINE n == Len(p)
           G == [i \in 1..n |-> [v \in Seq(S) |-> v \o p[i]]]
<1>1. n \in Nat /\ \A i \in 1..n : p[i] \in Seq(S) OBVIOUS
<1> HIDE DEF n
<1>2. G \in [1..n -> [Seq(S) -> Seq(S)]] BY <1>1
<1>3. <<>> \in Seq(S) OBVIOUS
<1>4. PICK f : IsRecursive(f, n, <<>>, G, Seq(S))
  <2> HIDE DEF G
  <2> QED BY <1>1, <1>2, <1>3, RecursionExists
<1>5. f \in [0..n -> Seq(S)] /\ f[0] = <<>> BY <1>4 DEF IsRecursive
<1>6. ASSUME NEW i \in 1..n PROVE f[i] = f[i - 1] \o p[i]
  <2>1. f[i] = G[i][f[i - 1]]
    <3> HIDE DEF G
    <3> QED BY <1>4 DEF IsRecursive
  <2>2. f[i - 1] \in Seq(S) BY <1>1, <1>5
  <2> QED BY <2>1, <2>2
<1>7. \A i \in 0..(n - 1) : f[i + 1] = f[i] \o p[i + 1]
  <2> SUFFICES ASSUME NEW i \in 0..(n - 1) PROVE f[i + 1] = f[i] \o p[i + 1] OBVIOUS
  <2>1. i + 1 \in 1..n /\ (i + 1) - 1 = i BY <1>1
  <2> QED BY <2>1, <1>6
<1>8. Prefixes(p, S, f) BY <1>5, <1>7 DEF Prefixes, n
<1>9. CASE n = 0
  <2>1. p = <<>> BY <1>9 DEF n
  <2>2. Container!FlattenSeq(p) = p BY <1>9 DEF Container!FlattenSeq, n
  <2> QED BY <1>5, <1>8, <1>9, <2>1, <2>2 DEF n
<1>10. CASE n # 0
  <2> DEFINE g == CHOOSE h : h = [i \in 1..n |-> IF i = 1 THEN p[i] ELSE h[i - 1] \o p[i]]
             e == [i \in 1..n |-> f[i]]
  <2>1. f[1] = p[1]
    <3>1. 1 \in 1..n /\ 1 - 1 = 0 BY <1>1, <1>10
    <3>2. f[1] = <<>> \o p[1] BY <3>1, <1>5, <1>6
    <3>3. p[1] \in Seq(S) BY <3>1, <1>1
    <3> QED BY <3>2, <3>3, ConcatEmptySeq
  <2>2. e = [i \in 1..n |-> IF i = 1 THEN p[i] ELSE e[i - 1] \o p[i]]
    <3> SUFFICES ASSUME NEW i \in 1..n PROVE e[i] = IF i = 1 THEN p[i] ELSE e[i - 1] \o p[i]
      OBVIOUS
    <3>1. CASE i = 1 BY <3>1, <2>1
    <3>2. CASE i # 1
      <4>1. i - 1 \in 1..n BY <3>2, <1>1
      <4> QED BY <3>2, <4>1, <1>6
    <3> QED BY <3>1, <3>2
  <2> HIDE DEF e
  <2>3. g = [i \in 1..n |-> IF i = 1 THEN p[i] ELSE g[i - 1] \o p[i]] BY <2>2
  <2>4. Container!FlattenSeq(p) = g[n] BY <1>10 DEF Container!FlattenSeq, n
  <2> HIDE DEF g
  <2>5. g[1] = p[1] /\ \A i \in 1..(n - 1) : g[i + 1] = g[i] \o p[i + 1]
    <3> DEFINE K == [i \in 1..n |-> IF i = 1 THEN p[i] ELSE g[i - 1] \o p[i]]
    <3>1. K[1] = p[1] BY <1>1, <1>10
    <3>2. ASSUME NEW i \in 1..(n - 1) PROVE K[i + 1] = g[i] \o p[i + 1]
      <4>1. i + 1 \in 1..n /\ i + 1 # 1 /\ (i + 1) - 1 = i BY <1>1
      <4>2. K[i + 1] = g[(i + 1) - 1] \o p[i + 1] BY <4>1
      <4> QED BY <4>1, <4>2
    <3>3. g = K BY <2>3
    <3> HIDE DEF K
    <3> QED BY <3>1, <3>2, <3>3
  <2>6. \A i \in 0..n : i > 0 => g[i] = f[i]
    <3> DEFINE T == {i \in 0..n : i > 0 => g[i] = f[i]}
    <3>1. 0 \in T BY <1>1
    <3>2. ASSUME NEW i \in 0..(n - 1), i \in T PROVE i + 1 \in T
      <4>1. CASE i = 0 BY <4>1, <2>1, <2>5, <1>1, <1>10
      <4>2. CASE i # 0
        <5>1. i \in 1..(n - 1) /\ g[i] = f[i] BY <4>2, <3>2
        <5>2. g[i + 1] = f[i + 1] BY <5>1, <2>5, <1>7
        <5> QED BY <5>2, <1>1
      <4> QED BY <4>1, <4>2
    <3> HIDE DEF T
    <3>3. \A i \in 0..n : i \in T BY <1>1, <3>1, <3>2, InductionUpTo
    <3> QED BY <3>3 DEF T
  <2>7. g[n] = f[n] BY <1>1, <1>10, <2>6
  <2> QED BY <1>8, <2>4, <2>7 DEF n
<1> QED BY <1>9, <1>10

LEMMA FlattenOfAppend ==
  ASSUME NEW S, NEW p \in Seq(Seq(S)), NEW q \in Seq(S)
  PROVE  /\ Container!FlattenSeq(p) \in Seq(S)
         /\ Container!FlattenSeq(Append(p, q)) = Container!FlattenSeq(p) \o q
<1> DEFINE t == Append(p, q)
<1>1. /\ t \in Seq(Seq(S)) /\ Len(p) \in Nat /\ Len(t) = Len(p) + 1 /\ t[Len(p) + 1] = q
      /\ \A i \in 1..Len(p) : t[i] = p[i]
  OBVIOUS
<1> HIDE DEF t
<1>2. PICK g : Prefixes(p, S, g) /\ Container!FlattenSeq(p) = g[Len(p)] BY FlattenHasPrefixes
<1>3. PICK h : Prefixes(t, S, h) /\ Container!FlattenSeq(t) = h[Len(t)] BY <1>1, FlattenHasPrefixes
<1>4. \A i \in 0..Len(p) : g[i] = h[i]
  <2> DEFINE T == {i \in 0..Len(p) : g[i] = h[i]}
  <2>1. 0 \in T BY <1>1, <1>2, <1>3 DEF Prefixes
  <2>2. ASSUME NEW i \in 0..(Len(p) - 1), i \in T PROVE i + 1 \in T
    <3>1. i + 1 \in 1..Len(p) /\ i \in 0..(Len(t) - 1) /\ i + 1 \in 0..Len(p) BY <1>1
    <3>2. g[i + 1] = g[i] \o p[i + 1] BY <1>2 DEF Prefixes
    <3>3. h[i + 1] = h[i] \o t[i + 1] BY <1>3, <3>1 DEF Prefixes
    <3>4. t[i + 1] = p[i + 1] BY <1>1, <3>1
    <3> QED BY <2>2, <3>1, <3>2, <3>3, <3>4
  <2> HIDE DEF T
  <2>3. \A i \in 0..Len(p) : i \in T BY <1>1, <2>1, <2>2, InductionUpTo
  <2> QED BY <2>3 DEF T
<1>5. Len(p) \in 0..Len(p) /\ Len(p) \in 0..(Len(t) - 1) BY <1>1
<1>6. h[Len(p) + 1] = h[Len(p)] \o t[Len(p) + 1] BY <1>3, <1>5 DEF Prefixes
<1>7. h[Len(p)] = g[Len(p)] /\ g[Len(p)] \in Seq(S) BY <1>2, <1>4, <1>5 DEF Prefixes
<1>8. Container!FlattenSeq(t) = Container!FlattenSeq(p) \o q BY <1>1, <1>2, <1>3, <1>6, <1>7
<1> QED BY <1>2, <1>7, <1>8 DEF t

LEMMA FlattenOfNone == ASSUME NEW p, p = <<>> PROVE Container!FlattenSeq(p) = <<>>
<1>1. Len(p) = 0 OBVIOUS
<1> QED BY <1>1 DEF Container!FlattenSeq

LEMMA SubSeqJoin ==
  ASSUME NEW S, NEW b \in Seq(S), NEW a \in Nat, NEW m \in Nat, NEW n \in Nat,
         1 <= a, a <= m + 1, m <= n, n <= Len(b)
  PROVE  SubSeq(b, a, m) \o SubSeq(b, m + 1, n) = SubSeq(b, a, n)
<1> DEFINE u == SubSeq(b, a, m)
           v == SubSeq(b, m + 1, n)
           w == SubSeq(b, a, n)
<1>1. Len(b) \in Nat /\ \A i \in 1..Len(b) : b[i] \in S OBVIOUS
<1>2. u \in Seq(S) /\ Len(u) = m - a + 1 /\ \A i \in 1..(m - a + 1) : u[i] = b[a + i - 1]
  <2>1. \A i \in a..m : b[i] \in S BY <1>1
  <2>2. (IF a <= m THEN m - a + 1 ELSE 0) = m - a + 1 OBVIOUS
  <2> QED BY <2>1, <2>2, SubSeqProperties
<1>3. v \in Seq(S) /\ Len(v) = n - m /\ \A i \in 1..(n - m) : v[i] = b[m + i]
  <2>1. \A i \in (m + 1)..n : b[i] \in S BY <1>1
  <2>2. m + 1 \in Int /\ n - (m + 1) + 1 = n - m /\ (IF m + 1 <= n THEN n - (m + 1) + 1 ELSE 0) = n - m
    OBVIOUS
  <2>3. v \in Seq(S) /\ Len(v) = n - m /\ \A i \in 1..(n - m) : v[i] = b[(m + 1) + i - 1]
    BY <2>1, <2>2, SubSeqProperties
  <2>4. \A i \in 1..(n - m) : (m + 1) + i - 1 = m + i OBVIOUS
  <2> QED BY <2>3, <2>4
<1>4. w \in Seq(S) /\ Len(w) = n - a + 1 /\ \A i \in 1..(n - a + 1) : w[i] = b[a + i - 1]
  <2>1. \A i \in a..n : b[i] \in S BY <1>1
  <2>2. (IF a <= n THEN n - a + 1 ELSE 0) = n - a + 1 OBVIOUS
  <2> QED BY <2>1, <2>2, SubSeqProperties
<1> HIDE DEF u, v, w
<1>5. /\ u \o v \in Seq(S) /\ Len(u \o v) = Len(u) + Len(v)
      /\ \A i \in 1..(Len(u) + Len(v)) : (u \o v)[i] = IF i <= Len(u) THEN u[i] ELSE v[i - Len(u)]
  BY <1>2, <1>3, ConcatProperties
<1>6. Len(u \o v) = Len(w) BY <1>2, <1>3, <1>4, <1>5
<1>7. ASSUME NEW i \in 1..Len(u \o v) PROVE (u \o v)[i] = w[i]
  <2>1. i \in 1..(n - a + 1) BY <1>6, <1>4
  <2>2. w[i] = b[a + i - 1] BY <2>1, <1>4
  <2>3. CASE i <= m - a + 1
    <3>1. i \in 1..(m - a + 1) BY <2>1, <2>3
    <3>2. (u \o v)[i] = u[i] BY <1>5, <1>2, <2>3
    <3> QED BY <3>1, <3>2, <1>2, <2>2
  <2>4. CASE ~(i <= m - a + 1)
    <3>1. i - (m - a + 1) \in 1..(n - m) BY <2>1, <2>4
    <3>2. (u \o v)[i] = v[i - (m - a + 1)] BY <1>5, <1>2, <2>4
    <3>3. v[i - (m - a + 1)] = b[m + (i - (m - a + 1))] BY <3>1, <1>3
    <3>4. m + (i - (m - a + 1)) = a + i - 1 BY <2>1
    <3> QED BY <3>2, <3>3, <3>4, <2>2
  <2> QED BY <2>3, <2>4
<1>8. u \o v = w BY <1>4, <1>5, <1>6, <1>7, SeqEqual
<1> QED BY <1>8 DEF u, v, w

(* What encode writes for a section. *)
Piece(s) == Container!EncodeFrame(s) \o Container!RangeCells(s, 0, s.length)

LEMMA PieceIs ==
  ASSUME Container!ContainerAssumption, body \in CellSeq, NEW c \in Nat, DecodeGood(c)
  PROVE  LET frame == Container!FrameAt(c)
             x == Container!Section(c, frame) IN
         Piece(x) \in CellSeq /\ Piece(x) = SubSeq(body, c + 1, c + 4 + frame.length)
<1> DEFINE frame == Container!FrameAt(c)
           x == Container!Section(c, frame)
           n == frame.length
<1>1. Len(body) \in Nat /\ body \in [1..Len(body) -> Cell] BY DEF CellSeq
<1>2. Fits(c) /\ Container!Crc(Container!Payload(c, frame)) = frame.sum
  BY DEF DecodeGood, Container!DecodeAccepts
<1>3. n \in Nat BY <1>2, FrameType DEF Fits
<1>4. c + 4 + n <= Len(body) BY <1>2 DEF Fits, Container!PayloadFits, Container!FrameSize
<1>5. frame.flags \in {0, 1} BY <1>2 DEF Fits, Container!Bounded
<1>6. x.kind = frame.kind /\ x.required = (frame.flags = 1) /\ x.offset = c + 4 /\ x.length = n /\ x.sum = frame.sum
  BY DEF Container!Section, Container!FrameSize, Container!Required
<1>7. frame.kind = body[c + 1] /\ frame.flags = body[c + 2] /\ n = body[c + 3] /\ frame.sum = body[c + 4]
  BY DEF Container!FrameAt
<1>8. Container!Payload(c, frame) = SubSeq(body, (c + 4) + 1, c + 4 + n)
  BY DEF Container!Payload, Container!FrameSize
<1> HIDE DEF frame, x, n
<1>9. Container!RangeCells(x, 0, x.length) = SubSeq(body, (c + 4) + 1, c + 4 + n)
  <2>1. x.offset + 0 + 1 = (c + 4) + 1 /\ x.offset + 0 + x.length = c + 4 + n BY <1>3, <1>6
  <2> QED BY <2>1 DEF Container!RangeCells
<1>10. Container!Crc(Container!RangeCells(x, 0, x.length)) = body[c + 4]
  BY <1>2, <1>7, <1>8, <1>9
<1>11. (IF x.required THEN 1 ELSE 0) = body[c + 2]
  BY <1>5, <1>6, <1>7
<1>12. Container!EncodeFrame(x) = <<body[c + 1], body[c + 2], body[c + 3], body[c + 4]>>
  BY <1>6, <1>7, <1>10, <1>11 DEF Container!EncodeFrame
<1>13. <<body[c + 1], body[c + 2], body[c + 3], body[c + 4]>> = SubSeq(body, c + 1, c + 4)
  <2> DEFINE u == SubSeq(body, c + 1, c + 4)
             v == <<body[c + 1], body[c + 2], body[c + 3], body[c + 4]>>
  <2>1. \A i \in (c + 1)..(c + 4) : body[i] \in Cell BY <1>1, <1>3, <1>4
  <2>2. c + 1 \in Int /\ c + 4 \in Int /\ c + 1 <= c + 4 /\ (c + 4) - (c + 1) + 1 = 4 OBVIOUS
  <2>3. u \in Seq(Cell) /\ Len(u) = 4 /\ \A i \in 1..4 : u[i] = body[(c + 1) + i - 1]
    BY <2>1, <2>2, SubSeqProperties
  <2>4. v \in Seq(Cell) /\ Len(v) = 4
    <3>1. body[c + 1] \in Cell /\ body[c + 2] \in Cell /\ body[c + 3] \in Cell /\ body[c + 4] \in Cell
      BY <2>1
    <3> QED BY <3>1
  <2>5. \A i \in 1..4 : v[i] = u[i]
    <3>1. u[1] = body[c + 1] /\ u[2] = body[c + 2] /\ u[3] = body[c + 3] /\ u[4] = body[c + 4]
      <4>1. (c + 1) + 1 - 1 = c + 1 /\ (c + 1) + 2 - 1 = c + 2 /\ (c + 1) + 3 - 1 = c + 3 /\ (c + 1) + 4 - 1 = c + 4
        OBVIOUS
      <4>2. 1 \in 1..4 /\ 2 \in 1..4 /\ 3 \in 1..4 /\ 4 \in 1..4 OBVIOUS
      <4> HIDE DEF u
      <4> QED BY <2>3, <4>1, <4>2
    <3>2. v[1] = body[c + 1] /\ v[2] = body[c + 2] /\ v[3] = body[c + 3] /\ v[4] = body[c + 4] OBVIOUS
    <3> HIDE DEF u, v
    <3>3. \A i \in 1..4 : i = 1 \/ i = 2 \/ i = 3 \/ i = 4 OBVIOUS
    <3> QED BY <3>1, <3>2, <3>3
  <2> HIDE DEF u, v
  <2>6. v = u BY <2>3, <2>4, <2>5, SeqEqual
  <2> QED BY <2>6 DEF u, v
<1>14. SubSeq(body, c + 1, c + 4) \o SubSeq(body, (c + 4) + 1, c + 4 + n) = SubSeq(body, c + 1, c + 4 + n)
  <2>1. c + 1 \in Nat /\ c + 4 \in Nat /\ c + 4 + n \in Nat /\ 1 <= c + 1 /\ c + 1 <= (c + 4) + 1 /\ c + 4 <= c + 4 + n
    BY <1>3
  <2>2. body \in Seq(Cell) BY DEF CellSeq
  <2> HIDE DEF Container!FrameAt
  <2> QED BY <1>4, <2>1, <2>2, SubSeqJoin
<1>15. Piece(x) = SubSeq(body, c + 1, c + 4 + n) BY <1>9, <1>12, <1>13, <1>14 DEF Piece
<1>16. SubSeq(body, c + 1, c + 4 + n) \in Seq(Cell)
  <2>1. \A i \in (c + 1)..(c + 4 + n) : body[i] \in Cell BY <1>1, <1>3, <1>4
  <2>2. c + 1 \in Int /\ c + 4 + n \in Int BY <1>3
  <2> QED BY <2>1, <2>2, SubSeqProperties
<1> QED BY <1>15, <1>16 DEF CellSeq, frame, x, n

LEMMA EncodedIs ==
  ASSUME NEW ss \in Seq(SectionRecord), \A i \in DOMAIN ss : Piece(ss[i]) \in CellSeq,
         NEW x \in SectionRecord, Piece(x) \in CellSeq
  PROVE  Container!Encoded(Append(ss, x)) = Container!Encoded(ss) \o Piece(x)
<1> DEFINE p(s) == [i \in DOMAIN s |-> Piece(s[i])]
           t == Append(ss, x)
<1>1. \A s : Container!Encoded(s) = Container!FlattenSeq(p(s)) BY DEF Container!Encoded, Piece
<1>2. /\ DOMAIN ss = 1..Len(ss) /\ Len(ss) \in Nat
      /\ DOMAIN t = 1..(Len(ss) + 1) /\ t[Len(ss) + 1] = x
      /\ \A i \in 1..Len(ss) : t[i] = ss[i]
  OBVIOUS
<1> HIDE DEF t
<1>3. p(ss) \in Seq(CellSeq) /\ Len(p(ss)) = Len(ss) BY <1>2
<1>4. p(t) = Append(p(ss), Piece(x))
  <2> DEFINE a == p(ss)
             b == p(t)
             y == Piece(x)
  <2>1. y \in CellSeq /\ a \in Seq(CellSeq) /\ Len(a) = Len(ss) /\ \A i \in 1..Len(ss) : a[i] = Piece(ss[i])
    BY <1>2, <1>3
  <2>2. b = [i \in 1..(Len(ss) + 1) |-> Piece(t[i])] BY <1>2
  <2>3. \A i \in 1..(Len(ss) + 1) : Piece(t[i]) = IF i = Len(ss) + 1 THEN y ELSE a[i]
    BY <1>2, <2>1
  <2> HIDE DEF a, y
  <2>4. /\ Append(a, y) \in Seq(CellSeq) /\ Len(Append(a, y)) = Len(ss) + 1
        /\ \A i \in 1..(Len(ss) + 1) : Append(a, y)[i] = IF i = Len(ss) + 1 THEN y ELSE a[i]
    BY <1>2, <2>1
  <2>5. \A i \in 1..Len(ss) : a[i] \in CellSeq BY <2>1
  <2>6. \A i \in 1..(Len(ss) + 1) : Piece(t[i]) \in CellSeq BY <1>2, <2>1, <2>3, <2>5
  <2>7. /\ b \in Seq(CellSeq) /\ Len(b) = Len(ss) + 1
        /\ \A i \in 1..(Len(ss) + 1) : b[i] = Piece(t[i])
    BY <1>2, <2>2, <2>6
  <2> HIDE DEF b
  <2>8. \A i \in 1..Len(b) : b[i] = Append(a, y)[i] BY <2>3, <2>4, <2>7
  <2>9. b = Append(a, y) BY <2>4, <2>7, <2>8, SeqEqual
  <2> QED BY <2>9 DEF a, b, y
<1>5. Container!FlattenSeq(Append(p(ss), Piece(x))) = Container!FlattenSeq(p(ss)) \o Piece(x)
  <2> DEFINE a == p(ss)
             y == Piece(x)
  <2>1. a \in Seq(Seq(Cell)) /\ y \in Seq(Cell) BY <1>3 DEF CellSeq
  <2> HIDE DEF a, y
  <2>2. Container!FlattenSeq(Append(a, y)) = Container!FlattenSeq(a) \o y BY <2>1, FlattenOfAppend
  <2> QED BY <2>2 DEF a, y
<1> QED BY <1>1, <1>4, <1>5, Zenon DEF t

LEMMA EncodedOfNone == Container!Encoded(<<>>) = <<>>
<1> DEFINE p == [i \in DOMAIN <<>> |-> Piece(<<>>[i])]
<1>1. p = <<>> OBVIOUS
<1>2. Container!Encoded(<<>>) = Container!FlattenSeq(p) BY DEF Container!Encoded, Piece
<1> HIDE DEF p
<1> QED BY <1>1, <1>2, FlattenOfNone

(* A walk whose frames decode accepts is the encoding of its sections.     *)
Copied(s, k) ==
  /\ \A i \in DOMAIN s.sections : Piece(s.sections[i]) \in CellSeq
  /\ Len(s.sections) = k => Container!Encoded(s.sections) = SubSeq(body, 1, s.cursor)

LEMMA WalkCopied ==
  ASSUME Container!ContainerAssumption, body \in CellSeq, header.count \in Nat,
         NEW walk, IsWalk(walk), DecodeOk(walk) = 0..(header.count - 1)
  PROVE  \A k \in 0..header.count : Copied(walk[k], k)
<1> DEFINE T == {k \in 0..header.count : Copied(walk[k], k)}
<1>1. 0 \in T
  <2>1. walk[0] = [cursor |-> 0, sections |-> <<>>] BY DEF IsWalk, Start
  <2>2. SubSeq(body, 1, 0) = <<>> BY SubSeqEmpty
  <2>3. DOMAIN <<>> = {} OBVIOUS
  <2> DEFINE none == <<>>
             first == SubSeq(body, 1, 0)
  <2>4. walk[0].sections = none /\ walk[0].cursor = 0 BY <2>1
  <2>5. DOMAIN none = {} /\ Container!Encoded(none) = first BY <2>2, <2>3, EncodedOfNone
  <2> HIDE DEF none
  <2>6. Copied(walk[0], 0) BY <2>4, <2>5 DEF Copied
  <2> QED BY <2>6
<1>2. ASSUME NEW k \in 0..(header.count - 1), k \in T PROVE k + 1 \in T
  <2> DEFINE c == walk[k].cursor
             frame == Container!FrameAt(c)
             x == Container!Section(c, frame)
             ss == walk[k].sections
             e == c + 4 + frame.length
  <2>0. AllFit(walk) BY DEF AllFit, DecodeOk, DecodeGood
  <2>1. /\ ss \in Seq(SectionRecord) /\ x \in SectionRecord /\ c \in Nat /\ frame.length \in Nat
        /\ walk[k + 1].cursor = e /\ e <= Len(body)
        /\ Container!Known(frame) => walk[k + 1].sections = Append(ss, x)
        /\ ~Container!Known(frame) => walk[k + 1].sections = ss
    BY <2>0, WalkStep
  <2>2. DecodeGood(c) BY DEF DecodeOk
  <2>3. Piece(x) \in CellSeq /\ Piece(x) = SubSeq(body, c + 1, e) BY <2>1, <2>2, PieceIs
  <2>4. /\ \A i \in DOMAIN ss : Piece(ss[i]) \in CellSeq
        /\ Len(ss) = k => Container!Encoded(ss) = SubSeq(body, 1, c)
    BY <1>2 DEF Copied
  <2>5. Len(ss) <= k BY <2>0, WalkFilled DEF Filled
  <2>6. c \in Nat /\ e \in Nat /\ c <= e BY <2>1
  <2>7. k + 1 \in 0..header.count OBVIOUS
  <2> HIDE DEF c, frame, x, ss, e
  <2>8. /\ DOMAIN ss = 1..Len(ss) /\ Len(ss) \in Nat /\ Len(Append(ss, x)) = Len(ss) + 1
        /\ DOMAIN Append(ss, x) = 1..(Len(ss) + 1)
        /\ Append(ss, x)[Len(ss) + 1] = x
        /\ \A i \in 1..Len(ss) : Append(ss, x)[i] = ss[i]
    BY <2>1
  <2>9. CASE ~Container!Known(frame)
    <3>1. walk[k + 1].sections = ss BY <2>1, <2>9
    <3>2. Len(ss) # k + 1 BY <2>5, <2>8
    <3>3. Copied(walk[k + 1], k + 1) BY <2>4, <3>1, <3>2 DEF Copied
    <3> QED BY <2>7, <3>3
  <2>10. CASE Container!Known(frame)
    <3> DEFINE tt == Append(ss, x)
    <3>1. walk[k + 1].sections = tt BY <2>1, <2>10
    <3>2. ASSUME NEW i \in DOMAIN tt PROVE Piece(tt[i]) \in CellSeq
      <4>1. i \in 1..(Len(ss) + 1) BY <2>8
      <4>2. CASE i = Len(ss) + 1
        <5>1. tt[i] = x BY <2>8, <4>2
        <5> QED BY <2>3, <5>1
      <4>3. CASE i # Len(ss) + 1
        <5>1. i \in 1..Len(ss) BY <2>8, <4>1, <4>3
        <5>2. tt[i] = ss[i] /\ i \in DOMAIN ss BY <2>8, <5>1
        <5> QED BY <2>4, <5>2
      <4> QED BY <4>2, <4>3
    <3>3. ASSUME Len(tt) = k + 1 PROVE Container!Encoded(tt) = SubSeq(body, 1, e)
      <4>1. Container!Encoded(tt) = Container!Encoded(ss) \o Piece(x) BY <2>1, <2>3, <2>4, EncodedIs
      <4>0. Len(ss) = k
        <5>1. Len(ss) \in Nat /\ Len(tt) = Len(ss) + 1 BY <2>8
        <5> HIDE DEF tt
        <5> QED BY <3>3, <5>1
      <4>2. Container!Encoded(ss) = SubSeq(body, 1, c) BY <2>4, <4>0
      <4>3. SubSeq(body, 1, c) \o SubSeq(body, c + 1, e) = SubSeq(body, 1, e)
        <5>1. body \in Seq(Cell) /\ e <= Len(body) /\ 1 \in Nat /\ 1 <= c + 1 BY <2>1, <2>6 DEF CellSeq
        <5> QED BY <2>6, <5>1, SubSeqJoin
      <4> QED BY <2>3, <4>1, <4>2, <4>3
    <3>4. walk[k + 1].cursor = e BY <2>1
    <3> HIDE DEF tt
    <3>5. Copied(walk[k + 1], k + 1) BY <3>1, <3>2, <3>3, <3>4 DEF Copied
    <3> QED BY <2>7, <3>5
  <2> QED BY <2>9, <2>10
<1>3. \A k \in 0..header.count : k \in T
  <2> HIDE DEF T
  <2> QED BY <1>1, <1>2, InductionUpTo
<1> QED BY <1>3

-----------------------------------------------------------------------------
(* Headers *)

FieldNames ==
  {"magic", "version", "size", "reserved", "algorithm", "scheme", "width", "codec", "num_perm",
   "bands", "rows", "count", "threshold", "features", "tail", "sum"}

HeaderFields(h) ==
  /\ h = [f \in FieldNames |-> h[f]]
  /\ h.magic \in BOOLEAN
  /\ h.count \in Nat

LEMMA FieldsRecord ==
  ASSUME NEW h, HeaderFields(h)
  PROVE  h = [magic |-> h.magic, version |-> h.version, size |-> h.size, reserved |-> h.reserved,
              algorithm |-> h.algorithm, scheme |-> h.scheme, width |-> h.width, codec |-> h.codec,
              num_perm |-> h.num_perm, bands |-> h.bands, rows |-> h.rows, count |-> h.count,
              threshold |-> h.threshold, features |-> h.features, tail |-> h.tail, sum |-> h.sum]
  BY DEF HeaderFields, FieldNames

LEMMA FieldSet ==
  ASSUME NEW h, HeaderFields(h), NEW v, NEW f \in FieldNames \ {"magic", "count"}
  PROVE  HeaderFields([h EXCEPT ![f] = v])
<1>1. DOMAIN h = FieldNames BY DEF HeaderFields
<1>2. h.magic \in BOOLEAN /\ h.count \in Nat BY DEF HeaderFields
<1>3. "magic" \in FieldNames /\ "count" \in FieldNames BY DEF FieldNames
<1> DEFINE d == [h EXCEPT ![f] = v]
<1>4. d = [g \in FieldNames |-> IF g = f THEN v ELSE h[g]] BY <1>1
<1>5. d["magic"] = h["magic"] BY <1>4, <1>3
<1>6. d["count"] = h["count"] BY <1>4, <1>3
<1>7. d = [g \in FieldNames |-> d[g]] BY <1>4
<1> HIDE DEF d
<1>8. d.magic = h.magic /\ d.count = h.count BY <1>5, <1>6
<1>9. HeaderFields(d) BY <1>2, <1>7, <1>8 DEF HeaderFields
<1> QED BY <1>9 DEF d

LEMMA CheckedIs ==
  ASSUME NEW h, HeaderFields(h)
  PROVE  Container!Checked(h) =
           [magic |-> h.magic, version |-> h.version, size |-> h.size, reserved |-> h.reserved,
            algorithm |-> h.algorithm, scheme |-> h.scheme, width |-> h.width, codec |-> h.codec,
            num_perm |-> h.num_perm, bands |-> h.bands, rows |-> h.rows, count |-> h.count,
            threshold |-> h.threshold, features |-> h.features, tail |-> 0, sum |-> <<>>]
<1> DEFINE g == [h EXCEPT !.sum = <<>>]
           f == [g EXCEPT !.tail = 0]
<1>1. g = [magic |-> h.magic, version |-> h.version, size |-> h.size, reserved |-> h.reserved,
            algorithm |-> h.algorithm, scheme |-> h.scheme, width |-> h.width, codec |-> h.codec,
            num_perm |-> h.num_perm, bands |-> h.bands, rows |-> h.rows, count |-> h.count,
            threshold |-> h.threshold, features |-> h.features, tail |-> h.tail, sum |-> <<>>]
  BY FieldsRecord
<1>2. Container!Checked(h) = f BY DEF Container!Checked
<1> HIDE DEF g
<1>3. f = [magic |-> h.magic, version |-> h.version, size |-> h.size, reserved |-> h.reserved,
            algorithm |-> h.algorithm, scheme |-> h.scheme, width |-> h.width, codec |-> h.codec,
            num_perm |-> h.num_perm, bands |-> h.bands, rows |-> h.rows, count |-> h.count,
            threshold |-> h.threshold, features |-> h.features, tail |-> 0, sum |-> <<>>]
  BY <1>1
<1> QED BY <1>2, <1>3

Sealed(s, c, n, t, b, r, f, count) ==
  [magic |-> TRUE, version |-> 1, size |-> 72, reserved |-> 0,
   algorithm |-> 1, scheme |-> s, width |-> Container!Width(s), codec |-> c,
   num_perm |-> n, bands |-> b, rows |-> r, count |-> count,
   threshold |-> t, features |-> f, tail |-> 0, sum |-> <<>>]

LEMMA WrittenIs ==
  ASSUME NEW s, NEW c, NEW n, NEW t, NEW b, NEW r, NEW f, NEW count \in Nat
  PROVE  LET w == Container!Written(s, c, n, t, b, r, f, count) IN
         /\ w = [magic |-> TRUE, version |-> 1, size |-> 72, reserved |-> 0,
                 algorithm |-> 1, scheme |-> s, width |-> Container!Width(s), codec |-> c,
                 num_perm |-> n, bands |-> b, rows |-> r, count |-> count,
                 threshold |-> t, features |-> f, tail |-> 0,
                 sum |-> Sealed(s, c, n, t, b, r, f, count)]
         /\ HeaderFields(w)
         /\ Container!Checked(w) = Sealed(s, c, n, t, b, r, f, count)
<1> DEFINE w == Container!Written(s, c, n, t, b, r, f, count)
           h == Sealed(s, c, n, t, b, r, f, count)
<1>1. HeaderFields(h) BY DEF HeaderFields, FieldNames, Sealed
<1>2. Container!Checked(h) = h BY <1>1, CheckedIs DEF Sealed
<1>3. w = [h EXCEPT !.sum = Container!Checked(h)] BY DEF Container!Written, Sealed
<1>4. w = [h EXCEPT !.sum = h] BY <1>2, <1>3
<1>5. w = [magic |-> TRUE, version |-> 1, size |-> 72, reserved |-> 0,
           algorithm |-> 1, scheme |-> s, width |-> Container!Width(s), codec |-> c,
           num_perm |-> n, bands |-> b, rows |-> r, count |-> count,
           threshold |-> t, features |-> f, tail |-> 0, sum |-> h]
  <2> DEFINE hh == h
  <2> HIDE DEF w, hh
  <2>1. w = [Sealed(s, c, n, t, b, r, f, count) EXCEPT !.sum = hh] BY <1>4 DEF hh
  <2>2. w = [magic |-> TRUE, version |-> 1, size |-> 72, reserved |-> 0,
             algorithm |-> 1, scheme |-> s, width |-> Container!Width(s), codec |-> c,
             num_perm |-> n, bands |-> b, rows |-> r, count |-> count,
             threshold |-> t, features |-> f, tail |-> 0, sum |-> hh]
    BY <2>1 DEF Sealed
  <2> QED BY <2>2 DEF hh
<1> HIDE DEF w, h
<1>6. HeaderFields(w) BY <1>5 DEF HeaderFields, FieldNames
<1>7. Container!Checked(w) = h
  <2>1. h = [magic |-> TRUE, version |-> 1, size |-> 72, reserved |-> 0,
             algorithm |-> 1, scheme |-> s, width |-> Container!Width(s), codec |-> c,
             num_perm |-> n, bands |-> b, rows |-> r, count |-> count,
             threshold |-> t, features |-> f, tail |-> 0, sum |-> <<>>]
    BY DEF h, Sealed
  <2>2. Container!Checked(w) =
          [magic |-> w.magic, version |-> w.version, size |-> w.size, reserved |-> w.reserved,
           algorithm |-> w.algorithm, scheme |-> w.scheme, width |-> w.width, codec |-> w.codec,
           num_perm |-> w.num_perm, bands |-> w.bands, rows |-> w.rows, count |-> w.count,
           threshold |-> w.threshold, features |-> w.features, tail |-> 0, sum |-> <<>>]
    BY <1>6, CheckedIs
  <2>3. /\ w.magic = TRUE /\ w.version = 1 /\ w.size = 72 /\ w.reserved = 0 /\ w.algorithm = 1
        /\ w.scheme = s /\ w.width = Container!Width(s) /\ w.codec = c /\ w.num_perm = n
        /\ w.bands = b /\ w.rows = r /\ w.count = count /\ w.threshold = t /\ w.features = f
    BY <1>5
  <2> QED BY <2>1, <2>2, <2>3, Zenon
<1> QED BY <1>5, <1>6, <1>7 DEF w, h

LEMMA ShapeIs ==
  ASSUME NEW s, NEW n, NEW b, NEW r
  PROVE  LET h == Container!Shape(s, n, b, r)
             q == Sealed(s, 3, n, "in range", b, r, 0, 0) IN
         /\ h = [magic |-> TRUE, version |-> 1, size |-> 72, reserved |-> 0,
                 algorithm |-> 1, scheme |-> s, width |-> Container!Width(s), codec |-> 3,
                 num_perm |-> n, bands |-> b, rows |-> r, count |-> 0,
                 threshold |-> "in range", features |-> 0, tail |-> 0, sum |-> q]
         /\ HeaderFields(h)
         /\ Container!Checked(h) = q
<1>1. 0 \in Nat OBVIOUS
<1> QED BY <1>1, WrittenIs, Zenon DEF Container!Shape

LEMMA DamagesHaveFields ==
  ASSUME NEW h, HeaderFields(h), NEW d \in Container!Damages(h)
  PROVE  HeaderFields(d)
<1>0. HeaderFields([h EXCEPT !.magic = FALSE])
  <2> DEFINE e == [h EXCEPT !.magic = FALSE]
  <2>1. DOMAIN h = FieldNames /\ h.count \in Nat BY DEF HeaderFields
  <2>2. e = [g \in FieldNames |-> IF g = "magic" THEN FALSE ELSE h[g]] BY <2>1
  <2>3. "magic" \in FieldNames /\ "count" \in FieldNames BY DEF FieldNames
  <2>4. e["magic"] = FALSE BY <2>2, <2>3
  <2>5. e["count"] = h["count"] BY <2>2, <2>3
  <2>6. e = [g \in FieldNames |-> e[g]] BY <2>2
  <2> HIDE DEF e
  <2>7. e.magic = FALSE /\ e.count = h.count BY <2>4, <2>5
  <2>8. HeaderFields(e) BY <2>1, <2>6, <2>7 DEF HeaderFields
  <2> QED BY <2>8 DEF e
<1>1. \/ d = [h EXCEPT !.magic = FALSE]
      \/ \E f \in {"version", "size", "reserved", "algorithm", "scheme", "width", "codec", "features", "tail"} :
           d = [h EXCEPT ![f] = Container!Unassigned]
      \/ d = [h EXCEPT !["threshold"] = "not finite"] \/ d = [h EXCEPT !["width"] = 64]
      \/ d = [h EXCEPT !["scheme"] = 2] \/ d = [h EXCEPT !["num_perm"] = 3] \/ d = [h EXCEPT !["codec"] = 2]
  BY Zenon DEF Container!Damages
<1>2. \A f \in {"version", "size", "reserved", "algorithm", "scheme", "width", "codec", "num_perm",
               "threshold", "features", "tail"} : \A v : HeaderFields([h EXCEPT ![f] = v])
  BY FieldSet DEF FieldNames
<1>3. \A f \in {"version", "size", "reserved", "algorithm", "scheme", "width", "codec", "features", "tail"} :
        HeaderFields([h EXCEPT ![f] = Container!Unassigned])
  BY <1>2
<1>4. HeaderFields([h EXCEPT !["threshold"] = "not finite"])
  <2> DEFINE v == "not finite"
  <2> HIDE DEF v
  <2>1. HeaderFields([h EXCEPT !["threshold"] = v]) BY <1>2
  <2> QED BY <2>1 DEF v
<1>5. HeaderFields([h EXCEPT !["width"] = 64]) BY <1>2
<1>6. HeaderFields([h EXCEPT !["scheme"] = 2]) BY <1>2
<1>7. HeaderFields([h EXCEPT !["num_perm"] = 3]) BY <1>2
<1>8. HeaderFields([h EXCEPT !["codec"] = 2]) BY <1>2
<1> QED BY <1>0, <1>1, <1>3, <1>4, <1>5, <1>6, <1>7, <1>8, Zenon

Headers == {Container!Good(count) : count \in 0..(MaxSectionCount + 1)} \cup Container!OtherHeaders

LEMMA HeadersHaveFields ==
  ASSUME Container!ContainerAssumption, NEW h \in Headers
  PROVE  HeaderFields(h)
<1>1. MaxSectionCount \in Nat /\ MaxHeaderWord \in Nat BY DEF Container!ContainerAssumption
<1>2. ASSUME NEW count \in Nat PROVE HeaderFields(Container!Good(count))
  BY WrittenIs DEF Container!Good
<1>3. CASE h \in Container!Shapes
  <2>1. PICK s \in Container!Scheme, n \in 0..MaxHeaderWord, b \in 0..MaxHeaderWord, r \in 0..MaxHeaderWord :
          h = Container!Shape(s, n, b, r)
    BY <1>3 DEF Container!Shapes
  <2> QED BY <2>1, ShapeIs
<1>4. ASSUME NEW d \in Container!Damages(Container!Good(0))
      PROVE  HeaderFields(d) /\ HeaderFields(Container!Resealed(d))
  <2>1. HeaderFields(d) BY <1>2, DamagesHaveFields
  <2>2. Container!Resealed(d) = [d EXCEPT !["sum"] = Container!Checked(d)] BY Zenon DEF Container!Resealed
  <2>3. "sum" \in FieldNames \ {"magic", "count"} BY DEF FieldNames
  <2> DEFINE v == Container!Checked(d)
  <2>4. Container!Resealed(d) = [d EXCEPT !["sum"] = v] BY <2>2
  <2> HIDE DEF v
  <2>5. HeaderFields([d EXCEPT !["sum"] = v]) BY <2>1, <2>3, FieldSet
  <2> QED BY <2>1, <2>4, <2>5
<1>5. 0..(MaxSectionCount + 1) \subseteq Nat BY <1>1
<1> QED BY <1>2, <1>3, <1>4, <1>5 DEF Headers, Container!OtherHeaders

(* A header that decodes is one encode_header writes. *)
LEMMA DecodesIsWritten ==
  ASSUME NEW h, HeaderFields(h), Container!HeaderDecodes(h)
  PROVE  h = Container!Written(h.scheme, h.codec, h.num_perm, h.threshold, h.bands, h.rows, h.features, h.count)
<1> DEFINE w == Container!Written(h.scheme, h.codec, h.num_perm, h.threshold, h.bands, h.rows, h.features, h.count)
           q == Sealed(h.scheme, h.codec, h.num_perm, h.threshold, h.bands, h.rows, h.features, h.count)
<1>1. w = [magic |-> TRUE, version |-> 1, size |-> 72, reserved |-> 0,
           algorithm |-> 1, scheme |-> h.scheme, width |-> Container!Width(h.scheme), codec |-> h.codec,
           num_perm |-> h.num_perm, bands |-> h.bands, rows |-> h.rows, count |-> h.count,
           threshold |-> h.threshold, features |-> h.features, tail |-> 0, sum |-> q]
  <2>1. h.count \in Nat BY DEF HeaderFields
  <2> QED BY <2>1, WrittenIs, Zenon
<1>2. /\ h.magic = TRUE /\ h.version = 1 /\ h.size = 72 /\ h.reserved = 0 /\ h.tail = 0
      /\ h.algorithm = 1 /\ h.width = Container!Width(h.scheme)
      /\ h.sum = Container!Checked(h)
  BY DEF Container!HeaderDecodes, HeaderFields
<1>3. Container!Checked(h) =
        [magic |-> h.magic, version |-> h.version, size |-> h.size, reserved |-> h.reserved,
         algorithm |-> h.algorithm, scheme |-> h.scheme, width |-> h.width, codec |-> h.codec,
         num_perm |-> h.num_perm, bands |-> h.bands, rows |-> h.rows, count |-> h.count,
         threshold |-> h.threshold, features |-> h.features, tail |-> 0, sum |-> <<>>]
  BY CheckedIs
<1>4. h.sum = q BY <1>2, <1>3, Zenon DEF Sealed
<1>5. h = [magic |-> h.magic, version |-> h.version, size |-> h.size, reserved |-> h.reserved,
           algorithm |-> h.algorithm, scheme |-> h.scheme, width |-> h.width, codec |-> h.codec,
           num_perm |-> h.num_perm, bands |-> h.bands, rows |-> h.rows, count |-> h.count,
           threshold |-> h.threshold, features |-> h.features, tail |-> h.tail, sum |-> h.sum]
  BY FieldsRecord
<1> HIDE DEF w, q
<1>6. h = w BY <1>1, <1>2, <1>4, <1>5, Zenon
<1> QED BY <1>6 DEF w

LEMMA HeaderDecodersAgree ==
  ASSUME NEW h
  PROVE  Container!HeaderDecodes(h) <=> Container!LayoutHeaderDecodes(h)
  BY DEF Container!HeaderDecodes, Container!LayoutHeaderDecodes, Container!ValidMetadata

LEMMA ShapeDecodes ==
  ASSUME Container!ContainerAssumption, NEW h \in Container!Shapes
  PROVE  Container!HeaderDecodes(h) <=> Container!ValidMetadata(h)
<1>1. PICK s \in Container!Scheme, n \in 0..MaxHeaderWord, b \in 0..MaxHeaderWord, r \in 0..MaxHeaderWord :
        h = Container!Shape(s, n, b, r)
  BY DEF Container!Shapes
<1> DEFINE q == Sealed(s, 3, n, "in range", b, r, 0, 0)
<1>2. /\ h = [magic |-> TRUE, version |-> 1, size |-> 72, reserved |-> 0,
              algorithm |-> 1, scheme |-> s, width |-> Container!Width(s), codec |-> 3,
              num_perm |-> n, bands |-> b, rows |-> r, count |-> 0,
              threshold |-> "in range", features |-> 0, tail |-> 0, sum |-> q]
      /\ Container!Checked(h) = q
  BY <1>1, ShapeIs
<1> HIDE DEF q
<1>3. /\ h.magic = TRUE /\ h.version = 1 /\ h.size = 72 /\ h.reserved = 0 /\ h.tail = 0
      /\ h.sum = q /\ h.algorithm = 1 /\ h.scheme = s /\ h.width = Container!Width(s) /\ h.codec = 3
  BY <1>2
<1>4. h.scheme \in Container!Scheme /\ h.width = Container!Width(h.scheme) /\ h.sum = Container!Checked(h)
  BY <1>2, <1>3
<1>5. 3 \in 1..5 OBVIOUS
<1> QED BY <1>3, <1>4, <1>5 DEF Container!HeaderDecodes

-----------------------------------------------------------------------------
(* Both readers follow one walk over a file that does not change. *)

Reads(walk) ==
  /\ IsWalk(walk)
  /\ Follows(decode, walk, DecodeOk(walk), Container!HeaderDecodes(header))
  /\ Follows(layout, walk, LayoutOk(walk), Container!LayoutHeaderDecodes(header))

ContainerInv ==
  /\ body \in Container!Bodies
  /\ header \in Headers
  /\ \E walk : Reads(walk)

LEMMA ContainerFile ==
  ASSUME Container!ContainerAssumption, ContainerInv
  PROVE  /\ body \in CellSeq /\ Len(body) \in Nat
         /\ HeaderFields(header) /\ header.count \in Nat
<1>1. HeaderFields(header) BY HeadersHaveFields DEF ContainerInv
<1> QED BY <1>1, BodyIs DEF ContainerInv, HeaderFields

LEMMA ContainerInitInv ==
  ASSUME Container!ContainerAssumption, Container!Init
  PROVE  ContainerInv
<1>1. header \in Headers BY DEF Container!Init, Headers
<1>2. body \in Container!Bodies
  <2>1. CASE body \in Container!Bodies BY <2>1
  <2>2. CASE body = <<>>
    <3>1. body \in [1..0 -> Cell] BY <2>2
    <3>2. 0 \in 0..MaxBody BY DEF Container!ContainerAssumption
    <3> QED BY <3>1, <3>2 DEF Container!Bodies
  <2> QED BY <2>1, <2>2 DEF Container!Init
<1>3. HeaderFields(header) BY <1>1, HeadersHaveFields
<1>4. header.count \in Nat /\ body \in CellSeq BY <1>2, <1>3, BodyIs DEF HeaderFields
<1>5. PICK walk : IsWalk(walk) BY <1>4, WalkExists
<1>6. ReaderRecord(Container!Reader) BY DEF ReaderRecord, Container!Reader
<1>7. decode = Container!Reader /\ layout = Container!Reader BY DEF Container!Init
<1>8. Reads(walk) BY <1>5, <1>6, <1>7 DEF Reads, Follows
<1> QED BY <1>1, <1>2, <1>8 DEF ContainerInv

(* The walk and what the readers accept depend on the file only. *)
LEMMA FileUnchanged ==
  ASSUME header' = header, body' = body, NEW walk
  PROVE  /\ IsWalk(walk)' <=> IsWalk(walk)
         /\ DecodeOk(walk)' = DecodeOk(walk) /\ LayoutOk(walk)' = LayoutOk(walk)
<1>1. \A c : Container!FrameAt(c)' = Container!FrameAt(c) BY DEF Container!FrameAt
<1>2. \A c : Fits(c)' <=> Fits(c)
  BY <1>1 DEF Fits, Container!FrameFits, Container!PayloadFits, Container!FrameAt
<1>3. \A c, f : Container!Payload(c, f)' = Container!Payload(c, f) BY DEF Container!Payload
<1>4. \A c : DecodeGood(c)' <=> DecodeGood(c) BY <1>1, <1>2, <1>3 DEF DecodeGood, Container!FrameAt
<1>5. \A c : LayoutGood(c)' <=> LayoutGood(c) BY <1>1, <1>2, <1>3 DEF LayoutGood, Container!FrameAt
<1>6. \A s : After(s)' = After(s) BY <1>1, <1>2 DEF After, Container!FrameAt
<1>7. IsWalk(walk)' <=> IsWalk(walk) BY <1>6 DEF IsWalk
<1> QED BY <1>4, <1>5, <1>7 DEF DecodeOk, LayoutOk

LEMMA FollowsUnchanged ==
  ASSUME header' = header, body' = body, NEW walk, NEW Ok, NEW hdr
  PROVE  \A r : Follows(r, walk, Ok, hdr)' <=> Follows(r, walk, Ok, hdr)
<1>1. \A r, k : Stands(r, walk, Ok, k)' <=> Stands(r, walk, Ok, k) BY DEF Stands, At
<1> QED BY <1>1 DEF Follows

LEMMA ContainerNextInv ==
  ASSUME Container!ContainerAssumption, ContainerInv, Container!Next
  PROVE  ContainerInv'
<1> DEFINE hd == Container!HeaderDecodes(header)
           hl == Container!LayoutHeaderDecodes(header)
<1>1. PICK walk : Reads(walk) BY DEF ContainerInv
<1>2. /\ IsWalk(walk)
      /\ Follows(decode, walk, DecodeOk(walk), hd) /\ Follows(layout, walk, LayoutOk(walk), hl)
  BY <1>1 DEF Reads
<1>3. header' = header /\ body' = body
  BY DEF Container!Next, Container!DecodeHeader, Container!DecodeSection, Container!DecodeEnd,
         Container!LayoutHeader, Container!LayoutSection, Container!LayoutEnd
<1>4. header.count \in Nat BY ContainerFile
<1>5. DecodeOk(walk) \in SUBSET (0..(header.count - 1)) /\ LayoutOk(walk) \in SUBSET (0..(header.count - 1))
  BY DEF DecodeOk, LayoutOk
<1>6. hd \in BOOLEAN /\ hl \in BOOLEAN
  BY DEF Container!HeaderDecodes, Container!LayoutHeaderDecodes
<1> HIDE DEF hd, hl
<1>7. Follows(decode', walk, DecodeOk(walk), hd)
  <2>1. CASE decode' = decode BY <1>2, <2>1
  <2>2. CASE Container!DecodeHeader
    BY <1>2, <1>4, <1>6, <2>2, StartFollows DEF Container!DecodeHeader, hd
  <2>3. CASE Container!DecodeEnd
    BY <1>2, <1>4, <1>6, <2>3, EndFollows DEF Container!DecodeEnd
  <2>4. CASE Container!DecodeSection
    <3> DEFINE good == DecodeGood(decode.cursor)
    <3>1. decode.status = "sections" /\ decode.left > 0
      BY <2>4 DEF Container!DecodeSection
    <3>2. decode' = IF good THEN Container!Passed(decode, Container!FrameAt(decode.cursor))
                            ELSE Container!Refused(decode)
      BY <2>4 DEF Container!DecodeSection, DecodeGood, Fits
    <3>3. good \in BOOLEAN /\ (good => Fits(decode.cursor)) BY DEF DecodeGood
    <3>4. \A k \in 0..(header.count - 1) : walk[k].cursor = decode.cursor => (good <=> k \in DecodeOk(walk))
      BY DEF DecodeOk
    <3> HIDE DEF good
    <3> QED BY <1>2, <1>4, <1>5, <1>6, <3>1, <3>2, <3>3, <3>4, SectionFollows
  <2> QED BY <2>1, <2>2, <2>3, <2>4
       DEF Container!Next, Container!LayoutHeader, Container!LayoutSection, Container!LayoutEnd
<1>8. Follows(layout', walk, LayoutOk(walk), hl)
  <2>1. CASE layout' = layout BY <1>2, <2>1
  <2>2. CASE Container!LayoutHeader
    BY <1>2, <1>4, <1>6, <2>2, StartFollows DEF Container!LayoutHeader, hl
  <2>3. CASE Container!LayoutEnd
    BY <1>2, <1>4, <1>6, <2>3, EndFollows DEF Container!LayoutEnd
  <2>4. CASE Container!LayoutSection
    <3> DEFINE good == LayoutGood(layout.cursor)
    <3>1. layout.status = "sections" /\ layout.left > 0
      BY <2>4 DEF Container!LayoutSection
    <3>2. layout' = IF good THEN Container!Passed(layout, Container!FrameAt(layout.cursor))
                            ELSE Container!Refused(layout)
      BY <2>4 DEF Container!LayoutSection, LayoutGood, Fits
    <3>3. good \in BOOLEAN /\ (good => Fits(layout.cursor)) BY DEF LayoutGood
    <3>4. \A k \in 0..(header.count - 1) : walk[k].cursor = layout.cursor => (good <=> k \in LayoutOk(walk))
      BY DEF LayoutOk
    <3> HIDE DEF good
    <3> QED BY <1>2, <1>4, <1>5, <1>6, <3>1, <3>2, <3>3, <3>4, SectionFollows
  <2> QED BY <2>1, <2>2, <2>3, <2>4
       DEF Container!Next, Container!DecodeHeader, Container!DecodeSection, Container!DecodeEnd
<1>9. hd' = hd /\ hl' = hl BY <1>3 DEF hd, hl
<1>10. Reads(walk)'
  <2>1. IsWalk(walk)' /\ DecodeOk(walk)' = DecodeOk(walk) /\ LayoutOk(walk)' = LayoutOk(walk)
    BY <1>2, <1>3, FileUnchanged
  <2>2. Follows(decode, walk, DecodeOk(walk), hd)'
    BY <1>3, <1>7, <1>9, <2>1, FollowsUnchanged
  <2>3. Follows(layout, walk, LayoutOk(walk), hl)'
    BY <1>3, <1>8, <1>9, <2>1, FollowsUnchanged
  <2> QED BY <2>1, <2>2, <2>3 DEF Reads, hd, hl
<1> QED BY <1>3, <1>10 DEF ContainerInv

(* How the two readers end. *)
LEMMA DecodeEnds ==
  ASSUME Container!ContainerAssumption, ContainerInv, NEW walk, Reads(walk),
         decode.status \in {"accepted", "refused"}
  PROVE  /\ decode.status = "accepted" <=>
              /\ Container!HeaderDecodes(header) /\ header.count <= MaxSectionCount
              /\ DecodeOk(walk) = 0..(header.count - 1)
              /\ walk[header.count].cursor = Len(body)
         /\ decode.status = "accepted" =>
              decode.sections = walk[header.count].sections /\ decode.cursor = walk[header.count].cursor
<1> DEFINE hd == Container!HeaderDecodes(header)
<1>1. hd \in BOOLEAN /\ DecodeOk(walk) \in SUBSET (0..(header.count - 1)) /\ header.count \in Nat
  BY ContainerFile DEF Container!HeaderDecodes, DecodeOk
<1>2. Follows(decode, walk, DecodeOk(walk), hd) BY DEF Reads
<1> HIDE DEF hd
<1>3. /\ decode.status = "accepted" <=>
           /\ hd /\ header.count <= MaxSectionCount
           /\ DecodeOk(walk) = 0..(header.count - 1)
           /\ walk[header.count].cursor = Len(body)
      /\ decode.status = "accepted" =>
           decode.sections = walk[header.count].sections /\ decode.cursor = walk[header.count].cursor
  BY <1>1, <1>2, EndIs
<1> QED BY <1>3 DEF hd

LEMMA LayoutEnds ==
  ASSUME Container!ContainerAssumption, ContainerInv, NEW walk, Reads(walk),
         layout.status \in {"accepted", "refused"}
  PROVE  /\ layout.status = "accepted" <=>
              /\ Container!LayoutHeaderDecodes(header) /\ header.count <= MaxSectionCount
              /\ LayoutOk(walk) = 0..(header.count - 1)
              /\ walk[header.count].cursor = Len(body)
         /\ layout.status = "accepted" =>
              layout.sections = walk[header.count].sections /\ layout.cursor = walk[header.count].cursor
<1> DEFINE hl == Container!LayoutHeaderDecodes(header)
<1>1. hl \in BOOLEAN /\ LayoutOk(walk) \in SUBSET (0..(header.count - 1)) /\ header.count \in Nat
  BY ContainerFile DEF Container!LayoutHeaderDecodes, LayoutOk
<1>2. Follows(layout, walk, LayoutOk(walk), hl) BY DEF Reads
<1> HIDE DEF hl
<1>3. /\ layout.status = "accepted" <=>
           /\ hl /\ header.count <= MaxSectionCount
           /\ LayoutOk(walk) = 0..(header.count - 1)
           /\ walk[header.count].cursor = Len(body)
      /\ layout.status = "accepted" =>
           layout.sections = walk[header.count].sections /\ layout.cursor = walk[header.count].cursor
  BY <1>1, <1>2, EndIs
<1> QED BY <1>3 DEF hl

LEMMA LayoutFits ==
  ASSUME NEW walk, LayoutOk(walk) = 0..(header.count - 1)
  PROVE  AllFit(walk)
  BY DEF AllFit, LayoutOk, LayoutGood

(* A section reads back when its payload has the checksum of its frame. *)
LEMMA SectionReadsIs ==
  ASSUME Container!ContainerAssumption, body \in CellSeq, NEW c \in Nat, Fits(c)
  PROVE  Container!SectionReads(Container!Section(c, Container!FrameAt(c))) <=>
           Container!Crc(Container!Payload(c, Container!FrameAt(c))) = Container!FrameAt(c).sum
<1> DEFINE frame == Container!FrameAt(c)
           x == Container!Section(c, frame)
           n == frame.length
<1>1. n \in Nat BY FrameType DEF Fits
<1>2. c + 4 + n <= Len(body) BY DEF Fits, Container!PayloadFits, Container!FrameSize
<1>3. x.offset = c + 4 /\ x.length = n /\ x.sum = frame.sum
  BY DEF Container!Section, Container!FrameSize
<1>4. Container!Payload(c, frame) = SubSeq(body, (c + 4) + 1, c + 4 + n)
  BY DEF Container!Payload, Container!FrameSize
<1> HIDE DEF frame, x, n
<1>5. Container!RangeReads(x, 0, x.length) BY <1>1, <1>2, <1>3 DEF Container!RangeReads
<1>6. Container!RangeCells(x, 0, x.length) = SubSeq(body, (c + 4) + 1, c + 4 + n)
  <2>1. x.offset + 0 + 1 = (c + 4) + 1 /\ x.offset + 0 + x.length = c + 4 + n BY <1>1, <1>3
  <2> QED BY <2>1 DEF Container!RangeCells
<1>7. Container!SectionReads(x) <=> Container!Crc(Container!Payload(c, frame)) = frame.sum
  BY <1>3, <1>4, <1>5, <1>6 DEF Container!SectionReads
<1> QED BY <1>7 DEF frame, x

LEMMA InvReadersAgree ==
  ASSUME Container!ContainerAssumption, ContainerInv
  PROVE  Container!ReadersAgree
<1> SUFFICES ASSUME Container!Both
             PROVE  /\ decode.status = "accepted" <=>
                         layout.status = "accepted" /\ \A i \in DOMAIN layout.sections :
                           Container!SectionReads(layout.sections[i])
                    /\ decode.status = "accepted" => decode.sections = layout.sections
  BY DEF Container!ReadersAgree
<1>1. PICK walk : Reads(walk) BY DEF ContainerInv
<1> DEFINE n == header.count
           ss == walk[n].sections
<1>2. body \in CellSeq /\ n \in Nat /\ IsWalk(walk) BY <1>1, ContainerFile DEF Reads
<1>3. /\ decode.status = "accepted" <=>
           /\ Container!HeaderDecodes(header) /\ n <= MaxSectionCount
           /\ DecodeOk(walk) = 0..(n - 1) /\ walk[n].cursor = Len(body)
      /\ decode.status = "accepted" => decode.sections = ss
  BY <1>1, DecodeEnds DEF Container!Both
<1>4. /\ layout.status = "accepted" <=>
           /\ Container!LayoutHeaderDecodes(header) /\ n <= MaxSectionCount
           /\ LayoutOk(walk) = 0..(n - 1) /\ walk[n].cursor = Len(body)
      /\ layout.status = "accepted" => layout.sections = ss
  BY <1>1, LayoutEnds DEF Container!Both
<1>5. Container!HeaderDecodes(header) <=> Container!LayoutHeaderDecodes(header) BY HeaderDecodersAgree
<1>6. DecodeOk(walk) = 0..(n - 1) <=>
        LayoutOk(walk) = 0..(n - 1) /\ \A i \in DOMAIN ss : Container!SectionReads(ss[i])
  <2> DEFINE c(k) == walk[k].cursor
             frame(k) == Container!FrameAt(c(k))
             sums(k) == Container!Crc(Container!Payload(c(k), frame(k))) = frame(k).sum
  <2>1. \A k \in 0..(n - 1) : DecodeGood(c(k)) <=> LayoutGood(c(k)) /\ (Container!Known(frame(k)) => sums(k))
    BY DEF DecodeGood, LayoutGood, Container!DecodeAccepts, Container!LayoutAccepts
  <2>2. \A k \in 0..(n - 1) : c(k) \in Nat BY <1>2 DEF IsWalk, WalkState
  <2>3. ASSUME LayoutOk(walk) = 0..(n - 1)
        PROVE  (\A i \in DOMAIN ss : Container!SectionReads(ss[i]))
                 <=> \A k \in 0..(n - 1) : Container!Known(frame(k)) => sums(k)
    <3>1. AllFit(walk) BY <2>3, LayoutFits
    <3>2. \A k \in 0..(n - 1) :
            Container!SectionReads(Container!Section(c(k), frame(k))) <=> sums(k)
      <4> SUFFICES ASSUME NEW k \in 0..(n - 1)
                   PROVE  Container!SectionReads(Container!Section(c(k), frame(k))) <=> sums(k)
        OBVIOUS
      <4>1. Fits(c(k)) /\ c(k) \in Nat BY <2>2, <3>1 DEF AllFit
      <4> QED BY <1>2, <4>1, SectionReadsIs
    <3>3. n \in 0..n BY <1>2
    <3>4. /\ \A i \in DOMAIN ss : \E j \in 0..(n - 1) : IsSection(walk, j, ss[i])
          /\ \A j \in 0..(n - 1) : Container!Known(frame(j)) => \E i \in DOMAIN ss : IsSection(walk, j, ss[i])
      BY <1>2, <3>1, <3>3, SectionsAre
    <3>5. \A j, s : IsSection(walk, j, s) <=>
            Container!Known(frame(j)) /\ s = Container!Section(c(j), frame(j))
      BY DEF IsSection
    <3> HIDE DEF ss, n, c, frame, sums
    <3> QED BY <3>2, <3>4, <3>5
  <2>4. DecodeOk(walk) = {k \in 0..(n - 1) : DecodeGood(c(k))} /\ LayoutOk(walk) = {k \in 0..(n - 1) : LayoutGood(c(k))}
    BY DEF DecodeOk, LayoutOk
  <2> HIDE DEF ss, n, c, frame, sums
  <2> QED BY <2>1, <2>3, <2>4
<1> HIDE DEF n, ss
<1> QED BY <1>3, <1>4, <1>5, <1>6

LEMMA InvTiles ==
  ASSUME Container!ContainerAssumption, ContainerInv
  PROVE  Container!LayoutTiles
<1> SUFFICES ASSUME layout.status = "accepted"
             PROVE  /\ \A i \in DOMAIN layout.sections :
                         LET s == layout.sections[i] IN
                         /\ s.offset >= 4 /\ Container!RangeReads(s, 0, s.length)
                         /\ i > 1 => s.offset >= layout.sections[i - 1].offset + layout.sections[i - 1].length + 4
                    /\ layout.cursor = Len(body)
                    /\ Len(layout.sections) = header.count
                         => 4 * header.count + Container!TotalLength(layout.sections) = Len(body)
  BY DEF Container!LayoutTiles, Container!FrameSize
<1>1. PICK walk : Reads(walk) BY DEF ContainerInv
<1> DEFINE n == header.count
           ss == walk[n].sections
<1>2. body \in CellSeq /\ n \in Nat /\ IsWalk(walk) /\ Len(body) \in Nat BY <1>1, ContainerFile DEF Reads
<1>3. /\ LayoutOk(walk) = 0..(n - 1) /\ walk[n].cursor = Len(body)
      /\ layout.sections = ss /\ layout.cursor = Len(body)
  BY <1>1, LayoutEnds
<1>4. AllFit(walk) BY <1>3, LayoutFits
<1>5. n \in 0..n BY <1>2
<1>6. Tiled(walk[n]) /\ Filled(walk[n], n) BY <1>2, <1>4, <1>5, WalkTiled, WalkFilled
<1>7. \A i \in DOMAIN ss :
        /\ ss[i].offset >= 4 /\ ss[i].offset + ss[i].length <= Len(body)
        /\ i > 1 => ss[i].offset >= ss[i - 1].offset + ss[i - 1].length + 4
  BY <1>3, <1>6 DEF Tiled
<1>8. \A i \in DOMAIN ss : ss[i].offset \in Nat /\ ss[i].length \in Nat
  <2>1. ss \in Seq(SectionRecord) BY <1>2, <1>5 DEF IsWalk, WalkState
  <2>2. \A i \in DOMAIN ss : ss[i] \in SectionRecord BY <2>1
  <2> QED BY <2>2 DEF SectionRecord
<1>9. Len(ss) = n => 4 * n + Container!TotalLength(ss) = Len(body) BY <1>3, <1>6 DEF Filled
<1> HIDE DEF ss
<1>10. \A i \in DOMAIN ss : Container!RangeReads(ss[i], 0, ss[i].length)
  BY <1>2, <1>7, <1>8 DEF Container!RangeReads
<1> QED BY <1>3, <1>7, <1>9, <1>10

LEMMA InvContainerCanonical ==
  ASSUME Container!ContainerAssumption, ContainerInv
  PROVE  Container!Canonical
<1> SUFFICES ASSUME decode.status = "accepted", Len(decode.sections) = header.count
             PROVE  Container!Encoded(decode.sections) = body
  BY DEF Container!Canonical
<1>1. PICK walk : Reads(walk) BY DEF ContainerInv
<1> DEFINE n == header.count
           ss == walk[n].sections
<1>2. body \in CellSeq /\ n \in Nat /\ IsWalk(walk) BY <1>1, ContainerFile DEF Reads
<1>3. DecodeOk(walk) = 0..(n - 1) /\ walk[n].cursor = Len(body) /\ decode.sections = ss
  BY <1>1, DecodeEnds
<1>4. n \in 0..n BY <1>2
<1>5. Copied(walk[n], n) BY <1>2, <1>3, <1>4, WalkCopied
<1>6. Container!Encoded(ss) = SubSeq(body, 1, Len(body)) BY <1>3, <1>5 DEF Copied
<1>7. SubSeq(body, 1, Len(body)) = body BY <1>2, SubSeqFull DEF CellSeq
<1> HIDE DEF ss
<1> QED BY <1>3, <1>6, <1>7

LEMMA InvHeadersAgree ==
  ASSUME Container!ContainerAssumption, ContainerInv
  PROVE  Container!HeadersAgree
<1> SUFFICES ASSUME Container!Both, body = <<>>, header.count = 0
             PROVE  /\ (decode.status = "accepted") = (layout.status = "accepted")
                    /\ decode.status = "accepted" =>
                         header = Container!Written(header.scheme, header.codec, header.num_perm,
                                    header.threshold, header.bands, header.rows, header.features, 0)
                    /\ header \in Container!Shapes =>
                         (Container!ValidMetadata(header) <=> decode.status = "accepted")
  BY DEF Container!HeadersAgree
<1>1. PICK walk : Reads(walk) BY DEF ContainerInv
<1>2. HeaderFields(header) /\ MaxSectionCount \in Nat BY ContainerFile DEF Container!ContainerAssumption
<1>3. walk[0].cursor = 0 BY <1>1 DEF Reads, IsWalk, Start
<1>4. Len(body) = 0 /\ 0..(0 - 1) = {} OBVIOUS
<1>5. DecodeOk(walk) = {} /\ LayoutOk(walk) = {} BY <1>4 DEF DecodeOk, LayoutOk
<1>6. decode.status = "accepted" <=> Container!HeaderDecodes(header)
  BY <1>1, <1>2, <1>3, <1>4, <1>5, DecodeEnds DEF Container!Both
<1>7. layout.status = "accepted" <=> Container!LayoutHeaderDecodes(header)
  BY <1>1, <1>2, <1>3, <1>4, <1>5, LayoutEnds DEF Container!Both
<1>8. decode.status = "accepted" <=> layout.status = "accepted"
  BY <1>6, <1>7, HeaderDecodersAgree
<1>9. decode.status = "accepted" =>
        header = Container!Written(header.scheme, header.codec, header.num_perm,
                   header.threshold, header.bands, header.rows, header.features, header.count)
  BY <1>2, <1>6, DecodesIsWritten
<1>10. header \in Container!Shapes => (Container!ValidMetadata(header) <=> decode.status = "accepted")
  BY <1>6, ShapeDecodes
<1> QED BY <1>8, <1>9, <1>10

-----------------------------------------------------------------------------
(***************************************************************************)
(* The descriptor                                                          *)
(***************************************************************************)

DescriptorRecord ==
  [threshold : Threshold, num_perm : Descriptor!Word, seed : {1}, bands : Descriptor!Word,
   rows : Descriptor!Word, retention : Descriptor!Requested]

(* What is stored is nothing, what create encoded, or words of another     *)
(* writer.                                                                 *)
DescriptorInv ==
  \/ stored = <<>> /\ created = NoRetention
  \/ /\ created \in DescriptorRecord /\ Descriptor!Valid(created)
     /\ stored = Descriptor!EncodeDescriptor(created)
  \/ /\ created = NoRetention
     /\ \E a, b, c, d, e, f, g \in Descriptor!Word : stored = <<a, b, c, d, e, f, g>> \/ stored = <<a, b, c, d, e, f>>

LEMMA DescriptorNextInv ==
  ASSUME Descriptor!DescriptorAssumption, DescriptorInv, Descriptor!Next
  PROVE  DescriptorInv'
<1>1. ASSUME NEW d \in DescriptorRecord, Descriptor!Create(d) PROVE DescriptorInv'
  <2>1. created' = d /\ Descriptor!Valid(d) /\ stored' = Descriptor!EncodeDescriptor(d)
    BY <1>1 DEF Descriptor!Create
  <2> QED BY <2>1 DEF DescriptorInv
<1>2. ASSUME NEW t \in Threshold, NEW p \in Descriptor!Word, NEW b \in Descriptor!Word,
             NEW r \in Descriptor!Word, NEW s \in Descriptor!Word, NEW m \in {Magic, 0},
             Descriptor!Found(<<m, t, p, 1, b, r, s>>) \/ Descriptor!Found(<<m, t, p, 1, b, r>>)
      PROVE  DescriptorInv'
  <2>1. m \in Descriptor!Word /\ t \in Descriptor!Word /\ 1 \in Descriptor!Word
    BY DEF Descriptor!DescriptorAssumption, Descriptor!Word
  <2>2. stored = <<>> BY <1>2 DEF Descriptor!Found
  <2>3. created = NoRetention BY <2>2 DEF DescriptorInv, Descriptor!EncodeDescriptor
  <2>4. created' = created BY <1>2 DEF Descriptor!Found
  <2>5. stored' = <<m, t, p, 1, b, r, s>> \/ stored' = <<m, t, p, 1, b, r>>
    BY <1>2 DEF Descriptor!Found
  <2> QED BY <2>1, <2>3, <2>4, <2>5 DEF DescriptorInv
<1>3. ASSUME NEW t \in Threshold, NEW p \in Descriptor!Word, NEW b \in Descriptor!Word,
             NEW r \in Descriptor!Word, NEW q \in Descriptor!Requested
      PROVE  [threshold |-> t, num_perm |-> p, seed |-> 1, bands |-> b, rows |-> r, retention |-> q]
               \in DescriptorRecord
  BY DEF DescriptorRecord
<1> QED BY <1>1, <1>2, <1>3 DEF Descriptor!Next

LEMMA EncodedDecodes ==
  ASSUME Descriptor!DescriptorAssumption, NEW d \in DescriptorRecord, Descriptor!Valid(d), NEW w,
         w = Descriptor!EncodeDescriptor(d)
  PROVE  Descriptor!Decodes(w) /\ Descriptor!Fields(w) = d
<1>1. d = [threshold |-> d.threshold, num_perm |-> d.num_perm, seed |-> d.seed,
           bands |-> d.bands, rows |-> d.rows, retention |-> d.retention]
  BY DEF DescriptorRecord
<1>2. CASE d.retention = NoRetention
  <2>1. w = <<Magic, d.threshold, d.num_perm, d.seed, d.bands, d.rows, MaxWord>>
    BY <1>2 DEF Descriptor!EncodeDescriptor
  <2>2. Descriptor!Fields(w) = d BY <1>1, <1>2, <2>1 DEF Descriptor!Fields
  <2>3. Len(w) = 7 /\ w[1] = Magic /\ w[7] # 0
    BY <2>1 DEF Descriptor!DescriptorAssumption
  <2> QED BY <2>2, <2>3 DEF Descriptor!Decodes
<1>3. CASE d.retention # NoRetention
  <2> DEFINE q == d.retention
  <2>1. q \in [secs : Descriptor!Word, fraction : BOOLEAN]
    BY <1>3 DEF DescriptorRecord, Descriptor!Requested
  <2>2. q.secs # 0 /\ ~q.fraction /\ q.secs <= MaxRetention
    BY <1>3 DEF Descriptor!Valid, Descriptor!ValidRetention
  <2>3. q.fraction = FALSE BY <2>1, <2>2
  <2>4. q = [secs |-> q.secs, fraction |-> FALSE] BY <2>1, <2>3
  <2>5. q.secs # MaxWord
    BY <2>1, <2>2 DEF Descriptor!DescriptorAssumption, Descriptor!Word
  <2>6. w = <<Magic, d.threshold, d.num_perm, d.seed, d.bands, d.rows, q.secs>>
    BY <1>3 DEF Descriptor!EncodeDescriptor
  <2>7. Descriptor!Fields(w) = d BY <1>1, <2>4, <2>5, <2>6 DEF Descriptor!Fields
  <2>8. Len(w) = 7 /\ w[1] = Magic /\ w[7] # 0 BY <2>2, <2>6
  <2> QED BY <2>7, <2>8 DEF Descriptor!Decodes
<1> QED BY <1>2, <1>3

LEMMA InvRoundTrip ==
  ASSUME Descriptor!DescriptorAssumption, DescriptorInv
  PROVE  Descriptor!RoundTrip
  BY EncodedDecodes DEF DescriptorInv, Descriptor!RoundTrip

LEMMA InvCanonical ==
  ASSUME Descriptor!DescriptorAssumption, DescriptorInv
  PROVE  Descriptor!Canonical
<1> SUFFICES ASSUME Descriptor!Decodes(stored)
             PROVE  Descriptor!EncodeDescriptor(Descriptor!Fields(stored)) = stored
  BY DEF Descriptor!Canonical
<1>1. Len(stored) = 7 /\ stored[1] = Magic BY DEF Descriptor!Decodes
<1>2. CASE created \in DescriptorRecord /\ Descriptor!Valid(created)
           /\ stored = Descriptor!EncodeDescriptor(created)
  BY <1>2, EncodedDecodes
<1>3. ASSUME NEW a \in Descriptor!Word, NEW b \in Descriptor!Word, NEW c \in Descriptor!Word,
             NEW d \in Descriptor!Word, NEW e \in Descriptor!Word, NEW f \in Descriptor!Word,
             NEW g \in Descriptor!Word,
             stored = <<a, b, c, d, e, f, g>> \/ stored = <<a, b, c, d, e, f>>
      PROVE  Descriptor!EncodeDescriptor(Descriptor!Fields(stored)) = stored
  <2>1. stored = <<a, b, c, d, e, f, g>>
    <3>1. Len(<<a, b, c, d, e, f>>) = 6 OBVIOUS
    <3> QED BY <1>1, <1>3, <3>1
  <2>2. a = Magic BY <1>1, <2>1
  <2>3. CASE g = MaxWord
    BY <2>1, <2>2, <2>3 DEF Descriptor!EncodeDescriptor, Descriptor!Fields
  <2>4. CASE g # MaxWord
    <3>1. [secs |-> g, fraction |-> FALSE] # NoRetention
      <4>1. [secs |-> g, fraction |-> FALSE] \in [secs : 0..MaxWord, fraction : BOOLEAN]
        BY DEF Descriptor!Word
      <4> QED BY <4>1 DEF Descriptor!DescriptorAssumption
    <3> QED BY <2>1, <2>2, <2>4, <3>1 DEF Descriptor!EncodeDescriptor, Descriptor!Fields
  <2> QED BY <2>3, <2>4
<1>4. CASE stored = <<>> BY <1>1, <1>4
<1> QED BY <1>2, <1>3, <1>4 DEF DescriptorInv

-----------------------------------------------------------------------------
(***************************************************************************)
(* The backend                                                             *)
(***************************************************************************)

(* BackendIndex has its own copies of the library's operators. *)

LEMMA SameCardinality == \A S : Backend!Cardinality(S) = Cardinality(S)
  BY Zenon DEF Backend!Cardinality, Cardinality, Backend!IsFiniteSet, IsFiniteSet

(* The members of a bucket, from the records. *)
Here(x) == {k \in Key : records[k] # Absent /\ records[k][x[1]] = x[2]}

LEMMA BucketsAre ==
  Backend!BucketsMatchRecords <=>
    buckets = [x \in {y \in Backend!Bucket : Here(y) # {}} |-> Here(x)]
<1>1. ASSUME NEW x \in Backend!Bucket
      PROVE  Backend!Materialize(records)[x[1]][x[2]] = Here(x)
  BY DEF Backend!Materialize, Backend!TablesOf, Backend!Live, Here, Backend!Bucket
<1> QED BY <1>1 DEF Backend!BucketsMatchRecords

LEMMA BucketsAreNext ==
  ASSUME buckets' = [x \in {y \in Backend!Bucket : Here(y)' # {}} |-> Here(x)']
  PROVE  Backend!BucketsMatchRecords'
<1>1. ASSUME NEW x \in Backend!Bucket
      PROVE  Backend!Materialize(records)'[x[1]][x[2]] = Here(x)'
  BY DEF Backend!Materialize, Backend!TablesOf, Backend!Live, Here, Backend!Bucket
<1> QED BY <1>1 DEF Backend!BucketsMatchRecords

LEMMA MembersAre ==
  ASSUME Backend!BucketsMatchRecords, NEW x \in Backend!Bucket
  PROVE  Backend!BucketMembers(x) = Here(x)
  BY BucketsAre DEF Backend!BucketMembers

(* A batch as a function, and the keys it names. *)
LEMMA BatchIs ==
  ASSUME NEW S, NEW batch \in Backend!Batch(S)
  PROVE  \E n \in 0..MaxBatch : batch \in [1..n -> S] /\ DOMAIN batch = 1..n
  BY DEF Backend!Batch

LEMMA FiniteIs == \A S : Backend!IsFiniteSet(S) <=> IsFiniteSet(S)
  BY Zenon DEF Backend!IsFiniteSet, IsFiniteSet

Keys(batch) == {batch[i].key : i \in DOMAIN batch}

(* A batch that insert_many accepts: different keys, none live. *)
Accepted(batch) ==
  /\ batch \in Backend!Batch(Backend!Item)
  /\ \A i \in DOMAIN batch : ~Backend!BadItem(batch, i)
  /\ Backend!InsertResult(batch) = "ok"

LEMMA AcceptedItems ==
  ASSUME Backend!BackendAssumption, NEW batch, Accepted(batch)
  PROVE  /\ \A i \in DOMAIN batch : batch[i].key \in Key /\ batch[i].sketch \in Backend!Row
         /\ \A i, j \in DOMAIN batch : batch[i].key = batch[j].key => i = j
         /\ descriptor /\ \A i \in DOMAIN batch : records[batch[i].key] = Absent
         /\ \E n \in Nat : DOMAIN batch = 1..n /\ Backend!Len(batch) = n
<1>1. PICK n \in 0..MaxBatch : batch \in [1..n -> Backend!Item] /\ DOMAIN batch = 1..n
  BY BatchIs DEF Accepted
<1>2. \A i \in 1..n : batch[i].key \in Key /\ batch[i].sketch \in Backend!Row \cup {Incompatible}
  BY <1>1 DEF Backend!Item
<1>3. \A i \in 1..n :
        /\ batch[i].sketch # Incompatible
        /\ \A j \in 1..(i - 1) : batch[j].key # batch[i].key
  BY <1>1 DEF Accepted, Backend!BadItem
<1>4. ASSUME NEW i \in 1..n, NEW j \in 1..n, batch[i].key = batch[j].key PROVE i = j
  <2>1. ~(j \in 1..(i - 1)) /\ ~(i \in 1..(j - 1)) BY <1>3, <1>4
  <2> QED BY <1>1, <2>1 DEF Backend!BackendAssumption
<1>5. descriptor /\ \A i \in DOMAIN batch : records[batch[i].key] = Absent
  BY DEF Accepted, Backend!InsertResult
<1>6. n \in Nat /\ Backend!Len(batch) = n BY <1>1 DEF Backend!BackendAssumption
<1> QED BY <1>1, <1>2, <1>3, <1>4, <1>5, <1>6

(* Insertion: the keys of the batch get their rows, the others keep theirs. *)
LEMMA InsertedRecords ==
  ASSUME Backend!BackendAssumption, Absent \notin Backend!Row, Backend!TypeOK,
         NEW batch, Accepted(batch), Backend!InsertRecords(batch)
  PROVE  /\ \A i \in DOMAIN batch : records'[batch[i].key] = batch[i].sketch
         /\ \A k \in Key \ Keys(batch) : records'[k] = records[k]
         /\ records' \in Backend!Rows
         /\ Backend!Live(records)' = Backend!Live(records) \cup Keys(batch)
         /\ Backend!Live(records) \cap Keys(batch) = {}
<1>1. /\ \A i \in DOMAIN batch : batch[i].key \in Key /\ batch[i].sketch \in Backend!Row
      /\ \A i, j \in DOMAIN batch : batch[i].key = batch[j].key => i = j
      /\ \A i \in DOMAIN batch : records[batch[i].key] = Absent
  BY AcceptedItems
<1>2. records' = [k \in Key |->
        IF \E i \in DOMAIN batch : batch[i].key = k
        THEN batch[CHOOSE i \in DOMAIN batch : batch[i].key = k].sketch
        ELSE records[k]]
  BY DEF Backend!InsertRecords
<1>3. ASSUME NEW i \in DOMAIN batch PROVE records'[batch[i].key] = batch[i].sketch
  <2>1. (CHOOSE j \in DOMAIN batch : batch[j].key = batch[i].key) = i BY <1>1
  <2> QED BY <1>1, <1>2, <2>1
<1>4. \A k \in Key \ Keys(batch) : records'[k] = records[k] BY <1>2 DEF Keys
<1>5. ASSUME NEW k \in Key PROVE records'[k] \in Backend!Row \cup {Absent}
  <2>1. CASE k \in Keys(batch)
    <3>1. PICK i \in DOMAIN batch : batch[i].key = k BY <2>1 DEF Keys
    <3> QED BY <1>1, <1>3, <3>1
  <2>2. CASE k \notin Keys(batch) BY <1>4, <2>2 DEF Backend!TypeOK, Backend!Rows
  <2> QED BY <2>1, <2>2
<1>6. records' \in Backend!Rows BY <1>2, <1>5 DEF Backend!Rows
<1>7. ASSUME NEW k \in Key PROVE records'[k] # Absent <=> records[k] # Absent \/ k \in Keys(batch)
  <2>1. CASE k \in Keys(batch)
    <3>1. PICK i \in DOMAIN batch : batch[i].key = k BY <2>1 DEF Keys
    <3> QED BY <1>1, <1>3, <2>1, <3>1
  <2>2. CASE k \notin Keys(batch) BY <1>4, <2>2
  <2> QED BY <2>1, <2>2
<1>8. Keys(batch) \subseteq Key BY <1>1 DEF Keys
<1>9. Backend!Live(records)' = Backend!Live(records) \cup Keys(batch)
  BY <1>7, <1>8 DEF Backend!Live
<1>10. Backend!Live(records) \cap Keys(batch) = {} BY <1>1 DEF Backend!Live, Keys
<1> QED BY <1>3, <1>4, <1>6, <1>9, <1>10

LEMMA InsertedBuckets ==
  ASSUME Backend!BackendAssumption, Absent \notin Backend!Row, Backend!TypeOK,
         Backend!BucketsMatchRecords, NEW batch, Accepted(batch), Backend!InsertRecords(batch)
  PROVE  Backend!BucketsMatchRecords'
<1>1. /\ \A i \in DOMAIN batch : batch[i].key \in Key /\ batch[i].sketch \in Backend!Row
      /\ \A i \in DOMAIN batch : records[batch[i].key] = Absent
  BY AcceptedItems
<1>2. /\ \A i \in DOMAIN batch : records'[batch[i].key] = batch[i].sketch
      /\ \A k \in Key \ Keys(batch) : records'[k] = records[k]
  BY InsertedRecords
<1>3. ASSUME NEW x \in Backend!Bucket PROVE Here(x)' = Here(x) \cup Backend!Placed(batch, x)
  <2>1. ASSUME NEW k \in Here(x)' PROVE k \in Here(x) \cup Backend!Placed(batch, x)
    <3>1. k \in Key /\ records'[k] # Absent /\ records'[k][x[1]] = x[2] BY DEF Here
    <3>2. CASE k \in Keys(batch)
      <4>1. PICK i \in DOMAIN batch : batch[i].key = k BY <3>2 DEF Keys
      <4> QED BY <1>2, <3>1, <4>1 DEF Backend!Placed
    <3>3. CASE k \notin Keys(batch) BY <1>2, <3>1, <3>3 DEF Here
    <3> QED BY <3>2, <3>3
  <2>2. ASSUME NEW k \in Here(x) PROVE k \in Here(x)'
    <3>1. k \in Key /\ records[k] # Absent /\ records[k][x[1]] = x[2] BY DEF Here
    <3>2. k \notin Keys(batch) BY <1>1, <3>1 DEF Keys
    <3> QED BY <1>2, <3>1, <3>2 DEF Here
  <2>3. ASSUME NEW k \in Backend!Placed(batch, x) PROVE k \in Here(x)'
    <3>1. PICK i \in DOMAIN batch : k = batch[i].key /\ batch[i].sketch[x[1]] = x[2]
      BY DEF Backend!Placed
    <3>2. batch[i].sketch # Absent BY <1>1
    <3> QED BY <1>1, <1>2, <3>1, <3>2 DEF Here
  <2> QED BY <2>1, <2>2, <2>3
<1>4. \A x \in Backend!Bucket : Backend!BucketMembers(x) = Here(x) BY MembersAre
<1>5. buckets = [x \in {y \in Backend!Bucket : Here(y) # {}} |-> Here(x)] BY BucketsAre
<1>6. DOMAIN buckets \cup {x \in Backend!Bucket : Backend!Placed(batch, x) # {}}
        = {y \in Backend!Bucket : Here(y)' # {}}
  BY <1>3, <1>5
<1>7. buckets' = [x \in {y \in Backend!Bucket : Here(y)' # {}} |-> Here(x)']
  BY <1>3, <1>4, <1>6 DEF Backend!InsertRecords
<1> QED BY <1>7, BucketsAreNext

(* Deletion: the keys asked for are gone, the others keep their rows. *)
LEMMA DeletedRecords ==
  ASSUME Absent \notin Backend!Row, Backend!TypeOK, NEW batch, Backend!DeleteRecords(batch)
  PROVE  /\ records' \in Backend!Rows
         /\ \A k \in Key : records'[k] = IF k \in Backend!Removed(batch) THEN Absent ELSE records[k]
         /\ Backend!Live(records)' = Backend!Live(records) \ Backend!Removed(batch)
<1>1. records' = [k \in Key |-> IF k \in Backend!Removed(batch) THEN Absent ELSE records[k]]
  BY DEF Backend!DeleteRecords
<1>2. records' \in Backend!Rows BY <1>1 DEF Backend!TypeOK, Backend!Rows
<1> QED BY <1>1, <1>2 DEF Backend!Live

LEMMA DeletedBuckets ==
  ASSUME Absent \notin Backend!Row, Backend!TypeOK, Backend!BucketsMatchRecords,
         NEW batch, Backend!Range(batch) \subseteq Key, Backend!DeleteRecords(batch)
  PROVE  Backend!BucketsMatchRecords'
<1> DEFINE Gone(x) == {k \in Backend!Removed(batch) : records[k][x[1]] = x[2]}
<1>1. \A k \in Key : records'[k] = IF k \in Backend!Removed(batch) THEN Absent ELSE records[k]
  BY DeletedRecords
<1>2. Backend!Removed(batch) \subseteq Key /\ \A k \in Backend!Removed(batch) : records[k] # Absent
  BY DEF Backend!Removed
<1>3. \A x \in Backend!Bucket : Here(x)' = Here(x) \ Gone(x) /\ Gone(x) \subseteq Here(x)
  BY <1>1, <1>2 DEF Here
<1>4. \A x \in Backend!Bucket : Backend!BucketMembers(x) = Here(x) BY MembersAre
<1>5. buckets = [x \in {y \in Backend!Bucket : Here(y) # {}} |-> Here(x)] BY BucketsAre
<1>6. \A x \in Backend!Bucket : Backend!LosesBucket(batch, x) <=> Gone(x) # {} /\ Here(x)' = {}
  BY <1>3, <1>4 DEF Backend!LosesBucket, Backend!Remaining
<1>7. {y \in DOMAIN buckets : ~Backend!LosesBucket(batch, y)} = {y \in Backend!Bucket : Here(y)' # {}}
  BY <1>3, <1>5, <1>6
<1>8. buckets' = [x \in {y \in DOMAIN buckets : ~Backend!LosesBucket(batch, y)} |->
                    Backend!Remaining(x, Gone(x))]
  BY DEF Backend!DeleteRecords
<1>9. buckets' = [x \in {y \in Backend!Bucket : Here(y)' # {}} |-> Here(x)']
  BY <1>3, <1>4, <1>7, <1>8 DEF Backend!Remaining
<1> QED BY <1>9, BucketsAreNext

-----------------------------------------------------------------------------
(* What the calls do to the state: the records and buckets change only by  *)
(* an accepted batch, by a deletion, or by cleanup.                        *)

Deletes == \E batch \in Backend!Batch(Key) : descriptor /\ Backend!DeleteRecords(batch)
Inserts == \E batch : Accepted(batch) /\ Backend!InsertRecords(batch)
Cleans == ~descriptor' /\ records' = Backend!NoRows /\ buckets' = <<>>

LEMMA InsertManyIs ==
  ASSUME NEW batch \in Backend!Batch(Backend!Item), Backend!InsertMany(batch)
  PROVE  /\ UNCHANGED <<descriptor, handle>>
         /\ \/ UNCHANGED <<records, buckets, known_items>>
            \/ /\ Accepted(batch) /\ Backend!InsertRecords(batch)
               /\ known_items' = IF known_items = Unknown THEN Unknown
                                 ELSE Backend!CountBatch(known_items, batch)
<1> DEFINE bad == {i \in DOMAIN batch : Backend!BadItem(batch, i)}
           first == Backend!Min(bad)
           result == IF bad = {} THEN Backend!InsertResult(batch)
                     ELSE IF \E j \in 1..(first - 1) : batch[j].key = batch[first].key
                          THEN "duplicate" ELSE "incompatible"
<1>1. /\ UNCHANGED <<descriptor, handle>>
      /\ IF result = "ok"
         THEN /\ Backend!InsertRecords(batch)
              /\ known_items' = IF known_items = Unknown THEN Unknown
                                ELSE Backend!CountBatch(known_items, batch)
         ELSE UNCHANGED <<records, buckets, known_items>>
  BY DEF Backend!InsertMany
<1>2. result = "ok" => Accepted(batch) BY DEF Accepted
<1> QED BY <1>1, <1>2

LEMMA StoredChanges ==
  ASSUME Backend!Next
  PROVE  \/ UNCHANGED <<records, buckets>> /\ (descriptor => descriptor')
         \/ Inserts /\ descriptor' = descriptor
         \/ Deletes /\ descriptor' = descriptor
         \/ Cleans
<1>1. ASSUME NEW batch \in Backend!Batch(Backend!Item), Backend!InsertMany(batch)
      PROVE  \/ UNCHANGED <<records, buckets>> /\ (descriptor => descriptor')
             \/ Inserts /\ descriptor' = descriptor
  BY <1>1, InsertManyIs DEF Inserts
<1>2. ASSUME NEW batch \in Backend!Batch(Key), Backend!RemoveMany(batch) \/ Backend!RawDelete(batch)
      PROVE  \/ UNCHANGED <<records, buckets>> /\ (descriptor => descriptor')
             \/ Deletes /\ descriptor' = descriptor
  BY <1>2 DEF Backend!RemoveMany, Backend!RawDelete, Deletes
<1>3. ASSUME NEW consumed \in BOOLEAN, Backend!Cleanup(consumed) PROVE Cleans
  BY <1>3 DEF Backend!Cleanup, Cleans, Backend!NoBuckets
<1>4. ASSUME NEW retention \in BOOLEAN, Backend!Create(retention)
      PROVE UNCHANGED <<records, buckets>> /\ (descriptor => descriptor')
  BY <1>4 DEF Backend!Create
<1>5. ASSUME NEW probes \in Backend!Batch(Backend!Row), Backend!ObservedQuery(probes)
      PROVE UNCHANGED <<records, buckets>> /\ (descriptor => descriptor')
  BY <1>5 DEF Backend!ObservedQuery
<1>6. ASSUME \/ Backend!Open \/ Backend!IntoBackend \/ Backend!Stats \/ Backend!Flush
             \/ \E enabled \in BOOLEAN : Backend!SetObservability(enabled)
      PROVE UNCHANGED <<records, buckets>> /\ (descriptor => descriptor')
  BY <1>6 DEF Backend!Open, Backend!IntoBackend, Backend!Stats, Backend!Flush,
     Backend!SetObservability, Backend!stored
<1> QED BY <1>1, <1>2, <1>3, <1>4, <1>5, <1>6 DEF Backend!Next, Backend!HandleNext

LEMMA BatchKeys ==
  ASSUME NEW batch \in Backend!Batch(Key)
  PROVE  Backend!Range(batch) \subseteq Key
<1>1. PICK n \in 0..MaxBatch : batch \in [1..n -> Key] BY BatchIs
<1> QED BY <1>1 DEF Backend!Range

(* The keys of an accepted batch are as many as its items. *)
LEMMA AcceptedCount ==
  ASSUME Backend!BackendAssumption, NEW batch, Accepted(batch)
  PROVE  /\ IsFiniteSet(Keys(batch)) /\ Backend!Len(batch) \in Nat
         /\ Cardinality(Keys(batch)) = Backend!Len(batch)
<1>1. PICK n \in Nat : DOMAIN batch = 1..n /\ Backend!Len(batch) = n BY AcceptedItems
<1> DEFINE f == [i \in 1..n |-> batch[i].key]
<1>2. f \in Injection(1..n, Keys(batch)) BY <1>1, AcceptedItems DEF Injection, IsInjective, Keys
<1>3. f \in Surjection(1..n, Keys(batch)) BY <1>1 DEF Surjection, Keys
<1>4. IsFiniteSet(1..n) /\ Cardinality(1..n) = n BY <1>1, FS_Interval
<1> QED BY <1>1, <1>2, <1>3, <1>4, FS_Surjection

LEMMA StepType ==
  ASSUME Backend!BackendAssumption, Absent \notin Backend!Row, Backend!TypeOK, Backend!Next
  PROVE  Backend!TypeOK'
<1>1. IsFiniteSet(Backend!Live(records)) BY FiniteIs DEF Backend!TypeOK
<1>2. records' \in Backend!Rows /\ IsFiniteSet(Backend!Live(records)') /\ (~descriptor' => records' = Backend!NoRows)
  <2>1. CASE Inserts
    <3>1. PICK batch : Accepted(batch) /\ Backend!InsertRecords(batch) BY <2>1 DEF Inserts
    <3>2. /\ records' \in Backend!Rows
          /\ Backend!Live(records)' = Backend!Live(records) \cup Keys(batch)
      BY <3>1, InsertedRecords
    <3>3. IsFiniteSet(Backend!Live(records)') BY <1>1, <3>1, <3>2, AcceptedCount, FS_Union
    <3>4. descriptor BY <3>1, AcceptedItems
    <3>5. CASE descriptor' = descriptor BY <3>2, <3>3, <3>4, <3>5
    <3>6. CASE descriptor' # descriptor
      BY <2>1, <3>2, <3>3, <3>4, <3>6, StoredChanges DEF Deletes, Cleans
    <3> QED BY <3>5, <3>6
  <2>2. CASE Deletes
    <3>1. PICK batch \in Backend!Batch(Key) : descriptor /\ Backend!DeleteRecords(batch)
      BY <2>2 DEF Deletes
    <3>2. /\ records' \in Backend!Rows
          /\ Backend!Live(records)' = Backend!Live(records) \ Backend!Removed(batch)
      BY <3>1, DeletedRecords
    <3>3. IsFiniteSet(Backend!Live(records)') BY <1>1, <3>2, FS_Difference
    <3>4. ~descriptor' => records' = Backend!NoRows
      BY <3>1, StoredChanges DEF Cleans
    <3> QED BY <3>2, <3>3, <3>4
  <2>3. CASE Cleans
    <3>1. records' \in Backend!Rows BY <2>3 DEF Cleans, Backend!NoRows, Backend!Rows
    <3>2. Backend!Live(records)' = {} BY <2>3 DEF Cleans, Backend!NoRows, Backend!Live
    <3> QED BY <2>3, <3>1, <3>2, FS_EmptySet DEF Cleans
  <2>4. CASE UNCHANGED <<records, buckets>> /\ (descriptor => descriptor')
    BY <1>1, <2>4 DEF Backend!TypeOK, Backend!Live
  <2> QED BY <2>1, <2>2, <2>3, <2>4, StoredChanges
<1>3. known_items' \in Nat \cup {Unknown}
  <2>1. known_items \in Nat \cup {Unknown} BY DEF Backend!TypeOK
  <2>2. Cardinality(Backend!Live(records)) \in Nat BY <1>1, FS_CardinalityType
  <2>3. ASSUME NEW batch \in Backend!Batch(Backend!Item), Backend!InsertMany(batch)
        PROVE  known_items' \in Nat \cup {Unknown}
    BY <2>1, <2>3, InsertManyIs, AcceptedCount DEF Backend!CountBatch
  <2>4. ASSUME NEW batch \in Backend!Batch(Key), Backend!RemoveMany(batch)
        PROVE  known_items' \in Nat \cup {Unknown}
    <3>1. IsFiniteSet(Backend!Removed(batch))
      <4>1. Backend!Removed(batch) \subseteq Backend!Live(records)
        BY BatchKeys DEF Backend!Removed, Backend!Live
      <4> QED BY <1>1, <4>1, FS_Subset
    <3>2. Backend!Cardinality(Backend!Removed(batch)) \in Nat
      BY <3>1, FS_CardinalityType, SameCardinality
    <3> QED BY <2>1, <2>4, <3>2 DEF Backend!RemoveMany, Backend!Saturating
  <2>5. CASE Backend!Stats BY <2>1, <2>2, <2>5, SameCardinality DEF Backend!Stats
  <2>6. ASSUME NEW probes \in Backend!Batch(Backend!Row), Backend!ObservedQuery(probes)
        PROVE  known_items' \in Nat \cup {Unknown}
    BY <2>1, <2>6 DEF Backend!ObservedQuery
  <2>7. ASSUME NEW retention \in BOOLEAN, Backend!Create(retention)
        PROVE  known_items' \in Nat \cup {Unknown}
    BY <2>7 DEF Backend!Create
  <2>8. ASSUME \/ Backend!Open \/ Backend!IntoBackend \/ Backend!Flush
               \/ \E enabled \in BOOLEAN : Backend!SetObservability(enabled)
               \/ \E batch \in Backend!Batch(Key) : Backend!RawDelete(batch)
        PROVE  known_items' \in Nat \cup {Unknown}
    BY <2>1, <2>8 DEF Backend!Open, Backend!IntoBackend, Backend!Flush, Backend!SetObservability,
       Backend!RawDelete
  <2>9. ASSUME NEW consumed \in BOOLEAN, Backend!Cleanup(consumed)
        PROVE  known_items' \in Nat \cup {Unknown}
    BY <2>1, <2>9 DEF Backend!Cleanup
  <2> QED BY <2>3, <2>4, <2>5, <2>6, <2>7, <2>8, <2>9 DEF Backend!Next, Backend!HandleNext
<1> QED BY <1>2, <1>3, FiniteIs DEF Backend!TypeOK

LEMMA StepBuckets ==
  ASSUME Backend!BackendAssumption, Absent \notin Backend!Row, Backend!IInv, Backend!Next
  PROVE  Backend!BucketsMatchRecords'
<1>1. Backend!TypeOK /\ Backend!BucketsMatchRecords BY DEF Backend!IInv
<1>2. CASE Inserts BY <1>1, <1>2, InsertedBuckets DEF Inserts
<1>3. CASE Deletes BY <1>1, <1>3, DeletedBuckets, BatchKeys DEF Deletes
<1>4. CASE Cleans
  <2>1. \A x \in Backend!Bucket : Here(x)' = {} BY <1>4 DEF Cleans, Here, Backend!NoRows
  <2>2. buckets' = [x \in {} |-> x] BY <1>4 DEF Cleans
  <2>3. {y \in Backend!Bucket : Here(y)' # {}} = {} BY <2>1
  <2>4. buckets' = [x \in {y \in Backend!Bucket : Here(y)' # {}} |-> Here(x)'] BY <2>2, <2>3
  <2> QED BY <2>4, BucketsAreNext
<1>5. CASE UNCHANGED <<records, buckets>>
  <2>1. buckets = [x \in {y \in Backend!Bucket : Here(y) # {}} |-> Here(x)] BY <1>1, BucketsAre
  <2>2. \A x : Here(x)' = Here(x) BY <1>5 DEF Here
  <2>3. buckets' = [x \in {y \in Backend!Bucket : Here(y)' # {}} |-> Here(x)'] BY <1>5, <2>1, <2>2
  <2> QED BY <2>3, BucketsAreNext
<1> QED BY <1>2, <1>3, <1>4, <1>5, StoredChanges

LEMMA BackendInit ==
  ASSUME Backend!Init
  PROVE  Backend!IInv /\ Backend!KnownItemsExact
<1>1. Backend!TypeOK
  <2>1. records \in Backend!Rows /\ Backend!Live(records) = {}
    BY DEF Backend!Init, Backend!NoRows, Backend!Rows, Backend!Live
  <2> QED BY <2>1, FS_EmptySet, FiniteIs DEF Backend!TypeOK, Backend!Init
<1>2. Backend!BucketsMatchRecords
  <2>1. \A x \in Backend!Bucket : Here(x) = {} BY DEF Backend!Init, Here, Backend!NoRows
  <2>2. buckets = [x \in {} |-> x] BY DEF Backend!Init
  <2>3. {y \in Backend!Bucket : Here(y) # {}} = {} BY <2>1
  <2> QED BY <2>2, <2>3, BucketsAre
<1> QED BY <1>1, <1>2 DEF Backend!IInv, Backend!KnownItemsExact, Backend!Init

LEMMA BackendStep ==
  ASSUME Backend!BackendAssumption, Absent \notin Backend!Row, Backend!IInv, Backend!Next
  PROVE  Backend!IInv'
  BY StepType, StepBuckets DEF Backend!IInv

LEMMA BackendReusable ==
  ASSUME Backend!IInv
  PROVE  Backend!CleanIsReusable
<1>1. ASSUME ~descriptor PROVE Backend!Live(records) = {} /\ DOMAIN buckets = {}
  <2>1. records = Backend!NoRows BY <1>1 DEF Backend!IInv, Backend!TypeOK
  <2>2. \A x : Here(x) = {} BY <2>1 DEF Here, Backend!NoRows
  <2>3. DOMAIN buckets = {} BY <2>2, BucketsAre DEF Backend!IInv
  <2> QED BY <2>1, <2>3 DEF Backend!Live, Backend!NoRows
<1> QED BY <1>1 DEF Backend!CleanIsReusable, Backend!InitializeResult

(* The handle's count follows the records it changes. *)
LEMMA HandleCount ==
  ASSUME Backend!BackendAssumption, Absent \notin Backend!Row, Backend!IInv,
         Backend!KnownItemsExact, Backend!HandleNext
  PROVE  Backend!KnownItemsExact'
<1> DEFINE live == Cardinality(Backend!Live(records))
<1>1. Backend!TypeOK BY DEF Backend!IInv
<1>2. IsFiniteSet(Backend!Live(records)) /\ live \in Nat
  BY <1>1, FiniteIs, FS_CardinalityType DEF Backend!TypeOK
<1>3. handle /\ known_items # Unknown => known_items = live
  BY SameCardinality DEF Backend!KnownItemsExact
<1> SUFFICES ASSUME handle', known_items' # Unknown
             PROVE  known_items' = Cardinality(Backend!Live(records)')
  BY SameCardinality DEF Backend!KnownItemsExact
<1>4. ASSUME NEW batch \in Backend!Batch(Backend!Item), Backend!InsertMany(batch)
      PROVE  known_items' = Cardinality(Backend!Live(records)')
  <2>1. handle BY <1>4 DEF Backend!InsertMany
  <2>2. CASE UNCHANGED <<records, known_items>> BY <1>3, <2>1, <2>2 DEF Backend!Live
  <2>3. CASE /\ Accepted(batch) /\ Backend!InsertRecords(batch)
             /\ known_items' = IF known_items = Unknown THEN Unknown
                               ELSE Backend!CountBatch(known_items, batch)
    <3>1. known_items' = live + Backend!Len(batch) BY <1>3, <2>1, <2>3 DEF Backend!CountBatch
    <3>2. /\ Backend!Live(records)' = Backend!Live(records) \cup Keys(batch)
          /\ Backend!Live(records) \cap Keys(batch) = {}
      BY <1>1, <2>3, InsertedRecords
    <3>3. /\ IsFiniteSet(Keys(batch)) /\ Cardinality(Keys(batch)) = Backend!Len(batch)
          /\ Backend!Len(batch) \in Nat
      BY <2>3, AcceptedCount
    <3>4. Cardinality(Backend!Live(records) \cup Keys(batch)) =
            live + Cardinality(Keys(batch)) - Cardinality(Backend!Live(records) \cap Keys(batch))
      BY <1>2, <3>3, FS_Union
    <3>5. Cardinality(Backend!Live(records) \cap Keys(batch)) = 0 BY <3>2, FS_EmptySet
    <3>6. Cardinality(Backend!Live(records)') = live + Cardinality(Keys(batch)) - 0
      BY <3>2, <3>4, <3>5
    <3> QED BY <1>2, <3>1, <3>3, <3>6
  <2> QED BY <1>4, <2>2, <2>3, InsertManyIs
<1>5. ASSUME NEW batch \in Backend!Batch(Key), Backend!RemoveMany(batch)
      PROVE  known_items' = Cardinality(Backend!Live(records)')
  <2> DEFINE removed == Backend!Removed(batch)
  <2>1. handle BY <1>5 DEF Backend!RemoveMany
  <2>2. CASE ~descriptor BY <1>3, <1>5, <2>1, <2>2 DEF Backend!RemoveMany, Backend!Live
  <2>3. CASE descriptor
    <3>1. /\ Backend!DeleteRecords(batch)
          /\ known_items # Unknown
          /\ known_items' = Backend!Saturating(live, Cardinality(removed))
      BY <1>3, <1>5, <2>1, <2>3, SameCardinality DEF Backend!RemoveMany
    <3>2. Backend!Live(records)' = Backend!Live(records) \ removed BY <1>1, <3>1, DeletedRecords
    <3>3. removed \subseteq Backend!Live(records) BY BatchKeys DEF Backend!Removed, Backend!Live
    <3>4. IsFiniteSet(removed) /\ Cardinality(removed) \in Nat /\ Cardinality(removed) <= live
      BY <1>2, <3>3, FS_Subset, FS_CardinalityType
    <3>5. Cardinality(Backend!Live(records) \ removed)
            = live - Cardinality(Backend!Live(records) \cap removed)
      BY <1>2, FS_Difference
    <3>6. Backend!Live(records) \cap removed = removed BY <3>3
    <3>7. Backend!Saturating(live, Cardinality(removed)) = live - Cardinality(removed)
      BY <1>2, <3>4 DEF Backend!Saturating
    <3> QED BY <3>1, <3>2, <3>5, <3>6, <3>7
  <2> QED BY <2>2, <2>3
<1>6. CASE Backend!Stats BY <1>3, <1>6, SameCardinality DEF Backend!Stats, Backend!Live
<1>7. ASSUME NEW retention \in BOOLEAN, Backend!Create(retention)
      PROVE  known_items' = Cardinality(Backend!Live(records)')
  <2> DEFINE result == IF retention /\ "Ttl" \notin Backend!MemoryCapabilities
                       THEN "unsupported" ELSE Backend!InitializeResult(retention)
  <2>1. known_items' = (IF result = "ok" THEN 0 ELSE Unknown) /\ UNCHANGED records
    BY <1>7 DEF Backend!Create
  <2>2. result = "ok" BY <2>1
  <2>3. Backend!Live(records) = {} BY <2>2 DEF Backend!InitializeResult
  <2>4. known_items' = 0 /\ Backend!Live(records)' = {} BY <2>1, <2>2, <2>3 DEF Backend!Live
  <2> QED BY <2>4, FS_EmptySet
<1>8. ASSUME NEW probes \in Backend!Batch(Backend!Row), Backend!ObservedQuery(probes)
      PROVE  known_items' = Cardinality(Backend!Live(records)')
  BY <1>3, <1>8 DEF Backend!ObservedQuery, Backend!Live
<1>9. ASSUME Backend!Flush \/ \E enabled \in BOOLEAN : Backend!SetObservability(enabled)
      PROVE  known_items' = Cardinality(Backend!Live(records)')
  BY <1>3, <1>9 DEF Backend!Flush, Backend!SetObservability, Backend!Live
<1>10. ~(Backend!Open \/ Backend!IntoBackend \/ Backend!Cleanup(TRUE))
  BY DEF Backend!Open, Backend!IntoBackend, Backend!Cleanup
<1> QED BY <1>4, <1>5, <1>6, <1>7, <1>8, <1>9, <1>10 DEF Backend!HandleNext

(* Every step of the backend is a step of the abstract index. *)
LEMMA StepImplements ==
  ASSUME Backend!BackendAssumption, Absent \notin Backend!Row, Backend!IInv, Backend!Next
  PROVE  Backend!Contents!Next \/ records' = records
<1>1. Backend!TypeOK BY DEF Backend!IInv
<1>2. CASE Inserts
  <2>1. PICK batch : Accepted(batch) /\ Backend!InsertRecords(batch) BY <1>2 DEF Inserts
  <2>2. /\ records' \in Backend!Rows
        /\ \A k \in Key \ Keys(batch) : records'[k] = records[k]
        /\ Backend!Live(records) \cap Keys(batch) = {}
    BY <1>1, <2>1, InsertedRecords
  <2>3. \A k \in Backend!Live(records) : records'[k] = records[k] BY <2>2 DEF Backend!Live
  <2>4. Backend!Contents!Insert
    BY <2>2, <2>3 DEF Backend!Contents!Insert, Backend!Contents!Rows, Backend!Contents!Live,
       Backend!Rows, Backend!Live, Backend!Contents!Row, Backend!Row
  <2> QED BY <2>4 DEF Backend!Contents!Next
<1>3. CASE Deletes \/ Cleans
  <2>1. records' \in Backend!Rows BY <1>1, StepType DEF Backend!TypeOK
  <2>2. \A k \in Key : records'[k] \in {records[k], Absent}
    BY <1>1, <1>3, DeletedRecords DEF Deletes, Cleans, Backend!NoRows
  <2>3. Backend!Contents!Remove
    BY <2>1, <2>2 DEF Backend!Contents!Remove, Backend!Contents!Rows, Backend!Rows,
       Backend!Contents!Row, Backend!Row
  <2> QED BY <2>3 DEF Backend!Contents!Next
<1>4. CASE UNCHANGED <<records, buckets>> BY <1>4
<1> QED BY <1>2, <1>3, <1>4, StoredChanges

-----------------------------------------------------------------------------
(***************************************************************************)
(* The parts together                                                      *)
(***************************************************************************)

Inv ==
  /\ part = "container" => ContainerInv
  /\ part = "descriptor" => DescriptorInv
  /\ part \in {"handle", "raw"} => Backend!IInv
  /\ part = "handle" => Backend!KnownItemsExact

LEMMA InitInv == Init => Inv
<1> SUFFICES ASSUME Init PROVE Inv OBVIOUS
<1>1. part = "container" => Container!Init BY DEF Init
<1>2. part = "descriptor" => Descriptor!Init BY DEF Init
<1>3. part \in {"handle", "raw"} => Backend!Init BY DEF Init
<1>4. part = "container" => ContainerInv BY <1>1, ContainerInitInv, Assumptions
<1>5. part = "descriptor" => DescriptorInv BY <1>2 DEF Descriptor!Init, DescriptorInv
<1>6. part \in {"handle", "raw"} => Backend!IInv /\ Backend!KnownItemsExact BY <1>3, BackendInit
<1> QED BY <1>4, <1>5, <1>6 DEF Inv

LEMMA StepOfPart ==
  ASSUME [Next]_vars
  PROVE  /\ part' = part
         /\ part = "container" => Container!Next \/ UNCHANGED Container!vars
         /\ part = "descriptor" => Descriptor!Next \/ UNCHANGED Descriptor!vars
         /\ part \in {"handle", "raw"} => Backend!Next \/ UNCHANGED Backend!vars
         /\ part = "handle" => Backend!HandleNext \/ UNCHANGED Backend!vars
  BY DEF Next, vars, Container!vars, Descriptor!vars, Backend!vars, Backend!Next

LEMMA ContainerStutter == ContainerInv /\ UNCHANGED Container!vars => ContainerInv'
<1> SUFFICES ASSUME ContainerInv, UNCHANGED Container!vars PROVE ContainerInv' OBVIOUS
<1>1. header' = header /\ body' = body /\ decode' = decode /\ layout' = layout
  BY DEF Container!vars
<1>2. PICK walk : Reads(walk) BY DEF ContainerInv
<1> DEFINE hd == Container!HeaderDecodes(header)
           hl == Container!LayoutHeaderDecodes(header)
<1>3. hd' = hd /\ hl' = hl BY <1>1
<1>4. /\ IsWalk(walk)
      /\ Follows(decode, walk, DecodeOk(walk), hd) /\ Follows(layout, walk, LayoutOk(walk), hl)
  BY <1>2 DEF Reads
<1>5. IsWalk(walk)' /\ DecodeOk(walk)' = DecodeOk(walk) /\ LayoutOk(walk)' = LayoutOk(walk)
  BY <1>1, <1>4, FileUnchanged
<1> HIDE DEF hd, hl
<1>6. Follows(decode, walk, DecodeOk(walk), hd)' BY <1>1, <1>3, <1>4, <1>5, FollowsUnchanged
<1>7. Follows(layout, walk, LayoutOk(walk), hl)' BY <1>1, <1>3, <1>4, <1>5, FollowsUnchanged
<1>8. Reads(walk)' BY <1>5, <1>6, <1>7 DEF Reads, hd, hl
<1> QED BY <1>1, <1>8 DEF ContainerInv

LEMMA DescriptorStutter == DescriptorInv /\ UNCHANGED Descriptor!vars => DescriptorInv'
  BY DEF DescriptorInv, Descriptor!vars

LEMMA BackendStutter ==
  ASSUME UNCHANGED Backend!vars
  PROVE  /\ Backend!IInv => Backend!IInv'
         /\ Backend!KnownItemsExact => Backend!KnownItemsExact'
<1>1. UNCHANGED <<descriptor, records, buckets, handle, known_items>> BY DEF Backend!vars
<1>2. Backend!Live(records)' = Backend!Live(records) BY <1>1 DEF Backend!Live
<1>3. Backend!TypeOK => Backend!TypeOK' BY <1>1, <1>2 DEF Backend!TypeOK
<1>4. Backend!BucketsMatchRecords => Backend!BucketsMatchRecords'
  <2>1. \A x : Here(x)' = Here(x) BY <1>1 DEF Here
  <2> QED BY <1>1, <2>1, BucketsAre, BucketsAreNext
<1> QED BY <1>1, <1>2, <1>3, <1>4 DEF Backend!IInv, Backend!KnownItemsExact

LEMMA NextInv == Inv /\ [Next]_vars => Inv'
<1> SUFFICES ASSUME Inv, [Next]_vars PROVE Inv' OBVIOUS
<1>1. part' = "container" => ContainerInv'
  BY StepOfPart, ContainerNextInv, ContainerStutter, Assumptions DEF Inv
<1>2. part' = "descriptor" => DescriptorInv'
  BY StepOfPart, DescriptorNextInv, DescriptorStutter, Assumptions DEF Inv
<1>3. part' \in {"handle", "raw"} => Backend!IInv'
  BY StepOfPart, BackendStep, BackendStutter, Assumptions DEF Inv
<1>4. part' = "handle" => Backend!KnownItemsExact'
  BY StepOfPart, HandleCount, BackendStutter, Assumptions DEF Inv
<1> QED BY <1>1, <1>2, <1>3, <1>4 DEF Inv

THEOREM StorageInvariant == Spec => []Inv
  BY InitInv, NextInv, PTL DEF Spec

(* The buckets of the in-process backend are exactly those its records     *)
(* fill, after any sequence of batches, deletions and cleanups, so that an *)
(* emptied namespace can be created again and no other can.                *)
THEOREM BucketsConsistent == Spec => []BackendConsistent
<1>1. Inv => BackendConsistent
  BY BackendReusable DEF Inv, BackendConsistent, Backend!IInv
<1> QED BY <1>1, StorageInvariant, PTL

(* known_items of a handle is the number of live keys as long as every     *)
(* change goes through the handle, whatever batches it rejects.            *)
THEOREM CountsExact == Spec => []HandleCounts
<1>1. Inv => HandleCounts BY DEF Inv, HandleCounts
<1> QED BY <1>1, StorageInvariant, PTL

(* The backend implements the abstract index: an insert adds keys that     *)
(* were not live, a removal only takes keys away.                          *)
THEOREM BackendImplements == Spec => ImplementsContents
<1>1. Init => (part = "raw" => Backend!Contents!Init)
  <2> SUFFICES ASSUME Init, part = "raw" PROVE Backend!Contents!Init OBVIOUS
  <2>1. Backend!Init BY DEF Init
  <2> QED BY <2>1 DEF Backend!Init, Backend!Contents!Init, Backend!Contents!NoRows, Backend!NoRows
<1>2. Inv /\ [Next]_vars => [part = "raw" => Backend!Contents!Next \/ records' = records]_vars
  <2> SUFFICES ASSUME Inv, [Next]_vars, part = "raw"
               PROVE  Backend!Contents!Next \/ records' = records
    OBVIOUS
  <2>1. Backend!Next \/ records' = records BY StepOfPart DEF Backend!vars
  <2> QED BY <2>1, StepImplements, Assumptions DEF Inv
<1> QED BY <1>1, <1>2, StorageInvariant, PTL DEF Spec, ImplementsContents

(* Both readers of a .pari file accept the same headers and the same       *)
(* bodies, of any length and made by anybody: IndexFile::decode succeeds   *)
(* exactly when FileLayout::read_from does and every known section then    *)
(* verifies, with the same sections at the same places; the sections,      *)
(* their frames and the skipped payloads cover the file; and a file        *)
(* without unknown sections is the encoding of what it decodes to.  A      *)
(* descriptor that create stored is read back, retention included, and     *)
(* words that decode are the encoding of what they decode to.              *)
THEOREM FormatsAreExact == Spec => []FormatsAgree
<1>1. Inv => FormatsAgree
  BY InvReadersAgree, InvHeadersAgree, InvTiles, InvContainerCanonical, InvRoundTrip, InvCanonical,
     Assumptions DEF Inv, FormatsAgree
<1> QED BY <1>1, StorageInvariant, PTL

=============================================================================
