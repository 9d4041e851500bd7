------------------------------ MODULE Grouping ------------------------------
(***************************************************************************)
(* crates/pari-index/src/grouping.rs: duplicate groups and candidate pairs *)
(* of an in-memory index, and groups of a stream of pairs.                 *)
(*                                                                         *)
(* An index is read behind &self, so its contents do not change while it   *)
(* is grouped: slots and rows are what some sequence of inserts and        *)
(* removals left.  The tables are hash maps, so the buckets of a band are  *)
(* visited in any order; the pairs of one bucket are visited in order.     *)
(* Keys are numbers, because pairs and groups are ordered by key.          *)
(***************************************************************************)
EXTENDS Naturals, Sequences, SequencesExt, FiniteSets, FiniteSetsExt

CONSTANTS
  Keys,       \* external keys, a set of positive numbers
  Bands,      \* number of bands
  Hashes,     \* band hashes, a set of numbers
  Requests,   \* calls considered: entry point, id_to_key and min_size
  MaxPairs    \* bound: pairs in a stream

(* A slot holds a key, or 0 once its key was removed, and a live key has   *)
(* one slot (SlotsMatchKeys of MemoryIndex).  A stream begins with none.   *)
Request ==
  [mode : {"unverified", "verified", "stream", "pairs"}, slots : Seq(Keys \cup {0}), min_size : Nat]

GroupingAssumption ==
  /\ Keys \subseteq Nat \ {0} /\ Hashes \subseteq Nat /\ Bands \in Nat
  /\ Requests \subseteq Request
  /\ \A q \in Requests :
       /\ q.mode = "stream" => q.slots = <<>>
       /\ \A i, j \in DOMAIN q.slots : q.slots[i] = q.slots[j] => i = j \/ q.slots[i] = 0

VARIABLES
  mode,      \* unverified, verified, stream or pairs
  slots,     \* id_to_key; in a stream, the interned keys
  rows,      \* slot -> one hash per band
  accepted,  \* pairs of keys the verifier accepts
  todo,      \* buckets of the index still to be visited, <<band, hash>>
  work,      \* pairs of identifiers of the current bucket still to be visited
  uf,        \* UnionFind: parent and rank of every slot
  edges,     \* history: pairs of keys a stream has supplied
  iterator,  \* CandidatePairs: position and seen
  emitted,   \* pairs the iterator has returned
  min_size,
  groups,    \* the result
  pc

vars == <<mode, slots, rows, accepted, todo, work, uf, edges, iterator, emitted, min_size, groups, pc>>

index == <<mode, slots, rows, accepted, min_size>>

OrderedPair(x, y) == IF x <= y THEN <<x, y>> ELSE <<y, x>>

AllPairs == {p \in Keys \X Keys : p[1] < p[2]}

(* Lexicographic order, of pairs and of places. *)
Precedes(p, q) == \E n \in DOMAIN p : p[n] < q[n] /\ \A m \in 1..(n - 1) : p[m] = q[m]

(* UnionFind::with_len and push. *)
WithLen(n) == [parent |-> [i \in 1..n |-> i], rank |-> [i \in 1..n |-> 0]]
Push(u) == [parent |-> Append(u.parent, Len(u.parent) + 1), rank |-> Append(u.rank, 0)]

Init ==
  /\ \E q \in Requests : mode = q.mode /\ slots = q.slots /\ min_size = q.min_size
  /\ rows \in [DOMAIN slots -> [1..Bands -> Hashes]]
  /\ accepted \in IF mode = "verified" THEN SUBSET AllPairs ELSE {AllPairs}
  /\ todo = {t \in (1..Bands) \X Hashes :
               mode \in {"verified", "unverified"} /\
               \E i \in DOMAIN slots : slots[i] # 0 /\ rows[i][t[1]] = t[2]}
  /\ work = {}
  /\ uf = WithLen(Len(slots))
  /\ edges = <<>>
  /\ iterator = [position |-> <<0, 0, 0, 0>>, seen |-> {}]
  /\ emitted = <<>>
  /\ groups = {}
  /\ pc = "visit"

-----------------------------------------------------------------------------
(***************************************************************************)
(* Union-find                                                              *)
(***************************************************************************)

(* The nodes find walks through; the last one is the root. *)
Walk(u, node) ==
  LET step[i \in 0..Len(u.parent)] == IF i = 0 THEN node ELSE u.parent[step[i - 1]]
  IN [i \in 0..Len(u.parent) |-> step[i]]

Root(u, node) == Walk(u, node)[Len(u.parent)]

Connected(u, left, right) == Root(u, left) = Root(u, right)

(* find of both nodes: every node walked through now points to its root. *)
Find(u, left, right) ==
  LET on_left == Range(Walk(u, left))
      on_right == Range(Walk(u, right))
  IN [u EXCEPT !.parent =
        [n \in DOMAIN u.parent |-> CASE n \in on_left -> Root(u, left)
                                     [] n \in on_right -> Root(u, right)
                                     [] OTHER -> u.parent[n]]]

AttachLeft(u, left, right) ==
  [u EXCEPT !.parent[right] = left, !.rank[left] = IF @ = u.rank[right] THEN @ + 1 ELSE @]
Attach(u, left, right) ==
  LET below == IF u.rank[left] < u.rank[right] THEN left ELSE right
      above == IF below = left THEN right ELSE left
  IN [u EXCEPT !.parent[below] = above,
               !.rank[above] = IF @ = u.rank[below] THEN @ + 1 ELSE @]

UnionNodes(u, left, right) == [u EXCEPT !.parent[right] = left]
Union(u, left, right) ==
  IF Connected(u, left, right) THEN Find(u, left, right)
  ELSE Attach(Find(u, left, right), Root(u, left), Root(u, right))

-----------------------------------------------------------------------------
(***************************************************************************)
(* Index buckets                                                           *)
(***************************************************************************)

(* The identifiers of a bucket: appended in id order, dropped by remove,   *)
(* so the order of the bucket is that of its identifiers.                  *)
Bucket(t) == {i \in DOMAIN slots : slots[i] # 0 /\ rows[i][t[1]] = t[2]}

(* for left_index in 0..len, for right_index in left_index + 1..len. *)
PairsOf(ids) == {p \in ids \X ids : p[1] < p[2]}

(* The unverified path joins every member to the first, the anchor. *)
Neighbours(ids) ==
  {p \in PairsOf(ids) : /\ \A i \in ids : i <= p[1] \/ p[2] <= i
                        /\ Cardinality({i \in ids : i <= p[2]}) % 2 = 0}
Anchored(ids) == {p \in PairsOf(ids) : \A i \in ids : p[1] <= i}

KeyPair(left, right) == OrderedPair(slots[left], slots[right])

(* The next bucket of the first band that has any left. *)
VisitBucket ==
  /\ pc = "visit" /\ work = {}
  /\ \E t \in todo :
       /\ \A s \in todo : t[1] <= s[1]
       /\ todo' = todo \ {t}
       /\ work' = IF mode = "verified" THEN PairsOf(Bucket(t)) ELSE Anchored(Bucket(t))
  /\ UNCHANGED <<index, uf, edges, iterator, emitted, groups, pc>>

(* One iteration of the inner loop.  connected has compressed both paths   *)
(* before the verifier is asked; it is not asked about connected pairs.    *)
VisitPair ==
  /\ pc = "visit"
  /\ \E p \in work :
       /\ \A q \in work : p = q \/ Precedes(p, q)
       /\ uf' = IF KeyPair(p[1], p[2]) \in accepted THEN Union(uf, p[1], p[2])
                ELSE Find(uf, p[1], p[2])
       /\ work' = work \ {p}
  /\ UNCHANGED <<index, todo, edges, iterator, emitted, groups, pc>>

-----------------------------------------------------------------------------
(***************************************************************************)
(* A stream of pairs: group_pairs                                          *)
(***************************************************************************)

Slot(keys, k) == CHOOSE i \in DOMAIN keys : keys[i] = k

(* intern_key, for the two keys of a pair in turn. *)
InternKey(keys, k) == IF Contains(keys, k) THEN keys ELSE Append(keys, k)

StreamPair(left, right) ==
  LET keys == InternKey(InternKey(slots, left), right)
      grown == IF Len(keys) = Len(slots) THEN uf
               ELSE IF Len(keys) = Len(slots) + 1 THEN Push(uf) ELSE Push(Push(uf))
  IN /\ pc = "visit" /\ mode = "stream"
     /\ Len(edges) < MaxPairs
     /\ slots' = keys
     /\ uf' = Union(grown, Slot(keys, left), Slot(keys, right))
     /\ edges' = Append(edges, <<left, right>>)
     /\ UNCHANGED <<mode, rows, accepted, todo, work, iterator, emitted, min_size, groups, pc>>

-----------------------------------------------------------------------------
(***************************************************************************)
(* collect_components and the two ways to choose representatives           *)
(***************************************************************************)
Members == {i \in DOMAIN slots : slots[i] # 0}

Components ==
  LET found == {{slots[j] : j \in {m \in Members : Connected(uf, i, m)}} : i \in Members}
      minimum == Max({min_size, 1})
  IN {c \in found : Cardinality(c) >= minimum}

Visited == pc = "visit" /\ mode # "pairs" /\ todo = {} /\ work = {}

CollectDefault ==
  /\ Visited
  /\ groups' = {[representative |-> Min(c), members |-> c] : c \in Components}
  /\ pc' = "done"
  /\ UNCHANGED <<index, todo, work, uf, edges, iterator, emitted>>

(* The caller's function picks a key per component; a key outside it is    *)
(* refused and nothing is returned.                                        *)
CollectSelected ==
  /\ Visited
  /\ \E pick \in [Components -> Keys] :
       IF \A c \in Components : pick[c] \in c
       THEN /\ groups' = {[representative |-> pick[c], members |-> c] : c \in Components}
            /\ pc' = "selected"
       ELSE groups' = {} /\ pc' = "not_member"
  /\ UNCHANGED <<index, todo, work, uf, edges, iterator, emitted>>

-----------------------------------------------------------------------------
(***************************************************************************)
(* CandidatePairs                                                          *)
(***************************************************************************)

(* What the iterator walks through in order: every pair of every bucket,   *)
(* at its place <<band, hash, left, right>>.                               *)
Places ==
  UNION {{<<t[1], t[2], p[1], p[2]>> : p \in PairsOf(Bucket(t))} : t \in (1..Bands) \X Hashes}

IdPair(place) == <<place[3], place[4]>>

Ahead == {place \in Places : Precedes(iterator.position, place)}

(* next: skip pairs that were seen in an earlier band. *)
AlwaysUnseen(p) == TRUE
Unseen(p) == p \notin iterator.seen

NextPair ==
  /\ pc = "visit" /\ mode = "pairs"
  /\ \E place \in Ahead :
       /\ Unseen(IdPair(place))
       /\ \A p \in Ahead : Precedes(p, place) => ~Unseen(IdPair(p))
       /\ iterator' = [position |-> place, seen |-> iterator.seen \cup {IdPair(place)}]
       /\ emitted' = Append(emitted, KeyPair(place[3], place[4]))
  /\ UNCHANGED <<index, todo, work, uf, edges, groups, pc>>

NoMorePairs ==
  /\ pc = "visit" /\ mode = "pairs"
  /\ \A place \in Ahead : ~Unseen(IdPair(place))
  /\ pc' = "done"
  /\ UNCHANGED <<index, todo, work, uf, edges, iterator, emitted, groups>>

Next ==
  \/ VisitBucket \/ VisitPair
  \/ \E left, right \in Keys : StreamPair(left, right)
  \/ CollectDefault \/ CollectSelected
  \/ NextPair \/ NoMorePairs

Spec == Init /\ [][Next]_vars

-----------------------------------------------------------------------------
(***************************************************************************)
(* Properties                                                              *)
(***************************************************************************)
TypeOK ==
  /\ slots \in Seq(Keys \cup {0})
  /\ Len(uf.parent) = Len(slots) /\ Len(uf.rank) = Len(slots)
  /\ \A i \in DOMAIN uf.parent : uf.parent[i] \in DOMAIN slots /\ uf.rank[i] \in Nat
  /\ emitted \in Seq(AllPairs)
  /\ pc \in {"visit", "done", "selected", "not_member"}

(* Live keys that share a band hash and pass the verifier, or that a       *)
(* stream paired: the graph whose components are the duplicate groups.     *)
Edge(k, l) ==
  \/ \E n \in DOMAIN edges : {edges[n][1], edges[n][2]} = {k, l}
  \/ /\ k # l
     /\ OrderedPair(k, l) \in accepted
     /\ \E i, j \in DOMAIN rows : /\ slots[i] = k /\ slots[j] = l
                                /\ \E b \in 1..Bands : rows[i][b] = rows[j][b]

(* A component: no edge leaves it, and no part of it stands alone. *)
IsComponent(c) ==
  /\ \A k \in c, l \in Keys \ c : ~Edge(k, l)
  /\ \A part \in (SUBSET c) \ {{}, c} : \E k \in part, l \in c \ part : Edge(k, l)

ExpectedMembers ==
  {c \in SUBSET {slots[i] : i \in Members} :
     Cardinality(c) >= Max({min_size, 1}) /\ IsComponent(c)}

(* The groups are the connected components of the candidate graph: the     *)
(* order of hash maps, the pairs the verified path skips because they are  *)
(* connected already, the anchors of the unverified path and the shape of  *)
(* the trees make no difference, and removed slots never reappear.         *)
GroupsAreComponents ==
  pc \in {"done", "selected"} /\ mode # "pairs" =>
    /\ {g.members : g \in groups} = ExpectedMembers
    /\ \A g \in groups : g.representative \in g.members
    /\ pc = "done" => \A g \in groups : g.representative = Min(g.members)

PowerOfTwo[n \in Nat] == IF n = 0 THEN 1 ELSE 2 * PowerOfTwo[n - 1]

(* Ranks grow towards the root, so find terminates, and a root of rank r   *)
(* has 2^r nodes or more: a rank fits u8 with any number of slots.         *)
RankBounded ==
  \A i \in DOMAIN uf.parent :
    /\ uf.parent[i] # i => uf.rank[i] < uf.rank[uf.parent[i]]
    /\ Cardinality({j \in DOMAIN uf.parent : Connected(uf, i, j)}) >= PowerOfTwo[uf.rank[Root(uf, i)]]

(* The iterator returns each colliding pair of live keys once, smaller key *)
(* first, although a pair may collide in several bands.                    *)
PairsExact ==
  mode = "pairs" =>
    /\ \A m, n \in DOMAIN emitted : emitted[m] = emitted[n] => m = n
    /\ pc = "done" => ToSet(emitted) = {p \in AllPairs : Edge(p[1], p[2])}

=============================================================================
