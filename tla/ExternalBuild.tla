---------------------------- MODULE ExternalBuild ----------------------------
(***************************************************************************)
(* crates/pari-store-build: build_external, from a committed snapshot to   *)
(* the segments of a lazy index, without holding the memberships in        *)
(* memory.  Records <<band, hash, key>> fill a bounded buffer, each full   *)
(* buffer becomes a sorted run, a k-way merge of the runs writes one       *)
(* descriptor per bucket beside the flat membership file, and a last pass  *)
(* cuts the descriptors into segments.  Publication is in                  *)
(* BuildPublication.                                                       *)
(*                                                                         *)
(* Sections of the source are known by what the checks look at.            *)
(***************************************************************************)
EXTENDS BucketSegments

CONSTANTS
  Bands,     \* bands of the index
  Hash,      \* values of a band hash
  MaxItems,  \* bound: items of a snapshot
  MaxBuffer, \* bound: max_buffer_records
  None       \* no bucket yet

BuildAssumption ==
  /\ Bands \in Nat \ {0} /\ Hash \subseteq Nat /\ MaxItems \in Nat /\ MaxBuffer \in Nat

VARIABLES
  source,       \* the snapshot
  limit,        \* max_buffer_records
  pc,
  position,     \* records emitted so far
  buffer,
  runs,
  heads,        \* records each run has given to the heap
  current, count, offset,  \* the bucket under construction
  descriptors, memberships,
  taken,        \* descriptors already in a segment
  segments,
  peak          \* history: the largest buffer

vars == <<source, limit, pc, position, buffer, runs, heads, current, count, offset,
          descriptors, memberships, taken, segments, peak>>
input == <<source, limit>>
merging == <<heads, current, count, offset, descriptors, memberships>>

(* Committed snapshots keep their keys in ascending order. *)
Items == UNION {{[i \in 1..n |-> [key |-> i, row |-> rows[i]]] : rows \in [1..n -> [1..Bands -> Hash]]}
                : n \in 0..MaxItems}

Intact == [minhash |-> TRUE, u64_keys |-> TRUE, features |-> FALSE,
           keys |-> 1, hashes |-> 1, required |-> TRUE, sums |-> TRUE, counts |-> TRUE, lengths |-> TRUE]

Defects ==
  {[Intact EXCEPT ![f] = FALSE] : f \in {"minhash", "u64_keys", "required", "sums", "counts", "lengths"}}
  \cup {[Intact EXCEPT !.features = TRUE]}
  \cup {[Intact EXCEPT ![f] = n] : f \in {"keys", "hashes"}, n \in {0, 2}}

(* validate_source_metadata, required_unique_section, the checksums and    *)
(* the counts and lengths of both sections.                                *)
ValidSource(s) ==
  /\ s.minhash /\ s.u64_keys /\ ~s.features
  /\ s.keys = 1 /\ s.hashes = 1 /\ s.required
  /\ s.sums
  /\ s.counts /\ s.lengths

Init ==
  /\ source \in [shape : {Intact}, items : Items] \cup [shape : Defects, items : {<<>>}]
  /\ limit \in 0..MaxBuffer
  /\ pc = "start"
  /\ position = 0 /\ buffer = <<>> /\ runs = <<>> /\ peak = 0
  /\ heads = <<>> /\ current = None /\ count = 0 /\ offset = 0
  /\ descriptors = <<>> /\ memberships = <<>>
  /\ taken = 0 /\ segments = <<>>

Start ==
  /\ pc = "start"
  /\ pc' = IF limit > 0 /\ ValidSource(source.shape) THEN "spill" ELSE "rejected"
  /\ UNCHANGED <<input, position, buffer, runs, merging, taken, segments, peak>>

-----------------------------------------------------------------------------
(* spill_runs: record n + 1 is band n % Bands of item n \div Bands.        *)
Records == Len(source.items) * Bands

RecordAt(n) ==
  LET item == source.items[(n \div Bands) + 1]
  IN <<n % Bands, item.row[(n % Bands) + 1], item.key>>

RecordLess(x, y) ==
  KeyLess(x, y) \/ (x[1] = y[1] /\ x[2] = y[2] /\ x[3] < y[3])

UnsortedRun(records) == records
SortedRun(records) == SortSeq(records, RecordLess)

FullLate(records) == Len(records) > limit
Full(records) == Len(records) = limit

PushRecord ==
  LET filled == Append(buffer, RecordAt(position)) IN
  /\ pc = "spill" /\ position < Records
  /\ position' = position + 1
  /\ peak' = IF Len(filled) > peak THEN Len(filled) ELSE peak
  /\ IF Full(filled)
     THEN runs' = Append(runs, SortedRun(filled)) /\ buffer' = <<>>
     ELSE buffer' = filled /\ UNCHANGED runs
  /\ UNCHANGED <<input, pc, merging, taken, segments>>

SpillRest ==
  /\ pc = "spill" /\ position = Records
  /\ runs' = IF buffer = <<>> THEN runs ELSE Append(runs, SortedRun(buffer))
  /\ buffer' = <<>>
  /\ heads' = [r \in DOMAIN runs' |-> 0]
  /\ pc' = "merge"
  /\ UNCHANGED <<input, position, current, count, offset, descriptors, memberships, taken, segments, peak>>

-----------------------------------------------------------------------------
(* merge_runs: the heap holds the next record of every run that has one.   *)
Waiting == {r \in DOMAIN runs : heads[r] < Len(runs[r])}

HeadOf(r) == runs[r][heads[r] + 1]

FirstRun == CHOOSE r \in Waiting : \A q \in Waiting : r <= q
Popped ==
  CHOOSE r \in Waiting : \A q \in Waiting \ {r} :
    RecordLess(HeadOf(r), HeadOf(q)) \/ (HeadOf(r) = HeadOf(q) /\ r < q)

(* finish_descriptor for the bucket whose members end the membership file. *)
Finished ==
  IF current = None THEN descriptors
  ELSE Append(descriptors, [key |-> current, count |-> count, offset |-> offset,
                            sum |-> SubSeq(memberships, offset + 1, offset + count)])

MergeRecord ==
  LET record == HeadOf(Popped)
      bucket == <<record[1], record[2]>>
  IN /\ pc = "merge" /\ Waiting # {}
     /\ memberships' = Append(memberships, record[3])
     /\ heads' = [heads EXCEPT ![Popped] = @ + 1]
     /\ IF current = bucket
        THEN count' = count + 1 /\ UNCHANGED <<current, offset, descriptors>>
        ELSE /\ descriptors' = Finished
             /\ current' = bucket /\ count' = 1
             /\ offset' = IF current = None THEN offset ELSE offset + count
     /\ UNCHANGED <<input, pc, position, buffer, runs, taken, segments, peak>>

FinishMerge ==
  /\ pc = "merge" /\ Waiting = {}
  /\ descriptors' = Finished
  /\ pc' = "assemble"
  /\ UNCHANGED <<input, position, buffer, runs, heads, current, count, offset, memberships,
                 taken, segments, peak>>

-----------------------------------------------------------------------------
(* assemble_segments: the descriptors from taken + 1 on that the next      *)
(* segment takes, at least one, and an empty segment for an empty index.   *)
GroupSize(n) ==
  HeaderSize + SumOf([i \in 1..n |-> RecordSize(descriptors[taken + i].count)])

GroupLength ==
  LET fits == {n \in 1..(Len(descriptors) - taken) : n = 1 \/ GroupSize(n) <= TargetSize}
  IN CHOOSE n \in fits : \A m \in fits : m <= n

GroupOf(n) == SubSeq(descriptors, taken + 1, taken + n)

NotSeeked(group) == memberships
Seeked(group) ==
  IF group = <<>> THEN memberships
  ELSE SubSeq(memberships, group[1].offset + 1, Len(memberships))

AssembleSegment ==
  LET group == IF descriptors = <<>> THEN <<>> ELSE GroupOf(GroupLength)
      reader == Seeked(group)
  IN /\ pc = "assemble"
     /\ taken < Len(descriptors) \/ (descriptors = <<>> /\ segments = <<>>)
     /\ IF StreamMatches(group, reader)
        THEN /\ segments' = Append(segments, WriteSegment(group, reader))
             /\ taken' = taken + Len(group)
             /\ UNCHANGED pc
        ELSE pc' = "failed" /\ UNCHANGED <<segments, taken>>
     /\ UNCHANGED <<input, position, buffer, runs, merging, peak>>

(* write_final_container: the segments behind the copied source sections. *)
WriteContainer ==
  /\ pc = "assemble"
  /\ taken = Len(descriptors) /\ segments # <<>>
  /\ pc' = "written"
  /\ UNCHANGED <<input, position, buffer, runs, merging, taken, segments, peak>>

Next ==
  \/ Start \/ PushRecord \/ SpillRest \/ MergeRecord \/ FinishMerge \/ AssembleSegment \/ WriteContainer

Spec == Init /\ [][Next]_vars

(* BuildStats *)
PeakBuffered == IF limit < Records THEN limit ELSE Records

-----------------------------------------------------------------------------
(* Properties                                                              *)

(* The external builder writes the segments of the reference builder, byte *)
(* for byte, whatever the buffer: a bucket whose records were spread over  *)
(* several runs is one bucket again with its members in order, and the     *)
(* segments are cut at the same places.                                    *)
SameAsReference == pc = "written" => segments = ReferenceSegments(source.items)

(* Memory stays bounded: no step leaves a full buffer behind, and no run   *)
(* is longer than the buffer.  The reported peak is the real one.          *)
MemoryBounded ==
  /\ pc = "spill" => Len(buffer) < limit
  /\ \A r \in DOMAIN runs : Len(runs[r]) <= limit
  /\ pc = "written" => peak = PeakBuffered

(* A valid source is always built: no segment fails the check of its       *)
(* members, the merge and the cutting end.                                 *)
Built == limit > 0 /\ ValidSource(source.shape) => pc = "written"

(* What is written can be opened: bucket keys ascend without a repetition  *)
(* from segment to segment, although every segment is checked on its own   *)
(* when it is written, and member ranges leave no gap.                     *)
WrittenOpens == pc = "written" => Opens(segments, Bands)

=============================================================================
