---------------------------- MODULE BucketSegments ----------------------------
(***************************************************************************)
(* crates/pari-format: the bucket-segment codec, and how both builders cut *)
(* a sorted run of buckets into segments.                                  *)
(*                                                                         *)
(* A bucket is named by <<band, hash>>.  A segment is a header, a          *)
(* directory and the member lists behind each other; sizes and offsets     *)
(* count in units of one member key.  A checksum is what it was computed   *)
(* from: damage changes what is stored and not the checksum beside it.     *)
(***************************************************************************)
EXTENDS Naturals, SequencesExt

CONSTANTS
  HeaderSize,      \* BUCKET_SEGMENT_HEADER_BYTES
  EntrySize,       \* BUCKET_DIRECTORY_ENTRY_BYTES
  TargetSize,      \* BUCKET_SEGMENT_TARGET_BYTES
  MaxSections,     \* MAX_SECTION_COUNT of the container
  MaxSectionSize   \* MAX_SECTION_BYTES of the container

SegmentAssumption ==
  {HeaderSize, EntrySize, TargetSize, MaxSections, MaxSectionSize} \subseteq Nat

KeyLess(x, y) == x[1] < y[1] \/ (x[1] = y[1] /\ x[2] < y[2])

StrictlySorted(keys) == \A i \in 1..(Len(keys) - 1) : KeyLess(keys[i], keys[i + 1])

RecordSize(n) == EntrySize + n

SumOf(numbers) == FoldLeft(LAMBDA a, b : a + b, 0, numbers)

-----------------------------------------------------------------------------
(* Writing.  Entries gives the directory of buckets with these keys,       *)
(* counts and checksums; both encoders lay the members out in its order.   *)
MemberStart(n) == HeaderSize + n * EntrySize

EntriesPadded(keys, counts, sums) ==
  [i \in DOMAIN keys |->
    [key |-> keys[i], offset |-> MemberStart(i) + SumOf(SubSeq(counts, 1, i - 1)),
     count |-> counts[i], sum |-> sums[i]]]
Entries(keys, counts, sums) ==
  [i \in DOMAIN keys |->
    [key |-> keys[i],
     offset |-> MemberStart(Len(keys)) + SumOf(SubSeq(counts, 1, i - 1)),
     count |-> counts[i],
     sum |-> sums[i]]]

Segment(entries, members) ==
  [entries |-> entries, members |-> members,
   directory_sum |-> entries, outer_sum |-> <<entries, members>>]

(* encode_bucket_segment: buckets with their members. *)
EncodeSegment(buckets) ==
  LET lists == [i \in DOMAIN buckets |-> buckets[i].members]
  IN Segment(Entries([i \in DOMAIN buckets |-> buckets[i].key],
                     [i \in DOMAIN buckets |-> Len(lists[i])], lists),
             FlattenSeq(lists))

(* write_bucket_segment: descriptors, and a reader positioned before the   *)
(* members of the first one.  StreamMatches is its check of every list     *)
(* against the checksum of its descriptor.                                 *)
Counts(records) == [i \in DOMAIN records |-> records[i].count]

Slice(members, records, i) ==
  SubSeq(members, SumOf(SubSeq(Counts(records), 1, i - 1)) + 1, SumOf(SubSeq(Counts(records), 1, i)))

StreamMatches(records, members) ==
  /\ StrictlySorted([i \in DOMAIN records |-> records[i].key])
  /\ SumOf(Counts(records)) <= Len(members)
  /\ \A i \in DOMAIN records : Slice(members, records, i) = records[i].sum

WriteSegment(records, members) ==
  Segment(Entries([i \in DOMAIN records |-> records[i].key], Counts(records),
                  [i \in DOMAIN records |-> records[i].sum]),
          SubSeq(members, 1, SumOf(Counts(records))))

SegmentSize(segment) == MemberStart(Len(segment.entries)) + Len(segment.members)

-----------------------------------------------------------------------------
(* Reading.                                                                *)

EntryEnd(e) == e.offset + e.count

(* decode_directory_entries: entries in order, behind each other, up to    *)
(* the end of the payload.                                                 *)
DirectoryDecodes(segment, bands) ==
  LET entries == segment.entries IN
  /\ \A i \in DOMAIN entries :
       /\ entries[i].key[1] < bands
       /\ entries[i].offset = IF i = 1 THEN MemberStart(Len(entries)) ELSE EntryEnd(entries[i - 1])
       /\ EntryEnd(entries[i]) <= SegmentSize(segment)
  /\ StrictlySorted([i \in DOMAIN entries |-> entries[i].key])
  /\ SegmentSize(segment) =
       IF entries = <<>> THEN MemberStart(0) ELSE EntryEnd(Last(entries))

DecodesSegment(segment, bands) ==
  /\ segment.directory_sum = segment.entries
  /\ MemberStart(Len(segment.entries)) <= SegmentSize(segment)
  /\ DirectoryDecodes(segment, bands)

(* read_bucket_members: the range the entry names, and whether it passes.  *)
StoredMembers(segment, entry) ==
  LET from == entry.offset - MemberStart(Len(segment.directory_sum))
  IN SubSeq(segment.members, from + 1, from + entry.count)

MembersVerify(segment, entry) == StoredMembers(segment, entry) = entry.sum

(* read_section: the outer checksum of a whole segment. *)
SectionVerifies(segment) == segment.outer_sum = <<segment.entries, segment.members>>

(* The directory a reader keeps, and whether open accepts the segments of  *)
(* a container with the two other sections both builders write.            *)
Directory(segments) ==
  FlattenSeq([s \in DOMAIN segments |->
    [i \in DOMAIN segments[s].entries |-> [segment |-> s, entry |-> segments[s].entries[i]]]])

Opens(segments, bands) ==
  /\ Len(segments) + 2 <= MaxSections
  /\ segments # <<>>
  /\ \A s \in DOMAIN segments :
       SegmentSize(segments[s]) <= MaxSectionSize /\ DecodesSegment(segments[s], bands)
  /\ StrictlySorted([i \in DOMAIN Directory(segments) |-> Directory(segments)[i].entry.key])

-----------------------------------------------------------------------------
(* build_from_snapshot: the buckets of a snapshot in order, cut into       *)
(* segments.  items is the phase-1 snapshot, a sequence of keys with a row *)
(* of one hash per band; bands count from 0.                               *)
BucketKeys(items) ==
  SetToSortSeq(UNION {{<<b - 1, items[i].row[b]>> : b \in DOMAIN items[i].row} : i \in DOMAIN items},
               KeyLess)

BucketsOf(items) ==
  [n \in DOMAIN BucketKeys(items) |->
    LET key == BucketKeys(items)[n] IN
    [key |-> key,
     members |-> [i \in DOMAIN SelectSeq(items, LAMBDA x : x.row[key[1] + 1] = key[2]) |->
                    SelectSeq(items, LAMBDA x : x.row[key[1] + 1] = key[2])[i].key]]]

(* append_bucket_sections *)
Grouped(buckets) ==
  LET add(acc, bucket) ==
        LET size == RecordSize(Len(bucket.members)) IN
        IF acc.current # <<>> /\ acc.estimated + size > TargetSize
        THEN [groups |-> Append(acc.groups, acc.current), current |-> <<bucket>>,
              estimated |-> HeaderSize + size]
        ELSE [acc EXCEPT !.current = Append(@, bucket), !.estimated = @ + size]
      result == FoldLeft(add, [groups |-> <<>>, current |-> <<>>, estimated |-> HeaderSize], buckets)
  IN Append(result.groups, result.current)

ReferenceSegments(items) ==
  LET groups == Grouped(BucketsOf(items))
  IN [g \in DOMAIN groups |-> EncodeSegment(groups[g])]

=============================================================================
