------------------------------ MODULE LazyIndex ------------------------------
(***************************************************************************)
(* crates/pari-store-lazy: LazyIndex32 and LazyIndex64, the read-only      *)
(* index that keeps only the bucket directory in memory and reads member   *)
(* lists from its file when a query touches them.                          *)
(*                                                                         *)
(* The file is what the reference builder wrote.  Storage may damage it at *)
(* any time, before open, between open and a query or between two queries: *)
(* a stored cell changes, or the end of the file is cut off.  A reader     *)
(* keeps what it read at open.                                             *)
(***************************************************************************)
EXTENDS BucketSegments

CONSTANTS
  Bands, Hash,
  Scheme,      \* signature schemes, affine32 and affine64
  MaxItems,    \* bound: items of the source
  MaxDamage,   \* bound: damages of one file
  Junk         \* what a damaged cell holds, a number no key or offset is

LazyAssumption ==
  /\ Bands \in Nat \ {0} /\ Hash \subseteq Nat /\ MaxItems \in Nat /\ MaxDamage \in Nat /\ Junk \in Nat

VARIABLES
  items,      \* the snapshot the file was built from
  scheme,     \* the scheme in the header of the file
  file,       \* the segments as stored
  cut,        \* members missing at the end of the last segment
  damages,
  reader,     \* "closed", "open" or "refused"
  directory,  \* entries kept by the reader
  item_count, \* record count of the keys section, as read at open
  answer,     \* the last query and its result
  verified,   \* the result of the last verify, and the damages before it
  checked     \* the same for the command pari verify, and the members it counted

vars == <<items, scheme, file, cut, damages, reader, directory, item_count, answer, verified, checked>>

Row == [1..Bands -> Hash]

NoAnswer == [probe |-> <<>>, ok |-> FALSE, keys |-> {}]

Init ==
  /\ \E n \in 0..MaxItems : \E rows \in [1..n -> Row] :
       items = [i \in 1..n |-> [key |-> i, row |-> rows[i]]]
  /\ scheme \in Scheme
  /\ file = ReferenceSegments(items)
  /\ cut = 0 /\ damages = 0
  /\ reader = "closed" /\ directory = <<>> /\ item_count = 0
  /\ answer = NoAnswer
  /\ verified = [ok |-> FALSE, at |-> 0]
  /\ checked = [ok |-> FALSE, at |-> 0, members |-> 0]

-----------------------------------------------------------------------------
(* Damage of the stored bytes.                                             *)
DamageMember(s, i) ==
  /\ damages < MaxDamage
  /\ file' = [file EXCEPT ![s].members[i] = Junk]
  /\ damages' = damages + 1
  /\ UNCHANGED <<items, scheme, cut, reader, directory, item_count, answer, verified, checked>>

DamageEntry(s, i, field) ==
  /\ damages < MaxDamage
  /\ file' = [file EXCEPT ![s].entries[i][field] = IF field = "sum" THEN <<Junk>> ELSE Junk]
  /\ damages' = damages + 1
  /\ UNCHANGED <<items, scheme, cut, reader, directory, item_count, answer, verified, checked>>

(* The file ends one member early: layout rejects it at open, a reader     *)
(* that is already open meets the end of the file.                         *)
Truncate ==
  /\ damages < MaxDamage
  /\ cut = 0 /\ Last(file).members # <<>>
  /\ cut' = 1
  /\ damages' = damages + 1
  /\ UNCHANGED <<items, scheme, file, reader, directory, item_count, answer, verified, checked>>

-----------------------------------------------------------------------------
(* LazyIndexCore::open *)
Acceptable(expected) == scheme = expected /\ cut = 0 /\ Opens(file, Bands)

Open(expected) ==
  /\ reader = "closed"
  /\ IF Acceptable(expected)
     THEN /\ reader' = "open"
          /\ directory' = Directory(file)
          /\ item_count' = Len(items)
     ELSE reader' = "refused" /\ UNCHANGED <<directory, item_count>>
  /\ UNCHANGED <<items, scheme, file, cut, damages, answer, verified, checked>>

(* binary_search_by_key over the directory kept in memory. *)
Located(key) == {d \in Range(directory) : d.entry.key = key}

(* read_bucket_members of a located bucket: the range is inside the file   *)
(* and the members pass their checksum.                                    *)
InFile(d) == d.segment < Len(file) \/ EntryEnd(d.entry) + cut <= SegmentSize(file[d.segment])

ReadableUnverified(d) == InFile(d)
Readable(d) == InFile(d) /\ MembersVerify(file[d.segment], d.entry)

Touched(probe) == UNION {Located(<<b - 1, probe[b]>>) : b \in 1..Bands}

(* query: the first band whose bucket cannot be read ends it. *)
Query(probe) ==
  /\ reader = "open"
  /\ answer' =
       IF \A d \in Touched(probe) : Readable(d)
       THEN [probe |-> probe, ok |-> TRUE,
             keys |-> UNION {Range(StoredMembers(file[d.segment], d.entry)) : d \in Touched(probe)}]
       ELSE [probe |-> probe, ok |-> FALSE, keys |-> {}]
  /\ UNCHANGED <<items, scheme, file, cut, damages, reader, directory, item_count, verified, checked>>

(* verify reads every bucket section whole. *)
FirstSectionVerifies == SectionVerifies(file[1])
AllVerify == cut = 0 /\ \A s \in DOMAIN file : SectionVerifies(file[s])

Verify ==
  /\ reader = "open"
  /\ verified' = [ok |-> AllVerify, at |-> damages]
  /\ UNCHANGED <<items, scheme, file, cut, damages, reader, directory, item_count, answer, checked>>

(* crates/pari-cli: verify opens the file itself, reads every section and  *)
(* decodes every bucket segment, checks the order of all buckets, and      *)
(* reads and counts the members of each.                                   *)
DirectoryOnly == \E expected \in Scheme : Acceptable(expected)
CommandAccepts ==
  /\ \E expected \in Scheme : Acceptable(expected)
  /\ \A s \in DOMAIN file : SectionVerifies(file[s])
  /\ \A d \in Range(Directory(file)) : MembersVerify(file[d.segment], d.entry)

VerifyCommand ==
  /\ checked' = [ok |-> CommandAccepts, at |-> damages,
                 members |-> IF CommandAccepts
                             THEN FoldSet(LAMBDA d, n : n + d.entry.count, 0, Range(Directory(file))) ELSE 0]
  /\ UNCHANGED <<items, scheme, file, cut, damages, reader, directory, item_count, answer, verified>>

Next ==
  \/ \E s \in DOMAIN file :
       \/ \E i \in DOMAIN file[s].members : DamageMember(s, i)
       \/ \E i \in DOMAIN file[s].entries, field \in {"offset", "count", "sum"} : DamageEntry(s, i, field)
  \/ Truncate
  \/ \E expected \in Scheme : Open(expected)
  \/ \E probe \in Row : Query(probe)
  \/ Verify
  \/ VerifyCommand

Spec == Init /\ [][Next]_vars

-----------------------------------------------------------------------------
(* Properties                                                              *)
Expected(probe) ==
  {items[i].key : i \in {j \in DOMAIN items : \E b \in 1..Bands : items[j].row[b] = probe[b]}}

AllReadable == \A probe \in Row : \A d \in Touched(probe) : Readable(d)

(* A query answers exactly or not at all, whatever happened to the file    *)
(* since it was built or opened: the directory is checked at open and each *)
(* member list when it is read.                                            *)
AnswersAreExact == answer.ok => answer.keys = Expected(answer.probe)

(* An undamaged file opens as its own scheme only, and every query on it   *)
(* is answered.                                                            *)
IntactAnswers ==
  damages = 0 =>
    /\ \A e \in Scheme : Acceptable(e) <=> scheme = e
    /\ reader = "open" => AllReadable

(* verify succeeds only when everything a query could read is as it was    *)
(* written: damage that happened before it cannot surprise a query after   *)
(* it.                                                                     *)
VerifiedIsReadable == verified.ok /\ verified.at = damages => AllReadable

(* pari verify reports a valid file only when it is what was built from    *)
(* the items, and has then counted every membership of every item.         *)
CommandValidIsIntact ==
  checked.ok /\ checked.at = damages =>
    cut = 0 /\ file = ReferenceSegments(items) /\ checked.members = Bands * Len(items)

=============================================================================
