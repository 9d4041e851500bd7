--------------------------- MODULE ContainerFormat ---------------------------
(***************************************************************************)
(* crates/pari-format: the .pari container and its two readers.  IndexFile *)
(* (format.rs) reads a file into memory and verifies every section,        *)
(* FileLayout (layout.rs) keeps section locations and verifies a known     *)
(* section when it is read.  Each has a header decoder and a section walk  *)
(* of its own; the persistent index uses the first, the lazy reader and    *)
(* the external builder the second.                                        *)
(*                                                                         *)
(* A file is a header and a body of cells.  A section is four cells (kind, *)
(* flags, length, checksum) and its payload.  Init takes every body of     *)
(* bounded length, written by this library, damaged or made by another     *)
(* program.  The header is a record of its words; its checksum is the      *)
(* record it was computed from.                                            *)
(***************************************************************************)
EXTENDS Naturals, SequencesExt

CONSTANTS
  Cell,             \* values of a body cell, from 0 to some maximum
  KnownKind,        \* SectionKind
  MaxBody,          \* bound: cells of a body
  MaxSectionCount,  \* MAX_SECTION_COUNT
  MaxSectionSize,   \* MAX_SECTION_BYTES
  MaxWord           \* u32::MAX

ContainerAssumption ==
  /\ Cell \subseteq Nat /\ KnownKind \subseteq Cell
  /\ {MaxBody, MaxSectionCount, MaxSectionSize, MaxWord} \subseteq Nat

FrameSize == 4
Unassigned == 9   \* an identifier no version defines

(* The checksum of a payload: a stand-in for CRC32 that depends on every   *)
(* cell and on the length.                                                 *)
Crc(cells) == FoldLeft(LAMBDA a, c : (2 * a + c + 1) % 3, 0, cells)

-----------------------------------------------------------------------------
(* Headers                                                                 *)
Scheme == {1, 2}
Width(scheme) == IF scheme = 1 THEN 32 ELSE 64

Checked(h) == [h EXCEPT !.sum = <<>>, !.tail = 0]

(* validate_metadata *)
ValidMetadata(h) ==
  /\ h.num_perm > 0
  /\ h.threshold = "in range"
  /\ h.bands * h.rows <= MaxWord
  /\ h.bands > 0 /\ h.rows > 0 /\ h.bands * h.rows <= h.num_perm
  /\ h.features = 0

(* encode_header; the container of a writer. *)
Written(scheme, codec, num_perm, threshold, bands, rows, features, count) ==
  LET h == [magic |-> TRUE, version |-> 1, size |-> 72, reserved |-> 0,
            algorithm |-> 1, scheme |-> scheme, width |-> Width(scheme), codec |-> codec,
            num_perm |-> num_perm, bands |-> bands, rows |-> rows, count |-> count,
            threshold |-> threshold, features |-> features, tail |-> 0, sum |-> <<>>]
  IN [h EXCEPT !.sum = Checked(h)]

Good(count) == Written(1, 3, 2, "in range", 1, 2, 0, count)

Resealed(h) == [h EXCEPT !.sum = Checked(h)]

Damages(h) ==
  {[h EXCEPT !.magic = FALSE]}
  \cup {[h EXCEPT ![f] = Unassigned] : f \in
         {"version", "size", "reserved", "algorithm", "scheme", "width", "codec", "features", "tail"}}
  \cup {[h EXCEPT !.threshold = "not finite"], [h EXCEPT !.width = 64], [h EXCEPT !.scheme = 2],
        [h EXCEPT !.num_perm = 3], [h EXCEPT !.codec = 2]}

Shape(s, n, b, r) == Written(s, 3, n, "in range", b, r, 0, 0)
Shapes == {Shape(s, n, b, r) : s \in Scheme, n \in 0..MaxWord, b \in 0..MaxWord, r \in 0..MaxWord}

OtherHeaders ==
  Shapes \cup Damages(Good(0)) \cup {Resealed(h) : h \in Damages(Good(0))}

(* format.rs decode_header *)
HeaderUnsealed(h) ==
  /\ h.magic /\ h.version = 1 /\ h.size = 72
  /\ h.reserved = 0 /\ h.tail = 0
  /\ h.algorithm = 1 /\ h.scheme \in Scheme /\ h.width = Width(h.scheme)
  /\ h.codec \in 1..5
  /\ ValidMetadata(h)
HeaderDecodes(h) ==
  /\ h.magic /\ h.version = 1 /\ h.size = 72
  /\ h.reserved = 0 /\ h.tail = 0
  /\ h.sum = Checked(h)
  /\ h.algorithm = 1 /\ h.scheme \in Scheme /\ h.width = Width(h.scheme)
  /\ h.codec \in 1..5
  /\ ValidMetadata(h)

(* layout.rs decode_header *)
LayoutHeaderDecodes(h) ==
  /\ h.magic /\ h.version = 1 /\ h.size = 72
  /\ h.reserved = 0 /\ h.tail = 0
  /\ h.sum = Checked(h)
  /\ h.algorithm = 1 /\ h.scheme \in Scheme
  /\ h.width = Width(h.scheme)
  /\ h.codec \in 1..5
  /\ h.features = 0
  /\ ValidMetadata(h)

-----------------------------------------------------------------------------
VARIABLES
  header, body,
  decode,  \* IndexFile::decode
  layout   \* FileLayout::read_from

vars == <<header, body, decode, layout>>

Bodies == UNION {[1..n -> Cell] : n \in 0..MaxBody}

Reader == [status |-> "header", cursor |-> 0, left |-> 0, sections |-> <<>>]

Init ==
  /\ \/ \E count \in 0..(MaxSectionCount + 1) : header = Good(count) /\ body \in Bodies
     \/ header \in OtherHeaders /\ body = <<>>
  /\ decode = Reader /\ layout = Reader

Started(accepted) ==
  IF accepted /\ header.count <= MaxSectionCount
  THEN [Reader EXCEPT !.status = "sections", !.left = header.count]
  ELSE [Reader EXCEPT !.status = "refused"]

DecodeHeader ==
  /\ decode.status = "header"
  /\ decode' = Started(HeaderDecodes(header))
  /\ UNCHANGED <<header, body, layout>>

LayoutHeader ==
  /\ layout.status = "header"
  /\ layout' = Started(LayoutHeaderDecodes(header))
  /\ UNCHANGED <<header, body, decode>>

-----------------------------------------------------------------------------
(* The section at a cursor.                                                *)
FrameAt(c) == [kind |-> body[c + 1], flags |-> body[c + 2], length |-> body[c + 3], sum |-> body[c + 4]]

FrameFits(c) == c + FrameSize <= Len(body)
PayloadFits(c) == c + FrameSize + FrameAt(c).length <= Len(body)
Bounded(frame) == frame.flags \in {0, 1} /\ frame.length <= MaxSectionSize

Payload(c, frame) == SubSeq(body, c + FrameSize + 1, c + FrameSize + frame.length)

Known(frame) == frame.kind \in KnownKind
Required(frame) == frame.flags = 1

Section(c, frame) ==
  [kind |-> frame.kind, required |-> Required(frame), offset |-> c + FrameSize,
   length |-> frame.length, sum |-> frame.sum]

Passed(reader, frame) ==
  [reader EXCEPT !.cursor = @ + FrameSize + frame.length, !.left = @ - 1,
                 !.sections = IF Known(frame) THEN Append(@, Section(reader.cursor, frame)) ELSE @]

Refused(reader) == [reader EXCEPT !.status = "refused"]

(* decode verifies every payload, then looks at the kind. *)
DecodeAccepts(frame, cells) == Crc(cells) = frame.sum /\ (Known(frame) \/ ~Required(frame))

DecodeSection ==
  LET c == decode.cursor IN
  /\ decode.status = "sections" /\ decode.left > 0
  /\ decode' =
       IF FrameFits(c) /\ Bounded(FrameAt(c)) /\ PayloadFits(c)
            /\ DecodeAccepts(FrameAt(c), Payload(c, FrameAt(c)))
       THEN Passed(decode, FrameAt(c)) ELSE Refused(decode)
  /\ UNCHANGED <<header, body, layout>>

(* read_from leaves known payloads alone and verifies the skipped ones. *)
SkipUnverified(frame, cells) == Known(frame) \/ ~Required(frame)
LayoutAccepts(frame, cells) ==
  Known(frame) \/ (~Required(frame) /\ Crc(cells) = frame.sum)

LayoutSection ==
  LET c == layout.cursor IN
  /\ layout.status = "sections" /\ layout.left > 0
  /\ layout' =
       IF FrameFits(c) /\ Bounded(FrameAt(c)) /\ PayloadFits(c)
            /\ LayoutAccepts(FrameAt(c), Payload(c, FrameAt(c)))
       THEN Passed(layout, FrameAt(c)) ELSE Refused(layout)
  /\ UNCHANGED <<header, body, decode>>

(* No cell may be left over. *)
EndsAnywhere(reader) == [reader EXCEPT !.status = "accepted"]
Ended(reader) ==
  [reader EXCEPT !.status = IF reader.cursor = Len(body) THEN "accepted" ELSE "refused"]

DecodeEnd ==
  /\ decode.status = "sections" /\ decode.left = 0
  /\ decode' = Ended(decode)
  /\ UNCHANGED <<header, body, layout>>

LayoutEnd ==
  /\ layout.status = "sections" /\ layout.left = 0
  /\ layout' = Ended(layout)
  /\ UNCHANGED <<header, body, decode>>

Next == DecodeHeader \/ DecodeSection \/ DecodeEnd \/ LayoutHeader \/ LayoutSection \/ LayoutEnd

Spec == Init /\ [][Next]_vars

-----------------------------------------------------------------------------
(* read_section_range and read_section of an accepted layout.              *)
RangeReads(s, offset, length) == offset + length <= s.length /\ s.offset + offset + length <= Len(body)

RangeCells(s, offset, length) == SubSeq(body, s.offset + offset + 1, s.offset + offset + length)

SectionReads(s) == RangeReads(s, 0, s.length) /\ Crc(RangeCells(s, 0, s.length)) = s.sum

(* IndexFile::encode of what decode returned.                              *)
EncodeFlagless(s) == <<s.kind, 0, s.length, Crc(RangeCells(s, 0, s.length))>>
EncodeFrame(s) == <<s.kind, IF s.required THEN 1 ELSE 0, s.length, Crc(RangeCells(s, 0, s.length))>>

Encoded(sections) ==
  FlattenSeq([i \in DOMAIN sections |->
    EncodeFrame(sections[i]) \o RangeCells(sections[i], 0, sections[i].length)])

-----------------------------------------------------------------------------
(* Properties                                                              *)
Both == decode.status \in {"accepted", "refused"} /\ layout.status \in {"accepted", "refused"}

(* The two readers agree on every file: decode accepts exactly the files   *)
(* whose layout is accepted and whose known sections then read back, and   *)
(* both report the same sections at the same places.                       *)
ReadersAgree ==
  Both =>
    /\ decode.status = "accepted" <=>
         layout.status = "accepted" /\ \A i \in DOMAIN layout.sections : SectionReads(layout.sections[i])
    /\ decode.status = "accepted" => decode.sections = layout.sections

TotalLength(sections) ==
  LET upto[i \in 0..Len(sections)] == IF i = 0 THEN 0 ELSE upto[i - 1] + sections[i].length
  IN upto[Len(sections)]

(* The sections of an accepted layout lie inside the file, in file order   *)
(* and apart from each other, and every other cell belongs to a frame or   *)
(* to a skipped optional section whose payload was verified: no cell of an *)
(* accepted file escapes the checks.                                       *)
LayoutTiles ==
  layout.status = "accepted" =>
    /\ \A i \in DOMAIN layout.sections :
         LET s == layout.sections[i] IN
         /\ s.offset >= FrameSize /\ RangeReads(s, 0, s.length)
         /\ i > 1 => s.offset >= layout.sections[i - 1].offset + layout.sections[i - 1].length + FrameSize
    /\ layout.cursor = Len(body)
    /\ Len(layout.sections) = header.count
         => FrameSize * header.count + TotalLength(layout.sections) = Len(body)

(* Decoding loses nothing that it understands: a file without unknown      *)
(* sections is the encoding of what it decodes to, so two different files  *)
(* never decode to the same index.                                         *)
Canonical ==
  decode.status = "accepted" /\ Len(decode.sections) = header.count
    => Encoded(decode.sections) = body

(* What a writer produces is read back: a header with metadata that        *)
(* IndexMetadata::new accepts passes both decoders, and no other header    *)
(* with a valid seal does.                                                 *)
HeadersAgree ==
  Both /\ body = <<>> /\ header.count = 0 =>
    /\ (decode.status = "accepted") = (layout.status = "accepted")
    /\ decode.status = "accepted" =>
         header = Written(header.scheme, header.codec, header.num_perm, header.threshold,
                          header.bands, header.rows, header.features, 0)
    /\ header \in Shapes => (ValidMetadata(header) <=> decode.status = "accepted")

=============================================================================
