-------------------------- MODULE BackendDescriptor --------------------------
(***************************************************************************)
(* crates/pari-backend: IndexDescriptor, the configuration every handle of *)
(* a namespace shares, and its 56-byte encoding of seven u64 words.        *)
(*                                                                         *)
(* A word is a number below 2^w with a small w, so that the reserved word  *)
(* u64::MAX and the largest retention keep their distance and the product  *)
(* bands * rows can overflow.  A threshold is known by its bit pattern,    *)
(* a member of GoodThreshold when validate_threshold accepts it.           *)
(***************************************************************************)
EXTENDS Naturals, Sequences

CONSTANTS
  MaxWord,        \* u64::MAX, also usize::MAX and NO_RETENTION
  MaxRetention,   \* MAX_RETENTION_SECONDS, 2^53 - 1
  MaxPerm,        \* u32::MAX
  Threshold,      \* bit patterns of thresholds
  GoodThreshold,  \* those of finite thresholds in (0, 1]
  Magic,          \* DESCRIPTOR_MAGIC
  NoRetention     \* retention: None

DescriptorAssumption ==
  /\ MaxWord \in Nat /\ MaxRetention \in 1..(MaxWord - 1)
  /\ MaxPerm \in 1..MaxWord /\ Magic \in 0..MaxWord
  /\ GoodThreshold \subseteq Threshold /\ Threshold \subseteq 0..MaxWord
  /\ NoRetention \notin Nat \cup [secs : 0..MaxWord, fraction : BOOLEAN]

Word == 0..MaxWord

(* A requested retention: None, or whole seconds with or without a         *)
(* fraction of a second.                                                   *)
Requested == {NoRetention} \cup [secs : Word, fraction : BOOLEAN]

ValidRetention(r) ==
  r # NoRetention => r.secs # 0 /\ ~r.fraction /\ r.secs <= MaxRetention

ValidParams(d) ==
  /\ d.threshold \in GoodThreshold
  /\ d.num_perm # 0 /\ d.num_perm <= MaxPerm
  /\ d.bands * d.rows <= MaxWord
  /\ d.bands # 0 /\ d.rows # 0 /\ d.bands * d.rows <= d.num_perm

(* IndexDescriptor::new accepts d. *)
Valid(d) == ValidRetention(d.retention) /\ ValidParams(d)

EncodeZero(d) ==
  <<Magic, d.threshold, d.num_perm, d.seed, d.bands, d.rows,
    IF d.retention = NoRetention THEN 0 ELSE d.retention.secs>>
EncodeDescriptor(d) ==
  <<Magic, d.threshold, d.num_perm, d.seed, d.bands, d.rows,
    IF d.retention = NoRetention THEN MaxWord ELSE d.retention.secs>>

(* The descriptor seven words spell, before IndexDescriptor::new. *)
FieldsLenient(w) ==
  [threshold |-> w[2], num_perm |-> w[3], seed |-> w[4], bands |-> w[5], rows |-> w[6],
   retention |-> IF w[7] > MaxRetention THEN NoRetention ELSE [secs |-> w[7], fraction |-> FALSE]]
Fields(w) ==
  [threshold |-> w[2], num_perm |-> w[3], seed |-> w[4], bands |-> w[5], rows |-> w[6],
   retention |-> IF w[7] = MaxWord THEN NoRetention ELSE [secs |-> w[7], fraction |-> FALSE]]

(* decode_descriptor returns Ok. *)
Decodes(w) == Len(w) = 7 /\ w[1] = Magic /\ w[7] # 0 /\ Valid(Fields(w))

-----------------------------------------------------------------------------
(* One namespace: a client creates it with a descriptor, or finds bytes in *)
(* it that some other writer left.                                         *)
VARIABLES
  stored,   \* the words of the namespace, or <<>>
  created   \* the descriptor a create stored, or NoRetention

vars == <<stored, created>>

Init == stored = <<>> /\ created = NoRetention

Create(d) ==
  /\ stored = <<>>
  /\ Valid(d)
  /\ stored' = EncodeDescriptor(d)
  /\ created' = d

Found(w) ==
  /\ stored = <<>>
  /\ stored' = w
  /\ UNCHANGED created

Next ==
  \/ \E t \in Threshold, p, b, r \in Word, q \in Requested :
       Create([threshold |-> t, num_perm |-> p, seed |-> 1, bands |-> b, rows |-> r, retention |-> q])
  \/ \E t \in Threshold, p, b, r, s \in Word, m \in {Magic, 0} :
       Found(<<m, t, p, 1, b, r, s>>) \/ Found(<<m, t, p, 1, b, r>>)

Spec == Init /\ [][Next]_vars

(* Whatever create accepts, every handle that opens the namespace gets     *)
(* back, retention included: the reserved word for "no retention" is no    *)
(* retention IndexDescriptor::new accepts.                                 *)
RoundTrip == created # NoRetention => Decodes(stored) /\ Fields(stored) = created

(* decode_descriptor accepts only the words encode_descriptor would write  *)
(* again: bytes another writer left never open as a descriptor that means  *)
(* something else, in particular not as one without retention.             *)
Canonical == Decodes(stored) => EncodeDescriptor(Fields(stored)) = stored

=============================================================================
