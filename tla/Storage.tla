------------------------------- MODULE Storage -------------------------------
(***************************************************************************)
(* What is stored: the container format, the lazy reader, the descriptor   *)
(* of a shared namespace, and the backend handle over the in-process       *)
(* backend, used alone (handle) or beside calls of the backend itself      *)
(* (raw).                                                                  *)
(* part is the module a behaviour is about, chosen in the initial state.   *)
(* The modules share no state, so following them one at a time loses       *)
(* nothing; variables that only other modules have are Unused.             *)
(***************************************************************************)
EXTENDS Naturals

CONSTANTS
  Cell, KnownKind, MaxBody, MaxSectionCount, MaxSectionSize, MaxHeaderWord,  \* of the container
  HeaderSize, EntrySize, TargetSize, MaxSections, MaxSegmentSize,            \* of the lazy index
  Bands, BandHash, IndexScheme, MaxItems, MaxDamage, Junk,
  MaxWord, MaxRetention, MaxPerm, Threshold, GoodThreshold, Magic,           \* of the descriptor
  NoRetention,
  Key, Band, Hash, Absent, Incompatible, Unknown, NoMetrics,                 \* of the backend
  MaxBatch, MaxObserved, MaxKnown

VARIABLES part, header, body, decode, layout, items, scheme, file, cut, damages, reader,
  directory, item_count, answer, verified, checked, stored, created, descriptor, records,
  buckets, handle, known_items, metrics, truth, report

vars == <<part, header, body, decode, layout, items, scheme, file, cut, damages, reader,
          directory, item_count, answer, verified, checked, stored, created, descriptor,
          records, buckets, handle, known_items, metrics, truth, report>>

Unused == "unused"

Container == INSTANCE ContainerFormat WITH MaxWord <- MaxHeaderWord
Lazy ==
  INSTANCE LazyIndex
    WITH MaxSectionSize <- MaxSegmentSize, Hash <- BandHash, Scheme <- IndexScheme
Descriptor == INSTANCE BackendDescriptor
Backend == INSTANCE BackendIndex

ASSUME Assumptions ==
  /\ Container!ContainerAssumption
  /\ Lazy!SegmentAssumption
  /\ Lazy!LazyAssumption
  /\ Descriptor!DescriptorAssumption
  /\ Backend!BackendAssumption
  /\ Absent \notin Backend!Row

Init ==
  \/ /\ part = "container" /\ Container!Init
     /\ items = Unused /\ scheme = Unused /\ file = Unused /\ cut = Unused
     /\ damages = Unused /\ reader = Unused /\ directory = Unused /\ item_count = Unused
     /\ answer = Unused /\ verified = Unused /\ checked = Unused /\ stored = Unused
     /\ created = Unused /\ descriptor = Unused /\ records = Unused /\ buckets = Unused
     /\ handle = Unused /\ known_items = Unused /\ metrics = Unused /\ truth = Unused
     /\ report = Unused
  \/ /\ part = "lazy" /\ Lazy!Init
     /\ header = Unused /\ body = Unused /\ decode = Unused /\ layout = Unused
     /\ stored = Unused /\ created = Unused /\ descriptor = Unused /\ records = Unused
     /\ buckets = Unused /\ handle = Unused /\ known_items = Unused /\ metrics = Unused
     /\ truth = Unused /\ report = Unused
  \/ /\ part = "descriptor" /\ Descriptor!Init
     /\ header = Unused /\ body = Unused /\ decode = Unused /\ layout = Unused
     /\ items = Unused /\ scheme = Unused /\ file = Unused /\ cut = Unused
     /\ damages = Unused /\ reader = Unused /\ directory = Unused /\ item_count = Unused
     /\ answer = Unused /\ verified = Unused /\ checked = Unused /\ descriptor = Unused
     /\ records = Unused /\ buckets = Unused /\ handle = Unused /\ known_items = Unused
     /\ metrics = Unused /\ truth = Unused /\ report = Unused
  \/ /\ part \in {"handle", "raw"} /\ Backend!Init
     /\ header = Unused /\ body = Unused /\ decode = Unused /\ layout = Unused
     /\ items = Unused /\ scheme = Unused /\ file = Unused /\ cut = Unused
     /\ damages = Unused /\ reader = Unused /\ directory = Unused /\ item_count = Unused
     /\ answer = Unused /\ verified = Unused /\ checked = Unused /\ stored = Unused
     /\ created = Unused

Next ==
  \/ /\ part = "container" /\ Container!Next
     /\ UNCHANGED <<part, items, scheme, file, cut, damages, reader, directory, item_count,
                    answer, verified, checked, stored, created, descriptor, records,
                    buckets, handle, known_items, metrics, truth, report>>
  \/ /\ part = "lazy" /\ Lazy!Next
     /\ UNCHANGED <<part, header, body, decode, layout, stored, created, descriptor,
                    records, buckets, handle, known_items, metrics, truth, report>>
  \/ /\ part = "descriptor" /\ Descriptor!Next
     /\ UNCHANGED <<part, header, body, decode, layout, items, scheme, file, cut, damages,
                    reader, directory, item_count, answer, verified, checked, descriptor,
                    records, buckets, handle, known_items, metrics, truth, report>>
  \/ /\ part = "handle" /\ Backend!HandleNext
     /\ UNCHANGED <<part, header, body, decode, layout, items, scheme, file, cut, damages,
                    reader, directory, item_count, answer, verified, checked, stored,
                    created>>
  \/ /\ part = "raw" /\ Backend!Next
     /\ UNCHANGED <<part, header, body, decode, layout, items, scheme, file, cut, damages,
                    reader, directory, item_count, answer, verified, checked, stored,
                    created>>

Spec == Init /\ [][Next]_vars

-----------------------------------------------------------------------------
(* The full decoder and the layout reader accept the same files and        *)
(* headers, find the same sections, and leave no cell of a file unchecked; *)
(* an accepted file, and an accepted descriptor, is the encoding of what   *)
(* it is read as, and what create stored is read back, retention included. *)
FormatsAgree ==
  /\ part = "container" => Container!ReadersAgree
  /\ part = "container" => Container!HeadersAgree
  /\ part = "container" => Container!LayoutTiles
  /\ part = "container" => Container!Canonical
  /\ part = "descriptor" => Descriptor!RoundTrip
  /\ part = "descriptor" => Descriptor!Canonical

(* A query is answered exactly.  A lazy one is answered or fails, whatever *)
(* happened to the file since it was built or opened; an undamaged file    *)
(* opens as its own scheme only, and every query on it is answered.  On a  *)
(* backend every probe of a batch gets its own answer although the batch   *)
(* asks for each bucket only once.                                         *)
AnswersExact ==
  /\ part = "lazy" => Lazy!AnswersAreExact
  /\ part = "lazy" => Lazy!IntactAnswers
  /\ part = "handle" => Backend!QueryManyExact

(* verify succeeds only when everything a query could read is as it was    *)
(* written, and pari verify reports a valid file only when it is what was  *)
(* built from the items.                                                   *)
VerifyCovers ==
  /\ part = "lazy" => Lazy!VerifiedIsReadable
  /\ part = "lazy" => Lazy!CommandValidIsIntact

(* As long as nobody changes the backend behind it, a handle that counts   *)
(* its items counts right.                                                 *)
HandleCounts == part = "handle" => Backend!KnownItemsExact

(* The buckets present in the backend are the non-empty ones of its        *)
(* records, and a backend that cleanup emptied, or whose keys were all     *)
(* deleted, is what it was when it was new.                                *)
BackendConsistent ==
  /\ part \in {"handle", "raw"} => Backend!BucketsMatchRecords
  /\ part \in {"handle", "raw"} => Backend!CleanIsReusable

(* The records of the backend are a map from keys to rows that changes as  *)
(* SimilarityIndex says.                                                   *)
ImplementsContents ==
  /\ part = "raw" => Backend!Contents!Init
  /\ [][part = "raw" => Backend!Contents!Next \/ records' = records]_vars

===============================================================================
