--------------------------- MODULE CommandsProofs ---------------------------
(***************************************************************************)
(* Proofs about pari index and pari dedup, for any number of commands, any *)
(* inputs and any batch size.                                              *)
(***************************************************************************)
EXTENDS Commands, Integers, FiniteSetTheorems, TLAPS

-----------------------------------------------------------------------------
(* Reading in batches                                                      *)

(* A line that gives a sketch is a record that could have been computed    *)
(* with the parameters: make_sketch32 and make_sketch64 accept no other.   *)
LEMMA SketchIsUsable ==
  ASSUME NEW r \in Line, NEW s \in Scheme, r.text = "record", MakeSketch(r, s)
  PROVE  UsableRecord(r, s)
  BY DEF Line, MakeSketch, UsableRecord, Comparable

LEMMA LineTypes ==
  ASSUME NEW in \in Seq(Line)
  PROVE  /\ Len(in) \in Nat /\ DOMAIN in = 1..Len(in)
         /\ \A i \in DOMAIN in : in[i] \in Line /\ in[i].key \in Nat
         /\ Filled(in) \subseteq 1..Len(in)
<1>1. Len(in) \in Nat /\ DOMAIN in = 1..Len(in) /\ \A i \in DOMAIN in : in[i] \in Line
  OBVIOUS
<1>2. \A x \in Line : x.key \in Nat
  BY DEF Line
<1> QED BY <1>1, <1>2 DEF Filled

(* One more line. *)
LEMMA BetweenNext ==
  ASSUME NEW in \in Seq(Line), NEW m \in Nat, NEW n \in Nat, m <= n, n < Len(in)
  PROVE  /\ n + 1 \notin Between(in, m, n)
         /\ in[n + 1].text = "blank" => Between(in, m, n + 1) = Between(in, m, n)
         /\ in[n + 1].text # "blank" => Between(in, m, n + 1) = Between(in, m, n) \cup {n + 1}
<1>1. /\ n + 1 \in DOMAIN in
      /\ \A i \in Filled(in) : i \in Nat /\ (m < i /\ i <= n + 1 <=> (m < i /\ i <= n) \/ i = n + 1)
      /\ n + 1 \in Filled(in) <=> in[n + 1].text # "blank"
  BY LineTypes DEF Filled
<1> QED BY <1>1 DEF Between

LEMMA NothingIngested ==
  ASSUME NEW in \in Seq(Line), NEW s
  PROVE  Ingested(in, s, 0, <<>>, {})
<1>1. Between(in, 0, 0) = {} /\ Range(<<>>) = {} /\ 0 \in 0..0 /\ 0 \in 0..Len(in)
  BY LineTypes DEF Between, Range
<1> QED
  BY <1>1 DEF Ingested, SplitAt

(* A blank line changes nothing. *)
LEMMA BlankIngested ==
  ASSUME NEW in \in Seq(Line), NEW s, NEW n \in Nat, NEW b, NEW keys,
         Ingested(in, s, n, b, keys), n < Len(in), in[n + 1].text = "blank"
  PROVE  Ingested(in, s, n + 1, b, keys)
<1>1. PICK m \in 0..n : SplitAt(in, m, n, b, keys)
  BY DEF Ingested
<1>2. Between(in, 0, n + 1) = Between(in, 0, n) /\ Between(in, m, n + 1) = Between(in, m, n)
  BY BetweenNext
<1>3. n + 1 \in 0..Len(in) /\ m \in 0..(n + 1)
  BY LineTypes
<1>4. SplitAt(in, m, n + 1, b, keys)
  BY <1>1, <1>2 DEF SplitAt
<1> QED
  BY <1>2, <1>3, <1>4 DEF Ingested

(* A record is appended to the batch. *)
LEMMA RecordIngested ==
  ASSUME NEW in \in Seq(Line), NEW s, NEW n \in Nat, NEW b \in Seq(Nat), NEW keys,
         Ingested(in, s, n, b, keys), n < Len(in), in[n + 1].text # "blank",
         UsableRecord(in[n + 1], s)
  PROVE  Ingested(in, s, n + 1, Append(b, in[n + 1].key), keys)
<1> DEFINE k == in[n + 1].key
           c == Append(b, k)
<1>1. PICK m \in 0..n : SplitAt(in, m, n, b, keys)
  BY DEF Ingested
<1> DEFINE waiting == Between(in, m, n)
           next == Between(in, m, n + 1)
<1>2. /\ Between(in, 0, n + 1) = Between(in, 0, n) \cup {n + 1}
      /\ next = waiting \cup {n + 1} /\ n + 1 \notin waiting
  BY BetweenNext
<1>3. n + 1 \in 0..Len(in) /\ m \in 0..(n + 1) /\ k \in Nat
  BY LineTypes
<1>4. /\ Len(b) \in Nat /\ DOMAIN b = 1..Len(b) /\ DOMAIN c = 1..(Len(b) + 1)
      /\ c[Len(b) + 1] = k
      /\ \A p \in DOMAIN b : p \in DOMAIN c /\ p # Len(b) + 1 /\ c[p] = b[p]
      /\ \A p \in DOMAIN c : p \in DOMAIN b \/ p = Len(b) + 1
  BY <1>3
<1> HIDE DEF c, k
<1>5. Len(b) + 1 \in DOMAIN c
  BY <1>4
<1>6. Range(c) = Range(b) \cup {k}
  <2>1. \A x \in Range(c) : x \in Range(b) \/ x = k
    BY <1>4 DEF Range
  <2>2. \A x \in Range(b) : x \in Range(c)
    BY <1>4 DEF Range
  <2>3. k \in Range(c)
    BY <1>4, <1>5 DEF Range
  <2> QED BY <2>1, <2>2, <2>3
<1>7. Range(c) = {in[i].key : i \in next}
  BY <1>1, <1>2, <1>6 DEF SplitAt, k
<1>8. ASSUME NEW i \in next, NEW j \in next, i # j
      PROVE  \E p, q \in DOMAIN c : p # q /\ c[p] = in[i].key /\ c[q] = in[j].key
  <2>1. \A x \in waiting : \E p \in DOMAIN b : b[p] = in[x].key
    <3>1. \A x \in waiting : in[x].key \in Range(b)
      BY <1>1 DEF SplitAt
    <3> QED BY <3>1 DEF Range
  <2>2. CASE i \in waiting /\ j \in waiting
    <3>1. PICK p \in DOMAIN b, q \in DOMAIN b : p # q /\ b[p] = in[i].key /\ b[q] = in[j].key
      BY <2>2, <1>1, <1>8 DEF SplitAt
    <3> QED BY <3>1, <1>4
  <2>3. CASE i = n + 1 /\ j \in waiting
    <3>1. PICK q \in DOMAIN b : b[q] = in[j].key
      BY <2>1, <2>3
    <3> QED BY <3>1, <2>3, <1>4, <1>5 DEF k
  <2>4. CASE j = n + 1 /\ i \in waiting
    <3>1. PICK q \in DOMAIN b : b[q] = in[i].key
      BY <2>1, <2>4
    <3> QED BY <3>1, <2>4, <1>4, <1>5 DEF k
  <2> QED BY <2>2, <2>3, <2>4, <1>2, <1>8
<1>9. SplitAt(in, m, n + 1, c, keys)
  BY <1>1, <1>7, <1>8 DEF SplitAt
<1> QED
  BY <1>2, <1>3, <1>9 DEF Ingested, c, k

(* insert_many accepts a batch without repeated keys and with new keys:    *)
(* then all lines read are in the index.                                   *)
LEMMA BatchInserted ==
  ASSUME NEW in \in Seq(Line), NEW s, NEW n \in Nat, NEW b, NEW keys,
         Ingested(in, s, n, b, keys), IsInjective(b), Range(b) \cap keys = {}
  PROVE  Ingested(in, s, n, <<>>, keys \cup Range(b))
<1>1. PICK m \in 0..n : SplitAt(in, m, n, b, keys)
  BY DEF Ingested
<1> DEFINE stored == Between(in, 0, m)
           waiting == Between(in, m, n)
           all == Between(in, 0, n)
<1>2. all = stored \cup waiting
  BY LineTypes DEF Between
<1>3. keys \cup Range(b) = {in[i].key : i \in all}
  BY <1>1, <1>2 DEF SplitAt
<1>4. ASSUME NEW i \in all, NEW j \in all, in[i].key = in[j].key PROVE i = j
  <2>1. CASE i \in stored /\ j \in stored
    BY <2>1, <1>1, <1>4 DEF SplitAt
  <2>2. CASE i \in waiting /\ j \in waiting
    BY <2>2, <1>1, <1>4 DEF SplitAt, IsInjective
  <2>3. CASE i \in stored /\ j \in waiting
    <3>1. in[i].key \in keys /\ in[j].key \in Range(b)
      BY <2>3, <1>1 DEF SplitAt
    <3> QED BY <3>1, <1>4
  <2>4. CASE j \in stored /\ i \in waiting
    <3>1. in[j].key \in keys /\ in[i].key \in Range(b)
      BY <2>4, <1>1 DEF SplitAt
    <3> QED BY <3>1, <1>4
  <2> QED BY <2>1, <2>2, <2>3, <2>4, <1>2
<1>5. Between(in, n, n) = {} /\ Range(<<>>) = {}
  BY LineTypes DEF Between, Range
<1>6. SplitAt(in, n, n, <<>>, keys \cup Range(b))
  BY <1>3, <1>4, <1>5 DEF SplitAt
<1> QED
  BY <1>6 DEF Ingested

(* At the end of the input, with nothing waiting, the index is the input. *)
LEMMA AllIngested ==
  ASSUME NEW in \in Seq(Line), NEW s, NEW keys, Ingested(in, s, Len(in), <<>>, keys)
  PROVE  Usable(in, s) /\ keys = KeysOf(in)
<1>1. PICK m \in 0..Len(in) : SplitAt(in, m, Len(in), <<>>, keys)
  BY DEF Ingested
<1>2. Between(in, 0, Len(in)) = Filled(in)
  BY LineTypes DEF Between
<1>3. Between(in, m, Len(in)) = {}
  <2>1. Range(<<>>) = {}
    BY DEF Range
  <2>2. \A i \in Between(in, m, Len(in)) : in[i].key \in Range(<<>>)
    BY <1>1 DEF SplitAt
  <2> QED BY <2>1, <2>2
<1>4. Between(in, 0, m) = Filled(in)
  BY <1>2, <1>3, LineTypes DEF Between
<1>5. \A i \in Filled(in) : UsableRecord(in[i], s)
  BY <1>2 DEF Ingested
<1>6. keys = KeysOf(in) /\ \A i, j \in Filled(in) : in[i].key = in[j].key => i = j
  BY <1>1, <1>4 DEF SplitAt, KeysOf
<1> QED
  BY <1>5, <1>6 DEF Usable

-----------------------------------------------------------------------------
(* pari index                                                              *)

(* IndexCommand has its own copies of the definitions about lines. *)
LEMMA IndexLines ==
  /\ \A r, s : Index!MakeSketch(r, s) <=> MakeSketch(r, s)
  /\ \A in, s : Index!Usable(in, s) <=> Usable(in, s)
  /\ \A in : Index!KeysOf(in) = KeysOf(in)
  /\ \A in, s, n, b, keys : Index!Ingested(in, s, n, b, keys) <=> Ingested(in, s, n, b, keys)
  /\ \A f : Index!Range(f) = Range(f)
  /\ \A f : Index!IsInjective(f) <=> IsInjective(f)
<1>1. \A f : Index!Range(f) = Range(f)
  BY DEF Index!Range, Range
<1>2. \A f : Index!IsInjective(f) <=> IsInjective(f)
  BY DEF Index!IsInjective, IsInjective
<1>3. \A in : Index!Filled(in) = Filled(in)
  BY DEF Index!Filled, Filled
<1>4. \A in : Index!KeysOf(in) = KeysOf(in)
  BY <1>3 DEF Index!KeysOf, KeysOf
<1>5. \A r, s : Index!UsableRecord(r, s) <=> UsableRecord(r, s)
  BY Zenon DEF Index!UsableRecord, UsableRecord, Index!Comparable, Comparable
<1>6. \A in, s : Index!Usable(in, s) <=> Usable(in, s)
  BY <1>3, <1>5 DEF Index!Usable, Usable
<1>7. \A in, m, n : Index!Between(in, m, n) = Between(in, m, n)
  BY <1>3 DEF Index!Between, Between
<1>8. \A in, m, n, b, keys : Index!SplitAt(in, m, n, b, keys) <=> SplitAt(in, m, n, b, keys)
  <2> SUFFICES ASSUME NEW in, NEW m, NEW n, NEW b, NEW keys
               PROVE  Index!SplitAt(in, m, n, b, keys) <=> SplitAt(in, m, n, b, keys)
    OBVIOUS
  <2>1. /\ Index!Between(in, 0, m) = Between(in, 0, m) /\ Index!Between(in, m, n) = Between(in, m, n)
        /\ Index!Range(b) = Range(b)
    BY <1>1, <1>7
  <2> QED BY <2>1 DEF Index!SplitAt, SplitAt
<1>9. \A in, s, n, b, keys : Index!Ingested(in, s, n, b, keys) <=> Ingested(in, s, n, b, keys)
  BY <1>5, <1>7, <1>8, Zenon DEF Index!Ingested, Ingested
<1>10. \A r, s : Index!MakeSketch(r, s) <=> MakeSketch(r, s)
  BY Zenon DEF Index!MakeSketch, MakeSketch
<1> QED BY <1>1, <1>2, <1>4, <1>6, <1>9, <1>10

LEMMA IndexInputs ==
  /\ Free \notin Command
  /\ \A in \in IndexInput : in \in Seq(Line)
<1>1. Index!Line = Line
  BY DEF Index!Line, Line
<1> QED BY <1>1, Assumptions DEF Index!CommandAssumption

(* A record line of an input that gives a sketch is usable. *)
LEMMA IndexSketch ==
  ASSUME NEW in \in IndexInput, NEW s \in Scheme, NEW n \in Nat, n < Len(in),
         in[n + 1].text = "record", Index!MakeSketch(in[n + 1], s)
  PROVE  UsableRecord(in[n + 1], s)
<1>1. in \in Seq(Line)
  BY IndexInputs
<1>2. in[n + 1] \in Line
  BY <1>1, LineTypes
<1> QED BY <1>2, SketchIsUsable, IndexLines

(* What a step of one command leaves alone of another: another command's   *)
(* file never appears under the name, and never vanishes from it.          *)
Apart(c) ==
  /\ UNCHANGED <<input, scheme, batch_size>>
  /\ \A d \in Command \ {c} :
       /\ pc'[d] = pc[d] /\ line'[d] = line[d] /\ batch'[d] = batch[d] /\ store'[d] = store[d]
       /\ committed'[d] = committed[d] /\ outcome'[d] = outcome[d] /\ items'[d] = items[d]
       /\ d \in staged' <=> d \in staged
       /\ d \in identity' <=> d \in identity
       /\ d \in reported' <=> d \in reported
       /\ d \in recoverable' \cup {dest'} => d \in recoverable \cup {dest}
       /\ dest' = d <=> dest = d
       /\ dest = d /\ recoverable = {d} => recoverable' = {d}

Own(c) ==
  Index!ReadSoFar(c) /\ Index!WholeWhenNamed(c) /\ Index!HoldsName(c) /\ Index!StagedRemoved(c)

LEMMA ApartKeepsOthers ==
  ASSUME NEW c \in Command, Apart(c), \A d \in Command : Own(d), Own(c)'
  PROVE  \A d \in Command : Own(d)'
<1> SUFFICES ASSUME NEW d \in Command, d # c PROVE Own(d)'
  OBVIOUS
<1>1. Own(d) /\ d \in Command \ {c}
  OBVIOUS
<1>2. Index!ReadSoFar(d)'
  BY <1>1 DEF Own, Apart, Index!ReadSoFar
<1>3. Index!WholeWhenNamed(d)'
  BY <1>1 DEF Own, Apart, Index!WholeWhenNamed, Index!Named
<1>4. Index!HoldsName(d)'
  BY <1>1 DEF Own, Apart, Index!HoldsName, Index!Named
<1>5. Index!StagedRemoved(d)'
  BY <1>1 DEF Own, Apart, Index!StagedRemoved
<1> QED BY <1>2, <1>3, <1>4, <1>5 DEF Own

(* One step of one command, action by action. *)
LEMMA IndexCommandStep ==
  ASSUME Index!IInv, NEW c \in Command, Index!Index(c) \/ Index!Crash(c)
  PROVE  Index!TypeOK' /\ Apart(c) /\ Own(c)'
<1> USE DEF Index!arguments, Index!ingest, Index!published, Index!result, Index!Go, Index!Status, Index!Fault
<1> USE DEF Index!Phase, Index!Ingesting, Index!Unlinked, Index!Linked, Index!Ending, Index!Printing
<1>1. Index!TypeOK /\ Own(c)
  BY DEF Index!IInv, Own
<1>2. input \in Seq(Line) /\ input \in IndexInput /\ scheme \in Scheme /\ Free \notin Command
  BY <1>1, IndexInputs DEF Index!TypeOK
<1>3. CASE Index!Begin(c)
  <2>1. Index!TypeOK'
    BY <1>3, <1>1 DEF Index!Begin, Index!TypeOK
  <2>2. Apart(c)
    BY <1>3, <1>1, <1>2 DEF Index!Begin, Index!TypeOK, Apart, Own, Index!HoldsName
  <2>3. Index!ReadSoFar(c)'
    BY <1>3, <1>1 DEF Index!Begin, Index!TypeOK, Own, Index!ReadSoFar
  <2>4. Index!WholeWhenNamed(c)'
    BY <1>3, <1>1, <1>2 DEF Index!Begin, Index!TypeOK, Own, Index!WholeWhenNamed, Index!HoldsName, Index!Named
  <2>5. Index!HoldsName(c)' /\ Index!StagedRemoved(c)'
    BY <1>3, <1>1, <1>2 DEF Index!Begin, Index!TypeOK, Own, Index!HoldsName, Index!Named, Index!StagedRemoved
  <2> QED BY <2>1, <2>2, <2>3, <2>4, <2>5 DEF Own
<1>4. CASE Index!Create(c)
  <2>1. Index!TypeOK'
    BY <1>4, <1>1 DEF Index!Create, Index!TypeOK
  <2>2. Apart(c)
    BY <1>4, <1>1, <1>2 DEF Index!Create, Index!TypeOK, Apart, Own, Index!HoldsName
  <2>3. Index!ReadSoFar(c)'
    BY <1>4, <1>1 DEF Index!Create, Index!TypeOK, Own, Index!ReadSoFar
  <2>4. Index!WholeWhenNamed(c)'
    BY <1>4, <1>1, <1>2 DEF Index!Create, Index!TypeOK, Own, Index!WholeWhenNamed, Index!HoldsName, Index!Named
  <2>5. Index!HoldsName(c)' /\ Index!StagedRemoved(c)'
    BY <1>4, <1>1, <1>2 DEF Index!Create, Index!TypeOK, Own, Index!HoldsName, Index!Named, Index!StagedRemoved
  <2> QED BY <2>1, <2>2, <2>3, <2>4, <2>5 DEF Own
<1>5. CASE Index!ReadLine(c)
  <2> DEFINE next == input[line[c] + 1]
  <2>1. line[c] \in Nat /\ line[c] < Len(input) /\ next.key \in Nat /\ batch[c] \in Seq(Nat)
    <3>1. line[c] \in Nat /\ line[c] < Len(input) /\ batch[c] \in Seq(Nat)
      BY <1>5, <1>1 DEF Index!ReadLine, Index!TypeOK
    <3> QED BY <3>1, <1>2, LineTypes
  <2>2. Append(batch[c], next.key) \in Seq(Nat) /\ line[c] + 1 \in Nat
    BY <2>1
  <2>3. Index!TypeOK'
    <3>1. CASE next.text = "blank"
      BY <1>5, <1>1, <2>2, <3>1 DEF Index!ReadLine, Index!TypeOK
    <3>2. CASE next.text = "record" /\ Index!MakeSketch(next, scheme)
      <4>1. batch' = [batch EXCEPT ![c] = Append(batch[c], next.key)]
        BY <1>5, <3>2 DEF Index!ReadLine
      <4>2. batch' \in [Command -> Seq(Nat)]
        BY <4>1, <2>2, <1>1 DEF Index!TypeOK
      <4> HIDE DEF next
      <4> QED BY <1>5, <1>1, <2>2, <3>2, <4>2 DEF Index!ReadLine, Index!TypeOK, next
    <3>3. CASE next.text # "blank" /\ ~(next.text = "record" /\ Index!MakeSketch(next, scheme))
      BY <1>5, <1>1, <2>2, <3>3 DEF Index!ReadLine, Index!TypeOK
    <3> QED BY <3>1, <3>2, <3>3
  <2>4. Apart(c)
    BY <1>5, <1>1, <1>2 DEF Index!ReadLine, Index!TypeOK, Apart, Own, Index!HoldsName
  <2>5. Index!ReadSoFar(c)'
    <3>1. Ingested(input, scheme, line[c], batch[c], store[c])
      BY <1>5, <1>1, IndexLines DEF Index!ReadLine, Own, Index!ReadSoFar
    <3>2. CASE next.text = "blank"
      <4>1. Ingested(input, scheme, line[c] + 1, batch[c], store[c])
        BY <3>1, <3>2, <2>1, <1>2, BlankIngested
      <4>2. /\ input' = input /\ scheme' = scheme /\ line'[c] = line[c] + 1 /\ batch'[c] = batch[c]
            /\ store'[c] = store[c] /\ pc'[c] = "read"
        BY <1>5, <3>2, <1>1 DEF Index!ReadLine, Index!TypeOK
      <4> QED BY <4>1, <4>2, IndexLines DEF Index!ReadSoFar
    <3>3. CASE next.text = "record" /\ Index!MakeSketch(next, scheme)
      <4>1. UsableRecord(next, scheme)
        BY <3>3, <2>1, <1>2, IndexSketch
      <4>2. Ingested(input, scheme, line[c] + 1, Append(batch[c], next.key), store[c])
        BY <3>1, <3>3, <4>1, <2>1, <1>2, RecordIngested
      <4>3. /\ input' = input /\ scheme' = scheme /\ line'[c] = line[c] + 1
            /\ batch'[c] = Append(batch[c], next.key) /\ store'[c] = store[c]
            /\ pc'[c] # "sync"
        BY <1>5, <3>3, <1>1 DEF Index!ReadLine, Index!TypeOK
      <4> QED BY <4>2, <4>3, IndexLines DEF Index!ReadSoFar
    <3>4. CASE next.text # "blank" /\ ~(next.text = "record" /\ Index!MakeSketch(next, scheme))
      BY <1>5, <1>1, <3>4 DEF Index!ReadLine, Index!TypeOK, Index!ReadSoFar
    <3> QED BY <3>2, <3>3, <3>4
  <2>6. Index!WholeWhenNamed(c)'
    BY <1>5, <1>1, <1>2 DEF Index!ReadLine, Index!TypeOK, Own, Index!WholeWhenNamed, Index!HoldsName, Index!Named
  <2>7. Index!HoldsName(c)' /\ Index!StagedRemoved(c)'
    BY <1>5, <1>1, <1>2 DEF Index!ReadLine, Index!TypeOK, Own, Index!HoldsName, Index!Named, Index!StagedRemoved
  <2> QED BY <2>3, <2>4, <2>5, <2>6, <2>7 DEF Own
<1>6. CASE Index!EndOfInput(c)
  <2>1. Index!TypeOK'
    BY <1>6, <1>1 DEF Index!EndOfInput, Index!Rest, Index!TypeOK
  <2>2. Apart(c)
    BY <1>6, <1>1, <1>2 DEF Index!EndOfInput, Index!Rest, Index!TypeOK, Apart, Own, Index!HoldsName
  <2>3. Index!ReadSoFar(c)'
    BY <1>6, <1>1 DEF Index!EndOfInput, Index!Rest, Index!TypeOK, Own, Index!ReadSoFar
  <2>4. Index!WholeWhenNamed(c)'
    BY <1>6, <1>1, <1>2 DEF Index!EndOfInput, Index!Rest, Index!TypeOK, Own, Index!WholeWhenNamed, Index!HoldsName, Index!Named
  <2>5. Index!HoldsName(c)' /\ Index!StagedRemoved(c)'
    BY <1>6, <1>1, <1>2 DEF Index!EndOfInput, Index!Rest, Index!TypeOK, Own, Index!HoldsName, Index!Named, Index!StagedRemoved
  <2> QED BY <2>1, <2>2, <2>3, <2>4, <2>5 DEF Own
<1>7. CASE Index!InsertMany(c)
  <2> DEFINE accepted == Index!IsInjective(batch[c]) /\ Index!Range(batch[c]) \cap store[c] = {}
  <2>1. store[c] \cup Index!Range(batch[c]) \in SUBSET Nat /\ line[c] \in Nat
    <3>1. batch[c] \in Seq(Nat) /\ store[c] \subseteq Nat /\ line[c] \in Nat
      BY <1>1 DEF Index!TypeOK
    <3> QED BY <3>1 DEF Index!Range
  <2>2. Index!TypeOK'
    <3>1. CASE accepted
      <4>1. store' = [store EXCEPT ![c] = store[c] \cup Index!Range(batch[c])]
        BY <1>7, <3>1 DEF Index!InsertMany
      <4>2. store' \in [Command -> SUBSET Nat]
        BY <4>1, <2>1, <1>1 DEF Index!TypeOK
      <4> QED BY <1>7, <1>1, <3>1, <4>2 DEF Index!InsertMany, Index!TypeOK
    <3>2. CASE ~accepted
      BY <1>7, <1>1, <3>2 DEF Index!InsertMany, Index!TypeOK
    <3> QED BY <3>1, <3>2
  <2>3. Apart(c)
    BY <1>7, <1>1, <1>2 DEF Index!InsertMany, Index!TypeOK, Apart, Own, Index!HoldsName
  <2>4. Index!ReadSoFar(c)'
    <3>1. CASE accepted
      <4>1. Ingested(input, scheme, line[c], batch[c], store[c])
        BY <1>7, <1>1, IndexLines DEF Index!InsertMany, Own, Index!ReadSoFar
      <4>2. Ingested(input, scheme, line[c], <<>>, store[c] \cup Range(batch[c]))
        BY <3>1, <4>1, <2>1, <1>2, IndexLines, BatchInserted
      <4>3. /\ input' = input /\ scheme' = scheme /\ line'[c] = line[c] /\ pc'[c] = "sync"
            /\ store'[c] = store[c] \cup Range(batch[c])
        BY <1>7, <3>1, <1>1, IndexLines DEF Index!InsertMany, Index!TypeOK
      <4> QED BY <4>2, <4>3, IndexLines DEF Index!ReadSoFar
    <3>2. CASE ~accepted
      BY <1>7, <1>1, <3>2 DEF Index!InsertMany, Index!TypeOK, Index!ReadSoFar
    <3> QED BY <3>1, <3>2
  <2>5. Index!WholeWhenNamed(c)'
    BY <1>7, <1>1, <1>2 DEF Index!InsertMany, Index!TypeOK, Own, Index!WholeWhenNamed, Index!HoldsName, Index!Named
  <2>6. Index!HoldsName(c)' /\ Index!StagedRemoved(c)'
    BY <1>7, <1>1, <1>2 DEF Index!InsertMany, Index!TypeOK, Own, Index!HoldsName, Index!Named, Index!StagedRemoved
  <2> QED BY <2>2, <2>3, <2>4, <2>5, <2>6 DEF Own
<1>8. CASE Index!Sync(c)
  <2> DEFINE last == line[c] = Len(input) /\ Len(batch[c]) < batch_size
  <2>1. /\ pc[c] = "sync" /\ input' = input /\ scheme' = scheme
        /\ committed' = [committed EXCEPT ![c] = store[c]] /\ store' = store /\ line' = line
        /\ batch' = [batch EXCEPT ![c] = <<>>]
        /\ last => pc' = [pc EXCEPT ![c] = "publish"]
        /\ last => items' = [items EXCEPT ![c] = Index!Cardinality(store[c])]
        /\ ~last => pc' = [pc EXCEPT ![c] = "read"] /\ items' = items
    BY <1>8 DEF Index!Sync, Index!Cleared
  <2>2. Index!TypeOK'
    <3>1. <<>> \in Seq(Nat)
      OBVIOUS
    <3>2. batch' \in [Command -> Seq(Nat)] /\ committed' \in [Command -> SUBSET Nat]
      BY <2>1, <3>1, <1>1 DEF Index!TypeOK
    <3>3. pc' \in [Command -> Index!Phase] /\ DOMAIN items' = Command
      <4>1. CASE last
        BY <2>1, <4>1, <1>1 DEF Index!TypeOK
      <4>2. CASE ~last
        BY <2>1, <4>2, <1>1 DEF Index!TypeOK
      <4> QED BY <4>1, <4>2
    <3> QED BY <1>8, <1>1, <3>2, <3>3 DEF Index!Sync, Index!TypeOK
  <2>3. Apart(c)
    BY <1>8, <1>1, <1>2 DEF Index!Sync, Index!Cleared, Index!TypeOK, Apart, Own, Index!HoldsName
  <2>4. Index!ReadSoFar(c)'
    BY <1>8, <1>1 DEF Index!Sync, Index!Cleared, Index!TypeOK, Own, Index!ReadSoFar
  <2>5. Index!WholeWhenNamed(c)'
    <3>1. ~Index!Named(c) /\ UNCHANGED <<dest, recoverable>>
      BY <2>1, <1>8, <1>1 DEF Index!Sync, Own, Index!HoldsName
    <3>2. ~Index!Named(c)'
      BY <3>1 DEF Index!Named
    <3>3. CASE last
      <4>1. Ingested(input, scheme, Len(input), <<>>, store[c])
        BY <2>1, <3>3, <1>1, IndexLines DEF Own, Index!ReadSoFar
      <4>2. Usable(input, scheme) /\ store[c] = KeysOf(input)
        BY <4>1, <1>2, AllIngested
      <4>3. committed'[c] = store[c] /\ items'[c] = Index!Cardinality(store[c])
        BY <2>1, <3>3, <1>1 DEF Index!TypeOK
      <4> QED BY <2>1, <4>2, <4>3, IndexLines DEF Index!WholeWhenNamed
    <3>4. CASE ~last
      BY <2>1, <3>2, <3>4, <1>1 DEF Index!WholeWhenNamed, Index!TypeOK
    <3> QED BY <3>3, <3>4
  <2>6. Index!HoldsName(c)' /\ Index!StagedRemoved(c)'
    BY <1>8, <1>1, <1>2 DEF Index!Sync, Index!Cleared, Index!TypeOK, Own, Index!HoldsName, Index!Named, Index!StagedRemoved
  <2> QED BY <2>2, <2>3, <2>4, <2>5, <2>6 DEF Own
<1>9. CASE Index!TakeIdentity(c)
  <2>1. Index!TypeOK'
    BY <1>9, <1>1 DEF Index!TakeIdentity, Index!TypeOK
  <2>2. Apart(c)
    BY <1>9, <1>1, <1>2 DEF Index!TakeIdentity, Index!TypeOK, Apart, Own, Index!HoldsName
  <2>3. Index!ReadSoFar(c)'
    BY <1>9, <1>1 DEF Index!TakeIdentity, Index!TypeOK, Own, Index!ReadSoFar
  <2>4. Index!WholeWhenNamed(c)'
    BY <1>9, <1>1, <1>2 DEF Index!TakeIdentity, Index!TypeOK, Own, Index!WholeWhenNamed, Index!HoldsName, Index!Named
  <2>5. Index!HoldsName(c)' /\ Index!StagedRemoved(c)'
    BY <1>9, <1>1, <1>2 DEF Index!TakeIdentity, Index!TypeOK, Own, Index!HoldsName, Index!Named, Index!StagedRemoved
  <2> QED BY <2>1, <2>2, <2>3, <2>4, <2>5 DEF Own
<1>10. CASE Index!Link(c)
  <2>1. ASSUME Index!LinkClaims PROVE Index!TypeOK' /\ Index!HoldsName(c)' /\ Index!StagedRemoved(c)'
    <3>1. /\ pc[c] = "link" /\ pc' = [pc EXCEPT ![c] = "unlink"] /\ outcome' = outcome
          /\ dest' = c /\ recoverable' = recoverable \cup {c} /\ dest = Free
      BY <1>10, <2>1 DEF Index!Link, Index!LinkClaims
    <3>2. Index!TypeOK'
      BY <1>10, <3>1, <1>1 DEF Index!Link, Index!TypeOK
    <3>3. Index!HoldsName(c)' /\ Index!StagedRemoved(c)'
      <4>1. pc'[c] = "unlink" /\ outcome'[c] \notin Index!Printing /\ c \in identity'
        BY <1>10, <3>1, <1>1 DEF Index!TypeOK, Own, Index!HoldsName, Index!Link
      <4> QED BY <3>1, <4>1 DEF Index!HoldsName, Index!StagedRemoved
    <3> QED BY <3>2, <3>3
  <2>2. ASSUME ~Index!LinkClaims PROVE Index!TypeOK' /\ Index!HoldsName(c)' /\ Index!StagedRemoved(c)'
    <3>1. /\ pc[c] = "link" /\ pc' = [pc EXCEPT ![c] = "abort"]
          /\ outcome' = [outcome EXCEPT ![c] = "error"] /\ UNCHANGED <<dest, recoverable>>
      BY <1>10, <2>2 DEF Index!Link
    <3>2. Index!TypeOK'
      BY <1>10, <3>1, <1>1 DEF Index!Link, Index!TypeOK
    <3>3. Index!HoldsName(c)' /\ Index!StagedRemoved(c)'
      BY <3>1, <1>1 DEF Index!TypeOK, Own, Index!HoldsName, Index!Named, Index!StagedRemoved
    <3> QED BY <3>2, <3>3
  <2>3. Index!TypeOK' /\ Index!HoldsName(c)' /\ Index!StagedRemoved(c)'
    BY <2>1, <2>2
  <2>4. Apart(c)
    BY <1>10, <1>1, <1>2 DEF Index!Link, Index!LinkClaims, Index!TypeOK, Apart, Own, Index!HoldsName
  <2>5. Index!ReadSoFar(c)'
    BY <1>10, <1>1 DEF Index!Link, Index!TypeOK, Own, Index!ReadSoFar
  <2>6. Index!WholeWhenNamed(c)'
    BY <1>10, <1>1, <1>2 DEF Index!Link, Index!TypeOK, Own, Index!WholeWhenNamed, Index!HoldsName, Index!Named
  <2> QED BY <2>3, <2>4, <2>5, <2>6 DEF Own
<1>11. CASE Index!RemoveStaged(c)
  <2>1. Index!TypeOK'
    BY <1>11, <1>1 DEF Index!RemoveStaged, Index!TypeOK
  <2>2. Apart(c)
    BY <1>11, <1>1, <1>2 DEF Index!RemoveStaged, Index!TypeOK, Apart, Own, Index!HoldsName
  <2>3. Index!ReadSoFar(c)'
    BY <1>11, <1>1 DEF Index!RemoveStaged, Index!TypeOK, Own, Index!ReadSoFar
  <2>4. Index!WholeWhenNamed(c)'
    BY <1>11, <1>1, <1>2 DEF Index!RemoveStaged, Index!TypeOK, Own, Index!WholeWhenNamed, Index!HoldsName, Index!Named
  <2>5. Index!HoldsName(c)' /\ Index!StagedRemoved(c)'
    BY <1>11, <1>1, <1>2 DEF Index!RemoveStaged, Index!TypeOK, Own, Index!HoldsName, Index!Named, Index!StagedRemoved
  <2> QED BY <2>1, <2>2, <2>3, <2>4, <2>5 DEF Own
<1>12. CASE Index!RemoveCompanion(c)
  <2>1. Index!TypeOK'
    BY <1>12, <1>1 DEF Index!RemoveCompanion, Index!TypeOK
  <2>2. Apart(c)
    BY <1>12, <1>1, <1>2 DEF Index!RemoveCompanion, Index!TypeOK, Apart, Own, Index!HoldsName
  <2>3. Index!ReadSoFar(c)'
    BY <1>12, <1>1 DEF Index!RemoveCompanion, Index!TypeOK, Own, Index!ReadSoFar
  <2>4. Index!WholeWhenNamed(c)'
    BY <1>12, <1>1, <1>2 DEF Index!RemoveCompanion, Index!TypeOK, Own, Index!WholeWhenNamed, Index!HoldsName, Index!Named
  <2>5. Index!HoldsName(c)' /\ Index!StagedRemoved(c)'
    BY <1>12, <1>1, <1>2 DEF Index!RemoveCompanion, Index!TypeOK, Own, Index!HoldsName, Index!Named, Index!StagedRemoved
  <2> QED BY <2>1, <2>2, <2>3, <2>4, <2>5 DEF Own
<1>13. CASE Index!SyncParent(c)
  <2>1. Index!TypeOK'
    BY <1>13, <1>1 DEF Index!SyncParent, Index!Synced, Index!TypeOK
  <2>2. Apart(c)
    BY <1>13, <1>1, <1>2 DEF Index!SyncParent, Index!Synced, Index!TypeOK, Apart, Own, Index!HoldsName
  <2>3. Index!ReadSoFar(c)'
    BY <1>13, <1>1 DEF Index!SyncParent, Index!Synced, Index!TypeOK, Own, Index!ReadSoFar
  <2>4. Index!WholeWhenNamed(c)'
    BY <1>13, <1>1, <1>2 DEF Index!SyncParent, Index!Synced, Index!TypeOK, Own, Index!WholeWhenNamed, Index!HoldsName, Index!Named
  <2>5. Index!HoldsName(c)' /\ Index!StagedRemoved(c)'
    BY <1>13, <1>1, <1>2 DEF Index!SyncParent, Index!Synced, Index!TypeOK, Own, Index!HoldsName, Index!Named, Index!StagedRemoved
  <2> QED BY <2>1, <2>2, <2>3, <2>4, <2>5 DEF Own
<1>13a. CASE Index!PrintSummary(c)
  <2>1. Index!TypeOK'
    BY <1>13a, <1>1 DEF Index!PrintSummary, Index!TypeOK
  <2>2. Apart(c)
    BY <1>13a, <1>1, <1>2 DEF Index!PrintSummary, Index!TypeOK, Apart, Own, Index!HoldsName
  <2>3. Index!ReadSoFar(c)'
    BY <1>13a, <1>1 DEF Index!PrintSummary, Index!TypeOK, Own, Index!ReadSoFar
  <2>4. Index!WholeWhenNamed(c)'
    BY <1>13a, <1>1, <1>2 DEF Index!PrintSummary, Index!TypeOK, Own, Index!WholeWhenNamed, Index!HoldsName, Index!Named
  <2>5. Index!HoldsName(c)' /\ Index!StagedRemoved(c)'
    BY <1>13a, <1>1, <1>2 DEF Index!PrintSummary, Index!TypeOK, Own, Index!HoldsName, Index!Named, Index!StagedRemoved
  <2> QED BY <2>1, <2>2, <2>3, <2>4, <2>5 DEF Own
<1>13b. CASE Index!PrintSummaryFails(c)
  <2>1. Index!TypeOK'
    BY <1>13b, <1>1 DEF Index!PrintSummaryFails, Index!TypeOK
  <2>2. Apart(c)
    BY <1>13b, <1>1, <1>2 DEF Index!PrintSummaryFails, Index!TypeOK, Apart, Own, Index!HoldsName
  <2>3. Index!ReadSoFar(c)'
    BY <1>13b, <1>1 DEF Index!PrintSummaryFails, Index!TypeOK, Own, Index!ReadSoFar
  <2>4. Index!WholeWhenNamed(c)'
    BY <1>13b, <1>1, <1>2 DEF Index!PrintSummaryFails, Index!TypeOK, Own, Index!WholeWhenNamed, Index!HoldsName, Index!Named
  <2>5. Index!HoldsName(c)' /\ Index!StagedRemoved(c)'
    BY <1>13b, <1>1, <1>2 DEF Index!PrintSummaryFails, Index!TypeOK, Own, Index!HoldsName, Index!Named, Index!StagedRemoved
  <2> QED BY <2>1, <2>2, <2>3, <2>4, <2>5 DEF Own
<1>14. CASE Index!StepFails(c)
  <2>1. Index!TypeOK'
    BY <1>14, <1>1 DEF Index!StepFails, Index!FailsTo, Index!TypeOK
  <2>2. Apart(c)
    BY <1>14, <1>1, <1>2 DEF Index!StepFails, Index!FailsTo, Index!TypeOK, Apart, Own, Index!HoldsName
  <2>3. Index!ReadSoFar(c)'
    BY <1>14, <1>1 DEF Index!StepFails, Index!FailsTo, Index!TypeOK, Own, Index!ReadSoFar
  <2>4. Index!WholeWhenNamed(c)'
    BY <1>14, <1>1, <1>2 DEF Index!StepFails, Index!FailsTo, Index!TypeOK, Own, Index!WholeWhenNamed, Index!HoldsName, Index!Named
  <2>5. Index!HoldsName(c)' /\ Index!StagedRemoved(c)'
    BY <1>14, <1>1, <1>2 DEF Index!StepFails, Index!FailsTo, Index!TypeOK, Own, Index!HoldsName, Index!Named, Index!StagedRemoved
  <2> QED BY <2>1, <2>2, <2>3, <2>4, <2>5 DEF Own
<1>15. CASE Index!RollbackCompare(c)
  <2>1. Index!TypeOK'
    BY <1>15, <1>1 DEF Index!RollbackCompare, Index!TypeOK
  <2>2. Apart(c)
    BY <1>15, <1>1, <1>2 DEF Index!RollbackCompare, Index!TypeOK, Apart, Own, Index!HoldsName
  <2>3. Index!ReadSoFar(c)'
    BY <1>15, <1>1 DEF Index!RollbackCompare, Index!TypeOK, Own, Index!ReadSoFar
  <2>4. Index!WholeWhenNamed(c)'
    BY <1>15, <1>1, <1>2 DEF Index!RollbackCompare, Index!TypeOK, Own, Index!WholeWhenNamed, Index!HoldsName, Index!Named
  <2>5. Index!HoldsName(c)' /\ Index!StagedRemoved(c)'
    BY <1>15, <1>1, <1>2 DEF Index!RollbackCompare, Index!TypeOK, Own, Index!HoldsName, Index!Named, Index!StagedRemoved
  <2> QED BY <2>1, <2>2, <2>3, <2>4, <2>5 DEF Own
<1>16. CASE Index!RollbackRemove(c)
  <2>1. Index!TypeOK'
    BY <1>16, <1>1 DEF Index!RollbackRemove, Index!TypeOK
  <2>2. Apart(c)
    BY <1>16, <1>1, <1>2 DEF Index!RollbackRemove, Index!TypeOK, Apart, Own, Index!HoldsName
  <2>3. Index!ReadSoFar(c)'
    BY <1>16, <1>1 DEF Index!RollbackRemove, Index!TypeOK, Own, Index!ReadSoFar
  <2>4. Index!WholeWhenNamed(c)'
    BY <1>16, <1>1, <1>2 DEF Index!RollbackRemove, Index!TypeOK, Own, Index!WholeWhenNamed, Index!HoldsName, Index!Named
  <2>5. Index!HoldsName(c)' /\ Index!StagedRemoved(c)'
    BY <1>16, <1>1, <1>2 DEF Index!RollbackRemove, Index!TypeOK, Own, Index!HoldsName, Index!Named, Index!StagedRemoved
  <2> QED BY <2>1, <2>2, <2>3, <2>4, <2>5 DEF Own
<1>17. CASE Index!RollbackSync(c)
  <2>1. Index!TypeOK'
    BY <1>17, <1>1 DEF Index!RollbackSync, Index!Synced, Index!TypeOK
  <2>2. Apart(c)
    BY <1>17, <1>1, <1>2 DEF Index!RollbackSync, Index!Synced, Index!TypeOK, Apart, Own, Index!HoldsName
  <2>3. Index!ReadSoFar(c)'
    BY <1>17, <1>1 DEF Index!RollbackSync, Index!Synced, Index!TypeOK, Own, Index!ReadSoFar
  <2>4. Index!WholeWhenNamed(c)'
    BY <1>17, <1>1, <1>2 DEF Index!RollbackSync, Index!Synced, Index!TypeOK, Own, Index!WholeWhenNamed, Index!HoldsName, Index!Named
  <2>5. Index!HoldsName(c)' /\ Index!StagedRemoved(c)'
    BY <1>17, <1>1, <1>2 DEF Index!RollbackSync, Index!Synced, Index!TypeOK, Own, Index!HoldsName, Index!Named, Index!StagedRemoved
  <2> QED BY <2>1, <2>2, <2>3, <2>4, <2>5 DEF Own
<1>18. CASE Index!Abort(c)
  <2>1. Index!TypeOK'
    BY <1>18, <1>1 DEF Index!Abort, Index!RemoveStagedFiles, Index!TypeOK
  <2>2. Apart(c)
    BY <1>18, <1>1, <1>2 DEF Index!Abort, Index!RemoveStagedFiles, Index!TypeOK, Apart, Own, Index!HoldsName
  <2>3. Index!ReadSoFar(c)'
    BY <1>18, <1>1 DEF Index!Abort, Index!RemoveStagedFiles, Index!TypeOK, Own, Index!ReadSoFar
  <2>4. Index!WholeWhenNamed(c)'
    BY <1>18, <1>1, <1>2 DEF Index!Abort, Index!RemoveStagedFiles, Index!TypeOK, Own, Index!WholeWhenNamed, Index!HoldsName, Index!Named
  <2>5. Index!HoldsName(c)' /\ Index!StagedRemoved(c)'
    BY <1>18, <1>1, <1>2 DEF Index!Abort, Index!RemoveStagedFiles, Index!TypeOK, Own, Index!HoldsName, Index!Named, Index!StagedRemoved
  <2> QED BY <2>1, <2>2, <2>3, <2>4, <2>5 DEF Own
<1>19. CASE Index!RecoveryFails(c)
  <2>1. Index!TypeOK'
    BY <1>19, <1>1 DEF Index!RecoveryFails, Index!TypeOK
  <2>2. Apart(c)
    BY <1>19, <1>1, <1>2 DEF Index!RecoveryFails, Index!TypeOK, Apart, Own, Index!HoldsName
  <2>3. Index!ReadSoFar(c)'
    BY <1>19, <1>1 DEF Index!RecoveryFails, Index!TypeOK, Own, Index!ReadSoFar
  <2>4. Index!WholeWhenNamed(c)'
    BY <1>19, <1>1, <1>2 DEF Index!RecoveryFails, Index!TypeOK, Own, Index!WholeWhenNamed, Index!HoldsName, Index!Named
  <2>5. Index!HoldsName(c)' /\ Index!StagedRemoved(c)'
    BY <1>19, <1>1, <1>2 DEF Index!RecoveryFails, Index!TypeOK, Own, Index!HoldsName, Index!Named, Index!StagedRemoved
  <2> QED BY <2>1, <2>2, <2>3, <2>4, <2>5 DEF Own
<1>20. CASE Index!Crash(c)
  <2>1. Index!TypeOK'
    BY <1>20, <1>1 DEF Index!Crash, Index!Stopped, Index!TypeOK
  <2>2. Apart(c)
    BY <1>20, <1>1, <1>2 DEF Index!Crash, Index!Stopped, Index!TypeOK, Apart, Own, Index!HoldsName
  <2>3. Index!ReadSoFar(c)'
    BY <1>20, <1>1 DEF Index!Crash, Index!Stopped, Index!TypeOK, Own, Index!ReadSoFar
  <2>4. Index!WholeWhenNamed(c)'
    BY <1>20, <1>1, <1>2 DEF Index!Crash, Index!Stopped, Index!TypeOK, Own, Index!WholeWhenNamed, Index!HoldsName, Index!Named
  <2>5. Index!HoldsName(c)' /\ Index!StagedRemoved(c)'
    BY <1>20, <1>1, <1>2 DEF Index!Crash, Index!Stopped, Index!TypeOK, Own, Index!HoldsName, Index!Named, Index!StagedRemoved
  <2> QED BY <2>1, <2>2, <2>3, <2>4, <2>5 DEF Own
<1> QED BY <1>3, <1>4, <1>5, <1>6, <1>7, <1>8, <1>9, <1>10, <1>11, <1>12, <1>13, <1>13a, <1>13b, <1>14, <1>15, <1>16,
  <1>17, <1>18, <1>19, <1>20 DEF Index!Index

(* A power loss stops every running command and leaves one of the files    *)
(* that could be found under the name.                                     *)
LEMMA IndexPowerLoss ==
  ASSUME Index!IInv, Index!PowerLoss
  PROVE  Index!IInv'
<1> USE DEF Index!arguments, Index!ingest, Index!result, Index!Fault, Index!Stopped
<1> USE DEF Index!Phase, Index!Ingesting, Index!Unlinked, Index!Linked, Index!Ending, Index!Printing
<1>1. /\ dest' \in recoverable /\ recoverable' = {dest'}
      /\ pc' = [c \in Command |-> IF pc[c] \in {"done", "crashed"} THEN pc[c] ELSE "crashed"]
  BY DEF Index!PowerLoss
<1>2. UNCHANGED <<input, scheme, batch_size, line, batch, store, committed, staged, identity,
                  outcome, items, reported>>
  BY DEF Index!PowerLoss
<1>3. Index!TypeOK'
  BY <1>1, <1>2 DEF Index!IInv, Index!TypeOK
<1>4. ASSUME NEW c \in Command
      PROVE  Own(c)'
  <2>1. Index!ReadSoFar(c) /\ Index!WholeWhenNamed(c) /\ Index!HoldsName(c) /\ Index!StagedRemoved(c)
    BY DEF Index!IInv
  <2>2. IF pc[c] \in {"done", "crashed"} THEN pc'[c] = pc[c] ELSE pc'[c] = "crashed"
    BY <1>1
  <2>3. Index!Named(c)' => Index!Named(c)
    BY <1>1 DEF Index!Named
  <2>4. Index!ReadSoFar(c)'
    BY <2>2 DEF Index!ReadSoFar
  <2>5. Index!WholeWhenNamed(c)'
    BY <1>2, <2>1, <2>2, <2>3 DEF Index!WholeWhenNamed
  <2>6. Index!HoldsName(c)' /\ Index!StagedRemoved(c)'
    BY <1>1, <1>2, <2>1, <2>2, <2>3 DEF Index!HoldsName, Index!StagedRemoved
  <2> QED BY <2>4, <2>5, <2>6 DEF Own
<1> QED BY <1>3, <1>4 DEF Index!IInv, Own

LEMMA IndexInit ==
  ASSUME Index!Init
  PROVE  Index!IInv
<1>1. input \in Seq(Line) /\ Free \notin Command
  BY IndexInputs DEF Index!Init
<1>2. Index!TypeOK
  <2>1. <<>> \in Seq(Nat) /\ batch_size \in Nat
    BY Assumptions DEF Index!Init, Index!CommandAssumption
  <2> QED BY <2>1 DEF Index!Init, Index!TypeOK, Index!Phase, Index!Unlinked, Index!Ingesting, Index!Printing
<1>3. ASSUME NEW c \in Command
      PROVE  Own(c)
  <2>1. /\ pc[c] = "begin" /\ line[c] = 0 /\ batch[c] = <<>> /\ store[c] = {} /\ outcome[c] = "none"
        /\ dest = Free /\ recoverable = {Free} /\ staged = {}
    BY DEF Index!Init
  <2>2. Index!Ingested(input, scheme, line[c], batch[c], store[c])
    BY <1>1, <2>1, NothingIngested, IndexLines
  <2> QED
    BY <1>1, <2>1, <2>2 DEF Own, Index!ReadSoFar, Index!WholeWhenNamed, Index!HoldsName, Index!Named,
       Index!StagedRemoved, Index!Linked, Index!Ending, Index!Printing
<1> QED BY <1>2, <1>3 DEF Index!IInv, Own

LEMMA IndexNext ==
  ASSUME Index!IInv, Index!Next
  PROVE  Index!IInv'
<1>1. ASSUME NEW c \in Command, Index!Index(c) \/ Index!Crash(c)
      PROVE  Index!IInv'
  <2>1. Index!TypeOK' /\ Apart(c) /\ Own(c)'
    BY <1>1, IndexCommandStep
  <2>2. \A d \in Command : Own(d)
    BY DEF Index!IInv, Own
  <2>3. \A d \in Command : Own(d)'
    BY <2>1, <2>2, ApartKeepsOthers
  <2> QED BY <2>1, <2>3 DEF Index!IInv, Own
<1> QED BY <1>1, IndexPowerLoss DEF Index!Next

LEMMA IndexStutters ==
  ASSUME Index!IInv, UNCHANGED Index!vars
  PROVE  Index!IInv'
  BY DEF Index!vars, Index!IInv, Index!TypeOK, Index!ReadSoFar, Index!WholeWhenNamed, Index!HoldsName,
     Index!Named, Index!StagedRemoved

LEMMA IndexIsWhole ==
  ASSUME Index!IInv
  PROVE  Index!OnlyWholeInput /\ Index!SucceededIsDurable /\ Index!FailedLeavesNothing
<1>1. Index!OnlyWholeInput
  BY DEF Index!IInv, Index!TypeOK, Index!OnlyWholeInput, Index!WholeWhenNamed, Index!Named
<1>2. Index!SucceededIsDurable
  BY DEF Index!IInv, Index!SucceededIsDurable, Index!WholeWhenNamed, Index!HoldsName, Index!Named
<1>3. Index!FailedLeavesNothing
  BY DEF Index!IInv, Index!FailedLeavesNothing, Index!HoldsName, Index!Named, Index!StagedRemoved, Index!Ending,
     Index!Printing
<1> QED BY <1>1, <1>2, <1>3

-----------------------------------------------------------------------------
(* pari dedup                                                              *)

(* DedupCommand has its own copies of the definitions about lines. *)
LEMMA DedupLines ==
  /\ \A r, s : Dedup!MakeSketch(r, s) <=> MakeSketch(r, s)
  /\ \A in, s : Dedup!Usable(in, s) <=> Usable(in, s)
  /\ \A in : Dedup!KeysOf(in) = KeysOf(in)
  /\ \A in, s, n, b, keys : Dedup!Ingested(in, s, n, b, keys) <=> Ingested(in, s, n, b, keys)
  /\ \A f : Dedup!Range(f) = Range(f)
  /\ \A f : Dedup!IsInjective(f) <=> IsInjective(f)
<1>1. \A f : Dedup!Range(f) = Range(f)
  BY DEF Dedup!Range, Range
<1>2. \A f : Dedup!IsInjective(f) <=> IsInjective(f)
  BY DEF Dedup!IsInjective, IsInjective
<1>3. \A in : Dedup!Filled(in) = Filled(in)
  BY DEF Dedup!Filled, Filled
<1>4. \A in : Dedup!KeysOf(in) = KeysOf(in)
  BY <1>3 DEF Dedup!KeysOf, KeysOf
<1>5. \A r, s : Dedup!UsableRecord(r, s) <=> UsableRecord(r, s)
  BY Zenon DEF Dedup!UsableRecord, UsableRecord, Dedup!Comparable, Comparable
<1>6. \A in, s : Dedup!Usable(in, s) <=> Usable(in, s)
  BY <1>3, <1>5 DEF Dedup!Usable, Usable
<1>7. \A in, m, n : Dedup!Between(in, m, n) = Between(in, m, n)
  BY <1>3 DEF Dedup!Between, Between
<1>8. \A in, m, n, b, keys : Dedup!SplitAt(in, m, n, b, keys) <=> SplitAt(in, m, n, b, keys)
  <2> SUFFICES ASSUME NEW in, NEW m, NEW n, NEW b, NEW keys
               PROVE  Dedup!SplitAt(in, m, n, b, keys) <=> SplitAt(in, m, n, b, keys)
    OBVIOUS
  <2>1. /\ Dedup!Between(in, 0, m) = Between(in, 0, m) /\ Dedup!Between(in, m, n) = Between(in, m, n)
        /\ Dedup!Range(b) = Range(b)
    BY <1>1, <1>7
  <2> QED BY <2>1 DEF Dedup!SplitAt, SplitAt
<1>9. \A in, s, n, b, keys : Dedup!Ingested(in, s, n, b, keys) <=> Ingested(in, s, n, b, keys)
  BY <1>5, <1>7, <1>8, Zenon DEF Dedup!Ingested, Ingested
<1>10. \A r, s : Dedup!MakeSketch(r, s) <=> MakeSketch(r, s)
  BY Zenon DEF Dedup!MakeSketch, MakeSketch
<1> QED BY <1>1, <1>2, <1>4, <1>6, <1>9, <1>10

LEMMA DedupInputs ==
  \A in \in DedupInput : in \in Seq(Line)
<1>1. Dedup!Line = Line
  BY DEF Dedup!Line, Line
<1> QED BY <1>1, Assumptions DEF Dedup!DedupAssumption

(* A record line of an input that gives a sketch is usable. *)
LEMMA DedupSketch ==
  ASSUME NEW in \in DedupInput, NEW s \in Scheme, NEW n \in Nat, n < Len(in),
         in[n + 1].text = "record", Dedup!MakeSketch(in[n + 1], s)
  PROVE  UsableRecord(in[n + 1], s)
<1>1. in \in Seq(Line)
  BY DedupInputs
<1>2. in[n + 1] \in Line
  BY <1>1, LineTypes
<1> QED BY <1>2, SketchIsUsable, DedupLines


(* One step, action by action. *)
LEMMA DedupNext ==
  ASSUME Dedup!IInv, Dedup!Next
  PROVE  Dedup!IInv'
<1> USE DEF Dedup!arguments, Dedup!Reading
<1>1. Dedup!TypeOK /\ Dedup!ReadSoFar /\ Dedup!FilesKept /\ Dedup!WrittenOnce
  BY DEF Dedup!IInv
<1>2. input \in Seq(Line) /\ input \in DedupInput /\ scheme \in Scheme
  BY <1>1, DedupInputs DEF Dedup!TypeOK
<1>3. ASSUME UNCHANGED <<index, emit, min_size>> PROVE Dedup!Results' = Dedup!Results
  BY <1>3 DEF Dedup!Results
<1>4. CASE Dedup!LinkAlias
  <2>1. Dedup!TypeOK'
    BY <1>4, <1>1, <1>3 DEF Dedup!LinkAlias, Dedup!TypeOK
  <2>2. Dedup!ReadSoFar'
    BY <1>4, <1>1 DEF Dedup!LinkAlias, Dedup!TypeOK, Dedup!ReadSoFar, Dedup!FilesKept
  <2>3. Dedup!FilesKept'
    BY <1>4, <1>1 DEF Dedup!LinkAlias, Dedup!TypeOK, Dedup!FilesKept
  <2>4. Dedup!WrittenOnce'
    BY <1>4, <1>1, <1>3 DEF Dedup!LinkAlias, Dedup!TypeOK, Dedup!FilesKept, Dedup!WrittenOnce
  <2> QED BY <2>1, <2>2, <2>3, <2>4 DEF Dedup!IInv
<1>5. CASE Dedup!Begin
  <2>1. Dedup!TypeOK'
    BY <1>5, <1>1, <1>3 DEF Dedup!Begin, Dedup!EnsureDistinct, Dedup!Error, Dedup!TypeOK
  <2>2. Dedup!ReadSoFar'
    BY <1>5, <1>1 DEF Dedup!Begin, Dedup!EnsureDistinct, Dedup!Error, Dedup!TypeOK, Dedup!ReadSoFar, Dedup!FilesKept
  <2>3. Dedup!FilesKept'
    BY <1>5, <1>1 DEF Dedup!Begin, Dedup!EnsureDistinct, Dedup!Error, Dedup!TypeOK, Dedup!FilesKept
  <2>4. Dedup!WrittenOnce'
    BY <1>5, <1>1, <1>3 DEF Dedup!Begin, Dedup!EnsureDistinct, Dedup!Error, Dedup!TypeOK, Dedup!FilesKept, Dedup!WrittenOnce
  <2> QED BY <2>1, <2>2, <2>3, <2>4 DEF Dedup!IInv
<1>6. CASE Dedup!ReadLine
  <2>1. Dedup!TypeOK'
    <3> DEFINE next == source[line + 1]
    <3>1. line \in Nat /\ line < Len(input) /\ next = input[line + 1] /\ batch \in Seq(Nat) /\ pc = "read"
      BY <1>6, <1>1 DEF Dedup!ReadLine, Dedup!TypeOK, Dedup!FilesKept
    <3>2. next.key \in Nat
      BY <3>1, <1>2, LineTypes
    <3>3. batch' \in Seq(Nat)
      <4>1. batch' = batch \/ batch' = Append(batch, next.key)
        BY <1>6 DEF Dedup!ReadLine
      <4> HIDE DEF next
      <4> QED BY <4>1, <3>1, <3>2
    <3>4. pc' \in {"read", "insert", "done"} /\ status' \in {"none", "ok", "error"}
      BY <1>6, <3>1, <1>1 DEF Dedup!ReadLine, Dedup!Error, Dedup!TypeOK
    <3>5. line' \in Nat
      BY <1>6, <3>1 DEF Dedup!ReadLine
    <3> QED BY <1>6, <3>3, <3>4, <3>5, <1>1, <1>3 DEF Dedup!ReadLine, Dedup!TypeOK
  <2>2. Dedup!ReadSoFar'
    <3> DEFINE next == source[line + 1]
    <3>1. /\ line \in Nat /\ line < Len(input) /\ next = input[line + 1] /\ batch \in Seq(Nat)
          /\ pc = "read" /\ old
      BY <1>6, <1>1 DEF Dedup!ReadLine, Dedup!TypeOK, Dedup!FilesKept
    <3>2. UNCHANGED <<input, scheme, index, old>> /\ line' = line + 1
      BY <1>6 DEF Dedup!ReadLine
    <3>3. Ingested(input, scheme, line, batch, index)
      BY <3>1, <1>1, DedupLines DEF Dedup!ReadSoFar
    <3>4. CASE next.text = "blank"
      <4>1. batch' = batch /\ pc' = pc
        BY <1>6, <3>4 DEF Dedup!ReadLine
      <4>2. Ingested(input, scheme, line + 1, batch, index)
        BY <3>1, <3>3, <3>4, <1>2, BlankIngested
      <4> QED BY <3>1, <3>2, <4>1, <4>2, DedupLines DEF Dedup!ReadSoFar
    <3>5. CASE next.text = "record" /\ Dedup!MakeSketch(next, scheme)
      <4>1. batch' = Append(batch, next.key) /\ pc' \in {"insert", "read"}
        BY <1>6, <3>5 DEF Dedup!ReadLine
      <4>2. UsableRecord(input[line + 1], scheme)
        BY <3>1, <3>5, <1>2, DedupSketch
      <4>3. Ingested(input, scheme, line + 1, Append(batch, input[line + 1].key), index)
        BY <3>1, <3>3, <3>5, <4>2, <1>2, RecordIngested
      <4> QED BY <3>1, <3>2, <4>1, <4>3, DedupLines DEF Dedup!ReadSoFar
    <3>6. CASE next.text # "blank" /\ ~(next.text = "record" /\ Dedup!MakeSketch(next, scheme))
      <4>1. pc' = "done"
        BY <1>6, <3>6 DEF Dedup!ReadLine, Dedup!Error
      <4> QED BY <3>1, <3>2, <4>1 DEF Dedup!ReadSoFar
    <3> QED BY <3>4, <3>5, <3>6
  <2>3. Dedup!FilesKept'
    BY <1>6, <1>1 DEF Dedup!ReadLine, Dedup!Error, Dedup!TypeOK, Dedup!FilesKept
  <2>4. Dedup!WrittenOnce'
    BY <1>6, <1>1, <1>3 DEF Dedup!ReadLine, Dedup!Error, Dedup!TypeOK, Dedup!FilesKept, Dedup!WrittenOnce
  <2> QED BY <2>1, <2>2, <2>3, <2>4 DEF Dedup!IInv
<1>7. CASE Dedup!EndOfInput
  <2>1. Dedup!TypeOK'
    BY <1>7, <1>1, <1>3 DEF Dedup!EndOfInput, Dedup!Rest, Dedup!TypeOK
  <2>2. Dedup!ReadSoFar'
    <3>1. pc = "read" /\ old /\ line = Len(input) /\ UNCHANGED <<input, scheme, line, batch, index, old>>
      BY <1>7, <1>1 DEF Dedup!EndOfInput, Dedup!FilesKept
    <3>2. Ingested(input, scheme, line, batch, index)
      BY <3>1, <1>1, DedupLines DEF Dedup!ReadSoFar
    <3>3. CASE batch = <<>>
      <4>1. Usable(input, scheme) /\ index = KeysOf(input)
        BY <3>1, <3>2, <3>3, <1>2, AllIngested
      <4>2. pc' = "check"
        BY <1>7, <3>3 DEF Dedup!EndOfInput, Dedup!Rest
      <4> QED BY <3>1, <4>1, <4>2, DedupLines DEF Dedup!ReadSoFar
    <3>4. CASE batch # <<>>
      <4>1. pc' = "insert"
        BY <1>7, <3>4 DEF Dedup!EndOfInput, Dedup!Rest
      <4> QED BY <3>1, <3>2, <4>1, DedupLines DEF Dedup!ReadSoFar
    <3> QED BY <3>3, <3>4
  <2>3. Dedup!FilesKept'
    BY <1>7, <1>1 DEF Dedup!EndOfInput, Dedup!Rest, Dedup!TypeOK, Dedup!FilesKept
  <2>4. Dedup!WrittenOnce'
    BY <1>7, <1>1, <1>3 DEF Dedup!EndOfInput, Dedup!Rest, Dedup!TypeOK, Dedup!FilesKept, Dedup!WrittenOnce
  <2> QED BY <2>1, <2>2, <2>3, <2>4 DEF Dedup!IInv
<1>8. CASE Dedup!InsertMany
  <2>1. Dedup!TypeOK'
    <3>1. batch \in Seq(Nat) /\ index \subseteq Nat /\ old /\ old' = old /\ written = <<>> /\ written' = written
      BY <1>8, <1>1 DEF Dedup!InsertMany, Dedup!TypeOK, Dedup!FilesKept, Dedup!WrittenOnce
    <3>2. Dedup!Range(batch) \subseteq Nat
      BY <3>1 DEF Dedup!Range
    <3>3. batch' \in Seq(Nat) /\ index' \subseteq Nat
      <4>1. batch' = batch \/ batch' = <<>>
        BY <1>8 DEF Dedup!InsertMany
      <4>2. index' = index \/ index' = index \cup Dedup!Range(batch)
        BY <1>8 DEF Dedup!InsertMany
      <4>3. batch' \in Seq(Nat)
        <5>1. batch \in Seq(Nat) /\ <<>> \in Seq(Nat)
          BY <1>1 DEF Dedup!TypeOK
        <5> QED BY <5>1, <4>1, Zenon
      <4>4. index' \subseteq Nat
        BY <3>1, <3>2, <4>2
      <4> QED BY <4>3, <4>4
    <3>4. pc' \in {"check", "read", "done"} /\ status' \in {"none", "ok", "error"}
      BY <1>8, <1>1 DEF Dedup!InsertMany, Dedup!Error, Dedup!TypeOK
    <3>5. written' \in Seq(Dedup!Results')
      BY <3>1
    <3> QED BY <1>8, <3>3, <3>4, <3>5, <1>1 DEF Dedup!InsertMany, Dedup!TypeOK
  <2>2. Dedup!ReadSoFar'
    <3>1. /\ pc = "insert" /\ old /\ source = input /\ line \in Nat
          /\ UNCHANGED <<input, scheme, line, old>>
      BY <1>8, <1>1 DEF Dedup!InsertMany, Dedup!FilesKept, Dedup!TypeOK
    <3>2. Ingested(input, scheme, line, batch, index)
      BY <3>1, <1>1, DedupLines DEF Dedup!ReadSoFar
    <3> DEFINE accepted == Dedup!IsInjective(batch) /\ Dedup!Range(batch) \cap index = {}
    <3>3. CASE accepted
      <4>1. /\ index' = index \cup Range(batch) /\ batch' = <<>>
            /\ pc' \in {"read", "check"} /\ (pc' = "check" => line = Len(input))
        <5>1. /\ index' = index \cup Dedup!Range(batch) /\ batch' = <<>>
              /\ pc' = IF line = Len(input) /\ Len(batch) < batch_size THEN "check" ELSE "read"
          BY <1>8, <3>1, <3>3 DEF Dedup!InsertMany
        <5> QED BY <5>1, DedupLines
      <4>2. Ingested(input, scheme, line, <<>>, index \cup Range(batch))
        BY <3>1, <3>2, <3>3, <1>2, DedupLines, BatchInserted
      <4>3. line = Len(input) => Usable(input, scheme) /\ index \cup Range(batch) = KeysOf(input)
        BY <4>2, <1>2, AllIngested
      <4> QED BY <3>1, <4>1, <4>2, <4>3, DedupLines DEF Dedup!ReadSoFar
    <3>4. CASE ~accepted
      <4>1. pc' = "done"
        BY <1>8, <3>4 DEF Dedup!InsertMany, Dedup!Error
      <4> QED BY <3>1, <4>1 DEF Dedup!ReadSoFar
    <3> QED BY <3>3, <3>4
  <2>3. Dedup!FilesKept'
    BY <1>8, <1>1 DEF Dedup!InsertMany, Dedup!Error, Dedup!TypeOK, Dedup!FilesKept
  <2>4. Dedup!WrittenOnce'
    BY <1>8, <1>1, <1>3 DEF Dedup!InsertMany, Dedup!Error, Dedup!TypeOK, Dedup!FilesKept, Dedup!WrittenOnce
  <2> QED BY <2>1, <2>2, <2>3, <2>4 DEF Dedup!IInv
<1>9. CASE Dedup!CheckOutput
  <2>1. Dedup!TypeOK'
    BY <1>9, <1>1, <1>3 DEF Dedup!CheckOutput, Dedup!Recheck, Dedup!EnsureDistinct, Dedup!Error, Dedup!TypeOK
  <2>2. Dedup!ReadSoFar'
    BY <1>9, <1>1 DEF Dedup!CheckOutput, Dedup!Recheck, Dedup!EnsureDistinct, Dedup!Error, Dedup!TypeOK, Dedup!ReadSoFar, Dedup!FilesKept
  <2>3. Dedup!FilesKept'
    BY <1>9, <1>1 DEF Dedup!CheckOutput, Dedup!Recheck, Dedup!EnsureDistinct, Dedup!Error, Dedup!TypeOK, Dedup!FilesKept
  <2>4. Dedup!WrittenOnce'
    BY <1>9, <1>1, <1>3 DEF Dedup!CheckOutput, Dedup!Recheck, Dedup!EnsureDistinct, Dedup!Error, Dedup!TypeOK, Dedup!FilesKept, Dedup!WrittenOnce
  <2> QED BY <2>1, <2>2, <2>3, <2>4 DEF Dedup!IInv
<1>10. CASE Dedup!Truncate
  <2>1. Dedup!TypeOK'
    BY <1>10, <1>1, <1>3 DEF Dedup!Truncate, Dedup!TypeOK
  <2>2. Dedup!ReadSoFar'
    BY <1>10, <1>1 DEF Dedup!Truncate, Dedup!TypeOK, Dedup!ReadSoFar, Dedup!FilesKept
  <2>3. Dedup!FilesKept'
    BY <1>10, <1>1 DEF Dedup!Truncate, Dedup!TypeOK, Dedup!FilesKept
  <2>4. Dedup!WrittenOnce'
    BY <1>10, <1>1, <1>3 DEF Dedup!Truncate, Dedup!TypeOK, Dedup!FilesKept, Dedup!WrittenOnce
  <2> QED BY <2>1, <2>2, <2>3, <2>4 DEF Dedup!IInv
<1>11. CASE Dedup!Write
  <2>1. Dedup!TypeOK'
    <3>1. written' \in Seq(Dedup!Results)
      <4>1. written' = written \/ \E r \in Dedup!Results : written' = Append(written, r)
        BY <1>11 DEF Dedup!Write
      <4>2. written \in Seq(Dedup!Results)
        BY <1>1 DEF Dedup!TypeOK
      <4> QED BY <4>1, <4>2
    <3>2. Dedup!Results' = Dedup!Results
      BY <1>11, <1>3 DEF Dedup!Write
    <3>3. written' \in Seq(Dedup!Results')
      BY <3>1, <3>2
    <3>4. pc' \in {"write", "done"} /\ status' \in {"none", "ok", "error"}
      BY <1>11, <1>1 DEF Dedup!Write, Dedup!TypeOK
    <3> QED BY <1>11, <1>1, <3>3, <3>4 DEF Dedup!Write, Dedup!TypeOK
  <2>2. Dedup!ReadSoFar'
    BY <1>11, <1>1 DEF Dedup!Write, Dedup!TypeOK, Dedup!ReadSoFar, Dedup!FilesKept
  <2>3. Dedup!FilesKept'
    BY <1>11, <1>1 DEF Dedup!Write, Dedup!TypeOK, Dedup!FilesKept
  <2>4. Dedup!WrittenOnce'
    <3>1. pc = "write" /\ ~old /\ old' = old /\ Dedup!Results' = Dedup!Results
      BY <1>11, <1>1, <1>3 DEF Dedup!Write, Dedup!FilesKept
    <3>2. written \in Seq(Dedup!Results) /\ Dedup!Range(written) \subseteq Dedup!Results
      <4>1. written \in Seq(Dedup!Results)
        BY <1>1 DEF Dedup!TypeOK
      <4> QED BY <4>1 DEF Dedup!Range
    <3>3. status # "ok" /\ Dedup!IsInjective(written)
      BY <3>1, <1>1 DEF Dedup!WrittenOnce
    <3>4. CASE Dedup!Results \subseteq Dedup!Range(written)
      <4>1. written' = written /\ pc' = "done"
        BY <1>11, <3>4 DEF Dedup!Write
      <4>2. Dedup!Range(written) = Dedup!Results
        BY <3>2, <3>4
      <4> QED BY <3>1, <3>3, <4>1, <4>2 DEF Dedup!WrittenOnce
    <3>5. CASE ~(Dedup!Results \subseteq Dedup!Range(written))
      <4>1. PICK r \in Dedup!Results \ Dedup!Range(written) : written' = Append(written, r)
        BY <1>11, <3>5 DEF Dedup!Write
      <4>2. status' = status
        BY <1>11, <3>5 DEF Dedup!Write
      <4>3. /\ DOMAIN written = 1..Len(written) /\ DOMAIN written' = 1..(Len(written) + 1) /\ Len(written) \in Nat
            /\ written'[Len(written) + 1] = r /\ \A p \in DOMAIN written : written'[p] = written[p]
        BY <3>2, <4>1
      <4>4. \A p \in DOMAIN written : written[p] # r
        BY <4>1 DEF Dedup!Range
      <4>5. Dedup!IsInjective(written')
        <5>1. SUFFICES ASSUME NEW p \in DOMAIN written', NEW q \in DOMAIN written', written'[p] = written'[q]
                       PROVE  p = q
          BY DEF Dedup!IsInjective
        <5>2. CASE p \in DOMAIN written /\ q \in DOMAIN written
          BY <5>1, <5>2, <4>3, <3>3 DEF Dedup!IsInjective
        <5>3. CASE p = Len(written) + 1 \/ q = Len(written) + 1
          BY <5>1, <5>3, <4>3, <4>4
        <5> QED BY <5>2, <5>3, <4>3
      <4> QED BY <3>1, <3>3, <4>2, <4>5 DEF Dedup!WrittenOnce
    <3> QED BY <3>4, <3>5
  <2> QED BY <2>1, <2>2, <2>3, <2>4 DEF Dedup!IInv
<1>12. CASE Dedup!StepFails
  <2>1. Dedup!TypeOK'
    BY <1>12, <1>1, <1>3 DEF Dedup!StepFails, Dedup!Error, Dedup!TypeOK
  <2>2. Dedup!ReadSoFar'
    BY <1>12, <1>1 DEF Dedup!StepFails, Dedup!Error, Dedup!TypeOK, Dedup!ReadSoFar, Dedup!FilesKept
  <2>3. Dedup!FilesKept'
    BY <1>12, <1>1 DEF Dedup!StepFails, Dedup!Error, Dedup!TypeOK, Dedup!FilesKept
  <2>4. Dedup!WrittenOnce'
    <3>1. /\ pc' = "done" /\ status' = "error" /\ old' = old
          /\ IF pc = "write" THEN \E n \in 0..Len(written) : written' = SubSeq(written, 1, n)
                             ELSE written' = written
      BY <1>12 DEF Dedup!StepFails, Dedup!Error
    <3>2. written \in Seq(Dedup!Results) /\ Dedup!IsInjective(written) /\ (pc = "write" => ~old)
      BY <1>1 DEF Dedup!TypeOK, Dedup!WrittenOnce, Dedup!FilesKept
    <3>3. Dedup!IsInjective(written')
      <4>1. ASSUME NEW n \in 0..Len(written), written' = SubSeq(written, 1, n)
            PROVE  Dedup!IsInjective(written')
        <5>1. /\ DOMAIN written' = 1..n /\ DOMAIN written = 1..Len(written)
              /\ \A p \in DOMAIN written' : p \in DOMAIN written /\ written'[p] = written[p]
          BY <3>2, <4>1
        <5> QED BY <5>1, <3>2 DEF Dedup!IsInjective
      <4> QED BY <3>1, <3>2, <4>1 DEF Dedup!IsInjective
    <3>4. old' => written' = <<>>
      BY <3>1, <3>2, <1>1 DEF Dedup!WrittenOnce
    <3> QED BY <3>1, <3>3, <3>4 DEF Dedup!WrittenOnce
  <2> QED BY <2>1, <2>2, <2>3, <2>4 DEF Dedup!IInv
<1> QED BY <1>4, <1>5, <1>6, <1>7, <1>8, <1>9, <1>10, <1>11, <1>12 DEF Dedup!Next

LEMMA DedupInit ==
  ASSUME Dedup!Init
  PROVE  Dedup!IInv
<1>1. input \in Seq(Line)
  BY DedupInputs DEF Dedup!Init
<1>2. /\ input \in DedupInput /\ scheme \in Scheme /\ emit \in {"pairs", "groups"}
      /\ output \in {"free", "other", "alias", "stdout"}
      /\ pc = "begin" /\ line = 0 /\ batch = <<>> /\ index = {} /\ source = input /\ written = <<>>
      /\ status = "none"
  BY DEF Dedup!Init
<1>3. batch_size \in Nat /\ min_size \in Nat
  BY Assumptions DEF Dedup!Init, Dedup!DedupAssumption
<1>4. linked = FALSE /\ old = TRUE
  BY DEF Dedup!Init
<1>5. Dedup!TypeOK
  <2>1. linked \in BOOLEAN /\ old \in BOOLEAN
    BY <1>4
  <2>2. batch \in Seq(Nat) /\ written \in Seq(Dedup!Results)
    BY <1>2
  <2>3. line \in Nat /\ index \subseteq Nat /\ pc \in Dedup!Reading /\ status \in {"none", "ok", "error"}
    BY <1>2 DEF Dedup!Reading
  <2> QED BY <1>2, <1>3, <2>1, <2>2, <2>3, Zenon DEF Dedup!TypeOK
<1>6. Dedup!Ingested(input, scheme, line, batch, index)
  BY <1>1, <1>2, NothingIngested, DedupLines
<1>7. Dedup!ReadSoFar
  BY <1>2, <1>4, <1>6 DEF Dedup!ReadSoFar
<1>8. Dedup!FilesKept
  BY <1>2, <1>4 DEF Dedup!FilesKept
<1>9. Dedup!WrittenOnce
  BY <1>2 DEF Dedup!WrittenOnce, Dedup!IsInjective
<1> QED BY <1>5, <1>7, <1>8, <1>9 DEF Dedup!IInv

LEMMA DedupStutters ==
  ASSUME Dedup!IInv, UNCHANGED Dedup!vars
  PROVE  Dedup!IInv'
<1>1. Dedup!Results' = Dedup!Results
  BY DEF Dedup!vars, Dedup!Results
<1> QED
  BY <1>1 DEF Dedup!vars, Dedup!IInv, Dedup!TypeOK, Dedup!ReadSoFar, Dedup!FilesKept, Dedup!WrittenOnce

LEMMA DedupIsWhole ==
  ASSUME Dedup!IInv
  PROVE  Dedup!InputPreserved /\ Dedup!OutputOfWholeInput
<1>1. Dedup!InputPreserved
  BY DEF Dedup!IInv, Dedup!FilesKept, Dedup!InputPreserved
<1>2. ASSUME ~old
      PROVE  /\ Dedup!Usable(input, scheme) /\ index = Dedup!KeysOf(input)
             /\ Dedup!Range(written) \subseteq Dedup!Results /\ Dedup!IsInjective(written)
             /\ status = "ok" => Dedup!Range(written) = Dedup!Results
  <2>1. /\ written \in Seq(Dedup!Results) /\ Dedup!IsInjective(written)
        /\ status = "ok" => Dedup!Range(written) = Dedup!Results
    BY DEF Dedup!IInv, Dedup!TypeOK, Dedup!WrittenOnce
  <2>2. Dedup!Range(written) \subseteq Dedup!Results
    BY <2>1 DEF Dedup!Range
  <2>3. Dedup!Usable(input, scheme) /\ index = Dedup!KeysOf(input)
    BY <1>2 DEF Dedup!IInv, Dedup!ReadSoFar
  <2> QED BY <2>1, <2>2, <2>3
<1>3. Dedup!OutputOfWholeInput
  BY <1>2 DEF Dedup!OutputOfWholeInput, Dedup!Results
<1> QED BY <1>1, <1>3

-----------------------------------------------------------------------------
(* pari search: counting lines and candidates                              *)

(* SearchCommand has its own copies of the definitions about lines. *)
LEMMA SearchLines ==
  /\ \A r, s : Search!MakeSketch(r, s) <=> MakeSketch(r, s)
  /\ \A r, s : Search!UsableRecord(r, s) <=> UsableRecord(r, s)
  /\ \A in : Search!Filled(in) = Filled(in)
  /\ \A in, m, n : Search!Between(in, m, n) = Between(in, m, n)
  /\ \A S : Search!Cardinality(S) = Cardinality(S)
<1>1. \A in : Search!Filled(in) = Filled(in)
  BY DEF Search!Filled, Filled
<1>2. \A r, s : Search!UsableRecord(r, s) <=> UsableRecord(r, s)
  BY Zenon DEF Search!UsableRecord, UsableRecord, Search!Comparable, Comparable
<1>3. \A in, m, n : Search!Between(in, m, n) = Between(in, m, n)
  BY <1>1 DEF Search!Between, Between
<1>4. \A r, s : Search!MakeSketch(r, s) <=> MakeSketch(r, s)
  BY Zenon DEF Search!MakeSketch, MakeSketch
<1>5. \A S : Search!Cardinality(S) = Cardinality(S)
  BY Zenon DEF Search!Cardinality, Cardinality, Search!IsFiniteSet, IsFiniteSet
<1> QED BY <1>1, <1>2, <1>3, <1>4, <1>5

LEMMA SearchInputs ==
  /\ \A in \in SearchInput : in \in Seq(Line)
  /\ IsFiniteSet(Key) /\ MaxEvery \in Nat
  /\ \A ix \in Search!IndexFile : ix.scheme \in Scheme /\ ix.keys \in SUBSET Key /\ IsFiniteSet(ix.keys)
<1>1. Search!Line = Line
  BY DEF Search!Line, Line
<1>2. \A S : Search!IsFiniteSet(S) <=> IsFiniteSet(S)
  BY Zenon DEF Search!IsFiniteSet, IsFiniteSet
<1>3. (\A in \in SearchInput : in \in Seq(Line)) /\ IsFiniteSet(Key) /\ MaxEvery \in Nat
  BY <1>1, <1>2, Assumptions DEF Search!SearchAssumption
<1>4. ASSUME NEW ix \in Search!IndexFile
      PROVE  ix.scheme \in Scheme /\ ix.keys \in SUBSET Key /\ IsFiniteSet(ix.keys)
  <2>1. ix.scheme \in Scheme /\ ix.keys \in SUBSET Key
    BY DEF Search!IndexFile
  <2> QED BY <2>1, <1>3, FS_Subset
<1> QED BY <1>3, <1>4

LEMMA LinesFinite ==
  ASSUME NEW in \in Seq(Line)
  PROVE  IsFiniteSet(Filled(in)) /\ \A m, n : IsFiniteSet(Between(in, m, n))
<1>1. IsFiniteSet(1..Len(in))
  BY FS_Interval, LineTypes
<1>2. Filled(in) \in SUBSET (1..Len(in))
  BY LineTypes
<1>3. IsFiniteSet(Filled(in))
  BY <1>1, <1>2, FS_Subset
<1>4. ASSUME NEW m, NEW n PROVE IsFiniteSet(Between(in, m, n))
  <2>1. Between(in, m, n) \in SUBSET Filled(in)
    BY DEF Between
  <2> QED BY <1>3, <2>1, FS_Subset
<1> QED BY <1>3, <1>4

(* A line is among the first n iff fewer lines come before it than are     *)
(* among the first n.                                                      *)
LEMMA RankBelow ==
  ASSUME NEW in \in Seq(Line), NEW n \in Nat, NEW i \in Filled(in)
  PROVE  Search!Rank(in, i) < Cardinality(Between(in, 0, n)) <=> i <= n
<1> DEFINE before == {j \in Filled(in) : j < i}
           first == Between(in, 0, n)
<1>0. Search!Rank(in, i) = Cardinality(before)
  BY SearchLines DEF Search!Rank
<1>1. i \in Nat /\ 0 < i /\ \A j \in Filled(in) : j \in Nat /\ 0 < j
  BY LineTypes
<1>2. before \in SUBSET Filled(in)
  OBVIOUS
<1>3. IsFiniteSet(before) /\ IsFiniteSet(first)
  BY <1>2, LinesFinite, FS_Subset
<1>4. Cardinality(before) \in Nat /\ Cardinality(first) \in Nat
  BY <1>3, FS_CardinalityType
<1>5. CASE i <= n
  <2>1. \A j \in before : j \in first
    BY <1>1, <1>5 DEF Between
  <2>2. before \in SUBSET first /\ i \in first /\ i \notin before
    <3>1. i \in first
      BY <1>1, <1>5 DEF Between
    <3>2. i \notin before
      BY <1>1
    <3> HIDE DEF before, first
    <3> QED BY <2>1, <3>1, <3>2
  <2>3. Cardinality(before) <= Cardinality(first) /\ Cardinality(first) # Cardinality(before)
    BY <1>3, <2>2, FS_Subset
  <2> QED BY <1>0, <1>4, <1>5, <2>3
<1>6. CASE ~(i <= n)
  <2>1. \A j \in first : j \in before
    BY <1>1, <1>6 DEF Between
  <2>2. Cardinality(first) <= Cardinality(before)
    BY <1>3, <2>1, FS_Subset
  <2> QED BY <1>0, <1>4, <1>6, <2>2
<1> QED BY <1>5, <1>6

LEMMA MatchesBound ==
  ASSUME NEW in, NEW ix, IsFiniteSet(ix.keys), NEW lines, IsFiniteSet(lines)
  PROVE  /\ IsFiniteSet(Search!Matches(in, ix, lines))
         /\ Cardinality(Search!Matches(in, ix, lines)) <= Cardinality(lines) * Cardinality(ix.keys)
<1>1. Search!Matches(in, ix, lines) \in SUBSET (lines \X ix.keys)
  BY DEF Search!Matches
<1>2. IsFiniteSet(lines \X ix.keys) /\ Cardinality(lines \X ix.keys) = Cardinality(lines) * Cardinality(ix.keys)
  BY FS_Product
<1>3. /\ IsFiniteSet(Search!Matches(in, ix, lines))
      /\ Cardinality(Search!Matches(in, ix, lines)) <= Cardinality(lines \X ix.keys)
  BY <1>1, <1>2, FS_Subset
<1> QED BY <1>2, <1>3

LEMMA MatchesGrow ==
  ASSUME NEW in, NEW ix, IsFiniteSet(ix.keys), NEW lines, IsFiniteSet(lines), NEW x, x \notin lines
  PROVE  Cardinality(Search!Matches(in, ix, lines \cup {x}))
           = Cardinality(Search!Matches(in, ix, lines)) + Cardinality(Search!Answer(ix.keys, in[x].key))
<1> DEFINE new == Search!Answer(ix.keys, in[x].key)
           old_ones == Search!Matches(in, ix, lines)
<1>1. new \in SUBSET ix.keys
  BY DEF Search!Answer
<1>2. IsFiniteSet(new) /\ Cardinality(new) \in Nat
  BY <1>1, FS_Subset, FS_CardinalityType
<1>3. IsFiniteSet({x}) /\ Cardinality({x}) = 1
  BY FS_Singleton
<1>4. IsFiniteSet({x} \X new) /\ Cardinality({x} \X new) = 1 * Cardinality(new)
  BY <1>2, <1>3, FS_Product
<1>5. Cardinality({x} \X new) = Cardinality(new)
  BY <1>2, <1>4
<1>6. Search!Matches(in, ix, lines \cup {x}) = old_ones \cup ({x} \X new)
  BY <1>1 DEF Search!Matches
<1>7. old_ones \cap ({x} \X new) = {}
  BY DEF Search!Matches
<1>8. IsFiniteSet(old_ones) /\ Cardinality(old_ones) \in Nat
  BY MatchesBound, FS_CardinalityType
<1>9. Cardinality(old_ones \cup ({x} \X new))
        = Cardinality(old_ones) + Cardinality({x} \X new) - Cardinality(old_ones \cap ({x} \X new))
  BY <1>4, <1>8, FS_Union
<1>10. Cardinality(old_ones \cap ({x} \X new)) = 0
  BY <1>7, FS_EmptySet
<1>11. Cardinality(old_ones \cup ({x} \X new)) = Cardinality(old_ones) + Cardinality(new)
  <2> HIDE DEF new, old_ones
  <2> QED BY <1>2, <1>5, <1>8, <1>9, <1>10
<1> QED BY <1>6, <1>11

(* A counter that is between two neighbouring multiples of e leaves the    *)
(* difference as its remainder.                                            *)
LEMMA Remainder ==
  ASSUME NEW e \in Nat, e > 0, NEW k \in Nat, NEW q \in Nat, k * e <= q, q < k * e + e
  PROVE  (q % e) = q - k * e
<1>1. PICK d \in Int : q = d * e + (q % e) /\ (q % e) \in 0..(e - 1)
  <2>1. q = (q \div e) * e + (q % e)
    OBVIOUS
  <2>2. (q % e) \in 0..(e - 1) /\ q \div e \in Int
    OBVIOUS
  <2> QED BY <2>1, <2>2
<1>2. (d - k) * e = d * e - k * e
  OBVIOUS
<1>3. (d - k) * e < e /\ -e < (d - k) * e
  BY <1>1, <1>2
<1>4. d = k
  <2>1. ASSUME d - k >= 1 PROVE FALSE
    <3>1. (d - k) * e >= 1 * e
      BY <2>1, <1>1
    <3> QED BY <3>1, <1>1, <1>3
  <2>2. ASSUME d - k <= -1 PROVE FALSE
    <3>1. (d - k) * e <= (-1) * e
      BY <2>2, <1>1
    <3> QED BY <3>1, <1>1, <1>3
  <2> QED BY <2>1, <2>2, <1>1
<1> QED BY <1>1, <1>4

(* What the first lines are when none of them is unusable. *)
LEMMA FirstLines ==
  ASSUME NEW in \in Seq(Line), NEW ix, NEW n \in Nat,
         Between(in, 0, n) \cap Search!UnusableLines(in, ix) = {}
  PROVE  /\ Between(in, 0, n) \subseteq Search!AnsweredLines(in, ix)
         /\ Search!Reported(in, ix, Cardinality(Between(in, 0, n))) = Between(in, 0, n)
         /\ n + 1 \in Search!UnusableLines(in, ix) => Search!AnsweredLines(in, ix) = Between(in, 0, n)
         /\ n = Len(in) => /\ Search!UnusableLines(in, ix) = {} /\ Between(in, 0, n) = Filled(in)
                           /\ Search!AnsweredLines(in, ix) = Filled(in)
<1> DEFINE U == Search!UnusableLines(in, ix)
           A == Search!AnsweredLines(in, ix)
<1>1. U \subseteq Filled(in) /\ A = {i \in Filled(in) : \A j \in U : i < j}
  BY SearchLines DEF Search!UnusableLines, Search!AnsweredLines
<1>2. \A i \in Filled(in) : i \in Nat /\ 0 < i /\ i <= Len(in) /\ (i \in Between(in, 0, n) <=> i <= n)
  BY LineTypes DEF Between
<1>3. Between(in, 0, n) \subseteq Filled(in)
  BY DEF Between
<1> HIDE DEF U, A
<1>4. \A j \in U : n < j
  BY <1>1, <1>2 DEF U
<1>5. Between(in, 0, n) \subseteq A
  BY <1>1, <1>2, <1>3, <1>4
<1>6. Search!Reported(in, ix, Cardinality(Between(in, 0, n))) = Between(in, 0, n)
  <2>1. \A i \in Filled(in) : Search!Rank(in, i) < Cardinality(Between(in, 0, n)) <=> i <= n
    BY RankBelow
  <2>2. Search!Reported(in, ix, Cardinality(Between(in, 0, n)))
          = {i \in A : Search!Rank(in, i) < Cardinality(Between(in, 0, n))}
    BY DEF Search!Reported, A
  <2>3. \A i \in A : i \in Filled(in)
    BY <1>1
  <2> QED BY <2>1, <2>2, <2>3, <1>2, <1>3, <1>5
<1>7. n + 1 \in U => A = Between(in, 0, n)
  <2> SUFFICES ASSUME n + 1 \in U, NEW i \in A PROVE i \in Between(in, 0, n)
    BY <1>5
  <2>1. i \in Filled(in) /\ i < n + 1
    BY <1>1
  <2> QED BY <2>1, <1>2
<1>8. n = Len(in) => U = {} /\ Between(in, 0, n) = Filled(in) /\ A = Filled(in)
  <2> SUFFICES ASSUME n = Len(in) PROVE U = {} /\ Between(in, 0, n) = Filled(in) /\ A = Filled(in)
    OBVIOUS
  <2>1. Between(in, 0, n) = Filled(in)
    BY <1>2, <1>3
  <2>2. U = {}
    BY <1>1, <1>2, <1>4
  <2> QED BY <2>1, <2>2, <1>1
<1> QED BY <1>5, <1>6, <1>7, <1>8 DEF U, A

(* The result of the next query is correct, with the number of the query. *)
LEMMA NextResult ==
  ASSUME NEW in \in Seq(Line), NEW ix, NEW n \in Nat, n + 1 \in Filled(in),
         Between(in, 0, n + 1) \cap Search!UnusableLines(in, ix) = {},
         NEW R, NEW results \in Seq(R), Search!Correct(in, ix, results),
         Len(results) = Cardinality(Between(in, 0, n)),
         NEW r \in R, r.query = Len(results), r.line = n + 1,
         r.candidates = Search!Answer(ix.keys, in[n + 1].key)
  PROVE  Search!Correct(in, ix, Append(results, r))
<1>1. n + 1 \in Search!AnsweredLines(in, ix)
  <2>1. n + 1 \in Between(in, 0, n + 1)
    BY DEF Between
  <2>2. n + 1 \in Nat
    OBVIOUS
  <2>3. Between(in, 0, n + 1) \subseteq Search!AnsweredLines(in, ix)
    BY <2>2, FirstLines
  <2> QED BY <2>1, <2>3
<1>2. Search!Rank(in, n + 1) = Len(results)
  <2>1. {i \in Filled(in) : i < n + 1} = Between(in, 0, n)
    BY LineTypes DEF Between
  <2> QED BY <2>1, SearchLines DEF Search!Rank
<1>3. /\ Len(results) \in Nat /\ DOMAIN results = 1..Len(results)
      /\ DOMAIN Append(results, r) = 1..(Len(results) + 1)
      /\ Append(results, r)[Len(results) + 1] = r
      /\ \A k \in 1..Len(results) : Append(results, r)[k] = results[k]
  OBVIOUS
<1> SUFFICES ASSUME NEW k \in 1..(Len(results) + 1)
             PROVE  LET x == Append(results, r)[k] IN
                    /\ x.query = k - 1
                    /\ x.line \in Search!AnsweredLines(in, ix)
                    /\ Search!Rank(in, x.line) = k - 1
                    /\ x.candidates = Search!Answer(ix.keys, in[x.line].key)
  BY <1>3 DEF Search!Correct
<1>4. CASE k = Len(results) + 1
  <2>1. k - 1 = Len(results) /\ Append(results, r)[k] = r
    BY <1>3, <1>4
  <2> QED BY <2>1, <1>1, <1>2
<1>5. CASE k # Len(results) + 1
  <2>1. k \in DOMAIN results /\ Append(results, r)[k] = results[k]
    BY <1>3, <1>5
  <2> QED BY <2>1 DEF Search!Correct
<1> QED BY <1>4, <1>5

LEMMA AppendConcat ==
  ASSUME NEW R, NEW s \in Seq(R), NEW t \in Seq(R), NEW r \in R
  PROVE  s \o Append(t, r) = Append(s \o t, r) /\ s \o t \in Seq(R) /\ (s \o t) \o <<>> = s \o t
  OBVIOUS

(* A line without a sketch is unusable. *)
LEMMA NoSketchUnusable ==
  ASSUME NEW r \in Line, NEW s \in Scheme, ~(r.text = "record" /\ MakeSketch(r, s))
  PROVE  ~UsableRecord(r, s)
  BY DEF Line, MakeSketch, UsableRecord, Comparable

(* An event after n lines. *)
LEMMA EventAfter ==
  ASSUME NEW in \in Seq(Line), NEW ix \in Search!IndexFile, NEW n \in Nat,
         Between(in, 0, n) \cap Search!UnusableLines(in, ix) = {},
         NEW e \in Search!EventRecord, e.completed = Cardinality(Between(in, 0, n)),
         e.candidates = Cardinality(Search!Matches(in, ix, Between(in, 0, n))),
         e.possible = e.completed * Cardinality(ix.keys), e.final => n = Len(in)
  PROVE  Search!ExactEvent(in, ix, e)
<1>1. Search!Reported(in, ix, e.completed) = Between(in, 0, n)
  BY FirstLines
<1>2. e.candidates <= e.possible
  BY MatchesBound, SearchInputs, LinesFinite
<1>3. e.final => e.completed = Cardinality(Filled(in))
  BY FirstLines
<1> QED BY <1>1, <1>2, <1>3, SearchLines DEF Search!ExactEvent

LEMMA EventAppended ==
  ASSUME Search!ProgressExact, UNCHANGED <<input, store, every>>, events \in Seq(Search!EventRecord),
         \A n \in DOMAIN events : ~events[n].final,
         NEW e \in Search!EventRecord, Search!ExactEvent(input, store, e),
         e.final \/ e.completed = (Len(events) + 1) * every, events' = Append(events, e)
  PROVE  Search!ProgressExact'
<1>1. /\ Len(events) \in Nat /\ DOMAIN events = 1..Len(events)
      /\ Len(events') = Len(events) + 1 /\ DOMAIN events' = 1..(Len(events) + 1)
      /\ events'[Len(events) + 1] = e
      /\ \A k \in 1..Len(events) : events'[k] = events[k]
  OBVIOUS
<1> SUFFICES ASSUME NEW k \in 1..(Len(events) + 1)
             PROVE  /\ Search!ExactEvent(input, store, events'[k])
                    /\ IF events'[k].final THEN k = Len(events') ELSE events'[k].completed = k * every
  BY <1>1 DEF Search!ProgressExact
<1>2. CASE k = Len(events) + 1
  BY <1>1, <1>2
<1>3. CASE k # Len(events) + 1
  <2>1. k \in DOMAIN events /\ events'[k] = events[k]
    BY <1>1, <1>3
  <2> QED BY <2>1 DEF Search!ProgressExact
<1> QED BY <1>2, <1>3

(* Nothing was read yet. *)
LEMMA NoLines ==
  ASSUME NEW in \in Seq(Line), NEW ix
  PROVE  /\ Between(in, 0, 0) = {} /\ Cardinality({}) = 0
         /\ Search!Matches(in, ix, {}) = {}
         /\ Search!Correct(in, ix, <<>> \o <<>>) /\ Len(<<>> \o <<>>) = 0
<1>1. Between(in, 0, 0) = {}
  BY LineTypes DEF Between
<1>2. Cardinality({}) = 0
  BY FS_EmptySet
<1>3. Search!Matches(in, ix, {}) = {}
  BY DEF Search!Matches
<1>4. Search!Correct(in, ix, <<>> \o <<>>) /\ Len(<<>> \o <<>>) = 0
  BY DEF Search!Correct
<1> QED BY <1>1, <1>2, <1>3, <1>4

(* One step, action by action. *)
LEMMA SearchNext ==
  ASSUME Search!IInv, Search!Next
  PROVE  Search!IInv'
<1> USE DEF Search!arguments, Search!counters
<1>1. Search!TypeOK /\ Search!OpenedOrSilent /\ Search!AnsweredSoFar /\ Search!EventsSoFar
  BY DEF Search!IInv
<1>2. input \in Seq(Line) /\ Len(input) \in Nat
  BY <1>1, SearchInputs, LineTypes DEF Search!TypeOK
<1>3. /\ stdout \in Seq(Search!Result) /\ buffer \in Seq(Search!Result)
      /\ stdout \o buffer \in Seq(Search!Result) /\ (stdout \o buffer) \o <<>> = stdout \o buffer
      /\ <<>> \in Seq(Search!Result) /\ stdout \o <<>> = stdout
  BY <1>1, AppendConcat DEF Search!TypeOK
<1>opened. /\ pc \in {"read", "report", "drop"} =>
                store \in Search!IndexFile /\ store.scheme = chosen /\ (progress => every > 0)
           /\ pc \in {"scheme", "open"} =>
                /\ store = None /\ stdout = <<>> /\ buffer = <<>> /\ events = <<>> /\ status = "none"
                /\ line = 0 /\ query_index = 0 /\ candidate_count = 0
  BY <1>1 DEF Search!OpenedOrSilent, Search!ReporterValid
<1>4. CASE \E new \in Search!IndexFile : Search!Replace(new)
  <2>1. Search!TypeOK'
    BY <1>4, <1>1, <1>3 DEF Search!Replace, Search!TypeOK
  <2>2. Search!OpenedOrSilent'
    BY <1>4, <1>1 DEF Search!Replace, Search!OpenedOrSilent, Search!ReporterValid
  <2>3. Search!AnsweredSoFar'
    BY <1>4, <1>1, <1>3 DEF Search!Replace, Search!AnsweredSoFar, Search!AnsweredTo, Search!OpenedOrSilent
  <2>4. Search!EventsSoFar'
    BY <1>4, <1>1 DEF Search!Replace, Search!EventsSoFar, Search!ProgressExact, Search!OpenedOrSilent
  <2> QED BY <2>1, <2>2, <2>3, <2>4 DEF Search!IInv
<1>5. CASE Search!ReadScheme
  <2>1. Search!TypeOK'
    <3>1. chosen' \in Scheme
      BY <1>5, <1>1, SearchInputs DEF Search!ReadScheme, Search!TypeOK
    <3> QED BY <1>5, <1>1, <3>1 DEF Search!ReadScheme, Search!TypeOK
  <2>2. Search!OpenedOrSilent'
    BY <1>5, <1>1 DEF Search!ReadScheme, Search!OpenedOrSilent, Search!ReporterValid
  <2>3. Search!AnsweredSoFar'
    BY <1>5, <1>1, <1>3 DEF Search!ReadScheme, Search!AnsweredSoFar, Search!AnsweredTo, Search!OpenedOrSilent
  <2>4. Search!EventsSoFar'
    BY <1>5, <1>1 DEF Search!ReadScheme, Search!EventsSoFar, Search!ProgressExact, Search!OpenedOrSilent
  <2> QED BY <2>1, <2>2, <2>3, <2>4 DEF Search!IInv
<1>6. CASE Search!Open
  <2>1. Search!TypeOK'
    BY <1>6, <1>1, <1>3 DEF Search!Open, Search!TypeOK
  <2>2. /\ pc = "open" /\ stdout' = <<>> /\ buffer' = <<>> /\ events' = <<>> /\ input' = input /\ line' = 0
        /\ query_index' = 0 /\ candidate_count' = 0 /\ UNCHANGED <<chosen, progress, every>>
    BY <1>6, <1>opened DEF Search!Open
  <2>3. Search!ProgressExact' /\ \A n \in DOMAIN events' : ~events'[n].final
    BY <2>2 DEF Search!ProgressExact
  <2>4. CASE Search!ReporterValid /\ Search!OpenAccepts
    <3>1. /\ store' \in Search!IndexFile /\ store'.scheme = chosen' /\ pc' = "read" /\ status' = "none"
          /\ progress' => every' > 0
      BY <1>6, <1>opened, <1>1, <2>2, <2>4
         DEF Search!Open, Search!ReporterValid, Search!OpenAccepts, Search!TypeOK
    <3>2. Search!OpenedOrSilent'
      BY <3>1 DEF Search!OpenedOrSilent, Search!ReporterValid
    <3>3. Search!AnsweredSoFar'
      <4>1. /\ Search!Correct(input', store', stdout' \o buffer') /\ Len(stdout' \o buffer') = 0
            /\ Search!Between(input', 0, line') = {} /\ Search!Cardinality({}) = 0
            /\ Search!Matches(input', store', {}) = {}
        BY <2>2, <1>2, NoLines, SearchLines
      <4> QED BY <3>1, <2>2, <4>1 DEF Search!AnsweredSoFar, Search!AnsweredTo
    <3>4. Search!EventsSoFar'
      <4>1. progress' => Len(events') * every' <= query_index' /\ query_index' < Len(events') * every' + every'
        BY <2>1, <2>2, <3>1 DEF Search!TypeOK
      <4> QED BY <2>3, <4>1 DEF Search!EventsSoFar
    <3> QED BY <2>1, <3>2, <3>3, <3>4 DEF Search!IInv
  <2>5. CASE ~(Search!ReporterValid /\ Search!OpenAccepts)
    <3>1. store' = None /\ pc' = "done" /\ status' = "refused"
      BY <1>6, <2>5 DEF Search!Open
    <3>2. Search!OpenedOrSilent'
      BY <2>2, <3>1 DEF Search!OpenedOrSilent
    <3>3. Search!AnsweredSoFar'
      <4>1. Search!Correct(input', store', stdout' \o buffer')
        BY <2>2, <1>2, NoLines
      <4> QED BY <3>1, <4>1 DEF Search!AnsweredSoFar
    <3>4. Search!EventsSoFar'
      BY <2>3, <3>1 DEF Search!EventsSoFar
    <3> QED BY <2>1, <3>2, <3>3, <3>4 DEF Search!IInv
  <2> QED BY <2>4, <2>5
<1>7. CASE Search!SearchLine
  <2> DEFINE next == input[line + 1]
             seen == Between(input, 0, line)
             seen_next == Between(input, 0, line + 1)
             bad == Search!UnusableLines(input, store)
  <2>1. /\ pc = "read" /\ line < Len(input) /\ line \in Nat /\ line' = line + 1
        /\ UNCHANGED <<file, replaced, input, progress, every, chosen, store, stdout, faults>>
    BY <1>7, <1>1, <1>2 DEF Search!SearchLine, Search!TypeOK
  <2>2. /\ store \in Search!IndexFile /\ store.scheme = chosen /\ (progress => every > 0)
        /\ chosen \in Scheme /\ IsFiniteSet(store.keys)
    <3>1. store \in Search!IndexFile /\ store.scheme = chosen /\ (progress => every > 0)
      BY <2>1, <1>opened
    <3>2. store.scheme \in Scheme /\ IsFiniteSet(store.keys)
      BY <3>1, SearchInputs
    <3> QED BY <3>1, <3>2
  <2>3. /\ status = "none" /\ seen \cap bad = {} /\ Len(stdout \o buffer) = query_index
        /\ query_index = Cardinality(seen) /\ Search!Correct(input, store, stdout \o buffer)
        /\ progress => candidate_count = Cardinality(Search!Matches(input, store, seen))
    BY <2>1, <1>1, SearchLines DEF Search!AnsweredSoFar, Search!AnsweredTo
  <2>4. next \in Line /\ line + 1 \in 0..Len(input) /\ next.key \in Nat
    BY <2>1, <1>2, LineTypes
  <2>5. line + 1 \in bad <=> next.text # "blank" /\ ~UsableRecord(next, chosen)
    BY <2>1, <2>2, <1>2, LineTypes, SearchLines DEF Search!UnusableLines, Filled
  <2>6. next.text = "blank" => seen_next = seen
    BY <2>1, <1>2, BetweenNext
  <2>7. next.text # "blank" => seen_next = seen \cup {line + 1} /\ line + 1 \notin seen
    BY <2>1, <1>2, BetweenNext
  <2>8. /\ query_index \in Nat /\ candidate_count \in Nat /\ events \in Seq(Search!EventRecord)
        /\ Search!ProgressExact /\ \A n \in DOMAIN events : ~events[n].final
    BY <2>1, <1>1 DEF Search!TypeOK, Search!EventsSoFar
  <2>9. ASSUME pc' # "open", pc' # "scheme" PROVE Search!OpenedOrSilent'
    BY <2>1, <2>2, <2>9 DEF Search!OpenedOrSilent, Search!ReporterValid
  <2> HIDE DEF next, seen, seen_next, bad
  <2>10. CASE next.text = "blank"
    <3>1. UNCHANGED <<pc, query_index, candidate_count, buffer, events, status>>
      BY <1>7, <2>10 DEF Search!SearchLine, next
    <3>2. Search!TypeOK'
      BY <2>1, <2>4, <3>1, <1>1 DEF Search!TypeOK
    <3>3. Search!AnsweredSoFar'
      BY <2>1, <2>3, <2>6, <2>10, <3>1, SearchLines
         DEF Search!AnsweredSoFar, Search!AnsweredTo, seen, seen_next, bad
    <3>4. Search!EventsSoFar'
      BY <2>1, <3>1, <1>1 DEF Search!EventsSoFar, Search!ProgressExact
    <3> QED BY <2>1, <2>9, <3>1, <3>2, <3>3, <3>4 DEF Search!IInv
  <2>11. CASE next.text = "record" /\ Search!MakeSketch(next, chosen)
    <3> DEFINE found == Search!Answer(store.keys, next.key)
               r == [query |-> query_index, line |-> line + 1, candidates |-> found]
               e == [completed |-> query_index', candidates |-> candidate_count',
                     possible |-> query_index' * Search!Cardinality(store.keys), final |-> FALSE]
               due == progress /\ Search!IsDue(query_index')
    <3>1. /\ buffer' = Append(buffer, r) /\ query_index' = query_index + 1
          /\ candidate_count' = IF progress THEN candidate_count + Search!Cardinality(found) ELSE 0
          /\ IF due THEN events' = Append(events, e) ELSE events' = events
          /\ UNCHANGED <<pc, status>>
      BY <1>7, <2>11 DEF Search!SearchLine, Search!Emit, Search!Event, next
    <3>2. UsableRecord(next, chosen)
      BY <2>2, <2>4, <2>11, SketchIsUsable, SearchLines
    <3>3. seen_next \cap bad = {} /\ line + 1 \in Filled(input)
      BY <2>3, <2>5, <2>7, <2>11, <3>2, <2>1, <1>2, LineTypes DEF Filled, next
    <3>4. found \in SUBSET store.keys /\ store.keys \in SUBSET Key
      BY <2>2, SearchInputs DEF Search!Answer
    <3>5. IsFiniteSet(found) /\ Cardinality(found) \in Nat /\ Cardinality(store.keys) \in Nat
      BY <2>2, <3>4, FS_Subset, FS_CardinalityType
    <3>6. IsFiniteSet(seen) /\ Cardinality(seen_next) = Cardinality(seen) + 1
      BY <2>7, <2>11, <1>2, LinesFinite, FS_AddElement DEF seen
    <3>7. query_index' = Cardinality(seen_next) /\ query_index' \in Nat
      BY <3>1, <3>6, <2>3, <2>8
    <3>8. progress => candidate_count' = Cardinality(Search!Matches(input, store, seen_next))
      <4>1. Cardinality(Search!Matches(input, store, seen \cup {line + 1}))
              = Cardinality(Search!Matches(input, store, seen)) + Cardinality(found)
        BY <2>2, <2>7, <2>11, <3>6, MatchesGrow DEF next
      <4> HIDE DEF found
      <4> QED BY <4>1, <3>1, <2>3, <2>7, <2>11, SearchLines
    <3>9. candidate_count' \in Nat
      <4> HIDE DEF found
      <4> QED BY <3>1, <3>5, <2>8, SearchLines
    <3>10. e \in Search!EventRecord
      <4>1. query_index' * Search!Cardinality(store.keys) \in Nat
        BY <3>5, <3>7, SearchLines
      <4> QED BY <4>1, <3>7, <3>9 DEF Search!EventRecord
    <3>11. r \in Search!Result
      BY <3>4, <2>4, <2>8 DEF Search!Result
    <3>12. buffer' \in Seq(Search!Result) /\ stdout' \o buffer' = Append(stdout \o buffer, r)
      <4> HIDE DEF r
      <4> QED BY <3>1, <3>11, <2>1, <1>3, AppendConcat
    <3>13. events' \in Seq(Search!EventRecord)
      <4> HIDE DEF e, due
      <4> QED BY <3>1, <3>10, <2>8
    <3>14. Search!TypeOK'
      BY <2>1, <2>4, <3>1, <3>7, <3>9, <3>12, <3>13, <1>1 DEF Search!TypeOK
    <3>15. Search!Correct(input, store, Append(stdout \o buffer, r))
      <4>1. r.query = Len(stdout \o buffer) /\ r.line = line + 1 /\ r.candidates = found
        BY <2>3
      <4> HIDE DEF r
      <4> QED BY <4>1, <3>3, <3>11, <2>1, <2>3, <1>2, <1>3, NextResult DEF next, seen, seen_next, bad
    <3>16. Len(stdout' \o buffer') = query_index'
      <4> HIDE DEF r
      <4> QED BY <3>1, <3>11, <3>12, <2>3, <1>3
    <3>17. Search!AnsweredSoFar'
      <4> HIDE DEF r, found, due, e
      <4> QED
        BY <2>1, <2>3, <3>1, <3>3, <3>7, <3>8, <3>12, <3>15, <3>16, SearchLines
           DEF Search!AnsweredSoFar, Search!AnsweredTo, seen_next, bad
    <3>18. Search!EventsSoFar'
      <4> DEFINE k == Len(events)
      <4>1. k \in Nat /\ every \in Nat /\ pc' = "read"
        BY <2>1, <2>8, <3>1, <1>1 DEF Search!TypeOK
      <4>2. progress => k * every <= query_index /\ query_index < k * every + every
        BY <2>1, <1>1 DEF Search!EventsSoFar
      <4>3. CASE due
        <5>1. every > 0 /\ query_index' > 0 /\ (query_index' % every) = 0
          BY <4>3, <2>2, <2>1 DEF Search!IsDue
        <5>2. (k + 1) * every = k * every + every /\ (k + 1) * every + every = k * every + every + every
          BY <4>1
        <5>3. query_index' = (k + 1) * every
          <6>1. CASE query_index' < k * every + every
            <7>1. k * every <= query_index' /\ query_index' # k * every
              BY <4>1, <4>2, <4>3, <3>1, <2>8
            <7>2. (query_index' % every) = query_index' - k * every
              BY <7>1, <6>1, <5>1, <4>1, <3>7, Remainder
            <7> QED BY <7>1, <7>2, <5>1, <4>1, <3>7
          <6>2. CASE ~(query_index' < k * every + every)
            BY <6>2, <5>2, <4>1, <4>2, <4>3, <3>1, <2>8
          <6> QED BY <6>1, <6>2
        <5>4. /\ e.completed = query_index' /\ e.candidates = candidate_count' /\ ~e.final
              /\ e.possible = e.completed * Cardinality(store.keys)
          BY SearchLines
        <5>5. events' = Append(events, e) /\ Len(events') = k + 1 /\ progress
          <6> HIDE DEF e
          <6> QED BY <3>1, <3>10, <4>3, <2>8
        <5> HIDE DEF e
        <5>6. Search!ExactEvent(input, store, e)
          <6>1. line + 1 \in Nat
            BY <2>1
          <6> QED BY <6>1, <5>4, <5>5, <3>3, <3>7, <3>8, <3>10, <2>2, <1>2, EventAfter DEF seen_next, bad
        <5>7. Search!ProgressExact'
          BY <5>3, <5>4, <5>5, <5>6, <3>10, <2>1, <2>8, EventAppended
        <5>8. Len(events') * every' <= query_index' /\ query_index' < Len(events') * every' + every'
          BY <5>1, <5>3, <5>5, <4>1, <2>1
        <5>9. \A n \in DOMAIN events' : ~events'[n].final
          BY <5>4, <5>5, <3>10, <2>8
        <5> QED BY <5>7, <5>8, <5>9 DEF Search!EventsSoFar
      <4>4. CASE ~due
        <5>1. events' = events
          BY <3>1, <4>4
        <5>2. Search!ProgressExact'
          BY <5>1, <2>1, <2>8 DEF Search!ProgressExact
        <5>3. ASSUME progress PROVE k * every <= query_index' /\ query_index' < k * every + every
          <6>1. every > 0 /\ query_index' > 0 /\ (query_index' % every) # 0
            BY <5>3, <4>4, <2>1, <2>2, <2>8, <3>1 DEF Search!IsDue
          <6>2. ASSUME query_index' = k * every + every PROVE FALSE
            <7>1. (k + 1) * every = k * every + every /\ k + 1 \in Nat
              BY <4>1
            <7>2. (query_index' % every) = query_index' - (k + 1) * every
              BY <7>1, <6>1, <6>2, <4>1, <3>7, Remainder
            <7> QED BY <7>1, <7>2, <6>1, <6>2, <4>1, <3>7
          <6> QED BY <6>2, <5>3, <4>1, <4>2, <3>1, <2>8
        <5> QED BY <5>1, <5>2, <5>3, <2>1, <2>8 DEF Search!EventsSoFar
      <4> QED BY <4>3, <4>4
    <3> QED BY <2>1, <2>9, <3>1, <3>14, <3>17, <3>18 DEF Search!IInv
  <2>12. CASE next.text # "blank" /\ ~(next.text = "record" /\ Search!MakeSketch(next, chosen))
    <3>1. pc' = "drop" /\ status' = "bad_line" /\ UNCHANGED <<query_index, candidate_count, buffer, events>>
      BY <1>7, <2>12 DEF Search!SearchLine, next
    <3>2. line + 1 \in bad /\ line' - 1 = line
      BY <2>1, <2>2, <2>4, <2>5, <2>12, NoSketchUnusable, SearchLines
    <3>3. Search!TypeOK'
      BY <2>1, <2>4, <3>1, <1>1 DEF Search!TypeOK
    <3>4. Search!AnsweredSoFar'
      BY <2>1, <2>3, <3>1, <3>2, SearchLines DEF Search!AnsweredSoFar, Search!AnsweredTo, seen, bad
    <3>5. Search!EventsSoFar'
      BY <2>1, <2>8, <3>1 DEF Search!EventsSoFar, Search!ProgressExact
    <3> QED BY <2>9, <3>1, <3>3, <3>4, <3>5 DEF Search!IInv
  <2> QED BY <2>10, <2>11, <2>12
<1>8. CASE Search!Spill
  <2>1. Search!TypeOK'
    BY <1>8, <1>1, <1>3 DEF Search!Spill, Search!TypeOK
  <2>2. Search!OpenedOrSilent'
    BY <1>8, <1>1 DEF Search!Spill, Search!OpenedOrSilent, Search!ReporterValid
  <2>3. Search!AnsweredSoFar'
    BY <1>8, <1>1, <1>3 DEF Search!Spill, Search!AnsweredSoFar, Search!AnsweredTo, Search!OpenedOrSilent
  <2>4. Search!EventsSoFar'
    BY <1>8, <1>1 DEF Search!Spill, Search!EventsSoFar, Search!ProgressExact, Search!OpenedOrSilent
  <2> QED BY <2>1, <2>2, <2>3, <2>4 DEF Search!IInv
<1>9. CASE Search!Flush
  <2>1. Search!TypeOK'
    BY <1>9, <1>1, <1>3 DEF Search!Flush, Search!TypeOK
  <2>2. Search!OpenedOrSilent'
    BY <1>9, <1>1 DEF Search!Flush, Search!OpenedOrSilent, Search!ReporterValid
  <2>3. Search!AnsweredSoFar'
    BY <1>9, <1>1, <1>3 DEF Search!Flush, Search!AnsweredSoFar, Search!AnsweredTo, Search!OpenedOrSilent
  <2>4. Search!EventsSoFar'
    BY <1>9, <1>1 DEF Search!Flush, Search!EventsSoFar, Search!ProgressExact, Search!OpenedOrSilent
  <2> QED BY <2>1, <2>2, <2>3, <2>4 DEF Search!IInv
<1>10. CASE Search!Report
  <2> DEFINE e == [completed |-> query_index, candidates |-> candidate_count,
                   possible |-> query_index * Search!Cardinality(store.keys), final |-> TRUE]
             all == Between(input, 0, Len(input))
  <2>1. /\ pc = "report" /\ pc' = "done" /\ status' = "ok"
        /\ events' = IF progress THEN Append(events, e) ELSE events
        /\ UNCHANGED <<file, replaced, input, progress, every, chosen, store, line, query_index,
                       candidate_count, buffer, stdout, faults>>
    BY <1>10 DEF Search!Report, Search!Emit, Search!Event
  <2>2. store \in Search!IndexFile /\ store.scheme = chosen /\ (progress => every > 0) /\ IsFiniteSet(store.keys)
    <3>1. store \in Search!IndexFile /\ store.scheme = chosen /\ (progress => every > 0)
      BY <2>1, <1>opened
    <3>2. IsFiniteSet(store.keys)
      BY <3>1, SearchInputs
    <3> QED BY <3>1, <3>2
  <2>3. /\ line = Len(input) /\ buffer = <<>> /\ Search!AnsweredTo(Len(input)) /\ query_index = Cardinality(all)
        /\ Search!Correct(input, store, stdout \o buffer)
        /\ progress => candidate_count = Cardinality(Search!Matches(input, store, all))
    BY <2>1, <1>1, SearchLines DEF Search!AnsweredSoFar
  <2>4. /\ query_index \in Nat /\ candidate_count \in Nat /\ events \in Seq(Search!EventRecord)
        /\ Search!ProgressExact /\ \A n \in DOMAIN events : ~events[n].final
    BY <2>1, <1>1 DEF Search!TypeOK, Search!EventsSoFar
  <2>5. e \in Search!EventRecord
    <3>1. query_index * Search!Cardinality(store.keys) \in Nat
      <4>1. Cardinality(store.keys) \in Nat
        BY <2>2, FS_CardinalityType
      <4> QED BY <4>1, <2>4, SearchLines
    <3> QED BY <3>1, <2>4 DEF Search!EventRecord
  <2>6. Search!TypeOK'
    <3>1. events' \in Seq(Search!EventRecord)
      <4> HIDE DEF e
      <4> QED BY <2>1, <2>4, <2>5
    <3> QED BY <2>1, <3>1, <1>1 DEF Search!TypeOK
  <2>7. Search!OpenedOrSilent'
    BY <2>1, <2>2 DEF Search!OpenedOrSilent, Search!ReporterValid
  <2>8. Search!AnsweredSoFar'
    BY <2>1, <2>3 DEF Search!AnsweredSoFar, Search!AnsweredTo
  <2>9. Search!EventsSoFar'
    <3>1. CASE progress
      <4>1. /\ e.completed = query_index /\ e.candidates = candidate_count /\ e.final
            /\ e.possible = e.completed * Cardinality(store.keys)
        BY SearchLines
      <4> HIDE DEF e
      <4>2. Search!ExactEvent(input, store, e)
        <5>1. all \cap Search!UnusableLines(input, store) = {}
          BY <2>3, SearchLines DEF Search!AnsweredTo
        <5> QED BY <5>1, <4>1, <3>1, <2>2, <2>3, <2>5, <1>2, EventAfter
      <4>3. Search!ProgressExact'
        BY <3>1, <4>1, <4>2, <2>1, <2>4, <2>5, EventAppended
      <4> QED BY <4>3, <2>1 DEF Search!EventsSoFar
    <3>2. CASE ~progress
      BY <3>2, <2>1, <2>4 DEF Search!EventsSoFar, Search!ProgressExact
    <3> QED BY <3>1, <3>2
  <2> QED BY <2>6, <2>7, <2>8, <2>9 DEF Search!IInv
<1>11. CASE Search!Drop
  <2>1. Search!TypeOK'
    BY <1>11, <1>1, <1>3 DEF Search!Drop, Search!DropFlushes, Search!TypeOK
  <2>2. Search!OpenedOrSilent'
    BY <1>11, <1>1 DEF Search!Drop, Search!DropFlushes, Search!OpenedOrSilent, Search!ReporterValid
  <2>3. Search!AnsweredSoFar'
    BY <1>11, <1>1, <1>3 DEF Search!Drop, Search!DropFlushes, Search!AnsweredSoFar, Search!AnsweredTo, Search!OpenedOrSilent
  <2>4. Search!EventsSoFar'
    BY <1>11, <1>1 DEF Search!Drop, Search!DropFlushes, Search!EventsSoFar, Search!ProgressExact, Search!OpenedOrSilent
  <2> QED BY <2>1, <2>2, <2>3, <2>4 DEF Search!IInv
<1>12. CASE Search!StepFails
  <2>1. Search!TypeOK'
    BY <1>12, <1>1, <1>3 DEF Search!StepFails, Search!TypeOK
  <2>2. Search!OpenedOrSilent'
    BY <1>12, <1>1 DEF Search!StepFails, Search!OpenedOrSilent, Search!ReporterValid
  <2>3. Search!AnsweredSoFar'
    <3>1. /\ pc' \in {"drop", "done"} /\ status' = "failed" /\ buffer' \in {<<>>, buffer}
          /\ UNCHANGED <<input, store, stdout>>
      BY <1>12 DEF Search!StepFails
    <3>2. Search!Correct(input, store, stdout \o buffer)
      BY <1>1 DEF Search!AnsweredSoFar
    <3>3. Search!Correct(input, store, stdout)
      <4>1. \A n \in DOMAIN stdout : n \in DOMAIN (stdout \o buffer) /\ (stdout \o buffer)[n] = stdout[n]
        BY <1>3
      <4> QED BY <3>2, <4>1 DEF Search!Correct
    <3>4. Search!Correct(input', store', stdout' \o buffer')
      BY <3>1, <3>2, <3>3, <1>3
    <3> QED BY <3>1, <3>4 DEF Search!AnsweredSoFar
  <2>4. Search!EventsSoFar'
    BY <1>12, <1>1 DEF Search!StepFails, Search!EventsSoFar, Search!ProgressExact, Search!OpenedOrSilent
  <2> QED BY <2>1, <2>2, <2>3, <2>4 DEF Search!IInv
<1> QED BY <1>4, <1>5, <1>6, <1>7, <1>8, <1>9, <1>10, <1>11, <1>12 DEF Search!Next

LEMMA SearchInit ==
  ASSUME Search!Init
  PROVE  Search!IInv
<1>1. /\ file \in Search!IndexFile /\ input \in SearchInput /\ progress \in BOOLEAN /\ every \in 0..MaxEvery
      /\ pc = "scheme" /\ chosen = None /\ store = None /\ status = "none"
      /\ line = 0 /\ query_index = 0 /\ candidate_count = 0
      /\ buffer = <<>> /\ stdout = <<>> /\ events = <<>>
  BY DEF Search!Init
<1>2. input \in Seq(Line) /\ Len(input) \in Nat /\ every \in Nat
  BY <1>1, SearchInputs, LineTypes
<1>3. Search!TypeOK
  <2>1. buffer \in Seq(Search!Result) /\ stdout \in Seq(Search!Result) /\ events \in Seq(Search!EventRecord)
    BY <1>1
  <2> QED BY <1>1, <1>2, <2>1 DEF Search!TypeOK
<1>4. Search!OpenedOrSilent
  BY <1>1 DEF Search!OpenedOrSilent
<1>5. Search!AnsweredSoFar
  <2>1. Search!Correct(input, store, stdout \o buffer)
    BY <1>1, <1>2, NoLines
  <2> QED BY <1>1, <2>1 DEF Search!AnsweredSoFar
<1>6. Search!EventsSoFar
  BY <1>1 DEF Search!EventsSoFar, Search!ProgressExact
<1> QED BY <1>3, <1>4, <1>5, <1>6 DEF Search!IInv

LEMMA SearchStutters ==
  ASSUME Search!IInv, UNCHANGED Search!vars
  PROVE  Search!IInv'
<1>1. Search!TypeOK'
  BY DEF Search!vars, Search!IInv, Search!TypeOK
<1>2. Search!OpenedOrSilent'
  BY DEF Search!vars, Search!IInv, Search!OpenedOrSilent, Search!ReporterValid
<1>3. Search!AnsweredSoFar'
  BY DEF Search!vars, Search!IInv, Search!AnsweredSoFar, Search!AnsweredTo
<1>4. Search!EventsSoFar'
  BY DEF Search!vars, Search!IInv, Search!EventsSoFar, Search!ProgressExact
<1> QED BY <1>1, <1>2, <1>3, <1>4 DEF Search!IInv

LEMMA SearchIsExact ==
  ASSUME Search!IInv
  PROVE  Search!AnswersInOrder /\ Search!ProgressExact
<1>1. input \in Seq(Line) /\ Len(input) \in Nat /\ line \in 0..Len(input)
  BY SearchInputs, LineTypes DEF Search!IInv, Search!TypeOK
<1>2. Search!Correct(input, store, stdout \o buffer) /\ stdout \o <<>> = stdout
  BY DEF Search!IInv, Search!AnsweredSoFar, Search!TypeOK
<1>3. ASSUME status = "ok"
      PROVE  /\ Search!UnusableLines(input, store) = {}
             /\ Len(stdout) = Search!Cardinality(Search!AnsweredLines(input, store))
  <2>1. buffer = <<>> /\ Search!AnsweredTo(Len(input))
    BY <1>3 DEF Search!IInv, Search!AnsweredSoFar
  <2>2. /\ Between(input, 0, Len(input)) \cap Search!UnusableLines(input, store) = {}
        /\ Len(stdout) = Cardinality(Between(input, 0, Len(input)))
    BY <2>1, <1>2, SearchLines DEF Search!AnsweredTo
  <2> QED BY <2>2, <1>1, FirstLines, SearchLines
<1>4. ASSUME status = "bad_line", pc = "done"
      PROVE  Len(stdout) = Search!Cardinality(Search!AnsweredLines(input, store))
  <2>1. buffer = <<>> /\ line \in Search!UnusableLines(input, store) /\ Search!AnsweredTo(line - 1)
    BY <1>4 DEF Search!IInv, Search!AnsweredSoFar
  <2>2. line \in Nat /\ line > 0 /\ line - 1 \in Nat /\ (line - 1) + 1 = line
    BY <2>1, <1>1, LineTypes, SearchLines DEF Search!UnusableLines
  <2>3. /\ Between(input, 0, line - 1) \cap Search!UnusableLines(input, store) = {}
        /\ Len(stdout) = Cardinality(Between(input, 0, line - 1))
    BY <2>1, <1>2, SearchLines DEF Search!AnsweredTo
  <2>4. Search!AnsweredLines(input, store) = Between(input, 0, line - 1)
    BY <2>1, <2>2, <2>3, <1>1, FirstLines
  <2> QED BY <2>3, <2>4, SearchLines
<1>5. Search!AnswersInOrder
  BY <1>2, <1>3, <1>4 DEF Search!AnswersInOrder
<1>6. Search!ProgressExact
  BY DEF Search!IInv, Search!EventsSoFar
<1> QED BY <1>5, <1>6

-----------------------------------------------------------------------------
(* The theorems                                                            *)

CommandsInv ==
  /\ part = "index" => Index!IInv
  /\ part = "search" => Search!IInv
  /\ part = "dedup" => Dedup!IInv

(* The inductive invariants of the commands hold: what they have read so   *)
(* far is in the index, in the batch or answered, and who holds the output *)
(* name has staged an index of the whole input.                            *)
THEOREM CommandsInvariant == Spec => []CommandsInv
<1>1. Init => CommandsInv
  BY IndexInit, SearchInit, DedupInit DEF Init, CommandsInv
<1>2. CommandsInv /\ [Next]_vars => CommandsInv'
  <2> SUFFICES ASSUME CommandsInv, [Next]_vars PROVE CommandsInv'
    OBVIOUS
  <2>1. part' = part
    BY DEF Next, vars
  <2>2. ASSUME part = "index" PROVE Index!IInv'
    <3>1. Index!Next \/ UNCHANGED Index!vars
      BY <2>2 DEF Next, vars, Index!vars
    <3> QED BY <2>2, <3>1, IndexNext, IndexStutters DEF CommandsInv
  <2>3. ASSUME part = "dedup" PROVE Dedup!IInv'
    <3>1. Dedup!Next \/ UNCHANGED Dedup!vars
      BY <2>3 DEF Next, vars, Dedup!vars
    <3> QED BY <2>3, <3>1, DedupNext, DedupStutters DEF CommandsInv
  <2>4. ASSUME part = "search" PROVE Search!IInv'
    <3>1. Search!Next \/ UNCHANGED Search!vars
      BY <2>4 DEF Next, vars, Search!vars
    <3> QED BY <2>4, <3>1, SearchNext, SearchStutters DEF CommandsInv
  <2> QED BY <2>1, <2>2, <2>3, <2>4 DEF CommandsInv
<1> QED BY <1>1, <1>2, PTL DEF Spec

(* Whatever the output of pari index names, now or after a power loss, is  *)
(* an index of the whole input, for any number of racing commands, any     *)
(* batch size and any faults; success is durable, and a failure that       *)
(* reports no failed cleanup leaves nothing behind.                        *)
THEOREM IndexIsAllOrNothing == Spec => []IndexAllOrNothing
<1>1. CommandsInv => IndexAllOrNothing
  BY IndexIsWhole DEF CommandsInv, IndexAllOrNothing
<1> QED BY <1>1, CommandsInvariant, PTL

(* What pari search writes answers, in order and without a gap, the usable *)
(* queries against the one index it opened, also when the file is replaced *)
(* meanwhile, and its progress events count exactly the candidates of the  *)
(* queries they report.                                                    *)
THEOREM SearchAnswersInOrder == Spec => []AnswersInOrder
<1>1. CommandsInv => AnswersInOrder
  BY SearchIsExact DEF CommandsInv, AnswersInOrder
<1> QED BY <1>1, CommandsInvariant, PTL

(* pari dedup keeps its input unless the output name became an alias of it *)
(* after the last check, and an output it has opened holds results of the  *)
(* whole input, each once, and all of them when it succeeds.               *)
THEOREM DedupIsWholeInput == Spec => []DedupWhole
<1>1. CommandsInv => DedupWhole
  BY DedupIsWhole DEF CommandsInv, DedupWhole
<1> QED BY <1>1, CommandsInvariant, PTL

=============================================================================
