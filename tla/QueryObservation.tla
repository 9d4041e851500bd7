-------------------------- MODULE QueryObservation --------------------------
(***************************************************************************)
(* crates/pari-index: QueryObserver, the opt-in query counters of an       *)
(* in-memory index.  query and query_many take &self, so several threads   *)
(* record at once, each counter by an atomic addition of its own, while    *)
(* another thread takes a snapshot counter by counter.  set_observability  *)
(* takes &mut self and meets nobody.  The additions are Relaxed; the       *)
(* interleavings here are among the outcomes that allows.  The two latency *)
(* counters are measurements and left out.                                 *)
(***************************************************************************)
EXTENDS Naturals, Sequences, Functions

CONSTANTS
  Thread,      \* threads that share the index
  Items,       \* live items, the opportunities of one query
  MaxQueries,  \* bound: queries of one query_many
  MaxCalls     \* bound: calls recorded between two resets

ObservationAssumption == Items \in Nat /\ MaxQueries \in Nat /\ MaxCalls \in Nat

VARIABLES
  enabled,    \* query_observer is Some
  counters,   \* the atomics
  recording,  \* thread -> additions it has still to make
  snapshot,   \* thread -> loads of a snapshot under way, or of the last one
  observed,   \* history: what the completed queries amount to
  started,    \* history: thread -> the counters when its snapshot began
  calls

vars == <<enabled, counters, recording, snapshot, observed, started, calls>>

(* The order in which record adds and snapshot loads. *)
Counter == <<"operations", "queries", "candidates", "possible_candidates">>

Zero == [c \in Range(Counter) |-> 0]

NoSnapshot == <<>>

Init ==
  /\ enabled = FALSE
  /\ counters = Zero
  /\ recording = [t \in Thread |-> <<>>]
  /\ snapshot = [t \in Thread |-> NoSnapshot]
  /\ observed = Zero
  /\ started = [t \in Thread |-> Zero]
  /\ calls = 0

AlwaysIdle(t) == TRUE
Idle(t) == recording[t] = <<>> /\ Len(snapshot[t]) \in {0, Len(Counter)}

(* query_many of n sketches that returned found candidates in all. *)
AmountsPerCall(n, found) == <<1, n, found, Items>>
Amounts(n, found) == <<1, n, found, n * Items>>

(* The queries are answered and the thread enters record, unless nobody    *)
(* observes.                                                               *)
QueryMany(t, n, found) ==
  /\ Idle(t) /\ calls < MaxCalls
  /\ calls' = calls + 1
  /\ IF enabled
     THEN /\ recording' = [recording EXCEPT ![t] = Amounts(n, found)]
          /\ observed' = [c \in DOMAIN observed |->
               observed[c] + CASE c = "operations" -> 1
                               [] c = "queries" -> n
                               [] c = "candidates" -> found
                               [] c = "possible_candidates" -> n * Items]
     ELSE UNCHANGED <<recording, observed>>
  /\ UNCHANGED <<enabled, counters, snapshot, started>>

(* One fetch_add. *)
Overwrite(value, amount) == amount
FetchAdd(value, amount) == value + amount

Record(t) ==
  LET c == Counter[Len(Counter) + 1 - Len(recording[t])] IN
  /\ recording[t] # <<>>
  /\ counters' = [counters EXCEPT ![c] = FetchAdd(@, Head(recording[t]))]
  /\ recording' = [recording EXCEPT ![t] = Tail(@)]
  /\ UNCHANGED <<enabled, snapshot, observed, started, calls>>

(* stats: the first load of a snapshot, and the following ones. *)
BeginSnapshot(t) ==
  /\ Idle(t) /\ enabled
  /\ snapshot' = [snapshot EXCEPT ![t] = <<counters[Counter[1]]>>]
  /\ started' = [started EXCEPT ![t] = counters]
  /\ UNCHANGED <<enabled, counters, recording, observed, calls>>

Load(t) ==
  /\ Len(snapshot[t]) \in 1..(Len(Counter) - 1)
  /\ snapshot' = [snapshot EXCEPT ![t] = Append(@, counters[Counter[Len(@) + 1]])]
  /\ UNCHANGED <<enabled, counters, recording, observed, started, calls>>

SetObservability(on) ==
  /\ \A t \in Thread : Idle(t)
  /\ enabled' = on
  /\ counters' = Zero
  /\ observed' = Zero
  /\ calls' = 0
  /\ snapshot' = [t \in Thread |-> NoSnapshot]
  /\ started' = [t \in Thread |-> Zero]
  /\ UNCHANGED recording

Next ==
  \/ \E t \in Thread :
       \/ \E n \in 0..MaxQueries : \E found \in 0..(n * Items) : QueryMany(t, n, found)
       \/ Record(t) \/ BeginSnapshot(t) \/ Load(t)
  \/ \E on \in BOOLEAN : SetObservability(on)

Spec == Init /\ [][Next]_vars

-----------------------------------------------------------------------------
TypeOK ==
  /\ enabled \in BOOLEAN
  /\ counters \in [Range(Counter) -> Nat]
  /\ \A t \in Thread : Len(recording[t]) <= Len(Counter) /\ Len(snapshot[t]) <= Len(Counter)
  /\ \A t \in Thread : ~enabled => recording[t] = <<>>

(* Once the queries have returned, the counters are exactly their totals:  *)
(* concurrent record calls lose nothing, and a batch counts every one of   *)
(* its queries as an opportunity for every item.                           *)
TotalsExact == (\A t \in Thread : recording[t] = <<>>) => counters = observed

(* A snapshot taken among running queries counts everything that was       *)
(* recorded before it and nothing that was not queried.                    *)
SnapshotBounded ==
  \A t \in Thread, i \in 1..Len(Counter) :
    i <= Len(snapshot[t]) =>
      started[t][Counter[i]] <= snapshot[t][i] /\ snapshot[t][i] <= observed[Counter[i]]

(* candidate_rate is a rate: a snapshot has no more candidates than        *)
(* opportunities (the doc comment of candidate_rate calls it exact).       *)
RateIsExact ==
  \A t \in Thread : Len(snapshot[t]) = Len(Counter) => snapshot[t][3] <= snapshot[t][4]

=============================================================================
