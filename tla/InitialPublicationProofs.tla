---------------------- MODULE InitialPublicationProofs ----------------------
(***************************************************************************)
(* Proofs about InitialPublication, for any number of creators, processes, *)
(* foreign files, temporary-name attempts and faults: what a create may    *)
(* leave at the destination, what it promises and what it cleans up.       *)
(***************************************************************************)
EXTENDS InitialPublication, FiniteSetTheorems, TLAPS

(* A call's locals after a step of creator c: the rest of the calls keep   *)
(* theirs.                                                                 *)
OnlyOf(c) == \A d \in Creator : d # c => pc'[d] = pc[d] /\ tx'[d] = tx[d]

-----------------------------------------------------------------------------
(***************************************************************************)
(* What the updates of tx do                                               *)
(***************************************************************************)
Counted(c) == [tx EXCEPT ![c].tries = @ + 1]
Released(c) == [tx EXCEPT ![c].owns_path = FALSE]
Rejected(c) == [tx EXCEPT ![c].owns_path = FALSE, ![c].result = "error"]
Retried(c) == [tx EXCEPT ![c].reported = TRUE, ![c].retried = TRUE]

(* The result is decided, and nothing else. *)
LEMMA DecideEffect ==
  ASSUME tx \in [Creator -> Transaction], NEW c \in Creator, NEW r \in Result, Decide(c, r)
  PROVE  /\ tx' \in [Creator -> Transaction]
         /\ \A d \in Creator : d # c => tx'[d] = tx[d]
         /\ tx'[c].result = r
         /\ tx'[c].temp = tx[c].temp /\ tx'[c].owns_path = tx[c].owns_path
         /\ tx'[c].tries = tx[c].tries /\ tx'[c].reported = tx[c].reported
  BY DEF Decide, Transaction

(* allocate: the name is held from now on. *)
LEMMA OwnedEffect ==
  ASSUME tx \in [Creator -> Transaction], NEW c \in Creator, NEW n \in Name, tx' = Owned(c, n)
  PROVE  /\ tx' \in [Creator -> Transaction]
         /\ \A d \in Creator : d # c => tx'[d] = tx[d]
         /\ tx'[c].temp = n /\ tx'[c].owns_path
         /\ tx'[c].tries = tx[c].tries /\ tx'[c].reported = tx[c].reported
         /\ tx'[c].result = tx[c].result
  BY DEF Owned, Transaction

(* allocate: one more attempt. *)
LEMMA TriesEffect ==
  ASSUME tx \in [Creator -> Transaction], NEW c \in Creator, Attempts \in Nat,
         tx[c].tries < Attempts, tx' = Counted(c)
  PROVE  /\ tx' \in [Creator -> Transaction]
         /\ \A d \in Creator : d # c => tx'[d] = tx[d]
         /\ tx'[c].tries = tx[c].tries + 1
         /\ tx'[c].temp = tx[c].temp /\ tx'[c].owns_path = tx[c].owns_path
         /\ tx'[c].reported = tx[c].reported /\ tx'[c].result = tx[c].result
  BY DEF Counted, Transaction

(* The name is given up. *)
LEMMA ReleaseEffect ==
  ASSUME tx \in [Creator -> Transaction], NEW c \in Creator,
         tx' = Released(c)
  PROVE  /\ tx' \in [Creator -> Transaction]
         /\ \A d \in Creator : d # c => tx'[d] = tx[d]
         /\ ~tx'[c].owns_path
         /\ tx'[c].temp = tx[c].temp /\ tx'[c].result = tx[c].result
         /\ tx'[c].tries = tx[c].tries /\ tx'[c].reported = tx[c].reported
  BY DEF Released, Transaction

(* verify_owned_path: the name is given up and the call fails. *)
LEMMA RejectEffect ==
  ASSUME tx \in [Creator -> Transaction], NEW c \in Creator,
         tx' = Rejected(c)
  PROVE  /\ tx' \in [Creator -> Transaction]
         /\ \A d \in Creator : d # c => tx'[d] = tx[d]
         /\ ~tx'[c].owns_path /\ tx'[c].result = "error"
         /\ tx'[c].temp = tx[c].temp
         /\ tx'[c].tries = tx[c].tries /\ tx'[c].reported = tx[c].reported
  BY DEF Rejected, Transaction, Result

(* A failed rollback is reported. *)
LEMMA ReportEffect ==
  ASSUME tx \in [Creator -> Transaction], NEW c \in Creator, Reported(c)
  PROVE  /\ tx' \in [Creator -> Transaction]
         /\ \A d \in Creator : d # c => tx'[d] = tx[d]
         /\ tx'[c].reported
         /\ tx'[c].temp = tx[c].temp /\ tx'[c].owns_path = tx[c].owns_path
         /\ tx'[c].tries = tx[c].tries /\ tx'[c].result = tx[c].result
  BY DEF Reported, Transaction

(* A failed removal is reported, and Drop has tried again. *)
LEMMA RetryEffect ==
  ASSUME tx \in [Creator -> Transaction], NEW c \in Creator,
         tx' = Retried(c)
  PROVE  /\ tx' \in [Creator -> Transaction]
         /\ \A d \in Creator : d # c => tx'[d] = tx[d]
         /\ tx'[c].reported
         /\ tx'[c].temp = tx[c].temp /\ tx'[c].owns_path = tx[c].owns_path
         /\ tx'[c].tries = tx[c].tries /\ tx'[c].result = tx[c].result
  BY DEF Retried, Transaction

(* Where a call stands after a step of its own. *)
LEMMA GoEffect ==
  ASSUME pc \in [Creator -> Status], NEW c \in Creator, NEW from, NEW to \in Status,
         Go(c, from, to)
  PROVE  /\ pc' \in [Creator -> Status]
         /\ \A d \in Creator : d # c => pc'[d] = pc[d]
         /\ pc[c] = from /\ pc'[c] = to
  BY DEF Go

-----------------------------------------------------------------------------
(***************************************************************************)
(* Sequence numbers stay among the names                                   *)
(***************************************************************************)

(* There are at most Attempts attempts of each creator. *)
LEMMA AttemptsBounded ==
  ASSUME CreatorAssumption, NEW S \in SUBSET (Creator \X (1..Attempts))
  PROVE  /\ IsFiniteSet(S) /\ Cardinality(S) \in Nat
         /\ Cardinality(S) <= Attempts * Cardinality(Creator)
<1>1. IsFiniteSet(1..Attempts) /\ Cardinality(1..Attempts) = Attempts
  BY FS_Interval DEF CreatorAssumption
<1>2. IsFiniteSet(Creator) /\ Cardinality(Creator) \in Nat
  BY FS_CardinalityType DEF CreatorAssumption
<1>3. /\ IsFiniteSet(Creator \X (1..Attempts))
      /\ Cardinality(Creator \X (1..Attempts)) = Cardinality(Creator) * Attempts
  BY <1>1, <1>2, FS_Product
<1>4. IsFiniteSet(S) /\ Cardinality(S) <= Cardinality(Creator \X (1..Attempts))
  BY <1>3, FS_Subset
<1>5. Cardinality(S) \in Nat BY <1>4, FS_CardinalityType
<1>6. Cardinality(Creator) * Attempts = Attempts * Cardinality(Creator)
  BY <1>2 DEF CreatorAssumption
<1> QED BY <1>3, <1>4, <1>5, <1>6

(* A number that is at most the number of attempts made is a name. *)
LEMMA NumberIsName ==
  ASSUME CreatorAssumption, NEW S \in SUBSET (Creator \X (1..Attempts)), NEW n \in Nat,
         n <= Cardinality(S)
  PROVE  n \in Name
<1>1. Cardinality(S) \in Nat /\ Cardinality(S) <= Attempts * Cardinality(Creator)
  BY AttemptsBounded
<1>2. Cardinality(Creator) \in Nat BY FS_CardinalityType DEF CreatorAssumption
<1>3. Attempts * Cardinality(Creator) \in Nat BY <1>2 DEF CreatorAssumption
<1> QED BY <1>1, <1>3 DEF Name

(* A step that draws no number only adds attempts. *)
LEMMA NoNumberDrawn ==
  ASSUME CreatorAssumption, TypeOK, NumbersBounded, Spent \subseteq Spent', next' = next
  PROVE  NumbersBounded' /\ next' \in [Process -> Name]
<1>1. Spent' \subseteq Creator \X (1..Attempts) BY DEF Spent
<1>2. IsFiniteSet(Spent') /\ Cardinality(Spent') \in Nat BY <1>1, AttemptsBounded
<1>3. Cardinality(Spent) <= Cardinality(Spent') BY <1>2, FS_Subset
<1>4. Spent \subseteq Creator \X (1..Attempts) BY DEF Spent
<1>5. Cardinality(Spent) \in Nat BY <1>4, AttemptsBounded
<1>6. \A p \in Process : next[p] \in Nat BY DEF TypeOK, Name
<1> QED BY <1>2, <1>3, <1>5, <1>6 DEF NumbersBounded, TypeOK

(* A step that draws one number makes one attempt. *)
LEMMA OneNumberDrawn ==
  ASSUME CreatorAssumption, TypeOK, NumbersBounded, NEW a, a \notin Spent,
         Spent \cup {a} \subseteq Spent',
         next' \in [Process -> Nat], \A p \in Process : next'[p] <= next[p] + 1
  PROVE  NumbersBounded' /\ next' \in [Process -> Name]
<1>1. Spent' \subseteq Creator \X (1..Attempts) /\ Spent \subseteq Creator \X (1..Attempts)
  BY DEF Spent
<1>2. IsFiniteSet(Spent') /\ Cardinality(Spent') \in Nat BY <1>1, AttemptsBounded
<1>3. IsFiniteSet(Spent) /\ Cardinality(Spent) \in Nat BY <1>1, AttemptsBounded
<1>4. Cardinality(Spent \cup {a}) = Cardinality(Spent) + 1 BY <1>3, FS_AddElement
<1>5. Cardinality(Spent \cup {a}) <= Cardinality(Spent') BY <1>2, FS_Subset
<1>6. \A p \in Process : next[p] \in Nat BY DEF TypeOK, Name
<1>7. \A p \in Process : next'[p] <= Cardinality(Spent')
  BY <1>2, <1>3, <1>4, <1>5, <1>6 DEF NumbersBounded
<1>8. \A p \in Process : next'[p] \in Name BY <1>1, <1>7, NumberIsName
<1> QED BY <1>7, <1>8 DEF NumbersBounded

(* Attempts are never taken back: the counts grow, and a call that is past *)
(* its allocation stays past it.                                           *)
LEMMA SpentGrows ==
  ASSUME TypeOK, tx' \in [Creator -> Transaction], Attempts \in Nat,
         \A d \in Creator :
           /\ tx[d].tries <= tx'[d].tries
           /\ pc[d] \notin {"start", "allocate"} =>
                pc'[d] \notin {"start", "allocate"} /\ tx'[d].tries = tx[d].tries
  PROVE  Spent \subseteq Spent'
<1> SUFFICES ASSUME NEW c \in Creator, NEW k \in 1..Attempts, <<c, k>> \in Spent
             PROVE  <<c, k>> \in Spent'
  BY DEF Spent
<1>1. tx[c].tries \in Nat /\ tx'[c].tries \in Nat BY DEF TypeOK, Transaction
<1>2. k <= tx[c].tries \/ (pc[c] \notin {"start", "allocate"} /\ k = tx[c].tries + 1)
  BY DEF Spent
<1>3. k <= tx'[c].tries \/ (pc'[c] \notin {"start", "allocate"} /\ k = tx'[c].tries + 1)
  BY <1>1, <1>2
<1> QED BY <1>3 DEF Spent

-----------------------------------------------------------------------------
(***************************************************************************)
(* The steps of a call, by what they do to its locals                      *)
(***************************************************************************)

(* Steps that only move on. *)
Moving(c) ==
  \/ DestinationAbsent(c) \/ WriteSynced(c) \/ Verify(c) \/ Link(c) \/ Sync(c)
  \/ RollbackOwns(c) \/ RollbackPreserves(c) \/ RollbackRemove(c) \/ RollbackSync(c)
  \/ CleanupOwns(c)

(* Steps that decide the call's result. *)
Deciding(c) ==
  \/ DestinationPresent(c) \/ AllocateExhausted(c) \/ AllocateFails(c)
  \/ WriteFails(c) \/ LinkCollides(c) \/ LinkFails(c) \/ UnlinkFails(c) \/ SyncFails(c)
  \/ Refresh(c) \/ RefreshFails(c)

(* Steps that give the temporary name up. *)
Releasing(c) == Unlink(c) \/ CleanupNothing(c) \/ CleanupRemove(c)

(* Steps that claim a name or spend an attempt. *)
Allocating(c) == Allocate(c) \/ AllocateAgain(c)

(* Steps that change two fields or report. *)
Failing(c) == VerifyFails(c) \/ RollbackFails(c) \/ CleanupFails(c)

(* There are no others. *)
LEMMA StepKinds ==
  ASSUME NEW c \in Creator, Create(c) \/ Recover(c)
  PROVE  Moving(c) \/ Deciding(c) \/ Releasing(c) \/ Allocating(c) \/ Failing(c)
  BY DEF Create, Recover, Moving, Deciding, Releasing, Allocating, Failing

(* What every step of a call leaves alone: the other calls, and the        *)
(* attempts already made.                                                  *)
LocalEffect(c) ==
  /\ pc' \in [Creator -> Status]
  /\ tx' \in [Creator -> Transaction]
  /\ OnlyOf(c)
  /\ tx[c].tries <= tx'[c].tries
  /\ pc[c] \notin {"start", "allocate"} =>
       pc'[c] \notin {"start", "allocate"} /\ tx'[c].tries = tx[c].tries

(* A step that only moves on. *)
LEMMA MovingEffect ==
  ASSUME TypeOK, NEW c \in Creator, Moving(c)
  PROVE  LocalEffect(c) /\ tx' = tx /\ next' = next /\ used' = used
<1>1. tx' = tx /\ next' = next /\ used' = used
  BY DEF Moving, DestinationAbsent, WriteSynced, Verify, Link, Sync, RollbackOwns,
     RollbackPreserves, RollbackRemove, RollbackSync, CleanupOwns
<1>2. /\ pc' \in [Creator -> Status]
      /\ \A d \in Creator : d # c => pc'[d] = pc[d]
      /\ pc[c] \notin {"start", "allocate"} => pc'[c] \notin {"start", "allocate"}
  BY DEF Moving, DestinationAbsent, WriteSynced, Verify, Link, Sync, RollbackOwns,
     RollbackPreserves, RollbackRemove, RollbackSync, CleanupOwns, Go, TypeOK, Status
<1>3. tx[c].tries \in Nat BY DEF TypeOK, Transaction
<1> QED BY <1>1, <1>2, <1>3 DEF LocalEffect, OnlyOf, TypeOK

(* A step that decides. *)
LEMMA DecidingEffect ==
  ASSUME TypeOK, NEW c \in Creator, Deciding(c)
  PROVE  /\ LocalEffect(c) /\ used' = used
         /\ pc'[c] \notin {"start", "allocate"}
         /\ tx'[c].temp = tx[c].temp /\ tx'[c].owns_path = tx[c].owns_path
         /\ tx'[c].tries = tx[c].tries /\ tx'[c].reported = tx[c].reported
<1>1. PICK r \in Result : Decide(c, r)
  BY DEF Deciding, DestinationPresent, AllocateExhausted, AllocateFails, WriteFails,
     LinkCollides, LinkFails, UnlinkFails, SyncFails, Refresh, RefreshFails, Result
<1>2. /\ tx' \in [Creator -> Transaction]
      /\ \A d \in Creator : d # c => tx'[d] = tx[d]
      /\ tx'[c].temp = tx[c].temp /\ tx'[c].owns_path = tx[c].owns_path
      /\ tx'[c].tries = tx[c].tries /\ tx'[c].reported = tx[c].reported
  BY <1>1, DecideEffect DEF TypeOK
<1>3. /\ pc' \in [Creator -> Status]
      /\ \A d \in Creator : d # c => pc'[d] = pc[d]
      /\ pc'[c] \notin {"start", "allocate"}
      /\ used' = used
  BY DEF Deciding, DestinationPresent, AllocateExhausted, AllocateFails, WriteFails,
     LinkCollides, LinkFails, UnlinkFails, SyncFails, Refresh, RefreshFails, Go, TypeOK, Status
<1>4. tx[c].tries \in Nat BY DEF TypeOK, Transaction
<1> QED BY <1>2, <1>3, <1>4 DEF LocalEffect, OnlyOf

(* A step that gives the name up. *)
LEMMA ReleasingEffect ==
  ASSUME TypeOK, NEW c \in Creator, Releasing(c)
  PROVE  /\ LocalEffect(c) /\ next' = next /\ used' = used
         /\ ~tx'[c].owns_path
         /\ tx'[c].temp = tx[c].temp /\ tx'[c].result = tx[c].result
         /\ tx'[c].tries = tx[c].tries /\ tx'[c].reported = tx[c].reported
<1>1. tx' = Released(c)
  BY DEF Releasing, Unlink, CleanupNothing, CleanupRemove, Released
<1>2. /\ tx' \in [Creator -> Transaction]
      /\ \A d \in Creator : d # c => tx'[d] = tx[d]
      /\ ~tx'[c].owns_path
      /\ tx'[c].temp = tx[c].temp /\ tx'[c].result = tx[c].result
      /\ tx'[c].tries = tx[c].tries /\ tx'[c].reported = tx[c].reported
  BY <1>1, ReleaseEffect DEF TypeOK
<1>3. /\ pc' \in [Creator -> Status]
      /\ \A d \in Creator : d # c => pc'[d] = pc[d]
      /\ pc'[c] \notin {"start", "allocate"}
      /\ next' = next /\ used' = used
  BY DEF Releasing, Unlink, CleanupNothing, CleanupRemove, Go, TypeOK, Status
<1>4. tx[c].tries \in Nat BY DEF TypeOK, Transaction
<1> QED BY <1>2, <1>3, <1>4 DEF LocalEffect, OnlyOf

(* A step that fails with more than a result. *)
LEMMA FailingEffect ==
  ASSUME TypeOK, NEW c \in Creator, Failing(c)
  PROVE  /\ LocalEffect(c) /\ next' = next /\ used' = used
         /\ tx'[c].temp = tx[c].temp
         /\ VerifyFails(c) => /\ ~tx'[c].owns_path /\ tx'[c].result = "error"
                              /\ tx'[c].reported = tx[c].reported
         /\ ~VerifyFails(c) => /\ tx'[c].reported /\ tx'[c].owns_path = tx[c].owns_path
                               /\ tx'[c].result = tx[c].result
<1>1. /\ pc' \in [Creator -> Status]
      /\ \A d \in Creator : d # c => pc'[d] = pc[d]
      /\ pc'[c] \notin {"start", "allocate"}
      /\ next' = next /\ used' = used
  BY DEF Failing, VerifyFails, RollbackFails, CleanupFails, Go, TypeOK, Status
<1>2. tx[c].tries \in Nat BY DEF TypeOK, Transaction
<1>3. CASE VerifyFails(c)
  <2>1. tx' = Rejected(c) BY <1>3 DEF VerifyFails, Rejected
  <2>2. tx \in [Creator -> Transaction] BY DEF TypeOK
  <2> QED BY <1>1, <1>2, <1>3, <2>1, <2>2, RejectEffect DEF LocalEffect, OnlyOf
<1>4. CASE ~VerifyFails(c) /\ RollbackFails(c)
  <2>1. Reported(c) BY <1>4 DEF RollbackFails, RollbackReported
  <2>2. tx \in [Creator -> Transaction] BY DEF TypeOK
  <2> QED BY <1>1, <1>2, <1>4, <2>1, <2>2, ReportEffect DEF LocalEffect, OnlyOf
<1>5. CASE ~VerifyFails(c) /\ CleanupFails(c)
  <2>1. tx' = Retried(c) BY <1>5 DEF CleanupFails, Retried
  <2>2. tx \in [Creator -> Transaction] BY DEF TypeOK
  <2> QED BY <1>1, <1>2, <1>5, <2>1, <2>2, RetryEffect DEF LocalEffect, OnlyOf
<1> QED BY <1>3, <1>4, <1>5 DEF Failing

(* A step that claims a name or spends an attempt. *)
LEMMA AllocatingEffect ==
  ASSUME CreatorAssumption, TypeOK, NEW c \in Creator, Allocating(c)
  PROVE  /\ LocalEffect(c) /\ used' = used
         /\ tx'[c].reported = tx[c].reported /\ tx'[c].result = tx[c].result
         /\ Allocate(c) => /\ tx'[c].temp = next[ProcessOf[c]] /\ tx'[c].owns_path
                           /\ tx'[c].tries = tx[c].tries
         /\ AllocateAgain(c) => /\ tx'[c].temp = tx[c].temp
                                /\ tx'[c].owns_path = tx[c].owns_path
                                /\ tx'[c].tries = tx[c].tries + 1
<1>1. /\ pc' \in [Creator -> Status]
      /\ \A d \in Creator : d # c => pc'[d] = pc[d]
      /\ pc[c] = "allocate" /\ used' = used
      /\ Allocate(c) => pc'[c] = "write"
      /\ AllocateAgain(c) => pc'[c] = "allocate"
  BY DEF Allocating, Allocate, AllocateAgain, Go, TypeOK, Status
<1>2. tx[c].tries \in Nat /\ tx \in [Creator -> Transaction] BY DEF TypeOK, Transaction
<1>3. next[ProcessOf[c]] \in Name BY DEF TypeOK, CreatorAssumption
<1>4. CASE Allocate(c)
  <2>1. tx' = Owned(c, next[ProcessOf[c]]) BY <1>4 DEF Allocate
  <2>2. ~AllocateAgain(c) BY <1>4 DEF Allocate, AllocateAgain
  <2> QED BY <1>1, <1>2, <1>3, <1>4, <2>1, <2>2, OwnedEffect DEF LocalEffect, OnlyOf
<1>5. CASE AllocateAgain(c)
  <2>1. tx' = Counted(c) /\ tx[c].tries < Attempts BY <1>5 DEF AllocateAgain, Counted
  <2>2. ~Allocate(c) BY <1>5 DEF Allocate, AllocateAgain
  <2> QED BY <1>1, <1>2, <1>5, <2>1, <2>2, TriesEffect DEF LocalEffect, OnlyOf, CreatorAssumption
<1> QED BY <1>4, <1>5 DEF Allocating

(* Every step of a call touches only its own locals. *)
LEMMA StepIsLocal ==
  ASSUME CreatorAssumption, TypeOK, NEW c \in Creator, Create(c) \/ Recover(c)
  PROVE  LocalEffect(c) /\ used' = used
  BY StepKinds, MovingEffect, DecidingEffect, ReleasingEffect, FailingEffect, AllocatingEffect

-----------------------------------------------------------------------------
(***************************************************************************)
(* Types                                                                   *)
(***************************************************************************)

(* Before any call everything has its type and no number is drawn. *)
LEMMA InitType ==
  ASSUME CreatorAssumption, Init
  PROVE  TypeOK /\ NumbersBounded
<1>1. Cardinality(Creator) \in Nat BY FS_CardinalityType DEF CreatorAssumption
<1>2. Attempts * Cardinality(Creator) \in Nat BY <1>1 DEF CreatorAssumption
<1>3. 0 \in Name BY <1>2 DEF Name
<1>4. [temp |-> 0, owns_path |-> FALSE, tries |-> 0, retried |-> FALSE, reported |-> FALSE,
       result |-> "none"] \in Transaction
  BY <1>3 DEF Transaction, Result, CreatorAssumption
<1>5. TypeOK
  <2>1. tx \in [Creator -> Transaction] BY <1>4 DEF Init
  <2> QED BY <1>3, <2>1 DEF Init, TypeOK, Status, CreatorAssumption
<1>6. Spent \subseteq Creator \X (1..Attempts) BY DEF Spent
<1>7. Cardinality(Spent) \in Nat BY <1>6, AttemptsBounded
<1>8. NumbersBounded BY <1>7 DEF NumbersBounded, Init
<1> QED BY <1>5, <1>8

(* A step of a call keeps the numbers within the names. *)
LEMMA StepNumbers ==
  ASSUME CreatorAssumption, TypeOK, NumbersBounded, NEW c \in Creator, Create(c) \/ Recover(c)
  PROVE  NumbersBounded' /\ next' \in [Process -> Name]
<1>1. LocalEffect(c) BY StepIsLocal
<1>2. \A d \in Creator : tx[d].tries \in Nat BY DEF TypeOK, Transaction
<1>3. Spent \subseteq Spent'
  BY <1>1, <1>2, SpentGrows DEF LocalEffect, OnlyOf, CreatorAssumption
<1>4. CASE next' = next BY <1>3, <1>4, NoNumberDrawn
<1>5. CASE Allocate(c) \/ AllocateAgain(c) \/ (AllocateFails(c) /\ next' # next)
  <2> DEFINE a == <<c, tx[c].tries + 1>>
  <2>1. pc[c] = "allocate" /\ tx[c].tries < Attempts
    BY <1>5 DEF Allocate, AllocateAgain, AllocateFails, Go
  <2>2. tx[c].tries + 1 \in 1..Attempts BY <1>2, <2>1 DEF CreatorAssumption
  <2>3. a \notin Spent BY <1>2, <2>1 DEF Spent
  <2>4. tx'[c].tries = tx[c].tries + 1
          \/ (tx'[c].tries = tx[c].tries /\ pc'[c] \notin {"start", "allocate"})
    <3>1. CASE AllocateFails(c)
      BY <3>1, DecidingEffect DEF Deciding
    <3>2. CASE AllocateAgain(c)
      BY <3>2, AllocatingEffect DEF Allocating
    <3>3. CASE Allocate(c)
      <4>1. pc'[c] = "write" BY <3>3 DEF Allocate, Go, TypeOK
      <4> QED BY <3>3, <4>1, AllocatingEffect DEF Allocating
    <3> QED BY <1>5, <3>1, <3>2, <3>3
  <2>5. a \in Spent' BY <1>2, <2>2, <2>4 DEF Spent
  <2>6. \A p \in Process : next[p] \in Nat BY DEF TypeOK, Name
  <2>7. next' \in [Process -> Nat] /\ \A p \in Process : next'[p] <= next[p] + 1
    BY <1>5, <2>6 DEF Allocate, AllocateAgain, AllocateFails, TypeOK, CreatorAssumption
  <2> HIDE DEF a
  <2> QED BY <1>3, <2>3, <2>5, <2>7, OneNumberDrawn
<1>6. Moving(c) \/ Releasing(c) \/ Failing(c) => next' = next
  BY MovingEffect, ReleasingEffect, FailingEffect
<1>7. Deciding(c) /\ ~AllocateFails(c) => next' = next
  BY DEF Deciding, DestinationPresent, AllocateExhausted, WriteFails,
     LinkCollides, LinkFails, UnlinkFails, SyncFails, Refresh, RefreshFails
<1> QED BY <1>4, <1>5, <1>6, <1>7, StepKinds DEF Allocating

(* A step of a call keeps every type. *)
LEMMA StepType ==
  ASSUME CreatorAssumption, TypeOK, NumbersBounded, NEW c \in Creator, Create(c) \/ Recover(c)
  PROVE  TypeOK' /\ NumbersBounded'
<1>1. LocalEffect(c) /\ used' = used BY StepIsLocal
<1>2. NumbersBounded' /\ next' \in [Process -> Name] BY StepNumbers
<1>3. tx[c].temp \in Name BY DEF TypeOK, Transaction
<1>4. dest' \in File \cup {Free} /\ recoverable' \in SUBSET (File \cup {Free})
  BY <1>3 DEF TypeOK, Create, Recover, DestinationAbsent, DestinationPresent, Allocate,
     AllocateAgain, AllocateExhausted, AllocateFails, WriteSynced, WriteFails, Verify,
     VerifyFails, Link, LinkCollides, LinkFails, Unlink, UnlinkFails, Sync, Synced, SyncFails,
     Refresh, RefreshFails, RollbackOwns, RollbackPreserves, RollbackRemove, RollbackSync,
     RollbackFails, CleanupNothing, CleanupOwns, CleanupRemove, CleanupFails
<1>5. names' \in [Name -> File \cup {Free}]
  BY <1>3 DEF TypeOK, File, Create, Recover, DestinationAbsent, DestinationPresent, Allocate,
     AllocateAgain, AllocateExhausted, AllocateFails, WriteSynced, WriteFails, Verify,
     VerifyFails, Link, LinkCollides, LinkFails, Unlink, UnlinkFails, Sync, SyncFails,
     Refresh, RefreshFails, RollbackOwns, RollbackPreserves, RollbackRemove, RollbackSync,
     RollbackFails, CleanupNothing, CleanupOwns, CleanupRemove, CleanupFails
<1>6. complete' \in SUBSET Creator
  BY DEF TypeOK, Create, Recover, DestinationAbsent, DestinationPresent, Allocate,
     AllocateAgain, AllocateExhausted, AllocateFails, WriteSynced, Written, WriteFails, Verify,
     VerifyFails, Link, LinkCollides, LinkFails, Unlink, UnlinkFails, Sync, SyncFails,
     Refresh, RefreshFails, RollbackOwns, RollbackPreserves, RollbackRemove, RollbackSync,
     RollbackFails, CleanupNothing, CleanupOwns, CleanupRemove, CleanupFails
<1>7. faults' \in 0..MaxFaults
  <2>1. faults' = faults \/ (faults < MaxFaults /\ faults' = faults + 1)
    BY DEF Fault, Create, Recover, DestinationAbsent, DestinationPresent, Allocate,
     AllocateAgain, AllocateExhausted, AllocateFails, WriteSynced, WriteFails, Verify,
     VerifyFails, Link, LinkCollides, LinkFails, Unlink, UnlinkFails, Sync, SyncFails,
     Refresh, RefreshFails, RollbackOwns, RollbackPreserves, RollbackRemove, RollbackSync,
     RollbackFails, CleanupNothing, CleanupOwns, CleanupRemove, CleanupFails
  <2> QED BY <2>1 DEF TypeOK, CreatorAssumption
<1>8. pc'[c] \in {"write", "verify", "link", "unlink"} => tx'[c].owns_path
  <2>1. CASE Moving(c)
    BY <2>1, MovingEffect DEF Moving, DestinationAbsent, WriteSynced, Verify, Link, Sync,
       RollbackOwns, RollbackPreserves, RollbackRemove, RollbackSync, CleanupOwns, Go, TypeOK
  <2>2. CASE Deciding(c)
    BY <2>2 DEF Deciding, DestinationPresent, AllocateExhausted, AllocateFails,
       WriteFails, LinkCollides, LinkFails, UnlinkFails, SyncFails, Refresh, RefreshFails,
       Go, TypeOK
  <2>3. CASE Releasing(c)
    BY <2>3 DEF Releasing, Unlink, CleanupNothing, CleanupRemove, Go, TypeOK
  <2>4. CASE Allocating(c)
    BY <2>4, AllocatingEffect DEF Allocating, AllocateAgain, Go, TypeOK
  <2>5. CASE Failing(c)
    BY <2>5 DEF Failing, VerifyFails, RollbackFails, CleanupFails, Go, TypeOK
  <2> QED BY <2>1, <2>2, <2>3, <2>4, <2>5, StepKinds
<1>9. \A d \in Creator : pc'[d] \in {"write", "verify", "link", "unlink"} => tx'[d].owns_path
  BY <1>1, <1>8 DEF LocalEffect, OnlyOf, TypeOK
<1> QED BY <1>1, <1>2, <1>4, <1>5, <1>6, <1>7, <1>9 DEF TypeOK, LocalEffect

(* So do other programs, crashes and power losses. *)
LEMMA SurroundingsType ==
  ASSUME CreatorAssumption, TypeOK, NumbersBounded,
         \/ \E f \in Foreign : Replace(f) \/ \E n \in Name : ReplaceTemporary(f, n)
         \/ \E p \in Process : Crash(p)
         \/ PowerLoss
  PROVE  TypeOK' /\ NumbersBounded'
<1>1. tx' = tx /\ next' = next BY DEF Replace, ReplaceTemporary, Crash, PowerLoss
<1>2. /\ pc' \in [Creator -> Status]
      /\ \A d \in Creator : pc'[d] = pc[d] \/ pc'[d] = "crashed"
  BY DEF Replace, ReplaceTemporary, Crash, PowerLoss, TypeOK, Status
<1>3. \A d \in Creator : tx[d].tries \in Nat BY DEF TypeOK, Transaction
<1>4. Spent \subseteq Spent' BY <1>1, <1>2, <1>3, SpentGrows DEF TypeOK, CreatorAssumption
<1>5. NumbersBounded' /\ next' \in [Process -> Name] BY <1>1, <1>4, NoNumberDrawn
<1>6. /\ dest' \in File \cup {Free} /\ recoverable' \in SUBSET (File \cup {Free})
      /\ names' \in [Name -> File \cup {Free}] /\ complete' \in SUBSET Creator
      /\ used' \in SUBSET Foreign
  BY DEF Replace, ReplaceTemporary, Crash, PowerLoss, TypeOK, File
<1>7. faults' = faults \/ (faults < MaxFaults /\ faults' = faults + 1)
  BY DEF Replace, ReplaceTemporary, Crash, PowerLoss, Fault
<1>8. faults' \in 0..MaxFaults BY <1>7 DEF TypeOK, CreatorAssumption
<1> QED BY <1>1, <1>2, <1>5, <1>6, <1>8 DEF TypeOK

-----------------------------------------------------------------------------
(***************************************************************************)
(* Temporary names                                                         *)
(***************************************************************************)

(* What the steps of a call do to the temporary names: nothing, or claim a *)
(* free one, or free the one the call holds.                               *)
LEMMA NamesEffect ==
  ASSUME CreatorAssumption, TypeOK, NEW c \in Creator, Create(c) \/ Recover(c)
  PROVE  \/ Allocate(c)
         \/ (Unlink(c) \/ CleanupRemove(c)) /\ names' = [names EXCEPT ![tx[c].temp] = Free]
         \/ /\ names' = names /\ tx'[c].temp = tx[c].temp
            /\ \/ tx'[c].owns_path = tx[c].owns_path
               \/ ~tx'[c].owns_path /\ ~(tx[c].owns_path /\ names[tx[c].temp] = c)
<1>1. CASE Moving(c)
  BY <1>1, MovingEffect DEF Moving, DestinationAbsent, WriteSynced, Verify, Link, Sync,
     RollbackOwns, RollbackPreserves, RollbackRemove, RollbackSync, CleanupOwns
<1>2. CASE Deciding(c)
  BY <1>2, DecidingEffect DEF Deciding, DestinationPresent, AllocateExhausted, AllocateFails,
     WriteFails, LinkCollides, LinkFails, UnlinkFails, SyncFails, Refresh, RefreshFails
<1>3. CASE Releasing(c)
  BY <1>3, ReleasingEffect DEF Releasing, Unlink, CleanupNothing, CleanupRemove, OwnsPath
<1>4. CASE Allocating(c)
  BY <1>4, AllocatingEffect DEF Allocating, AllocateAgain
<1>5. CASE VerifyFails(c)
  <2>1. tx'[c].temp = tx[c].temp /\ ~tx'[c].owns_path BY <1>5, FailingEffect DEF Failing
  <2> QED BY <1>5, <2>1 DEF VerifyFails, OwnsPath
<1>6. CASE Failing(c) /\ ~VerifyFails(c)
  <2>1. tx'[c].temp = tx[c].temp /\ tx'[c].owns_path = tx[c].owns_path
    BY <1>6, FailingEffect
  <2>2. names' = names BY <1>6 DEF Failing, RollbackFails, CleanupFails
  <2> QED BY <2>1, <2>2
<1> QED BY <1>1, <1>2, <1>3, <1>4, <1>5, <1>6, StepKinds DEF Failing

(* The part of NamesOwned that is about one call alone. *)
OwnsInPlace(c) ==
  /\ pc[c] \in {"start", "allocate", "sync", "refresh"} => ~tx[c].owns_path
  /\ pc[c] = "cleanup_remove" => tx[c].owns_path
  /\ pc[c] = "done" => ~tx[c].owns_path \/ tx[c].reported

(* A call holds its name exactly where it should, at each of its steps. *)
LEMMA StepOwnsInPlace ==
  ASSUME CreatorAssumption, TypeOK, NEW c \in Creator, OwnsInPlace(c), Create(c) \/ Recover(c)
  PROVE  OwnsInPlace(c)'
<1>1. CASE Moving(c)
  BY <1>1, MovingEffect DEF Moving, DestinationAbsent, WriteSynced, Verify, Link, Sync,
     RollbackOwns, RollbackPreserves, RollbackRemove, RollbackSync, CleanupOwns, Go, TypeOK,
     OwnsInPlace
<1>2. CASE Deciding(c)
  <2>1. pc'[c] = "done" => pc[c] \in {"start", "allocate", "refresh"}
    BY <1>2 DEF Deciding, DestinationPresent, AllocateExhausted, AllocateFails,
       WriteFails, LinkCollides, LinkFails, UnlinkFails, SyncFails, Refresh, RefreshFails,
       Go, TypeOK
  <2>2. pc'[c] \in {"done", "cleanup", "rollback"}
    BY <1>2 DEF Deciding, DestinationPresent, AllocateExhausted, AllocateFails,
       WriteFails, LinkCollides, LinkFails, UnlinkFails, SyncFails, Refresh, RefreshFails,
       Go, TypeOK
  <2> QED BY <1>2, <2>1, <2>2, DecidingEffect DEF OwnsInPlace
<1>3. CASE Releasing(c)
  <2>1. pc'[c] \in {"sync", "done"}
    BY <1>3 DEF Releasing, Unlink, CleanupNothing, CleanupRemove, Go, TypeOK
  <2> QED BY <1>3, <2>1, ReleasingEffect DEF OwnsInPlace
<1>4. CASE Allocating(c)
  <2>1. /\ Allocate(c) => pc'[c] = "write"
        /\ AllocateAgain(c) => pc[c] = "allocate" /\ pc'[c] = "allocate"
    BY DEF Allocate, AllocateAgain, Go, TypeOK
  <2> QED BY <1>4, <2>1, AllocatingEffect DEF OwnsInPlace, Allocating
<1>5. CASE Failing(c)
  <2>1. /\ VerifyFails(c) => pc'[c] = "cleanup"
        /\ pc'[c] \in {"cleanup", "done"}
    BY <1>5 DEF Failing, VerifyFails, RollbackFails, CleanupFails, Go, TypeOK
  <2> QED BY <1>5, <2>1, FailingEffect DEF OwnsInPlace
<1> QED BY <1>1, <1>2, <1>3, <1>4, <1>5, StepKinds

(* No step of a call takes a name from another or leaves its file behind   *)
(* under a name nobody holds.                                              *)
LEMMA StepNames ==
  ASSUME CreatorAssumption, TypeOK, NamesOwned, TemporariesDisjoint, TypeOK',
         NEW c \in Creator, Create(c) \/ Recover(c)
  PROVE  NamesOwned' /\ TemporariesDisjoint'
<1>1. LocalEffect(c) /\ used' = used BY StepIsLocal
<1>2. \A d \in Creator \ {c} : pc'[d] = pc[d] /\ tx'[d] = tx[d]
  BY <1>1 DEF LocalEffect, OnlyOf
<1>3. OwnsInPlace(c)' BY StepOwnsInPlace DEF NamesOwned, OwnsInPlace
<1>4. \A d \in Creator : OwnsInPlace(d)' BY <1>2, <1>3 DEF NamesOwned, OwnsInPlace
<1>5. pc[c] # "crashed" /\ pc'[c] # "crashed"
  BY DEF TypeOK, Create, Recover, DestinationAbsent, DestinationPresent, Allocate,
     AllocateAgain, AllocateExhausted, AllocateFails, WriteSynced, WriteFails, Verify,
     VerifyFails, Link, LinkCollides, LinkFails, Unlink, UnlinkFails, Sync, SyncFails,
     Refresh, RefreshFails, RollbackOwns, RollbackPreserves, RollbackRemove, RollbackSync,
     RollbackFails, CleanupNothing, CleanupOwns, CleanupRemove, CleanupFails, Go
<1>6. \A d \in Creator : d # Free /\ d \notin used /\ tx[d].temp \in Name
  BY DEF TypeOK, CreatorAssumption, Transaction
<1>7. Free \notin used BY DEF TypeOK, CreatorAssumption
<1> DEFINE Held(d) == /\ \A n \in Name : names[n] = d => tx[d].owns_path /\ tx[d].temp = n
                      /\ Owning(d) => names[tx[d].temp] \in {d} \cup used
<1> DEFINE Apart(d, e) == Owning(d) /\ Owning(e) => tx[d].temp # tx[e].temp
<1>8. \A d \in Creator : Held(d) BY DEF NamesOwned, TemporariesDisjoint, Owning
<1>9. \A d, e \in Creator : d # e => Apart(d, e) BY DEF NamesOwned
<1>10. SUFFICES /\ \A d \in Creator : Held(d)'
                /\ \A d \in Creator \ {c} : Apart(c, d)'
  <2>1. \A d, e \in Creator \ {c} : d # e => Apart(d, e)'
    BY <1>2, <1>9 DEF Owning
  <2>2. \A d, e \in Creator : d # e => Apart(d, e)' BY <1>10, <2>1
  <2> QED BY <1>4, <1>10, <2>2 DEF NamesOwned, TemporariesDisjoint, Owning, OwnsInPlace
<1>11. CASE Allocate(c)
  <2> DEFINE n == next[ProcessOf[c]]
  <2>1. n \in Name /\ names[n] = Free /\ names' = [names EXCEPT ![n] = c]
    BY <1>11 DEF Allocate, ClaimName, TypeOK, CreatorAssumption
  <2>2. tx'[c].temp = n /\ tx'[c].owns_path BY <1>11, AllocatingEffect DEF Allocating
  <2>3. ~tx[c].owns_path BY <1>11 DEF Allocate, Go, NamesOwned
  <2>4. \A m \in Name : names'[m] = IF m = n THEN c ELSE names[m] BY <2>1 DEF TypeOK
  <2> HIDE DEF n
  <2>5. \A d \in Creator : Owning(d) => tx[d].temp # n
    BY <1>6, <1>7, <1>8, <2>1
  <2>6. Held(c)' BY <1>8, <2>1, <2>2, <2>3, <2>4
  <2>7. \A d \in Creator \ {c} : Held(d)' BY <1>1, <1>2, <1>6, <1>8, <2>4, <2>5 DEF Owning
  <2>8. \A d \in Creator \ {c} : Apart(c, d)' BY <1>2, <2>2, <2>5 DEF Owning
  <2> QED BY <2>6, <2>7, <2>8
<1>12. CASE (Unlink(c) \/ CleanupRemove(c)) /\ names' = [names EXCEPT ![tx[c].temp] = Free]
  <2>1. ~tx'[c].owns_path BY <1>12, ReleasingEffect DEF Releasing
  <2>2. Owning(c)
    BY <1>12 DEF Unlink, CleanupRemove, Go, NamesOwned, TypeOK, Owning
  <2>3. \A m \in Name : names'[m] = IF m = tx[c].temp THEN Free ELSE names[m]
    BY <1>12 DEF TypeOK
  <2>4. Held(c)' BY <1>6, <1>8, <2>1, <2>3 DEF Owning
  <2>5. \A d \in Creator \ {c} : Held(d)'
    BY <1>1, <1>2, <1>6, <1>8, <1>9, <2>2, <2>3 DEF Owning
  <2>6. \A d \in Creator \ {c} : Apart(c, d)' BY <2>1 DEF Owning
  <2> QED BY <2>4, <2>5, <2>6
<1>13. CASE /\ names' = names /\ tx'[c].temp = tx[c].temp
            /\ \/ tx'[c].owns_path = tx[c].owns_path
               \/ ~tx'[c].owns_path /\ ~(tx[c].owns_path /\ names[tx[c].temp] = c)
  <2>1. Held(c)' BY <1>1, <1>5, <1>8, <1>13 DEF Owning
  <2>2. \A d \in Creator \ {c} : Held(d)' BY <1>1, <1>2, <1>8, <1>13 DEF Owning
  <2>3. \A d \in Creator \ {c} : Apart(c, d)' BY <1>2, <1>5, <1>9, <1>13 DEF Owning
  <2> QED BY <2>1, <2>2, <2>3
<1> QED BY <1>11, <1>12, <1>13, NamesEffect

(* Other programs only put files of theirs in place, and whoever dies      *)
(* holds nothing any more.                                                 *)
LEMMA SurroundingsNames ==
  ASSUME CreatorAssumption, TypeOK, NamesOwned, TemporariesDisjoint,
         \/ \E f \in Foreign : Replace(f) \/ \E n \in Name : ReplaceTemporary(f, n)
         \/ \E p \in Process : Crash(p)
         \/ PowerLoss
  PROVE  NamesOwned' /\ TemporariesDisjoint'
<1>1. tx' = tx /\ used \subseteq used' BY DEF Replace, ReplaceTemporary, Crash, PowerLoss
<1>2. \A d \in Creator : pc'[d] = pc[d] \/ pc'[d] = "crashed"
  BY DEF Replace, ReplaceTemporary, Crash, PowerLoss
<1>3. \A n \in Name : names'[n] = names[n] \/ names'[n] \in used'
  BY DEF Replace, ReplaceTemporary, Crash, PowerLoss, TypeOK
<1>4. used' \subseteq Foreign /\ used' \cap Creator = {}
  BY DEF Replace, ReplaceTemporary, Crash, PowerLoss, TypeOK, CreatorAssumption
<1>5. \A d \in Creator : tx[d].temp \in Name BY DEF TypeOK, Transaction
<1>6. TemporariesDisjoint' BY <1>1, <1>2, <1>3, <1>5 DEF TemporariesDisjoint
<1>7. NamesOwned' BY <1>1, <1>2, <1>3, <1>4 DEF NamesOwned, Owning
<1> QED BY <1>6, <1>7

-----------------------------------------------------------------------------
(***************************************************************************)
(* The destination                                                         *)
(***************************************************************************)

(* What the steps of a call do to the destination. *)
LEMMA DestinationEffect ==
  ASSUME NEW c \in Creator, Create(c) \/ Recover(c)
  PROVE  \/ Link(c)
         \/ RollbackRemove(c)
         \/ (Sync(c) \/ RollbackSync(c)) /\ dest' = dest /\ recoverable' = {dest}
         \/ dest' = dest /\ recoverable' = recoverable
  BY DEF Create, Recover, DestinationAbsent, DestinationPresent, Allocate,
     AllocateAgain, AllocateExhausted, AllocateFails, WriteSynced, WriteFails, Verify,
     VerifyFails, LinkCollides, LinkFails, Unlink, UnlinkFails, Sync, Synced, SyncFails,
     Refresh, RefreshFails, RollbackOwns, RollbackPreserves, RollbackSync,
     RollbackFails, CleanupNothing, CleanupOwns, CleanupRemove, CleanupFails

(* What a call links is its own file, or one another program put there. *)
LEMMA LinkedFile ==
  ASSUME TypeOK, TemporariesDisjoint, NEW c \in Creator, Link(c)
  PROVE  /\ names[tx[c].temp] \in {c} \cup used
         /\ dest = Free /\ dest' = names[tx[c].temp]
         /\ recoverable' = recoverable \cup {names[tx[c].temp]}
         /\ pc[c] = "link" /\ pc'[c] = "unlink"
<1>1. pc[c] = "link" /\ pc'[c] = "unlink" BY DEF Link, Go, TypeOK
<1>2. tx[c].owns_path BY <1>1 DEF TypeOK
<1> QED BY <1>1, <1>2 DEF Link, LinkClaims, TemporariesDisjoint

(* Only a synced file is linked. *)
LEMMA StepSynced ==
  ASSUME CreatorAssumption, TypeOK, TemporariesDisjoint, LinkedAfterSync, OnlyComplete,
         NEW c \in Creator, Create(c) \/ Recover(c)
  PROVE  LinkedAfterSync' /\ OnlyComplete'
<1>1. LocalEffect(c) BY StepIsLocal
<1>2. complete \subseteq complete' /\ (WriteSynced(c) => c \in complete')
  BY DEF Create, Recover, DestinationAbsent, DestinationPresent, Allocate,
     AllocateAgain, AllocateExhausted, AllocateFails, WriteSynced, Written, WriteFails, Verify,
     VerifyFails, Link, LinkCollides, LinkFails, Unlink, UnlinkFails, Sync, SyncFails,
     Refresh, RefreshFails, RollbackOwns, RollbackPreserves, RollbackRemove, RollbackSync,
     RollbackFails, CleanupNothing, CleanupOwns, CleanupRemove, CleanupFails
<1>3. pc'[c] \in {"verify", "link", "unlink", "sync", "refresh"} =>
        WriteSynced(c) \/ pc[c] \in {"verify", "link", "unlink", "sync", "refresh"}
  BY DEF TypeOK, Create, Recover, DestinationAbsent, DestinationPresent, Allocate,
     AllocateAgain, AllocateExhausted, AllocateFails, WriteFails, Verify,
     VerifyFails, Link, LinkCollides, LinkFails, Unlink, UnlinkFails, Sync, SyncFails,
     Refresh, RefreshFails, RollbackOwns, RollbackPreserves, RollbackRemove, RollbackSync,
     RollbackFails, CleanupNothing, CleanupOwns, CleanupRemove, CleanupFails, Go
<1>4. LinkedAfterSync' BY <1>1, <1>2, <1>3 DEF LinkedAfterSync, LocalEffect, OnlyOf
<1>5. OnlyComplete'
  <2>1. CASE Link(c)
    <3>1. names[tx[c].temp] \in {c} \cup used /\ pc[c] = "link" BY <2>1, LinkedFile
    <3>2. c \in complete BY <3>1 DEF LinkedAfterSync
    <3>3. used \cap Creator = {} BY DEF TypeOK, CreatorAssumption
    <3> QED BY <1>2, <2>1, <3>1, <3>2, <3>3, LinkedFile DEF OnlyComplete
  <2>2. CASE RollbackRemove(c)
    BY <1>2, <2>2 DEF RollbackRemove, OnlyComplete, CreatorAssumption
  <2>3. CASE dest' = dest /\ recoverable' \in {{dest}, recoverable}
    BY <1>2, <2>3 DEF OnlyComplete
  <2> QED BY <2>1, <2>2, <2>3, DestinationEffect
<1> QED BY <1>4, <1>5

(* Only a call that has returned can have succeeded. *)
CreatedIsDone == \A c \in Creator : tx[c].result = "created" => pc[c] = "done"

(* A create succeeds with its last step. *)
LEMMA StepCreated ==
  ASSUME CreatorAssumption, TypeOK, CreatedIsDone, NEW c \in Creator, Create(c) \/ Recover(c)
  PROVE  CreatedIsDone'
<1>1. LocalEffect(c) BY StepIsLocal
<1>2. pc[c] # "done"
  BY DEF Create, Recover, DestinationAbsent, DestinationPresent, Allocate,
     AllocateAgain, AllocateExhausted, AllocateFails, WriteSynced, WriteFails, Verify,
     VerifyFails, Link, LinkCollides, LinkFails, Unlink, UnlinkFails, Sync, SyncFails,
     Refresh, RefreshFails, RollbackOwns, RollbackPreserves, RollbackRemove, RollbackSync,
     RollbackFails, CleanupNothing, CleanupOwns, CleanupRemove, CleanupFails, Go
<1>3. tx[c].result # "created" BY <1>2 DEF CreatedIsDone
<1>4. CASE Moving(c) \/ Releasing(c) \/ Allocating(c) \/ Failing(c)
  <2>1. tx'[c].result # "created"
    BY <1>3, <1>4, MovingEffect, ReleasingEffect, AllocatingEffect, FailingEffect
  <2> QED BY <1>1, <2>1 DEF CreatedIsDone, LocalEffect, OnlyOf
<1>5. CASE Deciding(c)
  <2>1. CASE Refresh(c)
    <3>1. pc'[c] = "done" BY <2>1 DEF Refresh, Go, TypeOK
    <3> QED BY <1>1, <3>1 DEF CreatedIsDone, LocalEffect, OnlyOf
  <2>2. CASE ~Refresh(c)
    <3>1. PICK r \in Result \ {"created"} : Decide(c, r)
      BY <1>5, <2>2 DEF Deciding, DestinationPresent, AllocateExhausted, AllocateFails,
         WriteFails, LinkCollides, LinkFails, UnlinkFails, SyncFails, RefreshFails, Result
    <3>2. tx'[c].result # "created" BY <3>1, DecideEffect DEF TypeOK
    <3> QED BY <1>1, <3>2 DEF CreatedIsDone, LocalEffect, OnlyOf
  <2> QED BY <2>1, <2>2
<1> QED BY <1>4, <1>5, StepKinds

(* The part of DestinationOwned that is about one call. *)
Standing(c) ==
  /\ Published(c) => dest = c
  /\ pc[c] = "refresh" \/ tx[c].result = "created" => recoverable = {c}
  /\ pc[c] = "rollback_sync" => dest # c
  /\ Unpublished(c) /\ ~tx[c].reported => dest # c /\ c \notin recoverable

(* What a step of c does to the standing of the other calls. *)
LEMMA StepOthersStanding ==
  ASSUME CreatorAssumption, TypeOK, TemporariesDisjoint, used = {}, DestinationOwned,
         NEW c \in Creator, Create(c) \/ Recover(c), NEW d \in Creator, d # c
  PROVE  Standing(d)'
<1>1. pc'[d] = pc[d] /\ tx'[d] = tx[d] BY StepIsLocal DEF LocalEffect, OnlyOf
<1>2. Standing(d) BY DEF DestinationOwned, Standing
<1>3. Published(d)' <=> Published(d) BY <1>1 DEF Published
<1>4. Unpublished(d)' <=> Unpublished(d) BY <1>1 DEF Unpublished
<1>5. pc[d] = "refresh" \/ tx[d].result = "created" => Published(d) BY DEF Published
<1>6. d # Free BY DEF CreatorAssumption
<1>7. CASE Link(c)
  <2>1. dest = Free /\ dest' = c /\ recoverable' = recoverable \cup {c}
    BY <1>7, LinkedFile
  <2>2. ~Published(d) BY <1>2, <1>6, <2>1 DEF Standing
  <2> QED BY <1>1, <1>2, <1>3, <1>4, <1>5, <2>1, <2>2 DEF Standing
<1>8. CASE RollbackRemove(c)
  <2>1. Published(c) BY <1>8 DEF RollbackRemove, Go, Published
  <2>2. dest = c BY <2>1 DEF DestinationOwned
  <2>3. dest' = Free /\ recoverable' = recoverable \cup {Free} BY <1>8 DEF RollbackRemove
  <2> QED BY <1>1, <1>2, <1>3, <1>4, <1>5, <1>6, <2>2, <2>3 DEF Standing
<1>9. CASE dest' = dest /\ recoverable' \in {{dest}, recoverable}
  BY <1>1, <1>2, <1>3, <1>4, <1>5, <1>9 DEF Standing
<1> QED BY <1>7, <1>8, <1>9, DestinationEffect

(* A step on the way to or from a publication that did not happen. *)
LEMMA StaysUnpublished ==
  ASSUME NEW c \in Creator, Standing(c), Unpublished(c), pc[c] # "done",
         UNCHANGED <<dest, recoverable>>, tx'[c].result # "created",
         pc'[c] \in {"start", "allocate", "write", "verify", "link", "cleanup",
                     "cleanup_remove", "done"},
         tx[c].reported => tx'[c].reported
  PROVE  Standing(c)'
  BY DEF Standing, Published, Unpublished

(* Where a step of a call leads, when it touches no destination. *)
LEMMA StepOwnStanding ==
  ASSUME CreatorAssumption, TypeOK, TemporariesDisjoint, used = {}, DestinationOwned,
         CreatedIsDone, NEW c \in Creator, Create(c) \/ Recover(c)
  PROVE  Standing(c)'
<1>1. Standing(c) BY DEF DestinationOwned, Standing
<1>2. pc[c] # "done"
  BY DEF Create, Recover, DestinationAbsent, DestinationPresent, Allocate,
     AllocateAgain, AllocateExhausted, AllocateFails, WriteSynced, WriteFails, Verify,
     VerifyFails, Link, LinkCollides, LinkFails, Unlink, UnlinkFails, Sync, SyncFails,
     Refresh, RefreshFails, RollbackOwns, RollbackPreserves, RollbackRemove, RollbackSync,
     RollbackFails, CleanupNothing, CleanupOwns, CleanupRemove, CleanupFails, Go
<1>3. tx[c].result # "created" BY <1>2 DEF CreatedIsDone
<1>4. CreatedIsDone' BY StepCreated
<1>5. CASE Moving(c)
  <2>1. tx'[c] = tx[c] BY <1>5, MovingEffect
  <2>2. CASE DestinationAbsent(c) \/ WriteSynced(c) \/ Verify(c) \/ CleanupOwns(c)
    <3>1. /\ UNCHANGED <<dest, recoverable>>
          /\ pc[c] \in {"start", "write", "verify", "cleanup"}
          /\ pc'[c] \in {"allocate", "verify", "link", "cleanup_remove"}
      BY <2>2 DEF DestinationAbsent, WriteSynced, Verify, CleanupOwns, Go, TypeOK
    <3> QED BY <1>1, <1>3, <2>1, <3>1, StaysUnpublished DEF Unpublished
  <2>3. CASE Link(c)
    <3>1. dest' = c /\ pc'[c] = "unlink" BY <2>3, LinkedFile
    <3> QED BY <1>3, <2>1, <3>1 DEF Standing, Published, Unpublished
  <2>4. CASE Sync(c)
    <3>1. /\ dest' = dest /\ recoverable' = {dest} /\ pc[c] = "sync" /\ pc'[c] = "refresh"
      BY <2>4 DEF Sync, Synced, Go, TypeOK
    <3> QED BY <1>1, <1>3, <2>1, <3>1 DEF Standing, Published, Unpublished
  <2>5. CASE RollbackOwns(c)
    <3>1. dest' = dest /\ dest = c /\ pc'[c] = "rollback_remove"
      BY <2>5 DEF RollbackOwns, Go, TypeOK
    <3> QED BY <1>3, <2>1, <3>1 DEF Standing, Published, Unpublished
  <2>6. CASE RollbackPreserves(c)
    BY <1>1, <2>6 DEF RollbackPreserves, Go, Standing, Published
  <2>7. CASE RollbackRemove(c)
    <3>1. dest' = Free /\ pc'[c] = "rollback_sync" /\ c # Free
      BY <2>7 DEF RollbackRemove, Go, TypeOK, CreatorAssumption
    <3> QED BY <1>3, <2>1, <3>1 DEF Standing, Published, Unpublished
  <2>8. CASE RollbackSync(c)
    <3>1. /\ dest' = dest /\ recoverable' = {dest}
          /\ pc[c] = "rollback_sync" /\ pc'[c] = "cleanup"
      BY <2>8 DEF RollbackSync, Synced, Go, TypeOK
    <3> QED BY <1>1, <1>3, <2>1, <3>1 DEF Standing, Published, Unpublished
  <2> QED BY <1>5, <2>2, <2>3, <2>4, <2>5, <2>6, <2>7, <2>8 DEF Moving
<1>6. CASE Deciding(c)
  <2>1. tx'[c].reported = tx[c].reported BY <1>6, DecidingEffect
  <2>2. UNCHANGED <<dest, recoverable>>
    BY <1>6 DEF Deciding, DestinationPresent, AllocateExhausted, AllocateFails, WriteFails,
       LinkCollides, LinkFails, UnlinkFails, SyncFails, Refresh, RefreshFails
  <2>3. CASE UnlinkFails(c) \/ SyncFails(c)
    <3>1. pc[c] \in {"unlink", "sync"} /\ pc'[c] = "rollback"
      BY <2>3 DEF UnlinkFails, SyncFails, Go, TypeOK
    <3> QED BY <1>1, <1>4, <2>2, <3>1 DEF Standing, Published, Unpublished, CreatedIsDone
  <2>4. CASE Refresh(c) \/ RefreshFails(c)
    <3>1. pc[c] = "refresh" /\ pc'[c] = "done" BY <2>4 DEF Refresh, RefreshFails, Go, TypeOK
    <3>2. dest = c /\ recoverable = {c} BY <1>1, <3>1 DEF Standing, Published
    <3>3. PICK r \in {"created", "unopened"} : Decide(c, r)
      BY <2>4 DEF Refresh, RefreshFails
    <3>4. tx'[c].result = r BY <3>3, DecideEffect DEF TypeOK, Result
    <3> QED BY <2>2, <3>1, <3>2, <3>3, <3>4 DEF Standing, Published, Unpublished
  <2>5. CASE ~(UnlinkFails(c) \/ SyncFails(c) \/ Refresh(c) \/ RefreshFails(c))
    <3>1. PICK r \in Result \ {"created"} : Decide(c, r)
      BY <1>6, <2>5 DEF Deciding, DestinationPresent, AllocateExhausted, AllocateFails,
         WriteFails, LinkCollides, LinkFails, Result
    <3>2. tx'[c].result # "created" BY <3>1, DecideEffect DEF TypeOK
    <3>3. /\ pc[c] \in {"start", "allocate", "write", "verify", "link"}
          /\ pc'[c] \in {"done", "cleanup"}
      BY <1>6, <2>5 DEF Deciding, DestinationPresent, AllocateExhausted, AllocateFails,
         WriteFails, LinkCollides, LinkFails, Go, TypeOK
    <3> QED BY <1>1, <2>1, <2>2, <3>2, <3>3, StaysUnpublished DEF Unpublished
  <2> QED BY <2>3, <2>4, <2>5
<1>7. CASE Releasing(c)
  <2>1. tx'[c].reported = tx[c].reported /\ tx'[c].result = tx[c].result
    BY <1>7, ReleasingEffect
  <2>2. UNCHANGED <<dest, recoverable>>
    BY <1>7 DEF Releasing, Unlink, CleanupNothing, CleanupRemove
  <2>3. CASE Unlink(c)
    <3>1. pc[c] = "unlink" /\ pc'[c] = "sync" BY <2>3 DEF Unlink, Go, TypeOK
    <3> QED BY <1>1, <1>3, <2>1, <2>2, <3>1 DEF Standing, Published, Unpublished
  <2>4. CASE CleanupNothing(c) \/ CleanupRemove(c)
    <3>1. pc[c] \in {"cleanup", "cleanup_remove"} /\ pc'[c] = "done"
      BY <2>4 DEF CleanupNothing, CleanupRemove, Go, TypeOK
    <3> QED BY <1>1, <1>3, <2>1, <2>2, <3>1, StaysUnpublished DEF Unpublished
  <2> QED BY <1>7, <2>3, <2>4 DEF Releasing
<1>8. CASE Allocating(c)
  <2>1. tx'[c].reported = tx[c].reported /\ tx'[c].result = tx[c].result
    BY <1>8, AllocatingEffect
  <2>2. /\ UNCHANGED <<dest, recoverable>>
        /\ pc[c] = "allocate" /\ pc'[c] \in {"allocate", "write"}
    BY <1>8 DEF Allocating, Allocate, AllocateAgain, Go, TypeOK
  <2> QED BY <1>1, <1>3, <2>1, <2>2, StaysUnpublished DEF Unpublished
<1>9. CASE VerifyFails(c)
  <2>1. tx'[c].reported = tx[c].reported /\ tx'[c].result = "error"
    BY <1>9, FailingEffect DEF Failing
  <2>2. UNCHANGED <<dest, recoverable>> /\ pc[c] = "verify" /\ pc'[c] = "cleanup"
    BY <1>9 DEF VerifyFails, Go, TypeOK
  <2> QED BY <1>1, <2>1, <2>2, StaysUnpublished DEF Unpublished
<1>10. CASE ~VerifyFails(c) /\ Failing(c)
  <2>1. tx'[c].reported /\ tx'[c].result = tx[c].result BY <1>10, FailingEffect
  <2>2. pc'[c] \in {"cleanup", "done"}
    BY <1>10 DEF Failing, RollbackFails, CleanupFails, Go, TypeOK
  <2> QED BY <1>3, <2>1, <2>2 DEF Standing, Published, Unpublished
<1> QED BY <1>5, <1>6, <1>7, <1>8, <1>9, <1>10, StepKinds

(* Among creators alone, no step of a call disturbs what the destination   *)
(* owes to any call.                                                       *)
LEMMA StepDestination ==
  ASSUME CreatorAssumption, TypeOK, TemporariesDisjoint, CreatedIsDone,
         used = {} => DestinationOwned, NEW c \in Creator, Create(c) \/ Recover(c)
  PROVE  used' = {} => DestinationOwned'
<1> SUFFICES ASSUME used' = {} PROVE DestinationOwned'
  OBVIOUS
<1>1. used = {} BY StepIsLocal
<1>2. \A d \in Creator : Standing(d)' BY <1>1, StepOwnStanding, StepOthersStanding
<1> QED BY <1>2 DEF DestinationOwned, Standing

(* Crashes and power losses neither; what a power loss brings back was     *)
(* recoverable, and a call that lives through it has returned.             *)
LEMMA SurroundingsDestination ==
  ASSUME CreatorAssumption, TypeOK, LinkedAfterSync, OnlyComplete, CreatedIsDone,
         used = {} => DestinationOwned,
         \/ \E f \in Foreign : Replace(f) \/ \E n \in Name : ReplaceTemporary(f, n)
         \/ \E p \in Process : Crash(p)
         \/ PowerLoss
  PROVE  /\ LinkedAfterSync' /\ OnlyComplete' /\ CreatedIsDone'
         /\ used' = {} => DestinationOwned'
<1>1. tx' = tx /\ complete' = complete BY DEF Replace, ReplaceTemporary, Crash, PowerLoss
<1>2. \A d \in Creator : pc'[d] = pc[d] \/ (pc'[d] = "crashed" /\ pc[d] # "done")
  BY DEF Replace, ReplaceTemporary, Crash, PowerLoss, Stopped
<1>3. LinkedAfterSync' /\ CreatedIsDone' BY <1>1, <1>2 DEF LinkedAfterSync, CreatedIsDone
<1>4. OnlyComplete'
  BY <1>1 DEF Replace, ReplaceTemporary, Crash, PowerLoss, OnlyComplete, CreatorAssumption
<1>5. ASSUME used' = {} PROVE DestinationOwned'
  <2>1. ~\E f \in Foreign : Replace(f) \/ \E n \in Name : ReplaceTemporary(f, n)
    BY <1>5 DEF Replace, ReplaceTemporary
  <2>2. used = {} BY <1>5, <2>1 DEF Crash, PowerLoss
  <2>3. SUFFICES ASSUME NEW c \in Creator PROVE Standing(c)'
    BY DEF DestinationOwned, Standing
  <2>4. Standing(c) BY <2>2 DEF DestinationOwned, Standing
  <2>5. CASE UNCHANGED <<dest, recoverable>>
    BY <1>1, <1>2, <2>4, <2>5 DEF Standing, Published, Unpublished, CreatedIsDone
  <2>6. CASE PowerLoss
    <3>1. dest' \in recoverable /\ recoverable' = {dest'} BY <2>6 DEF PowerLoss
    <3>2. pc'[c] \in {"done", "crashed"} BY <2>6 DEF PowerLoss, Stopped
    <3> QED BY <1>1, <1>2, <2>4, <3>1, <3>2 DEF Standing, Published, Unpublished, CreatedIsDone
  <2> QED BY <2>1, <2>5, <2>6 DEF Crash
<1> QED BY <1>3, <1>4, <1>5

-----------------------------------------------------------------------------
(***************************************************************************)
(* Theorems                                                                *)
(***************************************************************************)

(* Before any call. *)
LEMMA InitInvariant ==
  ASSUME CreatorAssumption, Init
  PROVE  IInv
<1>1. TypeOK /\ NumbersBounded BY InitType
<1>2. \A c \in Creator : c # Free BY DEF CreatorAssumption
<1>3. \A c \in Creator : /\ pc[c] = "start" /\ ~tx[c].owns_path /\ tx[c].result = "none"
  BY DEF Init
<1>4. NamesOwned /\ TemporariesDisjoint
  BY <1>2, <1>3 DEF Init, NamesOwned, TemporariesDisjoint, Owning
<1>5. LinkedAfterSync /\ OnlyComplete
  BY <1>2, <1>3 DEF Init, LinkedAfterSync, OnlyComplete
<1>6. DestinationOwned
  BY <1>2, <1>3 DEF Init, DestinationOwned, Published, Unpublished
<1> QED BY <1>1, <1>3, <1>4, <1>5, <1>6 DEF IInv

(* Every step keeps the inductive invariant. *)
LEMMA NextInvariant ==
  ASSUME CreatorAssumption, IInv, [Next]_vars
  PROVE  IInv'
<1>1. CreatedIsDone BY DEF IInv, CreatedIsDone
<1>2. ASSUME NEW c \in Creator, Create(c) \/ Recover(c) PROVE IInv'
  <2>1. TypeOK' /\ NumbersBounded' BY <1>2, StepType DEF IInv
  <2>2. NamesOwned' /\ TemporariesDisjoint' BY <1>2, <2>1, StepNames DEF IInv
  <2>3. LinkedAfterSync' /\ OnlyComplete' BY <1>2, StepSynced DEF IInv
  <2>4. CreatedIsDone' BY <1>1, <1>2, StepCreated DEF IInv
  <2>5. used' = {} => DestinationOwned' BY <1>1, <1>2, StepDestination DEF IInv
  <2> QED BY <2>1, <2>2, <2>3, <2>4, <2>5 DEF IInv, CreatedIsDone
<1>3. ASSUME \/ \E f \in Foreign : Replace(f) \/ \E n \in Name : ReplaceTemporary(f, n)
             \/ \E p \in Process : Crash(p)
             \/ PowerLoss
      PROVE  IInv'
  <2>1. TypeOK' /\ NumbersBounded' BY <1>3, SurroundingsType DEF IInv
  <2>2. NamesOwned' /\ TemporariesDisjoint' BY <1>3, SurroundingsNames DEF IInv
  <2>3. /\ LinkedAfterSync' /\ OnlyComplete' /\ CreatedIsDone'
        /\ used' = {} => DestinationOwned'
    BY <1>1, <1>3, SurroundingsDestination DEF IInv
  <2> QED BY <2>1, <2>2, <2>3 DEF IInv, CreatedIsDone
<1>4. CASE UNCHANGED vars
  BY <1>4 DEF vars, IInv, TypeOK, NumbersBounded, Spent, NamesOwned, Owning,
     TemporariesDisjoint, LinkedAfterSync, OnlyComplete, DestinationOwned, Published, Unpublished
<1> QED BY <1>2, <1>3, <1>4 DEF Next

(* What the invariant gives. *)
LEMMA InvariantImplies ==
  ASSUME CreatorAssumption, IInv
  PROVE  CreatedIsDurable /\ FailedLeavesNothing
<1>1. CreatedIsDurable
  BY DEF IInv, CreatedIsDurable, DestinationOwned, Published
<1>2. FailedLeavesNothing
  <2> SUFFICES ASSUME NEW c \in Creator, pc[c] = "done",
                      tx[c].result \in {"exists", "exhausted", "error"}, ~tx[c].reported
               PROVE  /\ \A n \in Name : names[n] # c
                      /\ used = {} => dest # c /\ c \notin recoverable
    BY DEF FailedLeavesNothing
  <2>1. \A n \in Name : names[n] # c BY DEF IInv, NamesOwned
  <2>2. used = {} => dest # c /\ c \notin recoverable
    BY DEF IInv, DestinationOwned, Unpublished
  <2> QED BY <2>1, <2>2
<1> QED BY <1>1, <1>2

(* No create step replaces what the destination names. *)
LEMMA StepPreservesOthers ==
  ASSUME CreatorAssumption, IInv, [Next]_vars
  PROVE  PreservesOthers
<1> SUFFICES ASSUME dest # Free, dest' # dest, faults' = faults, used' = used
             PROVE  /\ dest' = Free
                    /\ used = {} => pc[dest] = "rollback_remove" /\ pc'[dest] = "rollback_sync"
  BY DEF PreservesOthers
<1>1. ASSUME NEW c \in Creator, Create(c) \/ Recover(c)
      PROVE  RollbackRemove(c)
  <2>1. ~Link(c) BY DEF Link, LinkClaims
  <2> QED BY <1>1, <2>1, DestinationEffect
<1>2. ~(\E f \in Foreign : Replace(f) \/ \E n \in Name : ReplaceTemporary(f, n))
  BY DEF Replace, ReplaceTemporary
<1>3. ~(\E p \in Process : Crash(p)) BY DEF Crash
<1>4. ~PowerLoss
  <2>1. faults \in Nat BY DEF IInv, TypeOK
  <2> QED BY <2>1 DEF PowerLoss, Fault
<1>5. ~UNCHANGED vars BY DEF vars
<1>6. PICK c \in Creator : RollbackRemove(c) BY <1>1, <1>2, <1>3, <1>4, <1>5 DEF Next
<1>7. dest' = Free /\ pc[c] = "rollback_remove" /\ pc'[c] = "rollback_sync"
  BY <1>6 DEF RollbackRemove, Go, IInv, TypeOK
<1>8. used = {} => dest = c BY <1>7 DEF IInv, DestinationOwned, Published
<1> QED BY <1>7, <1>8

(* Everything below rests on this invariant: for any number of creators in *)
(* any processes, wherever they stand, fail or die.                        *)
THEOREM InductiveInvariant ==
  ASSUME CreatorAssumption
  PROVE  Spec => []IInv
<1>1. Init => IInv BY InitInvariant
<1>2. IInv /\ [Next]_vars => IInv' BY NextInvariant
<1> QED BY <1>1, <1>2, PTL DEF Spec

(* The destination never names a torn or half-written index, and no two    *)
(* calls of create ever hold one temporary name.                           *)
THEOREM DestinationComplete ==
  ASSUME CreatorAssumption
  PROVE  Spec => [](TypeOK /\ OnlyComplete /\ TemporariesDisjoint)
<1>1. IInv => TypeOK /\ OnlyComplete /\ TemporariesDisjoint BY DEF IInv
<1> QED BY <1>1, InductiveInvariant, PTL

(* A create that returned Ok is durable, and a create that failed left     *)
(* nothing unless it said so.                                              *)
THEOREM CreateIsAtomic ==
  ASSUME CreatorAssumption
  PROVE  Spec => [](CreatedIsDurable /\ FailedLeavesNothing)
<1>1. IInv => CreatedIsDurable /\ FailedLeavesNothing BY InvariantImplies
<1> QED BY <1>1, InductiveInvariant, PTL

(* "Creation never replaces an existing file" (docs/persistence.md): the   *)
(* only step of a create that changes what the destination names withdraws *)
(* it, and among creators alone it withdraws the creator's own file.       *)
THEOREM CreationPreservesOthers ==
  ASSUME CreatorAssumption
  PROVE  Spec => [][PreservesOthers]_vars
<1>1. IInv /\ [Next]_vars => [PreservesOthers]_vars BY StepPreservesOthers
<1> QED BY <1>1, InductiveInvariant, PTL DEF Spec

=============================================================================
