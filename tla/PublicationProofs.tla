------------------------- MODULE PublicationProofs -------------------------
(***************************************************************************)
(* Proofs about the publication protocols, for any number of creators,     *)
(* processes, builders, conversions, outputs, attempts and faults.  The    *)
(* facts about create are those of InitialPublicationProofs; the builder,  *)
(* the conversion and the staged outputs follow, then what they give for   *)
(* the protocols together.                                                 *)
(***************************************************************************)
EXTENDS Publication, FiniteSetTheorems, TLAPS

-----------------------------------------------------------------------------
(***************************************************************************)
(* The conversion to a lazy index                                          *)
(***************************************************************************)

(* The steps of a conversion that claim no name. *)
LazyWorks(c) ==
  \/ Lazy!Start(c) \/ Lazy!ClaimAgain(c) \/ Lazy!ClaimFails(c) \/ Lazy!WriteSynced(c)
  \/ Lazy!Link(c) \/ Lazy!LinkFails(c) \/ Lazy!Unlink(c) \/ Lazy!Sync(c) \/ Lazy!StepFails(c)

LazyRecovers(c) ==
  \/ Lazy!RollbackCompare(c) \/ Lazy!RollbackRemove(c) \/ Lazy!RollbackSync(c)
  \/ Lazy!CleanupOwnedPath(c) \/ Lazy!RecoveryFails(c)

LEMMA LazyKinds ==
  ASSUME NEW c
  PROVE  Lazy!Convert(c) <=> Lazy!Claim(c) \/ LazyWorks(c) \/ LazyRecovers(c)
  BY DEF Lazy!Convert, LazyWorks, LazyRecovers

LEMMA LazyInitInvariant ==
  ASSUME Lazy!ConversionAssumption, Lazy!Init
  PROVE  Lazy!IInv
<1> USE DEF Lazy!ConversionAssumption, Lazy!Init
<1>1. Lazy!TypeOK BY DEF Lazy!TypeOK, Lazy!Status
<1>2. Lazy!NumbersDrawn BY DEF Lazy!NumbersDrawn, Lazy!Claimed, Lazy!Status
<1>3. Lazy!NamesUnique BY DEF Lazy!NamesUnique
<1>4. Lazy!NameKept BY DEF Lazy!NameKept
<1>5. Lazy!OnlyComplete BY DEF Lazy!OnlyComplete
<1>6. Lazy!DestinationOwned BY DEF Lazy!DestinationOwned, Lazy!Published, Lazy!Unpublished
<1> QED BY <1>1, <1>2, <1>3, <1>4, <1>5, <1>6 DEF Lazy!IInv

LEMMA LazyType ==
  ASSUME Lazy!ConversionAssumption, Lazy!TypeOK, Lazy!Next
  PROVE  Lazy!TypeOK'
<1> USE DEF Lazy!ConversionAssumption, Lazy!TypeOK, Lazy!Status, Lazy!Go, Lazy!Fault, Lazy!Decide
<1>1. ASSUME NEW c \in Creator, Lazy!Claim(c) PROVE Lazy!TypeOK'
  BY <1>1 DEF Lazy!Claim, Lazy!Draw
<1>2. ASSUME NEW c \in Creator, LazyWorks(c) PROVE Lazy!TypeOK'
  <2>1. CASE Lazy!Start(c) BY <2>1 DEF Lazy!Start
  <2>2. CASE Lazy!ClaimAgain(c) BY <2>2 DEF Lazy!ClaimAgain, Lazy!Draw
  <2>3. CASE Lazy!ClaimFails(c) BY <2>3 DEF Lazy!ClaimFails, Lazy!Draw
  <2>4. CASE Lazy!WriteSynced(c) BY <2>4 DEF Lazy!WriteSynced
  <2>5. CASE Lazy!Link(c) BY <2>5 DEF Lazy!Link, Lazy!At
  <2>6. CASE Lazy!LinkFails(c) BY <2>6 DEF Lazy!LinkFails
  <2>7. CASE Lazy!Unlink(c) BY <2>7 DEF Lazy!Unlink, Lazy!At
  <2>8. CASE Lazy!Sync(c) BY <2>8 DEF Lazy!Sync, Lazy!Synced
  <2>9. CASE Lazy!StepFails(c) BY <2>9 DEF Lazy!StepFails
  <2> QED BY <1>2, <2>1, <2>2, <2>3, <2>4, <2>5, <2>6, <2>7, <2>8, <2>9 DEF LazyWorks
<1>3. ASSUME NEW c \in Creator, LazyRecovers(c) PROVE Lazy!TypeOK'
  <2>1. CASE Lazy!RollbackCompare(c) BY <2>1 DEF Lazy!RollbackCompare
  <2>2. CASE Lazy!RollbackRemove(c) BY <2>2 DEF Lazy!RollbackRemove
  <2>3. CASE Lazy!RollbackSync(c) BY <2>3 DEF Lazy!RollbackSync, Lazy!Synced
  <2>4. CASE Lazy!CleanupOwnedPath(c) BY <2>4 DEF Lazy!CleanupOwnedPath, Lazy!Cleanup
  <2>5. CASE Lazy!RecoveryFails(c) BY <2>5 DEF Lazy!RecoveryFails, Lazy!Cleanup
  <2> QED BY <1>3, <2>1, <2>2, <2>3, <2>4, <2>5 DEF LazyRecovers
<1>4. ASSUME NEW p \in Process, Lazy!Crash(p) PROVE Lazy!TypeOK'
  BY <1>4 DEF Lazy!Crash
<1>5. CASE Lazy!PowerLoss BY <1>5 DEF Lazy!PowerLoss
<1> QED BY <1>1, <1>2, <1>3, <1>4, <1>5, LazyKinds DEF Lazy!Next

(* The states in which a conversion relies on the name it claimed. *)
LazyHolding == {"write", "link", "unlink"}

(* A step that claims no name: names only disappear, numbers only grow and *)
(* no conversion begins to rely on a name.                                 *)
LazyCalm ==
  /\ named' \subseteq named /\ temp' = temp
  /\ \A p \in Process : next[p] <= next'[p]
  /\ \A d \in Creator : Lazy!Claimed(d)' => Lazy!Claimed(d)
  /\ \A d \in Creator : pc'[d] \in LazyHolding => pc[d] \in LazyHolding

(* Which names a step may remove: those of the conversion that takes it,   *)
(* which does not rely on them any more.                                   *)
LazyRemoves(c) ==
  \/ named' = named
  \/ named' = named \ Lazy!At(c, temp[c]) /\ Lazy!Claimed(c) /\ pc'[c] \notin LazyHolding

LEMMA LazyCalmSteps ==
  ASSUME Lazy!ConversionAssumption, Lazy!TypeOK, NEW c \in Creator,
         LazyWorks(c) \/ LazyRecovers(c)
  PROVE  LazyCalm /\ LazyRemoves(c)
<1> USE DEF Lazy!ConversionAssumption, Lazy!TypeOK, Lazy!Status, Lazy!Go, LazyCalm, LazyRemoves,
            LazyHolding, Lazy!Claimed
<1>1. CASE Lazy!Start(c) BY <1>1 DEF Lazy!Start
<1>2. CASE Lazy!ClaimAgain(c) BY <1>2 DEF Lazy!ClaimAgain, Lazy!Draw
<1>3. CASE Lazy!ClaimFails(c) BY <1>3 DEF Lazy!ClaimFails, Lazy!Draw
<1>4. CASE Lazy!WriteSynced(c) BY <1>4 DEF Lazy!WriteSynced
<1>5. CASE Lazy!Link(c) BY <1>5 DEF Lazy!Link
<1>6. CASE Lazy!LinkFails(c) BY <1>6 DEF Lazy!LinkFails
<1>7. CASE Lazy!Unlink(c) BY <1>7 DEF Lazy!Unlink
<1>8. CASE Lazy!Sync(c) BY <1>8 DEF Lazy!Sync
<1>9. CASE Lazy!StepFails(c) BY <1>9 DEF Lazy!StepFails
<1>10. CASE Lazy!RollbackCompare(c) BY <1>10 DEF Lazy!RollbackCompare
<1>11. CASE Lazy!RollbackRemove(c) BY <1>11 DEF Lazy!RollbackRemove
<1>12. CASE Lazy!RollbackSync(c) BY <1>12 DEF Lazy!RollbackSync
<1>13. CASE Lazy!CleanupOwnedPath(c) BY <1>13 DEF Lazy!CleanupOwnedPath, Lazy!Cleanup
<1>14. CASE Lazy!RecoveryFails(c) BY <1>14 DEF Lazy!RecoveryFails, Lazy!Cleanup
<1> QED BY <1>1, <1>2, <1>3, <1>4, <1>5, <1>6, <1>7, <1>8, <1>9, <1>10, <1>11, <1>12, <1>13,
           <1>14 DEF LazyWorks, LazyRecovers

LEMMA LazyCalmCrashes ==
  ASSUME Lazy!ConversionAssumption, Lazy!TypeOK,
         Lazy!PowerLoss \/ (\E p \in Process : Lazy!Crash(p))
  PROVE  LazyCalm /\ named' = named
  BY DEF Lazy!ConversionAssumption, Lazy!TypeOK, Lazy!Status, LazyCalm, LazyHolding,
         Lazy!Claimed, Lazy!PowerLoss, Lazy!Crash, Lazy!Stopped

LazyNames == Lazy!NumbersDrawn /\ Lazy!NamesUnique /\ Lazy!NameKept

(* Numbers and uniqueness survive a calm step. *)
LEMMA LazyCalmNames ==
  ASSUME Lazy!ConversionAssumption, Lazy!TypeOK, Lazy!TypeOK', LazyNames, LazyCalm
  PROVE  Lazy!NumbersDrawn' /\ Lazy!NamesUnique'
<1>1. Lazy!NumbersDrawn'
  <2> SUFFICES ASSUME NEW c \in Creator, Lazy!Claimed(c)'
               PROVE  /\ temp'[c] < next'[ProcessOf[c]]
                      /\ \A d \in Creator :
                           Lazy!Claimed(d)' /\ ProcessOf[d] = ProcessOf[c] /\ temp'[d] = temp'[c]
                             => d = c
    BY DEF Lazy!NumbersDrawn
  <2>1. Lazy!Claimed(c) BY DEF LazyCalm
  <2>2. temp[c] < next[ProcessOf[c]] BY <2>1 DEF LazyNames, Lazy!NumbersDrawn
  <2>3. next[ProcessOf[c]] <= next'[ProcessOf[c]] /\ temp' = temp
    BY DEF LazyCalm, Lazy!ConversionAssumption
  <2>4. temp'[c] < next'[ProcessOf[c]]
    BY <2>2, <2>3 DEF Lazy!TypeOK, Lazy!ConversionAssumption
  <2> QED BY <2>1, <2>3, <2>4 DEF LazyNames, Lazy!NumbersDrawn, LazyCalm
<1>2. Lazy!NamesUnique' BY DEF LazyNames, Lazy!NamesUnique, LazyCalm, Lazy!Pid
<1> QED BY <1>1, <1>2

(* The heart of the argument: the name a conversion relies on can be taken *)
(* away only by the one other process that has drawn its number, so nobody *)
(* can claim it any more.                                                  *)
LEMMA LazyNameKept ==
  ASSUME Lazy!ConversionAssumption, Lazy!TypeOK, Lazy!TypeOK', LazyNames, LazyCalm,
         NEW e \in Creator, LazyRemoves(e)
  PROVE  Lazy!NameKept'
<1> SUFFICES ASSUME NEW c \in Creator, pc'[c] \in LazyHolding, c \notin named'
             PROVE  /\ Lazy!At(c, temp[c])' = {}
                    /\ \A p \in Process : PidOf[p] = Lazy!Pid(c) => temp'[c] < next'[p]
  BY DEF Lazy!NameKept, Lazy!Pid, Lazy!At, LazyHolding
<1>1. pc[c] \in LazyHolding /\ temp' = temp /\ named' \subseteq named BY DEF LazyCalm
<1>2. CASE c \notin named
  <2>1. Lazy!At(c, temp[c]) = {} /\ \A p \in Process : PidOf[p] = Lazy!Pid(c) => temp[c] < next[p]
    BY <1>1, <1>2 DEF LazyNames, Lazy!NameKept, LazyHolding
  <2>2. Lazy!At(c, temp[c])' = {} BY <1>1, <2>1 DEF Lazy!At, Lazy!Pid
  <2>3. ASSUME NEW p \in Process, PidOf[p] = Lazy!Pid(c) PROVE temp'[c] < next'[p]
    <3>1. temp[c] < next[p] /\ next[p] <= next'[p] BY <2>1, <2>3 DEF LazyCalm
    <3> QED BY <1>1, <3>1 DEF Lazy!TypeOK
  <2> QED BY <2>2, <2>3
<1>3. CASE c \in named
  <2>1. /\ named' = named \ Lazy!At(e, temp[e])
        /\ Lazy!Claimed(e) /\ e # c
        /\ Lazy!Pid(e) = Lazy!Pid(c) /\ temp[e] = temp[c]
    BY <1>3 DEF LazyRemoves, Lazy!At
  <2>2. Lazy!Claimed(c) BY <1>3 DEF Lazy!Claimed
  <2>3. temp[c] < next[ProcessOf[c]] /\ temp[c] < next[ProcessOf[e]] /\ ProcessOf[e] # ProcessOf[c]
    BY <2>1, <2>2 DEF LazyNames, Lazy!NumbersDrawn
  <2>4. Lazy!At(c, temp[c])' = {} BY <1>1, <2>1 DEF Lazy!At, Lazy!Pid
  <2>5. ASSUME NEW p \in Process, PidOf[p] = Lazy!Pid(c) PROVE temp'[c] < next'[p]
    <3>1. p = ProcessOf[c] \/ p = ProcessOf[e]
      BY <2>1, <2>3, <2>5 DEF Lazy!ConversionAssumption, Lazy!Pid
    <3>2. temp[c] < next[p] /\ next[p] <= next'[p] BY <2>3, <3>1 DEF LazyCalm
    <3> QED BY <1>1, <3>2 DEF Lazy!TypeOK
  <2> QED BY <2>4, <2>5
<1> QED BY <1>2, <1>3

(* create_temporary claims a name nobody else can rely on. *)
LEMMA LazyClaimNames ==
  ASSUME Lazy!ConversionAssumption, Lazy!TypeOK, Lazy!TypeOK', LazyNames,
         NEW c \in Creator, Lazy!Claim(c)
  PROVE  LazyNames'
<1> DEFINE p == ProcessOf[c]
<1>1. /\ p \in Process /\ next'[p] = next[p] + 1 /\ \A q \in Process : q # p => next'[q] = next[q]
      /\ named' = named \cup {c}
      /\ temp'[c] = next[p] /\ \A d \in Creator : d # c => temp'[d] = temp[d]
      /\ pc[c] = "claim" /\ pc'[c] = "write" /\ \A d \in Creator : d # c => pc'[d] = pc[d]
      /\ \A d \in named : Lazy!Pid(d) = Lazy!Pid(c) => temp[d] # next[p]
  BY DEF Lazy!Claim, Lazy!Draw, Lazy!Go, Lazy!CreateNew, Lazy!At, Lazy!TypeOK,
         Lazy!ConversionAssumption
<1>2. \A q \in Process : next[q] \in Nat /\ next[q] <= next'[q] BY <1>1 DEF Lazy!TypeOK
<1>3. \A d \in Creator : d # c => (Lazy!Claimed(d)' <=> Lazy!Claimed(d))
  BY <1>1 DEF Lazy!Claimed
<1>4. \A d \in Creator : Lazy!Claimed(d) => temp[d] < next[ProcessOf[d]]
  BY DEF LazyNames, Lazy!NumbersDrawn
<1>5. Lazy!NumbersDrawn'
  <2>1. ASSUME NEW d \in Creator, Lazy!Claimed(d)' PROVE temp'[d] < next'[ProcessOf[d]]
    <3>1. CASE d = c BY <1>1, <1>2, <3>1
    <3>2. CASE d # c
      <4>1. temp[d] < next[ProcessOf[d]] BY <1>3, <1>4, <2>1, <3>2
      <4>2. ProcessOf[d] \in Process BY DEF Lazy!ConversionAssumption
      <4> QED BY <1>1, <1>2, <3>2, <4>1, <4>2 DEF Lazy!TypeOK
    <3> QED BY <3>1, <3>2
  <2>2. ASSUME NEW d \in Creator, NEW f \in Creator, Lazy!Claimed(d)', Lazy!Claimed(f)',
               ProcessOf[d] = ProcessOf[f], temp'[d] = temp'[f], d # f
        PROVE  FALSE
    <3>1. CASE d = c
      <4>1. temp[f] < next[p] /\ temp[f] = next[p] BY <1>1, <1>3, <1>4, <2>2, <3>1
      <4> QED BY <1>1, <1>2, <4>1 DEF Lazy!TypeOK
    <3>2. CASE f = c
      <4>1. temp[d] < next[p] /\ temp[d] = next[p] BY <1>1, <1>3, <1>4, <2>2, <3>2
      <4> QED BY <1>1, <1>2, <4>1 DEF Lazy!TypeOK
    <3>3. CASE d # c /\ f # c BY <1>1, <1>3, <2>2, <3>3 DEF LazyNames, Lazy!NumbersDrawn
    <3> QED BY <3>1, <3>2, <3>3
  <2> QED BY <2>1, <2>2 DEF Lazy!NumbersDrawn
<1>6. Lazy!NamesUnique'
  <2> SUFFICES ASSUME NEW d \in named', NEW f \in named', Lazy!Pid(d) = Lazy!Pid(f),
                      temp'[d] = temp'[f], d # f
               PROVE  FALSE
    BY DEF Lazy!NamesUnique, Lazy!Pid
  <2>1. d \in Creator /\ f \in Creator BY DEF Lazy!TypeOK
  <2> QED BY <1>1, <2>1 DEF LazyNames, Lazy!NamesUnique, Lazy!Pid
<1>7. Lazy!NameKept'
  <2> SUFFICES ASSUME NEW d \in Creator, pc'[d] \in LazyHolding, d \notin named'
               PROVE  /\ Lazy!At(d, temp[d])' = {}
                      /\ \A q \in Process : PidOf[q] = Lazy!Pid(d) => temp'[d] < next'[q]
    BY DEF Lazy!NameKept, Lazy!Pid, Lazy!At, LazyHolding
  <2>1. d # c /\ d \notin named /\ pc[d] \in LazyHolding BY <1>1
  <2>2. Lazy!At(d, temp[d]) = {} /\ \A q \in Process : PidOf[q] = Lazy!Pid(d) => temp[d] < next[q]
    BY <2>1 DEF LazyNames, Lazy!NameKept, LazyHolding
  <2>3. Lazy!Pid(c) = Lazy!Pid(d) => temp'[c] # temp[d]
    <3> SUFFICES ASSUME Lazy!Pid(c) = Lazy!Pid(d) PROVE temp[d] < next[p]
      BY <1>1, <1>2 DEF Lazy!TypeOK
    <3> QED BY <1>1, <2>2 DEF Lazy!Pid
  <2>4. ASSUME NEW f \in Lazy!At(d, temp[d])' PROVE FALSE
    <3>1. f \in named' /\ Lazy!Pid(f) = Lazy!Pid(d) /\ temp'[f] = temp'[d]
      BY DEF Lazy!At, Lazy!Pid
    <3>2. f # c BY <1>1, <2>1, <2>3, <3>1
    <3>3. f \in named /\ temp[f] = temp[d] BY <1>1, <2>1, <3>1, <3>2 DEF Lazy!TypeOK
    <3> QED BY <2>2, <3>1, <3>3 DEF Lazy!At
  <2>5. \A q \in Process : PidOf[q] = Lazy!Pid(d) => temp'[d] < next'[q]
    BY <1>1, <1>2, <2>1, <2>2 DEF Lazy!TypeOK
  <2> QED BY <2>4, <2>5
<1> QED BY <1>5, <1>6, <1>7 DEF LazyNames

LEMMA LazyStepNames ==
  ASSUME Lazy!ConversionAssumption, Lazy!TypeOK, Lazy!TypeOK', LazyNames, Lazy!Next
  PROVE  LazyNames'
<1>1. ASSUME NEW c \in Creator, LazyWorks(c) \/ LazyRecovers(c) PROVE LazyNames'
  <2>1. LazyCalm /\ LazyRemoves(c) BY <1>1, LazyCalmSteps
  <2> QED BY <2>1, LazyCalmNames, LazyNameKept DEF LazyNames
<1>2. ASSUME LazyCalm, named' = named PROVE LazyNames'
  <2>1. Lazy!NameKept'
    <3>1. \A c \in Creator : LazyRemoves(c) BY <1>2 DEF LazyRemoves
    <3>2. CASE Creator = {} BY <3>2 DEF Lazy!NameKept
    <3>3. ASSUME NEW c \in Creator PROVE Lazy!NameKept' BY <1>2, <3>1, LazyNameKept
    <3> QED BY <3>2, <3>3
  <2> QED BY <1>2, <2>1, LazyCalmNames DEF LazyNames
<1> QED BY <1>1, <1>2, LazyCalmCrashes, LazyClaimNames, LazyKinds DEF Lazy!Next

LazyRest ==
  /\ \A c \in Creator : pc[c] \in {"link", "unlink", "sync"} => c \in complete
  /\ \A c \in Creator : pc[c] = "done" /\ c \in named => c \in reported
  /\ \A c \in Creator : pc[c] \in {"start", "claim", "sync"} => c \notin named

LEMMA LazyParts ==
  Lazy!IInv <=> Lazy!TypeOK /\ LazyNames /\ LazyRest /\ Lazy!OnlyComplete /\ Lazy!DestinationOwned
  BY DEF Lazy!IInv, LazyNames, LazyRest

(* The file a conversion links is its own: no other has its name. *)
LEMMA LazyOwnFile ==
  ASSUME LazyNames, Lazy!TypeOK, NEW c \in Creator, pc[c] \in LazyHolding,
         NEW file \in Lazy!At(c, temp[c])
  PROVE  file = c
  BY DEF LazyNames, Lazy!NamesUnique, Lazy!NameKept, Lazy!At, LazyHolding

LEMMA LazyStepRest ==
  ASSUME Lazy!ConversionAssumption, Lazy!TypeOK, LazyNames, LazyRest, Lazy!Next
  PROVE  LazyRest'
<1> USE DEF Lazy!ConversionAssumption, Lazy!TypeOK, Lazy!Status, Lazy!Go, LazyRest
<1>1. ASSUME NEW c \in Creator, Lazy!Claim(c) PROVE LazyRest' BY <1>1 DEF Lazy!Claim
<1>2. ASSUME NEW c \in Creator, LazyWorks(c) PROVE LazyRest'
  <2>1. CASE Lazy!Start(c) BY <2>1 DEF Lazy!Start
  <2>2. CASE Lazy!ClaimAgain(c) BY <2>2 DEF Lazy!ClaimAgain
  <2>3. CASE Lazy!ClaimFails(c) BY <2>3 DEF Lazy!ClaimFails
  <2>4. CASE Lazy!WriteSynced(c) BY <2>4 DEF Lazy!WriteSynced
  <2>5. CASE Lazy!Link(c) BY <2>5 DEF Lazy!Link
  <2>6. CASE Lazy!LinkFails(c) BY <2>6 DEF Lazy!LinkFails
  <2>7. CASE Lazy!Unlink(c)
    <3>1. c \notin named' BY <2>7 DEF Lazy!Unlink, Lazy!At
    <3> QED BY <2>7, <3>1 DEF Lazy!Unlink
  <2>8. CASE Lazy!Sync(c) BY <2>8 DEF Lazy!Sync
  <2>9. CASE Lazy!StepFails(c) BY <2>9 DEF Lazy!StepFails
  <2> QED BY <1>2, <2>1, <2>2, <2>3, <2>4, <2>5, <2>6, <2>7, <2>8, <2>9 DEF LazyWorks
<1>3. ASSUME NEW c \in Creator, LazyRecovers(c) PROVE LazyRest'
  <2>1. CASE Lazy!RollbackCompare(c) BY <2>1 DEF Lazy!RollbackCompare
  <2>2. CASE Lazy!RollbackRemove(c) BY <2>2 DEF Lazy!RollbackRemove
  <2>3. CASE Lazy!RollbackSync(c) BY <2>3 DEF Lazy!RollbackSync
  <2>4. CASE Lazy!CleanupOwnedPath(c)
    <3>1. c \notin named' BY <2>4 DEF Lazy!CleanupOwnedPath, Lazy!Cleanup, Lazy!At
    <3> QED BY <2>4, <3>1 DEF Lazy!CleanupOwnedPath, Lazy!Cleanup
  <2>5. CASE Lazy!RecoveryFails(c) BY <2>5 DEF Lazy!RecoveryFails, Lazy!Cleanup
  <2> QED BY <1>3, <2>1, <2>2, <2>3, <2>4, <2>5 DEF LazyRecovers
<1>4. ASSUME NEW p \in Process, Lazy!Crash(p) PROVE LazyRest' BY <1>4 DEF Lazy!Crash, Lazy!Stopped
<1>5. CASE Lazy!PowerLoss BY <1>5 DEF Lazy!PowerLoss, Lazy!Stopped
<1> QED BY <1>1, <1>2, <1>3, <1>4, <1>5, LazyKinds DEF Lazy!Next

LEMMA LazyStepComplete ==
  ASSUME Lazy!TypeOK, LazyNames, LazyRest, Lazy!OnlyComplete, Lazy!Next
  PROVE  Lazy!OnlyComplete'
<1> USE DEF Lazy!OnlyComplete
<1>1. ASSUME NEW c \in Creator, Lazy!Claim(c) PROVE Lazy!OnlyComplete' BY <1>1 DEF Lazy!Claim
<1>2. ASSUME NEW c \in Creator, LazyWorks(c) PROVE Lazy!OnlyComplete'
  <2>1. CASE Lazy!Link(c)
    <3>1. PICK file \in Lazy!At(c, temp[c]) : dest' = file /\ recoverable' = recoverable \cup {file}
      BY <2>1 DEF Lazy!Link
    <3>2. file = c /\ c \in complete /\ complete' = complete
      BY <2>1, <3>1, LazyOwnFile DEF Lazy!Link, Lazy!Go, LazyHolding, LazyRest
    <3> QED BY <3>1, <3>2
  <2>2. CASE ~Lazy!Link(c)
    BY <1>2, <2>2 DEF LazyWorks, Lazy!Start, Lazy!ClaimAgain, Lazy!ClaimFails, Lazy!WriteSynced,
       Lazy!LinkFails, Lazy!Unlink, Lazy!Sync, Lazy!Synced, Lazy!StepFails
  <2> QED BY <2>1, <2>2
<1>3. ASSUME NEW c \in Creator, LazyRecovers(c) PROVE Lazy!OnlyComplete'
  BY <1>3 DEF LazyRecovers, Lazy!RollbackCompare, Lazy!RollbackRemove, Lazy!RollbackSync,
     Lazy!Synced, Lazy!CleanupOwnedPath, Lazy!RecoveryFails
<1>4. ASSUME NEW p \in Process, Lazy!Crash(p) PROVE Lazy!OnlyComplete' BY <1>4 DEF Lazy!Crash
<1>5. CASE Lazy!PowerLoss BY <1>5 DEF Lazy!PowerLoss
<1> QED BY <1>1, <1>2, <1>3, <1>4, <1>5, LazyKinds DEF Lazy!Next

(* Nobody else's step takes a destination away, and a conversion that      *)
(* gives up has withdrawn its own or never linked it.                      *)
LEMMA LazyStepDestination ==
  ASSUME Lazy!ConversionAssumption, Lazy!TypeOK, LazyNames, Lazy!DestinationOwned, Lazy!Next
  PROVE  Lazy!DestinationOwned'
<1> USE DEF Lazy!ConversionAssumption, Lazy!TypeOK, Lazy!Status, Lazy!Go, Lazy!DestinationOwned,
            Lazy!Published, Lazy!Unpublished
<1>1. ASSUME NEW c \in Creator, Lazy!Claim(c) PROVE Lazy!DestinationOwned' BY <1>1 DEF Lazy!Claim
<1>2. ASSUME NEW c \in Creator, LazyWorks(c) PROVE Lazy!DestinationOwned'
  <2>1. CASE Lazy!Start(c) BY <2>1 DEF Lazy!Start, Lazy!Decide
  <2>2. CASE Lazy!ClaimAgain(c) BY <2>2 DEF Lazy!ClaimAgain
  <2>3. CASE Lazy!ClaimFails(c) BY <2>3 DEF Lazy!ClaimFails, Lazy!Decide
  <2>4. CASE Lazy!WriteSynced(c) BY <2>4 DEF Lazy!WriteSynced
  <2>5. CASE Lazy!Link(c)
    <3>1. PICK file \in Lazy!At(c, temp[c]) :
            dest = Free /\ dest' = file /\ recoverable' = recoverable \cup {file}
      BY <2>5 DEF Lazy!Link, Lazy!LinkClaims
    <3>2. file = c BY <2>5, <3>1, LazyOwnFile DEF Lazy!Link, LazyHolding
    <3> QED BY <2>5, <3>1, <3>2 DEF Lazy!Link
  <2>6. CASE Lazy!LinkFails(c) BY <2>6 DEF Lazy!LinkFails, Lazy!Decide
  <2>7. CASE Lazy!Unlink(c) BY <2>7 DEF Lazy!Unlink, Lazy!Decide
  <2>8. CASE Lazy!Sync(c) BY <2>8 DEF Lazy!Sync, Lazy!Synced, Lazy!Decide
  <2>9. CASE Lazy!StepFails(c) BY <2>9 DEF Lazy!StepFails, Lazy!Decide
  <2> QED BY <1>2, <2>1, <2>2, <2>3, <2>4, <2>5, <2>6, <2>7, <2>8, <2>9 DEF LazyWorks
<1>3. ASSUME NEW c \in Creator, LazyRecovers(c) PROVE Lazy!DestinationOwned'
  <2>1. CASE Lazy!RollbackCompare(c) BY <2>1 DEF Lazy!RollbackCompare, Lazy!OwnsDestination
  <2>2. CASE Lazy!RollbackRemove(c) BY <2>2 DEF Lazy!RollbackRemove
  <2>3. CASE Lazy!RollbackSync(c) BY <2>3 DEF Lazy!RollbackSync, Lazy!Synced
  <2>4. CASE Lazy!CleanupOwnedPath(c) BY <2>4 DEF Lazy!CleanupOwnedPath
  <2>5. CASE Lazy!RecoveryFails(c) BY <2>5 DEF Lazy!RecoveryFails
  <2> QED BY <1>3, <2>1, <2>2, <2>3, <2>4, <2>5 DEF LazyRecovers
<1>4. ASSUME NEW p \in Process, Lazy!Crash(p) PROVE Lazy!DestinationOwned'
  BY <1>4 DEF Lazy!Crash, Lazy!Stopped
<1>5. CASE Lazy!PowerLoss BY <1>5 DEF Lazy!PowerLoss, Lazy!Stopped
<1> QED BY <1>1, <1>2, <1>3, <1>4, <1>5, LazyKinds DEF Lazy!Next

LEMMA LazyNextInvariant ==
  ASSUME Lazy!ConversionAssumption, Lazy!IInv, [Lazy!Next]_(Lazy!vars)
  PROVE  Lazy!IInv'
<1>1. CASE Lazy!Next
  <2>1. Lazy!TypeOK' BY <1>1, LazyType, LazyParts
  <2>2. LazyNames' BY <1>1, <2>1, LazyStepNames, LazyParts
  <2>3. LazyRest' BY <1>1, LazyStepRest, LazyParts
  <2>4. Lazy!OnlyComplete' BY <1>1, LazyStepComplete, LazyParts
  <2>5. Lazy!DestinationOwned' BY <1>1, LazyStepDestination, LazyParts
  <2> QED BY <2>1, <2>2, <2>3, <2>4, <2>5 DEF Lazy!IInv, LazyNames, LazyRest
<1>2. CASE UNCHANGED Lazy!vars
  BY <1>2 DEF Lazy!vars, Lazy!IInv, Lazy!TypeOK, Lazy!NumbersDrawn, Lazy!Claimed, Lazy!NamesUnique,
     Lazy!NameKept, Lazy!At, Lazy!Pid, Lazy!OnlyComplete, Lazy!DestinationOwned, Lazy!Published,
     Lazy!Unpublished
<1> QED BY <1>1, <1>2

LEMMA LazyInvariantImplies ==
  ASSUME Lazy!IInv
  PROVE  Lazy!OnlyComplete /\ Lazy!CreatedIsDurable /\ Lazy!FailedLeavesNothing
<1>1. Lazy!CreatedIsDurable
  BY DEF Lazy!IInv, Lazy!CreatedIsDurable, Lazy!DestinationOwned, Lazy!Published
<1>2. Lazy!FailedLeavesNothing
  BY DEF Lazy!IInv, Lazy!FailedLeavesNothing, Lazy!DestinationOwned, Lazy!Unpublished
<1> QED BY <1>1, <1>2 DEF Lazy!IInv

(* A conversion that succeeded is durable, one that failed left nothing    *)
(* unless it said so, and the destination is always complete, for any      *)
(* number of conversions in any processes of which no three share an id.   *)
THEOREM ConversionIsAtomic ==
  Lazy!Spec => [](Lazy!OnlyComplete /\ Lazy!CreatedIsDurable /\ Lazy!FailedLeavesNothing)
<1>1. Lazy!Init => Lazy!IInv BY LazyInitInvariant, Assumptions
<1>2. Lazy!IInv /\ [Lazy!Next]_(Lazy!vars) => Lazy!IInv' BY LazyNextInvariant, Assumptions
<1> QED BY <1>1, <1>2, LazyInvariantImplies, PTL DEF Lazy!Spec

-----------------------------------------------------------------------------
(***************************************************************************)
(* The staged outputs of a Python workload                                 *)
(***************************************************************************)

LEMMA SameCardinality == \A S : Outputs!Cardinality(S) = Cardinality(S)
  BY Zenon DEF Outputs!Cardinality, Cardinality

LEMMA OutputsFinite ==
  ASSUME Outputs!OutputsAssumption
  PROVE  /\ IsFiniteSet(Outputs!Output)
         /\ \A S : S \subseteq Outputs!Output => IsFiniteSet(S) /\ Cardinality(S) \in Nat
<1>1. IsFiniteSet(Outputs!Output) BY FS_Interval DEF Outputs!OutputsAssumption, Outputs!Output
<1>2. \A S : S \subseteq Outputs!Output => IsFiniteSet(S) BY <1>1, FS_Subset
<1> QED BY <1>1, <1>2, FS_CardinalityType

(* A set of outputs that loses elements, or gains one. *)
LEMMA OutputsShrink ==
  ASSUME Outputs!OutputsAssumption, NEW S, NEW R, R \subseteq S, S \subseteq Outputs!Output,
         NEW n \in Nat, Cardinality(S) <= n
  PROVE  Cardinality(R) <= n
<1>1. IsFiniteSet(S) /\ Cardinality(S) \in Nat BY OutputsFinite
<1>2. Cardinality(R) <= Cardinality(S) /\ Cardinality(R) \in Nat BY <1>1, FS_Subset, OutputsFinite
<1> QED BY <1>1, <1>2

LEMMA OutputsGrow ==
  ASSUME Outputs!OutputsAssumption, NEW S, NEW R, S \subseteq Outputs!Output,
         NEW o \in Outputs!Output, R \subseteq S \cup {o}, NEW n \in Nat, Cardinality(S) <= n
  PROVE  Cardinality(R) <= n + 1
<1>1. IsFiniteSet(S) /\ Cardinality(S) \in Nat BY OutputsFinite
<1>2. Cardinality(S \cup {o}) <= Cardinality(S) + 1
  <2>1. Cardinality(S \cup {o}) = IF o \in S THEN Cardinality(S) ELSE Cardinality(S) + 1
    BY <1>1, FS_AddElement
  <2> QED BY <1>1, <2>1
<1>3. Cardinality(S \cup {o}) <= n + 1 /\ S \cup {o} \subseteq Outputs!Output
  <2>1. Cardinality(S \cup {o}) \in Nat BY OutputsFinite
  <2> QED BY <1>1, <1>2, <2>1
<1> QED BY <1>3, OutputsShrink

LEMMA OutputsOwnFile ==
  ASSUME Outputs!OutputsAssumption, NEW o \in Outputs!Output
  PROVE  Outputs!Own(o) \in Outputs!File /\ Outputs!Own(o) # Free
<1>1. o \in Nat BY DEF Outputs!OutputsAssumption, Outputs!Output
<1>2. Outputs!Own(o) \in Outputs!File BY <1>1 DEF Outputs!Own, Outputs!File
<1> QED BY <1>2 DEF Outputs!OutputsAssumption

LEMMA OutputsInitInvariant ==
  ASSUME Outputs!OutputsAssumption, Outputs!Init
  PROVE  Outputs!IInv
<1> USE DEF Outputs!OutputsAssumption, Outputs!Init
<1>1. Outputs!TypeOK
  <2>1. <<"old", 0>> \in Outputs!File BY DEF Outputs!File
  <2> QED BY <2>1 DEF Outputs!TypeOK, Outputs!Phase, Outputs!Output
<1>2. Outputs!OwnFinals = {}
  <2> SUFFICES ASSUME NEW o \in Outputs!Output PROVE final[o] # Outputs!Own(o)
    BY DEF Outputs!OwnFinals
  <2>1. final[o] \in {Free, <<"old", 0>>} OBVIOUS
  <2>2. Outputs!Own(o) # Free BY OutputsOwnFile
  <2>3. Outputs!Own(o) # <<"old", 0>> BY DEF Outputs!Own
  <2> QED BY <2>1, <2>2, <2>3
<1>3. Outputs!LinkedInOrder BY <1>2 DEF Outputs!LinkedInOrder
<1>4. Outputs!Unraised
  <2>1. Outputs!Cardinality(published \ Outputs!OwnFinals) = 0
    <3>1. published \ Outputs!OwnFinals = {} OBVIOUS
    <3> QED BY <3>1, FS_EmptySet, SameCardinality
  <2>2. pc = "enter" /\ ~raised /\ foreign = 0 OBVIOUS
  <2> QED BY <2>1, <2>2 DEF Outputs!Unraised, Outputs!Cleaning
<1>5. Outputs!LeftBounded BY DEF Outputs!LeftBounded
<1> QED BY <1>1, <1>3, <1>4, <1>5 DEF Outputs!IInv

LEMMA OutputsType ==
  ASSUME Outputs!OutputsAssumption, Outputs!TypeOK, Outputs!LinkedInOrder, Outputs!Next,
         pc = "remove_final" => next \in Outputs!Output
  PROVE  Outputs!TypeOK'
<1> USE DEF Outputs!OutputsAssumption, Outputs!TypeOK, Outputs!Phase, Outputs!To, Outputs!Fault,
            Outputs!Output
<1>1. ASSUME NEW o \in Outputs!Output, Outputs!Foreign(o) PROVE Outputs!TypeOK'
  <2>1. <<"foreign", foreign + 1>> \in Outputs!File BY DEF Outputs!File
  <2> QED BY <1>1, <2>1 DEF Outputs!Foreign
<1>2. ASSUME NEW o \in Outputs!Output, NEW kind \in {"own", "odd"}, Outputs!WriteStaged(o, kind)
      PROVE  Outputs!TypeOK'
  <2>1. <<kind, o>> \in Outputs!File BY DEF Outputs!File
  <2> QED BY <1>2, <2>1 DEF Outputs!WriteStaged
<1>3. CASE Outputs!Enter BY <1>3 DEF Outputs!Enter
<1>4. CASE Outputs!BodyRaises BY <1>4 DEF Outputs!BodyRaises
<1>5. CASE Outputs!Exit BY <1>5 DEF Outputs!Exit
<1>6. CASE Outputs!Identify BY <1>6 DEF Outputs!Identify
<1>7. CASE Outputs!Link BY <1>7 DEF Outputs!Link, Outputs!LinkedInOrder
<1>8. CASE Outputs!Unlink BY <1>8 DEF Outputs!Unlink, Outputs!Unlinked
<1>9. CASE Outputs!PublicationFails BY <1>9 DEF Outputs!PublicationFails
<1>10. CASE Outputs!CleanStaged BY <1>10 DEF Outputs!CleanStaged
<1>11. CASE Outputs!CompareFinal BY <1>11 DEF Outputs!CompareFinal
<1>12. CASE Outputs!RemoveFinal BY <1>12 DEF Outputs!RemoveFinal
<1>13. CASE Outputs!CleanFails BY <1>13 DEF Outputs!CleanFails, Outputs!GoesOn
<1> QED BY <1>1, <1>2, <1>3, <1>4, <1>5, <1>6, <1>7, <1>8, <1>9, <1>10, <1>11, <1>12, <1>13
    DEF Outputs!Next

(* The steps of a workload that change no final name. *)
OutputsQuiet ==
  \/ \E o \in Outputs!Output, kind \in {"own", "odd"} : Outputs!WriteStaged(o, kind)
  \/ Outputs!Enter \/ Outputs!BodyRaises \/ Outputs!Exit \/ Outputs!Identify \/ Outputs!Unlink
  \/ Outputs!PublicationFails \/ Outputs!CleanStaged \/ Outputs!CompareFinal \/ Outputs!CleanFails

LEMMA OutputsKinds ==
  Outputs!Next <=>
    \/ OutputsQuiet \/ Outputs!Link \/ Outputs!RemoveFinal
    \/ \E o \in Outputs!Output : Outputs!Foreign(o)
  BY DEF Outputs!Next, OutputsQuiet

(* What each kind of step does to the final names the workload owns. *)
LEMMA OutputsOwnFinals ==
  ASSUME Outputs!OutputsAssumption, Outputs!TypeOK, Outputs!LinkedInOrder
  PROVE  /\ OutputsQuiet => final' = final /\ Outputs!OwnFinals' = Outputs!OwnFinals
         /\ \A o \in Outputs!Output :
              Outputs!Foreign(o) => Outputs!OwnFinals' = Outputs!OwnFinals \ {o}
         /\ Outputs!Link => IF final[next] = Free
                            THEN Outputs!OwnFinals' = Outputs!OwnFinals \cup {next}
                            ELSE Outputs!OwnFinals' = Outputs!OwnFinals
         /\ Outputs!RemoveFinal => Outputs!OwnFinals' = Outputs!OwnFinals \ {next}
<1>1. ASSUME OutputsQuiet PROVE final' = final
  BY <1>1 DEF OutputsQuiet, Outputs!WriteStaged, Outputs!Enter, Outputs!BodyRaises, Outputs!Exit,
     Outputs!Identify, Outputs!Unlink, Outputs!PublicationFails, Outputs!CleanStaged,
     Outputs!CompareFinal, Outputs!CleanFails
<1>2. ASSUME final' = final PROVE Outputs!OwnFinals' = Outputs!OwnFinals
  BY <1>2 DEF Outputs!OwnFinals, Outputs!Own
<1>3. ASSUME NEW o \in Outputs!Output, Outputs!Foreign(o)
      PROVE  Outputs!OwnFinals' = Outputs!OwnFinals \ {o}
  <2>1. final' = [final EXCEPT ![o] = <<"foreign", foreign + 1>>] BY <1>3 DEF Outputs!Foreign
  <2>2. <<"foreign", foreign + 1>> # Outputs!Own(o) BY DEF Outputs!Own
  <2>3. \A p \in Outputs!Output : final'[p] = IF p = o THEN <<"foreign", foreign + 1>> ELSE final[p]
    BY <2>1 DEF Outputs!TypeOK
  <2>4. \A p : Outputs!Own(p)' = Outputs!Own(p) BY DEF Outputs!Own
  <2> QED BY <2>2, <2>3, <2>4 DEF Outputs!OwnFinals
<1>4. ASSUME Outputs!Link
      PROVE  IF final[next] = Free
             THEN Outputs!OwnFinals' = Outputs!OwnFinals \cup {next}
             ELSE Outputs!OwnFinals' = Outputs!OwnFinals
  <2>1. next \in Outputs!Output /\ staged[next] = Outputs!Own(next)
    BY <1>4 DEF Outputs!Link, Outputs!LinkedInOrder
  <2>2. CASE final[next] = Free
    <3>1. final' = [final EXCEPT ![next] = Outputs!Own(next)]
      BY <1>4, <2>1, <2>2 DEF Outputs!Link, Outputs!LinkClaims
    <3>2. \A p \in Outputs!Output : final'[p] = IF p = next THEN Outputs!Own(next) ELSE final[p]
      BY <3>1 DEF Outputs!TypeOK
    <3>3. \A p : Outputs!Own(p)' = Outputs!Own(p) BY DEF Outputs!Own
    <3> QED BY <2>1, <2>2, <3>2, <3>3 DEF Outputs!OwnFinals
  <2>3. CASE final[next] # Free
    <3>1. final' = final BY <1>4, <2>3 DEF Outputs!Link, Outputs!LinkClaims
    <3> QED BY <1>2, <2>3, <3>1
  <2> QED BY <2>2, <2>3
<1>5. ASSUME Outputs!RemoveFinal PROVE Outputs!OwnFinals' = Outputs!OwnFinals \ {next}
  <2>1. final' = [final EXCEPT ![next] = Free] BY <1>5 DEF Outputs!RemoveFinal
  <2>2. \A p \in Outputs!Output : final'[p] = IF p = next THEN Free ELSE final[p]
    BY <2>1 DEF Outputs!TypeOK
  <2>3. \A p \in Outputs!Output : Outputs!Own(p) # Free BY OutputsOwnFile
  <2>4. \A p : Outputs!Own(p)' = Outputs!Own(p) BY DEF Outputs!Own
  <2> QED BY <2>2, <2>3, <2>4 DEF Outputs!OwnFinals
<1> QED BY <1>1, <1>2, <1>3, <1>4, <1>5

LEMMA OutputsStepLinked ==
  ASSUME Outputs!OutputsAssumption, Outputs!TypeOK, Outputs!LinkedInOrder, Outputs!Next
  PROVE  Outputs!LinkedInOrder'
<1> USE DEF Outputs!OutputsAssumption, Outputs!Output, Outputs!To
<1>0. \A o : Outputs!Own(o)' = Outputs!Own(o) BY DEF Outputs!Own
<1>1. ASSUME NEW o \in Outputs!Output, Outputs!Foreign(o) PROVE Outputs!LinkedInOrder'
  <2>1. Outputs!OwnFinals' = Outputs!OwnFinals \ {o} BY <1>1, OutputsOwnFinals
  <2>2. UNCHANGED <<staged, pc, next, published>> BY <1>1 DEF Outputs!Foreign
  <2> QED BY <1>0, <2>1, <2>2 DEF Outputs!LinkedInOrder, Outputs!AllStaged
<1>2. CASE Outputs!RemoveFinal
  <2>1. Outputs!OwnFinals' = Outputs!OwnFinals \ {next} BY <1>2, OutputsOwnFinals
  <2>2. UNCHANGED <<staged, published>> /\ pc' = "clean_final" BY <1>2 DEF Outputs!RemoveFinal
  <2> QED BY <2>1, <2>2 DEF Outputs!LinkedInOrder
<1>3. CASE Outputs!Link
  <2>1. next \in Outputs!Output /\ published = 1..(next - 1) /\ Outputs!AllStaged
    BY <1>3 DEF Outputs!Link, Outputs!LinkedInOrder
  <2>2. CASE final[next] = Free
    <3>1. Outputs!OwnFinals' = Outputs!OwnFinals \cup {next} BY <1>3, <2>2, OutputsOwnFinals
    <3>2. /\ published' = published \cup {next} /\ pc' = "identify" /\ next' = next + 1
          /\ staged' = staged
      BY <1>3, <2>2 DEF Outputs!Link, Outputs!LinkClaims
    <3>3. published' = 1..(next' - 1) BY <2>1, <3>2
    <3> QED BY <2>1, <3>1, <3>2, <3>3 DEF Outputs!LinkedInOrder, Outputs!AllStaged
  <2>3. CASE final[next] # Free
    <3>1. Outputs!OwnFinals' = Outputs!OwnFinals BY <1>3, <2>3, OutputsOwnFinals
    <3>2. published' = published /\ pc' = "clean_staged"
      BY <1>3, <2>3 DEF Outputs!Link, Outputs!LinkClaims
    <3> QED BY <3>1, <3>2 DEF Outputs!LinkedInOrder
  <2> QED BY <2>2, <2>3
<1>4. CASE OutputsQuiet
  <2>1. Outputs!OwnFinals' = Outputs!OwnFinals BY <1>4, OutputsOwnFinals
  <2>2. ASSUME NEW o \in Outputs!Output, NEW kind \in {"own", "odd"}, Outputs!WriteStaged(o, kind)
        PROVE  Outputs!LinkedInOrder'
    BY <2>1, <2>2 DEF Outputs!WriteStaged, Outputs!LinkedInOrder
  <2>3. CASE Outputs!Enter
    <3>1. published' = published /\ published = {} /\ pc' \in {"body", "done"}
      BY <2>3 DEF Outputs!Enter, Outputs!LinkedInOrder
    <3> QED BY <2>1, <3>1 DEF Outputs!LinkedInOrder
  <2>4. CASE Outputs!BodyRaises BY <2>1, <2>4 DEF Outputs!BodyRaises, Outputs!LinkedInOrder
  <2>5. CASE Outputs!Exit
    <3>1. published' = published /\ published = {} /\ staged' = staged /\ next' = 1
      BY <2>5 DEF Outputs!Exit, Outputs!LinkedInOrder
    <3>2. (pc' = "identify" /\ Outputs!AllStaged) \/ pc' = "clean_staged" BY <2>5 DEF Outputs!Exit
    <3>3. 1..(next' - 1) = {} BY <3>1
    <3> QED BY <2>1, <3>1, <3>2, <3>3 DEF Outputs!LinkedInOrder, Outputs!AllStaged
  <2>6. CASE Outputs!Identify
    <3>1. published' = published /\ staged' = staged BY <2>6 DEF Outputs!Identify
    <3>2. published = 1..(next - 1) /\ Outputs!AllStaged
      BY <2>6 DEF Outputs!Identify, Outputs!LinkedInOrder
    <3>3. CASE next \in Outputs!Output /\ staged[next] # Outputs!Own(next)
      <4>1. pc' = "clean_staged" BY <2>6, <3>3 DEF Outputs!Identify
      <4> QED BY <2>1, <3>1, <4>1 DEF Outputs!LinkedInOrder
    <3>4. CASE next \in Outputs!Output /\ staged[next] = Outputs!Own(next)
      <4>1. pc' = "link" /\ next' = next BY <2>6, <3>4 DEF Outputs!Identify
      <4> QED BY <1>0, <2>1, <3>1, <3>2, <3>4, <4>1 DEF Outputs!LinkedInOrder, Outputs!AllStaged
    <3>5. CASE next \notin Outputs!Output
      <4>1. pc' = "unlink" BY <2>6, <3>5 DEF Outputs!Identify
      <4>2. published = Outputs!Output BY <3>2, <3>5 DEF Outputs!TypeOK
      <4> QED BY <2>1, <3>1, <4>1, <4>2 DEF Outputs!LinkedInOrder
    <3> QED BY <3>3, <3>4, <3>5
  <2>7. CASE Outputs!Unlink
    <3>1. published' = published /\ published = Outputs!Output /\ pc' \in {"unlink", "done"}
      BY <2>7 DEF Outputs!Unlink, Outputs!LinkedInOrder
    <3> QED BY <2>1, <3>1 DEF Outputs!LinkedInOrder
  <2>8. CASE Outputs!PublicationFails
    BY <2>1, <2>8 DEF Outputs!PublicationFails, Outputs!LinkedInOrder
  <2>9. ASSUME Outputs!CleanStaged \/ Outputs!CompareFinal \/ Outputs!CleanFails
        PROVE  Outputs!LinkedInOrder'
    <3>1. published' = published /\ pc' \in {"clean_staged", "clean_final", "remove_final", "done"}
      BY <2>9 DEF Outputs!CleanStaged, Outputs!CompareFinal, Outputs!CleanFails
    <3> QED BY <2>1, <3>1 DEF Outputs!LinkedInOrder
  <2> QED BY <1>4, <2>2, <2>3, <2>4, <2>5, <2>6, <2>7, <2>8, <2>9 DEF OutputsQuiet
<1> QED BY <1>1, <1>2, <1>3, <1>4, OutputsKinds

(* A loop over the outputs ends when it has passed all of them. *)
LEMMA OutputsPassed ==
  ASSUME Outputs!OutputsAssumption, Outputs!TypeOK
  PROVE  /\ next \notin Outputs!Output => \A o \in Outputs!Output : o < next
         /\ next \in Outputs!Output =>
              \A o \in Outputs!Output : o < next + 1 <=> o < next \/ o = next
  BY DEF Outputs!OutputsAssumption, Outputs!TypeOK, Outputs!Output

(* Without an error nothing published is lost but to other programs. *)
LEMMA OutputsStepUnraised ==
  ASSUME Outputs!OutputsAssumption, Outputs!TypeOK, Outputs!LinkedInOrder, Outputs!Unraised,
         Outputs!Next
  PROVE  Outputs!Unraised'
<1> DEFINE Lost == published \ Outputs!OwnFinals
<1> USE DEF Outputs!To, Outputs!Phase, Outputs!Cleaning
<1>a. Lost \subseteq Outputs!Output /\ foreign \in Nat BY DEF Outputs!TypeOK
<1>b. ~raised => Cardinality(Lost) <= foreign BY SameCardinality DEF Outputs!Unraised
<1> HIDE DEF Lost
<1>1. ASSUME NEW o \in Outputs!Output, Outputs!Foreign(o) PROVE Outputs!Unraised'
  <2>1. Outputs!OwnFinals' = Outputs!OwnFinals \ {o} BY <1>1, OutputsOwnFinals
  <2>2. UNCHANGED <<staged, pc, next, published, raised>> /\ foreign' = foreign + 1 /\ pc # "done"
    BY <1>1 DEF Outputs!Foreign
  <2>3. Lost' \subseteq Lost \cup {o} BY <2>1, <2>2 DEF Lost
  <2>4. ~raised => Cardinality(Lost') <= foreign + 1 BY <1>a, <1>b, <2>3, OutputsGrow
  <2>5. ~raised => Outputs!Cardinality(published \ Outputs!OwnFinals)' <= foreign'
    BY <2>2, <2>4, SameCardinality DEF Lost
  <2> QED BY <2>2, <2>5 DEF Outputs!Unraised
<1>2. CASE Outputs!RemoveFinal
  <2>1. pc = "remove_final" /\ pc' = "clean_final" /\ raised' = raised
    BY <1>2 DEF Outputs!RemoveFinal
  <2> QED BY <2>1 DEF Outputs!Unraised
<1>3. CASE Outputs!Link
  <2>1. pc = "link" /\ ~raised BY <1>3 DEF Outputs!Link, Outputs!Unraised
  <2>2. CASE final[next] = Free
    <3>1. Outputs!OwnFinals' = Outputs!OwnFinals \cup {next} BY <1>3, <2>2, OutputsOwnFinals
    <3>2. /\ published' = published \cup {next} /\ pc' = "identify" /\ raised' = raised
          /\ foreign' = foreign
      BY <1>3, <2>2 DEF Outputs!Link, Outputs!LinkClaims
    <3>3. Lost' \subseteq Lost BY <3>1, <3>2 DEF Lost
    <3>4. Cardinality(Lost') <= foreign BY <1>a, <1>b, <2>1, <3>3, OutputsShrink
    <3>5. Outputs!Cardinality(published \ Outputs!OwnFinals)' <= foreign'
      BY <3>2, <3>4, SameCardinality DEF Lost
    <3> QED BY <2>1, <3>2, <3>5 DEF Outputs!Unraised
  <2>3. CASE final[next] # Free
    <3>1. pc' = "clean_staged" /\ raised' = TRUE
      BY <1>3, <2>3 DEF Outputs!Link, Outputs!LinkClaims
    <3> QED BY <3>1 DEF Outputs!Unraised
  <2> QED BY <2>2, <2>3
<1>4. CASE OutputsQuiet
  <2>1. Outputs!OwnFinals' = Outputs!OwnFinals BY <1>4, OutputsOwnFinals
  <2>2. published' = published /\ foreign' = foreign
    BY <1>4 DEF OutputsQuiet, Outputs!WriteStaged, Outputs!Enter, Outputs!BodyRaises, Outputs!Exit,
       Outputs!Identify, Outputs!Unlink, Outputs!PublicationFails, Outputs!CleanStaged,
       Outputs!CompareFinal, Outputs!CleanFails
  <2>3. ~raised => Outputs!Cardinality(published \ Outputs!OwnFinals)' <= foreign'
    BY <1>b, <2>1, <2>2, SameCardinality DEF Lost
  <2>4. ASSUME NEW o \in Outputs!Output, NEW kind \in {"own", "odd"}, Outputs!WriteStaged(o, kind)
        PROVE  Outputs!Unraised'
    <3>1. pc = "body" /\ pc' = pc /\ raised' = raised BY <2>4 DEF Outputs!WriteStaged
    <3> QED BY <2>3, <3>1 DEF Outputs!Unraised
  <2>5. CASE Outputs!Enter
    <3>1. pc = "enter" /\ ~raised BY <2>5 DEF Outputs!Enter, Outputs!Unraised
    <3>2. (pc' = "done" /\ raised' = TRUE) \/ (pc' = "body" /\ raised' = raised)
      BY <2>5 DEF Outputs!Enter
    <3> QED BY <2>3, <3>1, <3>2 DEF Outputs!Unraised
  <2>6. CASE Outputs!BodyRaises
    <3>1. pc' = "clean_staged" /\ raised' = TRUE BY <2>6 DEF Outputs!BodyRaises
    <3> QED BY <3>1 DEF Outputs!Unraised
  <2>7. CASE Outputs!Exit
    <3>1. pc = "body" /\ ~raised BY <2>7 DEF Outputs!Exit, Outputs!Unraised
    <3>2. (pc' = "clean_staged" /\ raised' = TRUE) \/ (pc' = "identify" /\ raised' = raised)
      BY <2>7 DEF Outputs!Exit
    <3> QED BY <2>3, <3>1, <3>2 DEF Outputs!Unraised
  <2>8. CASE Outputs!Identify
    <3>1. pc = "identify" /\ ~raised BY <2>8 DEF Outputs!Identify, Outputs!Unraised
    <3>2. \/ pc' = "clean_staged" /\ raised' = TRUE
          \/ pc' = "link" /\ raised' = raised
          \/ pc' = "unlink" /\ next' = 1 /\ raised' = raised
      BY <2>8 DEF Outputs!Identify
    <3>3. \A o \in Outputs!Output : ~(o < 1) BY DEF Outputs!Output
    <3> QED BY <2>3, <3>1, <3>2, <3>3 DEF Outputs!Unraised
  <2>9. CASE Outputs!Unlink
    <3>1. pc = "unlink" /\ ~raised /\ raised' = raised /\ published = Outputs!Output
      BY <2>9 DEF Outputs!Unlink, Outputs!Unraised, Outputs!LinkedInOrder
    <3>2. \A o \in Outputs!Output : o < next => staged[o] = Free BY <3>1 DEF Outputs!Unraised
    <3>3. CASE next \in Outputs!Output
      <4>1. pc' = pc /\ next' = next + 1 /\ staged' = [staged EXCEPT ![next] = Free]
        BY <2>9, <3>3 DEF Outputs!Unlink, Outputs!Unlinked
      <4>2. \A o \in Outputs!Output : o < next' => staged'[o] = Free
        BY <3>2, <3>3, <4>1 DEF Outputs!TypeOK, Outputs!Output
      <4> QED BY <2>2, <2>3, <3>1, <4>1, <4>2 DEF Outputs!Unraised
    <3>4. CASE next \notin Outputs!Output
      <4>1. pc' = "done" /\ staged' = staged BY <2>9, <3>4 DEF Outputs!Unlink
      <4>2. \A o \in Outputs!Output : staged'[o] = Free BY <3>2, <3>4, <4>1, OutputsPassed
      <4> QED BY <2>2, <2>3, <3>1, <4>1, <4>2 DEF Outputs!Unraised
    <3> QED BY <3>3, <3>4
  <2>10. CASE Outputs!PublicationFails
    <3>1. pc' = "clean_staged" /\ raised' = TRUE BY <2>10 DEF Outputs!PublicationFails
    <3> QED BY <3>1 DEF Outputs!Unraised
  <2>11. ASSUME Outputs!CleanStaged \/ Outputs!CompareFinal \/ Outputs!CleanFails
         PROVE  Outputs!Unraised'
    <3>1. pc \in Outputs!Cleaning /\ raised' = raised
      BY <2>11 DEF Outputs!CleanStaged, Outputs!CompareFinal, Outputs!CleanFails
    <3>2. pc' \in Outputs!Cleaning \cup {"done"}
      BY <2>11 DEF Outputs!CleanStaged, Outputs!CompareFinal, Outputs!CleanFails
    <3> QED BY <3>1, <3>2 DEF Outputs!Unraised
  <2> QED BY <1>4, <2>4, <2>5, <2>6, <2>7, <2>8, <2>9, <2>10, <2>11 DEF OutputsQuiet
<1> QED BY <1>1, <1>2, <1>3, <1>4, OutputsKinds

(* Before the comparison and the removal another file came, or the name is *)
(* still the workload's.                                                   *)
OutputsCompared == pc = "remove_final" =>
  next \in Outputs!Output /\ (~late => final[next] = Outputs!Own(next))

LEMMA OutputsStepCompared ==
  ASSUME Outputs!OutputsAssumption, Outputs!TypeOK, OutputsCompared, Outputs!Next
  PROVE  OutputsCompared'
<1>0. \A o : Outputs!Own(o)' = Outputs!Own(o) BY DEF Outputs!Own
<1>1. ASSUME NEW o \in Outputs!Output, Outputs!Foreign(o) PROVE OutputsCompared'
  <2>1. /\ UNCHANGED <<pc, next>> /\ final' = [final EXCEPT ![o] = <<"foreign", foreign + 1>>]
        /\ late' = (late \/ (pc = "remove_final" /\ next = o))
    BY <1>1 DEF Outputs!Foreign
  <2>2. \A p \in Outputs!Output : p # o => final'[p] = final[p] BY <2>1 DEF Outputs!TypeOK
  <2>3. CASE pc = "remove_final" /\ next = o
    <3>1. late' BY <2>1, <2>3
    <3> QED BY <1>1, <2>1, <2>3, <3>1 DEF OutputsCompared
  <2>4. CASE ~(pc = "remove_final" /\ next = o)
    <3>1. late' = (late \/ FALSE) BY <2>1, <2>4
    <3>2. ~late' => ~late BY <3>1
    <3> QED BY <1>0, <2>1, <2>2, <2>4, <3>2 DEF OutputsCompared
  <2> QED BY <2>3, <2>4
<1>2. CASE Outputs!CompareFinal
  BY <1>2, <1>0 DEF Outputs!CompareFinal, Outputs!StillOwn, OutputsCompared, Outputs!To
<1>3. ASSUME pc' # "remove_final" PROVE OutputsCompared' BY <1>3 DEF OutputsCompared
<1>4. ASSUME NEW o \in Outputs!Output, NEW kind \in {"own", "odd"}, Outputs!WriteStaged(o, kind)
      PROVE  pc' # "remove_final"
  BY <1>4 DEF Outputs!WriteStaged
<1>5. ASSUME \/ Outputs!Enter \/ Outputs!BodyRaises \/ Outputs!Exit \/ Outputs!Identify \/ Outputs!Link
             \/ Outputs!Unlink \/ Outputs!PublicationFails \/ Outputs!CleanStaged
             \/ Outputs!RemoveFinal \/ Outputs!CleanFails
      PROVE  pc' # "remove_final"
  BY <1>5 DEF Outputs!Enter, Outputs!BodyRaises, Outputs!Exit, Outputs!Identify, Outputs!Link,
     Outputs!Unlink, Outputs!PublicationFails, Outputs!CleanStaged, Outputs!RemoveFinal,
     Outputs!CleanFails, Outputs!To
<1> QED BY <1>1, <1>2, <1>3, <1>4, <1>5 DEF Outputs!Next

(* A step after which no more outputs are left behind. *)
LEMMA OutputsLeftLess ==
  ASSUME Outputs!OutputsAssumption, Outputs!TypeOK, Outputs!LeftBounded, raised,
         Outputs!Left' \subseteq Outputs!Left, errors' = errors, faults' \in Nat, faults <= faults'
  PROVE  Outputs!LeftBounded'
<1>1. /\ Outputs!Left \subseteq Outputs!Output /\ faults \in Nat
      /\ Cardinality(Outputs!Left) <= faults
  BY SameCardinality DEF Outputs!LeftBounded, Outputs!Left, Outputs!PassedStaged,
     Outputs!PassedFinal, Outputs!OwnFinals, Outputs!TypeOK
<1>2. Cardinality(Outputs!Left') <= faults BY <1>1, OutputsShrink
<1>3. Cardinality(Outputs!Left') \in Nat BY <1>1, OutputsFinite
<1>4. Outputs!Cardinality(Outputs!Left)' <= faults' BY <1>1, <1>2, <1>3, SameCardinality
<1>5. ~errors' => Outputs!Left' = {} BY DEF Outputs!LeftBounded
<1> QED BY <1>4, <1>5 DEF Outputs!LeftBounded

(* A step that leaves nothing behind. *)
LEMMA OutputsLeftNone ==
  ASSUME Outputs!Left' = {}, faults' \in Nat
  PROVE  Outputs!LeftBounded'
<1>1. Outputs!Cardinality(Outputs!Left)' = 0 BY FS_EmptySet, SameCardinality
<1> QED BY <1>1 DEF Outputs!LeftBounded

LEMMA OutputsStepLeft ==
  ASSUME Outputs!OutputsAssumption, Outputs!TypeOK, Outputs!TypeOK', Outputs!LinkedInOrder,
         Outputs!Unraised, Outputs!LeftBounded, OutputsCompared, Outputs!Next
  PROVE  Outputs!LeftBounded'
<1>0. faults' \in Nat /\ \A p : Outputs!Own(p)' = Outputs!Own(p) BY DEF Outputs!TypeOK, Outputs!Own
<1>a. ASSUME ~raised' PROVE Outputs!LeftBounded' BY <1>a DEF Outputs!LeftBounded
<1>b. ASSUME pc' = "clean_staged", next' = 1 PROVE Outputs!LeftBounded'
  <2>1. \A o \in Outputs!Output : ~(o < 1) BY DEF Outputs!Output
  <2>2. Outputs!Left' = {}
    BY <1>b, <2>1 DEF Outputs!Left, Outputs!PassedStaged, Outputs!PassedFinal
  <2> QED BY <1>0, <2>2, OutputsLeftNone
<1>1. ASSUME NEW o \in Outputs!Output, Outputs!Foreign(o) PROVE Outputs!LeftBounded'
  <2>1. Outputs!OwnFinals' = Outputs!OwnFinals \ {o} BY <1>1, OutputsOwnFinals
  <2>2. UNCHANGED <<staged, pc, next, errors, raised, faults>> BY <1>1 DEF Outputs!Foreign
  <2>3. Outputs!Left' \subseteq Outputs!Left
    BY <2>1, <2>2 DEF Outputs!Left, Outputs!PassedStaged, Outputs!PassedFinal
  <2>4. CASE raised
    <3>1. faults <= faults' BY <2>2 DEF Outputs!TypeOK
    <3> QED BY <1>0, <2>2, <2>3, <2>4, <3>1, OutputsLeftLess
  <2> QED BY <1>a, <2>2, <2>4
<1>2. CASE Outputs!RemoveFinal
  <2>1. Outputs!OwnFinals' = Outputs!OwnFinals \ {next} BY <1>2, OutputsOwnFinals
  <2>2. /\ pc = "remove_final" /\ pc' = "clean_final" /\ next' = next + 1
        /\ UNCHANGED <<staged, errors, raised, faults>>
    BY <1>2 DEF Outputs!RemoveFinal
  <2>3. raised /\ next \in Outputs!Output
    BY <2>2 DEF Outputs!Unraised, Outputs!Cleaning, OutputsCompared
  <2>4. \A o \in Outputs!OwnFinals' : o \in Outputs!OwnFinals /\ (o < next + 1 => o < next)
    BY <2>1, <2>3, OutputsPassed DEF Outputs!OwnFinals
  <2>5. Outputs!Left' \subseteq Outputs!Left
    BY <2>2, <2>4 DEF Outputs!Left, Outputs!PassedStaged, Outputs!PassedFinal
  <2>6. faults <= faults' BY <2>2 DEF Outputs!TypeOK
  <2> QED BY <1>0, <2>2, <2>3, <2>5, <2>6, OutputsLeftLess
<1>3. ASSUME \/ Outputs!BodyRaises \/ Outputs!Exit \/ Outputs!Identify \/ Outputs!Link
             \/ Outputs!PublicationFails
      PROVE  Outputs!LeftBounded'
  <2>1. pc \in {"body", "identify", "link", "unlink"}
    BY <1>3 DEF Outputs!BodyRaises, Outputs!Exit, Outputs!Identify, Outputs!Link,
       Outputs!PublicationFails
  <2>2. ~raised BY <2>1 DEF Outputs!Unraised, Outputs!Cleaning, Outputs!Phase
  <2>3. (pc' = "clean_staged" /\ next' = 1) \/ raised' = raised
    BY <1>3 DEF Outputs!BodyRaises, Outputs!Exit, Outputs!Identify, Outputs!Link,
       Outputs!PublicationFails, Outputs!To
  <2> QED BY <1>a, <1>b, <2>2, <2>3
<1>4. ASSUME NEW o \in Outputs!Output, NEW kind \in {"own", "odd"}, Outputs!WriteStaged(o, kind)
      PROVE  Outputs!LeftBounded'
  <2>1. pc = "body" /\ raised' = raised BY <1>4 DEF Outputs!WriteStaged
  <2>2. ~raised BY <2>1 DEF Outputs!Unraised, Outputs!Cleaning, Outputs!Phase
  <2> QED BY <1>a, <2>1, <2>2
<1>5. CASE Outputs!Unlink
  <2>1. pc = "unlink" /\ raised' = raised BY <1>5 DEF Outputs!Unlink
  <2>2. ~raised BY <2>1 DEF Outputs!Unraised, Outputs!Cleaning, Outputs!Phase
  <2> QED BY <1>a, <2>1, <2>2
<1>6. CASE Outputs!Enter
  <2>1. pc = "enter" /\ pc' \in {"body", "done"} /\ UNCHANGED <<staged, published>>
    BY <1>6 DEF Outputs!Enter, Outputs!To
  <2>2. Outputs!OwnFinals' = Outputs!OwnFinals BY <1>6, OutputsOwnFinals DEF OutputsQuiet
  <2>3. Outputs!OwnFinals = {} /\ \A o \in Outputs!Output : staged[o] = Free
    BY <2>1 DEF Outputs!LinkedInOrder
  <2>4. Outputs!Left' = {}
    BY <2>1, <2>2, <2>3 DEF Outputs!Left, Outputs!PassedStaged, Outputs!PassedFinal
  <2> QED BY <1>0, <2>4, OutputsLeftNone
<1>7. CASE Outputs!CleanStaged
  <2>0. Outputs!OwnFinals' = Outputs!OwnFinals BY <1>7, OutputsOwnFinals DEF OutputsQuiet
  <2>1. /\ pc = "clean_staged" /\ raised /\ UNCHANGED <<errors, raised, faults>>
        /\ faults <= faults'
    BY <1>7 DEF Outputs!CleanStaged, Outputs!Unraised, Outputs!Cleaning, Outputs!TypeOK
  <2>2. CASE next \in Outputs!Output
    <3>1. staged' = [staged EXCEPT ![next] = Free] /\ next' = next + 1 /\ pc' = pc
      BY <1>7, <2>2 DEF Outputs!CleanStaged
    <3>2. \A o \in Outputs!Output : o < next' /\ staged'[o] # Free => o < next /\ staged[o] # Free
      BY <2>2, <3>1, OutputsPassed DEF Outputs!TypeOK
    <3>3. Outputs!Left' \subseteq Outputs!Left
      BY <2>1, <3>1, <3>2 DEF Outputs!Left, Outputs!PassedStaged, Outputs!PassedFinal
    <3> QED BY <1>0, <2>1, <3>3, OutputsLeftLess
  <2>3. CASE next \notin Outputs!Output
    <3>1. staged' = staged /\ next' = 1 /\ pc' = "clean_final"
      BY <1>7, <2>3 DEF Outputs!CleanStaged, Outputs!To
    <3>2. \A o \in Outputs!Output : o < next /\ ~(o < 1)
      BY <2>3, OutputsPassed DEF Outputs!Output
    <3>3. \A o \in Outputs!OwnFinals' : o \in Outputs!Output BY <2>0 DEF Outputs!OwnFinals
    <3>4. Outputs!Left' \subseteq Outputs!Left
      BY <2>1, <3>1, <3>2, <3>3 DEF Outputs!Left, Outputs!PassedStaged, Outputs!PassedFinal
    <3> QED BY <1>0, <2>1, <3>4, OutputsLeftLess
  <2> QED BY <2>2, <2>3
<1>8. CASE Outputs!CompareFinal
  <2>0. Outputs!OwnFinals' = Outputs!OwnFinals BY <1>8, OutputsOwnFinals DEF OutputsQuiet
  <2>1. /\ pc = "clean_final" /\ raised /\ UNCHANGED <<staged, errors, raised, faults>>
        /\ faults <= faults'
    BY <1>8 DEF Outputs!CompareFinal, Outputs!Unraised, Outputs!Cleaning, Outputs!TypeOK
  <2>2. CASE next \in Outputs!Output /\ Outputs!StillOwn(next)
    <3>1. pc' = "remove_final" /\ next' = next BY <1>8, <2>2 DEF Outputs!CompareFinal
    <3>2. Outputs!Left' \subseteq Outputs!Left
      BY <2>0, <2>1, <3>1 DEF Outputs!Left, Outputs!PassedStaged, Outputs!PassedFinal
    <3> QED BY <1>0, <2>1, <3>2, OutputsLeftLess
  <2>3. CASE next \in Outputs!Output /\ ~Outputs!StillOwn(next)
    <3>1. pc' = pc /\ next' = next + 1 BY <1>8, <2>3 DEF Outputs!CompareFinal
    <3>2. next \notin Outputs!OwnFinals
      BY <2>3 DEF Outputs!StillOwn, Outputs!LinkedInOrder, Outputs!OwnFinals
    <3>3. \A o \in Outputs!OwnFinals : o < next + 1 => o < next
      BY <2>3, <3>2, OutputsPassed DEF Outputs!OwnFinals
    <3>4. Outputs!Left' \subseteq Outputs!Left
      BY <2>0, <2>1, <3>1, <3>3 DEF Outputs!Left, Outputs!PassedStaged, Outputs!PassedFinal
    <3> QED BY <1>0, <2>1, <3>4, OutputsLeftLess
  <2>4. CASE next \notin Outputs!Output
    <3>1. pc' = "done" BY <1>8, <2>4 DEF Outputs!CompareFinal, Outputs!To
    <3>2. \A o \in Outputs!OwnFinals : o < next BY <2>4, OutputsPassed DEF Outputs!OwnFinals
    <3>3. Outputs!Left' \subseteq Outputs!Left
      BY <2>0, <2>1, <3>1, <3>2 DEF Outputs!Left, Outputs!PassedStaged, Outputs!PassedFinal
    <3> QED BY <1>0, <2>1, <3>3, OutputsLeftLess
  <2> QED BY <2>2, <2>3, <2>4
<1>9. CASE Outputs!CleanFails
  <2>0. Outputs!OwnFinals' = Outputs!OwnFinals BY <1>9, OutputsOwnFinals DEF OutputsQuiet
  <2>1. /\ pc \in Outputs!Cleaning /\ next \in Outputs!Output /\ next' = next + 1
        /\ pc' = (IF pc = "clean_staged" THEN pc ELSE "clean_final")
        /\ staged' = staged /\ faults' = faults + 1 /\ errors' = TRUE /\ raised' = raised
    BY <1>9 DEF Outputs!CleanFails, Outputs!GoesOn, Outputs!Fault, Outputs!Cleaning
  <2>2. raised BY <2>1 DEF Outputs!Unraised
  <2>3. \A o \in Outputs!Output : o < next + 1 => o < next \/ o = next BY <2>1, OutputsPassed
  <2>4. Outputs!OwnFinals \subseteq Outputs!Output BY DEF Outputs!OwnFinals
  <2>5. Outputs!Left' \subseteq Outputs!Left \cup {next}
    <3>1. CASE pc = "clean_staged"
      BY <2>0, <2>1, <2>3, <3>1 DEF Outputs!Left, Outputs!PassedStaged, Outputs!PassedFinal
    <3>2. CASE pc \in {"clean_final", "remove_final"}
      BY <2>0, <2>1, <2>3, <2>4, <3>2 DEF Outputs!Left, Outputs!PassedStaged, Outputs!PassedFinal
    <3> QED BY <2>1, <3>1, <3>2 DEF Outputs!Cleaning
  <2>6. /\ Outputs!Left \subseteq Outputs!Output /\ faults \in Nat
        /\ Cardinality(Outputs!Left) <= faults
    BY <2>2, SameCardinality DEF Outputs!LeftBounded, Outputs!Left, Outputs!PassedStaged,
       Outputs!PassedFinal, Outputs!OwnFinals, Outputs!TypeOK
  <2>7. Cardinality(Outputs!Left') <= faults + 1 BY <2>1, <2>5, <2>6, OutputsGrow
  <2>8. Outputs!Cardinality(Outputs!Left)' <= faults' BY <2>1, <2>7, SameCardinality
  <2> QED BY <2>1, <2>8 DEF Outputs!LeftBounded
<1> QED BY <1>1, <1>2, <1>3, <1>4, <1>5, <1>6, <1>7, <1>8, <1>9 DEF Outputs!Next

LEMMA OutputsNextInvariant ==
  ASSUME Outputs!OutputsAssumption, Outputs!IInv, [Outputs!Next]_(Outputs!vars)
  PROVE  Outputs!IInv'
<1>0. /\ Outputs!TypeOK /\ Outputs!LinkedInOrder /\ Outputs!Unraised /\ Outputs!LeftBounded
      /\ OutputsCompared
  BY DEF Outputs!IInv, OutputsCompared
<1>1. CASE Outputs!Next
  <2>1. pc = "remove_final" => next \in Outputs!Output BY <1>0 DEF OutputsCompared
  <2>2. Outputs!TypeOK' BY <1>0, <1>1, <2>1, OutputsType
  <2>3. Outputs!LinkedInOrder' BY <1>0, <1>1, OutputsStepLinked
  <2>4. Outputs!Unraised' BY <1>0, <1>1, OutputsStepUnraised
  <2>5. Outputs!LeftBounded' BY <1>0, <1>1, <2>2, OutputsStepLeft
  <2>6. OutputsCompared' BY <1>0, <1>1, OutputsStepCompared
  <2> QED BY <2>2, <2>3, <2>4, <2>5, <2>6 DEF Outputs!IInv, OutputsCompared
<1>2. CASE UNCHANGED Outputs!vars
  BY <1>0, <1>2 DEF Outputs!vars, Outputs!IInv, Outputs!TypeOK, Outputs!LinkedInOrder,
     Outputs!Unraised, Outputs!LeftBounded, OutputsCompared, Outputs!OwnFinals, Outputs!AllStaged,
     Outputs!Left, Outputs!PassedStaged, Outputs!PassedFinal, Outputs!Own
<1> QED BY <1>1, <1>2

LEMMA OutputsInvariantImplies ==
  ASSUME Outputs!IInv
  PROVE  Outputs!FailedLeavesNothing /\ Outputs!PublishedTogether
<1>1. Outputs!FailedLeavesNothing
  <2>1. pc = "done" => Outputs!Left = Outputs!OwnFinals \cup {o \in Outputs!Output : staged[o] # Free}
    BY DEF Outputs!Left, Outputs!PassedStaged, Outputs!PassedFinal
  <2> QED BY <2>1 DEF Outputs!IInv, Outputs!LeftBounded, Outputs!FailedLeavesNothing
<1>2. Outputs!PublishedTogether
  BY DEF Outputs!IInv, Outputs!Unraised, Outputs!PublishedTogether
<1> QED BY <1>1, <1>2

(* Only the removal of a final name, or a step of the other program,       *)
(* changes a name that holds another file.                                 *)
LEMMA OutputsKeepForeign ==
  ASSUME Outputs!OutputsAssumption, Outputs!IInv, [Outputs!Next]_(Outputs!vars)
  PROVE  Outputs!KeepsForeign
<1> SUFFICES ASSUME NEW o \in Outputs!Output, final[o] # Free, final[o] # Outputs!Own(o),
                    final'[o] # final[o], foreign' # foreign + 1
             PROVE  late /\ pc = "remove_final" /\ next = o
  BY DEF Outputs!KeepsForeign
<1>1. Outputs!TypeOK /\ Outputs!LinkedInOrder BY DEF Outputs!IInv
<1>2. Outputs!Next BY DEF Outputs!vars
<1>3. ~OutputsQuiet BY <1>1, OutputsOwnFinals
<1>4. ~(\E p \in Outputs!Output : Outputs!Foreign(p)) BY DEF Outputs!Foreign
<1>5. ~Outputs!Link
  <2> SUFFICES ASSUME Outputs!Link PROVE final'[o] = final[o] OBVIOUS
  <2>1. final' = final \/ (final[next] = Free /\ final' = [final EXCEPT ![next] = staged[next]])
    BY DEF Outputs!Link, Outputs!LinkClaims
  <2> QED BY <1>1, <2>1 DEF Outputs!TypeOK
<1>6. Outputs!RemoveFinal BY <1>2, <1>3, <1>4, <1>5, OutputsKinds
<1>7. pc = "remove_final" /\ final' = [final EXCEPT ![next] = Free] BY <1>6 DEF Outputs!RemoveFinal
<1>8. next = o BY <1>1, <1>7 DEF Outputs!TypeOK
<1> QED BY <1>7, <1>8 DEF Outputs!IInv

(* A workload that succeeded published all its outputs together, one that  *)
(* failed left nothing, or one file at most for each operation that        *)
(* failed: for any number of outputs, faults and files of other programs.  *)
THEOREM OutputsAreAtomic ==
  Outputs!Spec => [](Outputs!FailedLeavesNothing /\ Outputs!PublishedTogether)
<1>1. Outputs!Init => Outputs!IInv BY OutputsInitInvariant, Assumptions
<1>2. Outputs!IInv /\ [Outputs!Next]_(Outputs!vars) => Outputs!IInv'
  BY OutputsNextInvariant, Assumptions
<1> QED BY <1>1, <1>2, OutputsInvariantImplies, PTL DEF Outputs!Spec

-----------------------------------------------------------------------------
(***************************************************************************)
(* The external builder                                                    *)
(***************************************************************************)

(* What build_external does at each step, and the names it has tracked and *)
(* the files it has created by then.                                       *)
LEMMA BuildSteps ==
  ASSUME NEW i \in Build!Step
  PROVE  /\ Build!Program[i][1] = "check" <=> i = 1
         /\ Build!Program[i][1] = "create" <=> i \in {2, 4, 5, 8, 9}
         /\ Build!Program[i][1] = "open" <=> i \in {3, 6, 7, 10}
         /\ Build!Program[i][1] = "write" <=> i = 11
         /\ Build!Program[i][1] = "identity" <=> i = 12
         /\ Build!Program[i][1] = "link" <=> i = 13
         /\ Build!Program[i][1] = "unlink" <=> i = 14
         /\ Build!Program[i][1] = "sync" <=> i = 15
  BY DEF Build!Step, Build!Program

LEMMA BuildSuffix ==
  /\ Build!Suffix[1] = "run" /\ Build!Suffix[2] = "descriptors"
  /\ Build!Suffix[3] = "memberships" /\ Build!Suffix[4] = "bucket" /\ Build!Suffix[5] = "commit"
  BY DEF Build!Suffix

LEMMA BuildTracked ==
  ASSUME NEW i \in Build!Step
  PROVE  /\ Build!TrackedAt[i] =
              IF i <= 2 THEN 0 ELSE IF i <= 4 THEN 1
              ELSE IF i <= 8 THEN 3 ELSE IF i = 9 THEN 4 ELSE 5
         /\ Build!CreatedAt[i] =
              IF i <= 2 THEN 0 ELSE IF i <= 4 THEN 1 ELSE IF i = 5 THEN 2
              ELSE IF i <= 8 THEN 3 ELSE IF i = 9 THEN 4 ELSE 5
  BY DEF Build!Step, Build!TrackedAt, Build!CreatedAt

(* Files are created in the order of their names, and opened after they    *)
(* were created.                                                           *)
LEMMA BuildTargets ==
  ASSUME NEW i \in Build!Step
  PROVE  /\ i \in {2, 4, 5, 8, 9} => Build!Program[i][2] = Build!Suffix[Build!CreatedAt[i] + 1]
         /\ i \in {3, 6, 7, 10} =>
              \E j \in 1..Build!CreatedAt[i] : Build!Program[i][2] = Build!Suffix[j]
<1>1. i \in {2, 4, 5, 8, 9} => Build!Program[i][2] = Build!Suffix[Build!CreatedAt[i] + 1]
  BY BuildTracked, BuildSuffix DEF Build!Step, Build!Program
<1>2. i = 3 => Build!Program[i][2] = Build!Suffix[1] BY BuildSuffix DEF Build!Program
<1>3. i = 6 => Build!Program[i][2] = Build!Suffix[2] BY BuildSuffix DEF Build!Program
<1>4. i = 7 => Build!Program[i][2] = Build!Suffix[3] BY BuildSuffix DEF Build!Program
<1>5. i = 10 => Build!Program[i][2] = Build!Suffix[4] BY BuildSuffix DEF Build!Program
<1> QED BY <1>1, <1>2, <1>3, <1>4, <1>5, BuildTracked DEF Build!Step

(* The steps of a builder while it builds, and those of its recovery. *)
BuildWorks(b) ==
  \/ Build!Check(b) \/ Build!CreateFile(b) \/ Build!OpenFile(b) \/ Build!WriteContainer(b)
  \/ Build!TakeIdentity(b) \/ Build!Link(b) \/ Build!Unlink(b) \/ Build!Sync(b) \/ Build!StepFails(b)

BuildRecovers(b) ==
  \/ Build!RollbackCompare(b) \/ Build!RollbackRemove(b) \/ Build!RollbackSync(b)
  \/ Build!Cleanup(b) \/ Build!RecoveryFails(b) \/ Build!DropName(b) \/ Build!DropDone(b)

LEMMA BuildKinds ==
  ASSUME NEW b
  PROVE  Build!Build(b) <=> BuildWorks(b) \/ BuildRecovers(b)
  BY DEF Build!Build, BuildWorks, BuildRecovers

LEMMA BuildInitInvariant ==
  ASSUME Build!BuilderAssumption, Build!Init
  PROVE  Build!IInv
<1> USE DEF Build!Init
<1>1. Build!TypeOK BY DEF Build!TypeOK, Build!Mode, Build!Step
<1>2. Build!TrackedBefore BY DEF Build!TrackedBefore
<1>3. Build!InStep BY BuildTracked DEF Build!InStep, Build!Step
<1>4. Build!OneActive /\ Build!OwnFiles BY DEF Build!OneActive, Build!OwnFiles, Build!Active
<1>5. \A b \in Contender : Build!Program[at[b]][1] = "check" BY BuildSteps DEF Build!Step
<1>6. \A b \in Contender : ~Build!Doing(b, "identity") /\ ~Build!Doing(b, "link") /\ ~Build!Linked(b)
  BY <1>5 DEF Build!Doing, Build!Linked
<1>7. Build!DestinationOwned
  BY <1>6 DEF Build!DestinationOwned, Build!Published, Build!Unpublished, Build!BuilderAssumption,
     Build!Commit, Build!File, Build!Kind
<1> QED BY <1>1, <1>2, <1>3, <1>4, <1>6, <1>7 DEF Build!IInv

(* A builder that creates a file creates the next one, whose name is       *)
(* tracked by then.                                                        *)
LEMMA BuildRoom ==
  ASSUME Build!TypeOK, Build!InStep, NEW b \in Contender, Build!Doing(b, "create")
  PROVE  /\ at[b] \in {2, 4, 5, 8, 9} /\ at[b] + 1 \in Build!Step
         /\ Build!TrackedAt[at[b] + 1] \in tracked[b]..5
         /\ Build!CreatedAt[at[b]] + 1 \in 1..Build!TrackedAt[at[b] + 1]
         /\ Build!CreatedAt[at[b] + 1] = Build!CreatedAt[at[b]] + 1
         /\ Build!Target(b) = Build!Own(b, Build!Suffix[Build!CreatedAt[at[b]] + 1])
<1>1. at[b] \in Build!Step /\ mode[b] = "build" /\ tracked[b] = Build!TrackedAt[at[b]]
  BY DEF Build!TypeOK, Build!Doing, Build!InStep
<1>2. at[b] \in {2, 4, 5, 8, 9} BY <1>1, BuildSteps DEF Build!Doing
<1>3. at[b] + 1 \in Build!Step BY <1>2 DEF Build!Step
<1>4. /\ Build!TrackedAt[at[b] + 1] \in tracked[b]..5
      /\ Build!CreatedAt[at[b]] + 1 \in 1..Build!TrackedAt[at[b] + 1]
      /\ Build!CreatedAt[at[b] + 1] = Build!CreatedAt[at[b]] + 1
  BY <1>1, <1>2, <1>3, BuildTracked
<1> QED BY <1>1, <1>2, <1>3, <1>4, BuildTargets DEF Build!Target

(* Every step that advances has a next one, with as many names tracked and *)
(* files created, except for the one that creates a file.                  *)
LEMMA BuildAdvances ==
  ASSUME Build!TypeOK, NEW b \in Contender, mode[b] = "build", ~Build!Doing(b, "sync"),
         ~Build!Doing(b, "create")
  PROVE  /\ at[b] + 1 \in Build!Step
         /\ Build!TrackedAt[at[b] + 1] = Build!TrackedAt[at[b]]
         /\ Build!CreatedAt[at[b] + 1] = Build!CreatedAt[at[b]]
<1>1. at[b] \in Build!Step BY DEF Build!TypeOK
<1>2. at[b] # 15 /\ at[b] \notin {2, 4, 5, 8, 9} BY <1>1, BuildSteps DEF Build!Doing
<1>3. at[b] + 1 \in Build!Step BY <1>1, <1>2 DEF Build!Step
<1> QED BY <1>1, <1>2, <1>3, BuildTracked DEF Build!Step

LEMMA BuildSuffixKind ==
  ASSUME NEW i \in 1..5
  PROVE  Build!Suffix[i] \in Build!Kind
  BY BuildSuffix DEF Build!Kind

BuildOutcome ==
  [result : {"none", "published", "exists", "error"}, reported : BOOLEAN, leaked : BOOLEAN]

BuildWhere ==
  /\ mode \in [Contender -> Build!Mode]
  /\ at \in [Contender -> Build!Step]
  /\ outcome \in [Contender -> BuildOutcome]

LEMMA BuildReturns ==
  ASSUME BuildWhere, NEW b \in Contender, NEW how \in {"none", "published", "exists", "error"},
         NEW to \in Build!Mode, Build!Return(b, how, to)
  PROVE  BuildWhere'
<1>1. outcome' \in [Contender -> BuildOutcome]
  BY DEF BuildWhere, Build!Return, BuildOutcome
<1> QED BY <1>1 DEF BuildWhere, Build!Return

LEMMA BuildMoves ==
  ASSUME BuildWhere, NEW b \in Contender
  PROVE  /\ Build!Advance(b) /\ at[b] + 1 \in Build!Step => BuildWhere'
         /\ \A from, to \in Build!Mode : Build!Continue(b, from, to) => BuildWhere'
  BY DEF BuildWhere, Build!Advance, Build!Continue

LEMMA BuildStepWhere ==
  ASSUME Build!TypeOK, Build!InStep, Build!Next
  PROVE  BuildWhere'
<1>1. BuildWhere BY DEF Build!TypeOK, BuildWhere, BuildOutcome
<1>2. {"build", "rollback", "rollback_remove", "rollback_sync", "cleanup", "drop", "done", "crashed"}
        \subseteq Build!Mode
  BY DEF Build!Mode
<1>3. ASSUME NEW b \in Contender, BuildWorks(b) PROVE BuildWhere'
  <2>1. Build!Advance(b) => at[b] + 1 \in Build!Step
    <3>1. CASE Build!CreateFile(b) BY <3>1, BuildRoom DEF Build!CreateFile
    <3>2. CASE Build!Sync(b) \/ Build!StepFails(b)
      BY <1>1, <3>2, <1>2 DEF Build!Sync, Build!StepFails, Build!Advance, Build!Return, Build!FailsTo,
         Build!Doing, BuildWhere
    <3>3. CASE ~(Build!CreateFile(b) \/ Build!Sync(b) \/ Build!StepFails(b))
      <4>1. mode[b] = "build" /\ at[b] \notin {2, 4, 5, 8, 9, 15}
        BY <1>1, <1>3, <3>3, BuildSteps DEF BuildWorks, Build!Check, Build!OpenFile, Build!WriteContainer,
           Build!TakeIdentity, Build!Link, Build!Unlink, Build!Doing, BuildWhere
      <4> QED BY <1>1, <4>1 DEF BuildWhere, Build!Step
    <3> QED BY <3>1, <3>2, <3>3
  <2>2. Build!Advance(b) \/
          \E how \in {"none", "published", "exists", "error"}, to \in Build!Mode :
            Build!Return(b, how, to)
    BY <1>2, <1>3 DEF BuildWorks, Build!Check, Build!CreateFile, Build!OpenFile, Build!WriteContainer,
       Build!TakeIdentity, Build!Link, Build!Unlink, Build!Sync, Build!StepFails, Build!FailsTo
  <2> QED BY <1>1, <2>1, <2>2, BuildMoves, BuildReturns
<1>4. ASSUME NEW b \in Contender, BuildRecovers(b) PROVE BuildWhere'
  <2>1. CASE Build!RecoveryFails(b)
    <3>1. outcome' \in [Contender -> BuildOutcome]
      BY <1>1, <2>1 DEF BuildWhere, BuildOutcome, Build!RecoveryFails
    <3> QED BY <1>1, <1>2, <2>1, <3>1 DEF BuildWhere, Build!RecoveryFails
  <2>2. CASE Build!DropName(b)
    <3>1. outcome' \in [Contender -> BuildOutcome]
      BY <1>1, <2>2 DEF BuildWhere, BuildOutcome, Build!DropName
    <3> QED BY <1>1, <2>2, <3>1 DEF BuildWhere, Build!DropName
  <2>3. CASE ~(Build!RecoveryFails(b) \/ Build!DropName(b))
    <3>1. \E from, to \in Build!Mode : Build!Continue(b, from, to)
      BY <1>2, <1>4, <2>3 DEF BuildRecovers, Build!RollbackCompare, Build!RollbackRemove,
         Build!RollbackSync, Build!Cleanup, Build!DropDone
    <3> QED BY <1>1, <3>1, BuildMoves
  <2> QED BY <2>1, <2>2, <2>3
<1>5. ASSUME NEW b \in Contender, Build!Crash(b) PROVE BuildWhere'
  BY <1>1, <1>2, <1>5 DEF Build!Crash, BuildWhere
<1>6. CASE Build!PowerLoss BY <1>1, <1>2, <1>6 DEF Build!PowerLoss, BuildWhere
<1> QED BY <1>3, <1>4, <1>5, <1>6, BuildKinds DEF Build!Next

(* The counters: names are tracked when files are created, and one more is *)
(* dropped with every name removed by Drop.                                *)
BuildTracks(b) ==
  /\ \/ tracked' = tracked
     \/ Build!Doing(b, "create") /\ tracked' = Build!Track(b)
  /\ \/ dropped' = dropped
     \/ /\ mode[b] = "drop" /\ dropped[b] < tracked[b]
        /\ dropped' = [dropped EXCEPT ![b] = @ + 1]

LEMMA BuildCounters ==
  ASSUME NEW b \in Contender, Build!Build(b), Build!TypeOK
  PROVE  BuildTracks(b)
<1>1. CASE BuildWorks(b)
  BY <1>1 DEF BuildTracks, BuildWorks, Build!Check, Build!CreateFile, Build!OpenFile,
     Build!WriteContainer, Build!TakeIdentity, Build!Link, Build!Unlink, Build!Sync, Build!StepFails,
     Build!TypeOK
<1>2. CASE BuildRecovers(b)
  BY <1>2 DEF BuildTracks, BuildRecovers, Build!RollbackCompare, Build!RollbackRemove,
     Build!RollbackSync, Build!Cleanup, Build!RecoveryFails, Build!DropName, Build!DropDone
<1> QED BY <1>1, <1>2, BuildKinds

LEMMA BuildStepCounters ==
  ASSUME Build!TypeOK, Build!InStep, Build!Next
  PROVE  tracked' \in [Contender -> 0..5] /\ dropped' \in [Contender -> 0..5]
<1>1. ASSUME NEW b \in Contender, Build!Build(b)
      PROVE  tracked' \in [Contender -> 0..5] /\ dropped' \in [Contender -> 0..5]
  <2>1. BuildTracks(b) BY <1>1, BuildCounters
  <2>2. tracked[b] \in 0..5 /\ dropped[b] \in 0..5 BY DEF Build!TypeOK
  <2>3. Build!Doing(b, "create") => Build!TrackedAt[at[b] + 1] \in 0..5 BY <2>2, BuildRoom
  <2>4. dropped[b] < tracked[b] => dropped[b] + 1 \in 0..5 BY <2>2
  <2> QED BY <2>1, <2>3, <2>4 DEF BuildTracks, Build!Track, Build!TypeOK
<1>2. CASE Build!PowerLoss \/ \E b \in Contender : Build!Crash(b)
  BY <1>2 DEF Build!PowerLoss, Build!Crash, Build!TypeOK
<1> QED BY <1>1, <1>2 DEF Build!Next

(* What a step does to the temporary names: it creates a file under a free *)
(* one, removes one, or leaves them alone.                                 *)
BuildCreates(b) ==
  /\ Build!Doing(b, "create") /\ names[Build!Target(b)] = Free
  /\ names' = [names EXCEPT ![Build!Target(b)] = <<b, Build!Target(b)[2]>>]

BuildRemoves(b) ==
  \/ /\ names' = [names EXCEPT ![Build!Own(b, "commit")] = Free]
     /\ Build!Doing(b, "unlink") \/ mode[b] = "cleanup"
  \/ /\ names' = [names EXCEPT ![Build!Own(b, Build!Suffix[dropped[b] + 1])] = Free]
     /\ mode[b] = "drop" /\ dropped[b] < tracked[b]
     /\ dropped' = [dropped EXCEPT ![b] = @ + 1] /\ outcome' = outcome

LEMMA BuildNames ==
  ASSUME NEW b \in Contender, Build!Build(b)
  PROVE  \/ names' = names
         \/ BuildCreates(b) /\ Build!CreateFile(b)
         \/ BuildRemoves(b)
<1>1. CASE BuildWorks(b)
  BY <1>1 DEF BuildCreates, BuildRemoves, BuildWorks, Build!Check, Build!CreateFile, Build!CreateNew,
     Build!OpenFile, Build!WriteContainer, Build!TakeIdentity, Build!Link, Build!Unlink, Build!Sync,
     Build!StepFails, Build!files
<1>2. CASE BuildRecovers(b)
  BY <1>2 DEF BuildRemoves, BuildRecovers, Build!RollbackCompare, Build!RollbackRemove,
     Build!RollbackSync, Build!Cleanup, Build!RecoveryFails, Build!DropName, Build!DropDone,
     Build!files, Build!Continue
<1> QED BY <1>1, <1>2, BuildKinds

LEMMA BuildStepNames ==
  ASSUME Build!TypeOK, Build!InStep, Build!Next
  PROVE  names' \in [Build!Name -> Build!File \cup {Free}]
<1>1. ASSUME NEW b \in Contender, BuildCreates(b)
      PROVE  names' \in [Build!Name -> Build!File \cup {Free}]
  <2>1. Build!Target(b)[2] \in Build!Kind
    BY <1>1, BuildRoom, BuildSuffixKind DEF BuildCreates, Build!Own
  <2> QED BY <1>1, <2>1 DEF BuildCreates, Build!TypeOK, Build!File
<1>2. ASSUME NEW b \in Contender, BuildRemoves(b)
      PROVE  names' \in [Build!Name -> Build!File \cup {Free}]
  BY <1>2 DEF BuildRemoves, Build!TypeOK
<1>3. CASE Build!PowerLoss \/ \E b \in Contender : Build!Crash(b)
  BY <1>3 DEF Build!PowerLoss, Build!Crash, Build!TypeOK, Build!files
<1> QED BY <1>1, <1>2, <1>3, BuildNames DEF Build!Next, Build!TypeOK

LEMMA BuildType ==
  ASSUME Build!TypeOK, Build!InStep, Build!Next
  PROVE  Build!TypeOK'
<1>1. BuildWhere' BY BuildStepWhere
<1>2. nonce' = nonce /\ complete' \subseteq Contender /\ mixed' \subseteq Contender
  <2>1. ASSUME NEW b \in Contender, BuildWorks(b)
        PROVE  nonce' = nonce /\ complete' \subseteq Contender /\ mixed' \subseteq Contender
    BY <2>1 DEF Build!TypeOK, BuildWorks, Build!Check, Build!CreateFile, Build!OpenFile,
       Build!WriteContainer, Build!TakeIdentity, Build!Link, Build!Unlink, Build!Sync,
       Build!StepFails, Build!inputs
  <2>2. ASSUME NEW b \in Contender, BuildRecovers(b) \/ Build!Crash(b)
        PROVE  nonce' = nonce /\ complete' \subseteq Contender /\ mixed' \subseteq Contender
    BY <2>2 DEF Build!TypeOK, BuildRecovers, Build!RollbackCompare, Build!RollbackRemove,
       Build!RollbackSync, Build!Cleanup, Build!RecoveryFails, Build!DropName, Build!DropDone,
       Build!Crash, Build!inputs
  <2>3. CASE Build!PowerLoss BY <2>3 DEF Build!TypeOK, Build!PowerLoss, Build!inputs
  <2> QED BY <2>1, <2>2, <2>3, BuildKinds DEF Build!Next
<1>3. identity' \in [Contender -> Build!File \cup {Free}]
  <2>1. ASSUME NEW b \in Contender, Build!TakeIdentity(b)
        PROVE  identity' \in [Contender -> Build!File \cup {Free}]
    <3>1. Build!Own(b, "commit") \in Build!Name BY DEF Build!TypeOK, Build!Own, Build!Name, Build!Kind
    <3> QED BY <2>1, <3>1 DEF Build!TakeIdentity, Build!TypeOK
  <2>2. identity' = identity \/ \E b \in Contender : Build!TakeIdentity(b)
    BY DEF Build!Next, Build!Build, Build!Check, Build!CreateFile, Build!OpenFile,
       Build!WriteContainer, Build!Link, Build!Unlink, Build!Sync, Build!StepFails,
       Build!RollbackCompare, Build!RollbackRemove, Build!RollbackSync, Build!Cleanup,
       Build!RecoveryFails, Build!DropName, Build!DropDone, Build!Crash, Build!PowerLoss
  <2> QED BY <2>1, <2>2 DEF Build!TypeOK
<1> QED BY <1>1, <1>2, <1>3, BuildStepCounters, BuildStepNames DEF Build!TypeOK, BuildWhere, BuildOutcome

(* A builder's own state is its own. *)
BuildSame(c) ==
  /\ mode'[c] = mode[c] /\ at'[c] = at[c] /\ tracked'[c] = tracked[c] /\ dropped'[c] = dropped[c]
  /\ outcome'[c] = outcome[c] /\ identity'[c] = identity[c]

LEMMA BuildOthers ==
  ASSUME Build!TypeOK, NEW b \in Contender, Build!Build(b), NEW c \in Contender, c # b
  PROVE  BuildSame(c)
<1> USE DEF Build!TypeOK, BuildSame, Build!Advance, Build!Return, Build!Continue
<1>1. CASE BuildWorks(b)
  <2>1. CASE Build!Check(b) BY <2>1 DEF Build!Check
  <2>2. CASE Build!CreateFile(b) BY <2>2 DEF Build!CreateFile, Build!Track
  <2>3. CASE Build!OpenFile(b) BY <2>3 DEF Build!OpenFile
  <2>4. CASE Build!WriteContainer(b) BY <2>4 DEF Build!WriteContainer
  <2>5. CASE Build!TakeIdentity(b) BY <2>5 DEF Build!TakeIdentity
  <2>6. CASE Build!Link(b) BY <2>6 DEF Build!Link
  <2>7. CASE Build!Unlink(b) BY <2>7 DEF Build!Unlink
  <2>8. CASE Build!Sync(b) BY <2>8 DEF Build!Sync
  <2>9. CASE Build!StepFails(b) BY <2>9 DEF Build!StepFails, Build!Track
  <2> QED BY <1>1, <2>1, <2>2, <2>3, <2>4, <2>5, <2>6, <2>7, <2>8, <2>9 DEF BuildWorks
<1>2. CASE BuildRecovers(b)
  <2>1. CASE Build!RollbackCompare(b) BY <2>1 DEF Build!RollbackCompare
  <2>2. CASE Build!RollbackRemove(b) BY <2>2 DEF Build!RollbackRemove
  <2>3. CASE Build!RollbackSync(b) BY <2>3 DEF Build!RollbackSync
  <2>4. CASE Build!Cleanup(b) BY <2>4 DEF Build!Cleanup
  <2>5. CASE Build!RecoveryFails(b) BY <2>5 DEF Build!RecoveryFails
  <2>6. CASE Build!DropName(b) BY <2>6 DEF Build!DropName
  <2>7. CASE Build!DropDone(b) BY <2>7 DEF Build!DropDone
  <2> QED BY <1>2, <2>1, <2>2, <2>3, <2>4, <2>5, <2>6, <2>7 DEF BuildRecovers
<1> QED BY <1>1, <1>2, BuildKinds

(* A crash only stops builders. *)
LEMMA BuildCrashes ==
  ASSUME Build!TypeOK, Build!PowerLoss \/ \E b \in Contender : Build!Crash(b)
  PROVE  /\ \A c \in Contender : mode'[c] = mode[c] \/ mode'[c] = "crashed"
         /\ UNCHANGED <<nonce, names, at, tracked, dropped, identity, outcome, complete, mixed>>
  BY DEF Build!TypeOK, Build!PowerLoss, Build!Crash, Build!files, Build!inputs, Build!Stopped

(* InStep for one builder. *)
BuildAligned(b) ==
  /\ mode[b] = "build" => tracked[b] = Build!TrackedAt[at[b]] /\ outcome[b].result = "none"
  /\ mode[b] \in Build!Mode \ {"drop", "done", "crashed"} => dropped[b] = 0
  /\ dropped[b] <= tracked[b]
  /\ mode[b] = "done" => dropped[b] = tracked[b]

LEMMA BuildAlignedStep ==
  ASSUME Build!TypeOK, Build!InStep, NEW b \in Contender, Build!Build(b)
  PROVE  BuildAligned(b)'
<1>1. BuildAligned(b) BY DEF Build!InStep, BuildAligned
<1>2. tracked[b] \in 0..5 /\ dropped[b] \in 0..5 /\ at[b] \in Build!Step BY DEF Build!TypeOK
<1>3. CASE BuildWorks(b)
  <2>1. mode[b] = "build"
    BY <1>3 DEF BuildWorks, Build!Check, Build!CreateFile, Build!OpenFile, Build!WriteContainer,
       Build!TakeIdentity, Build!Link, Build!Unlink, Build!Sync, Build!StepFails, Build!Doing
  <2>2. dropped[b] = 0 /\ tracked[b] = Build!TrackedAt[at[b]] /\ outcome[b].result = "none"
    BY <1>1, <2>1 DEF BuildAligned, Build!Mode
  <2>3. dropped' = dropped
    BY <1>3 DEF BuildWorks, Build!Check, Build!CreateFile, Build!OpenFile, Build!WriteContainer,
       Build!TakeIdentity, Build!Link, Build!Unlink, Build!Sync, Build!StepFails
  <2>4. tracked'[b] \in 0..5 BY BuildStepCounters DEF Build!Next
  <2>5. CASE Build!Advance(b)
    <3>1. at'[b] = at[b] + 1 /\ outcome'[b] = outcome[b] /\ mode'[b] = "build"
      BY <2>1, <2>5 DEF Build!Advance, Build!TypeOK
    <3>2. tracked'[b] = Build!TrackedAt[at[b] + 1]
      <4>1. CASE Build!CreateFile(b)
        BY <4>1 DEF Build!CreateFile, Build!Track, Build!TypeOK
      <4>2. CASE ~Build!CreateFile(b)
        <5>1. CASE Build!Sync(b) \/ Build!StepFails(b)
          BY <2>1, <2>5, <5>1 DEF Build!Sync, Build!StepFails, Build!Return, Build!Advance,
             Build!FailsTo, Build!TypeOK
        <5>2. CASE ~(Build!Sync(b) \/ Build!StepFails(b))
          <6>1. ~Build!Doing(b, "create") /\ ~Build!Doing(b, "sync") /\ tracked' = tracked
            BY <1>3, <4>2, <5>2 DEF BuildWorks, Build!Check, Build!OpenFile, Build!WriteContainer,
               Build!TakeIdentity, Build!Link, Build!Unlink, Build!Doing
          <6> QED BY <2>1, <2>2, <6>1, BuildAdvances
        <5> QED BY <5>1, <5>2
      <4> QED BY <4>1, <4>2
    <3> QED BY <2>2, <2>3, <2>4, <3>1, <3>2 DEF BuildAligned
  <2>6. CASE ~Build!Advance(b)
    <3>1. \E how, to : Build!Return(b, how, to) /\ to \in {"drop", "rollback"}
      BY <1>3, <2>6 DEF BuildWorks, Build!Check, Build!CreateFile, Build!OpenFile,
         Build!WriteContainer, Build!TakeIdentity, Build!Link, Build!Unlink, Build!Sync,
         Build!StepFails, Build!FailsTo
    <3>2. mode'[b] \in {"drop", "rollback"} BY <3>1 DEF Build!Return, Build!TypeOK
    <3> QED BY <2>2, <2>3, <2>4, <3>2 DEF BuildAligned
  <2> QED BY <2>5, <2>6
<1>4. CASE BuildRecovers(b)
  <2>1. tracked' = tracked /\ mode[b] # "build" /\ mode[b] # "crashed" /\ mode'[b] # "build"
    BY <1>4 DEF BuildRecovers, Build!RollbackCompare, Build!RollbackRemove, Build!RollbackSync,
       Build!Cleanup, Build!RecoveryFails, Build!DropName, Build!DropDone, Build!Continue,
       Build!TypeOK
  <2>2. CASE Build!DropName(b)
    <3>1. dropped'[b] = dropped[b] + 1 /\ dropped[b] < tracked[b] /\ mode' = mode /\ mode[b] = "drop"
      BY <2>2 DEF Build!DropName, Build!TypeOK
    <3> QED BY <1>2, <2>1, <3>1 DEF BuildAligned
  <2>3. CASE Build!DropDone(b)
    BY <1>1, <1>2, <2>1, <2>3 DEF BuildAligned, Build!DropDone, Build!Continue, Build!TypeOK
  <2>4. CASE ~(Build!DropName(b) \/ Build!DropDone(b))
    <3>1. dropped' = dropped /\ mode'[b] # "done"
          /\ mode[b] \in {"rollback", "rollback_remove", "rollback_sync", "cleanup"}
      BY <1>4, <2>4 DEF BuildRecovers, Build!RollbackCompare, Build!RollbackRemove,
         Build!RollbackSync, Build!Cleanup, Build!RecoveryFails, Build!Continue, Build!TypeOK
    <3>2. dropped[b] = 0 BY <1>1, <3>1 DEF BuildAligned, Build!Mode
    <3> QED BY <1>1, <2>1, <3>1, <3>2 DEF BuildAligned
  <2> QED BY <2>2, <2>3, <2>4
<1> QED BY <1>3, <1>4, BuildKinds

LEMMA BuildInStep ==
  ASSUME Build!TypeOK, Build!InStep, Build!Next
  PROVE  Build!InStep'
<1>1. \A c \in Contender : BuildAligned(c) BY DEF Build!InStep, BuildAligned
<1>2. ASSUME NEW b \in Contender, Build!Build(b) PROVE \A c \in Contender : BuildAligned(c)'
  <2>1. ASSUME NEW c \in Contender PROVE BuildAligned(c)'
    <3>1. CASE c = b BY <1>2, <3>1, BuildAlignedStep
    <3>2. CASE c # b
      <4>1. BuildSame(c) BY <1>2, <3>2, BuildOthers
      <4> QED BY <1>1, <4>1 DEF BuildSame, BuildAligned
    <3> QED BY <3>1, <3>2
  <2> QED BY <2>1
<1>3. CASE Build!PowerLoss \/ \E b \in Contender : Build!Crash(b)
  <2> SUFFICES ASSUME NEW c \in Contender PROVE BuildAligned(c)' BY DEF Build!InStep, BuildAligned
  <2> QED BY <1>1, <1>3, BuildCrashes DEF BuildAligned
<1> QED BY <1>2, <1>3 DEF Build!Next, Build!InStep, BuildAligned

LEMMA BuildNonces ==
  ASSUME Build!Next
  PROVE  nonce' = nonce
  BY DEF Build!Next, Build!Build, Build!Check, Build!CreateFile, Build!OpenFile,
     Build!WriteContainer, Build!TakeIdentity, Build!Link, Build!Unlink, Build!Sync, Build!StepFails,
     Build!RollbackCompare, Build!RollbackRemove, Build!RollbackSync, Build!Cleanup,
     Build!RecoveryFails, Build!DropName, Build!DropDone, Build!Crash, Build!PowerLoss

(* Names stay tracked, an ignored failure stays known, and a name that is  *)
(* dropped is removed unless that fails.                                   *)
BuildDrops(b) ==
  /\ outcome[b].leaked => outcome'[b].leaked
  /\ tracked[b] <= tracked'[b]
  /\ \/ dropped' = dropped
     \/ /\ mode[b] = "drop" /\ dropped'[b] = dropped[b] + 1
        /\ \/ names' = [names EXCEPT ![Build!Own(b, Build!Suffix[dropped[b] + 1])] = Free]
           \/ outcome'[b].leaked

LEMMA BuildStepDrops ==
  ASSUME Build!TypeOK, Build!InStep, NEW b \in Contender, Build!Build(b)
  PROVE  BuildDrops(b)
<1>1. tracked[b] <= tracked'[b]
  <2>1. tracked[b] \in 0..5 BY DEF Build!TypeOK
  <2>2. Build!Doing(b, "create") => tracked[b] <= Build!TrackedAt[at[b] + 1] BY <2>1, BuildRoom
  <2> QED BY <2>1, <2>2, BuildCounters DEF BuildTracks, Build!Track, Build!TypeOK
<1>2. CASE BuildWorks(b)
  <2>1. dropped' = dropped
    BY <1>2 DEF BuildWorks, Build!Check, Build!CreateFile, Build!OpenFile, Build!WriteContainer,
       Build!TakeIdentity, Build!Link, Build!Unlink, Build!Sync, Build!StepFails
  <2>2. outcome' = outcome \/ \E how : outcome' = [outcome EXCEPT ![b].result = how]
    BY <1>2 DEF BuildWorks, Build!Check, Build!CreateFile, Build!OpenFile, Build!WriteContainer,
       Build!TakeIdentity, Build!Link, Build!Unlink, Build!Sync, Build!StepFails, Build!Return,
       Build!Advance
  <2>3. outcome'[b].leaked = outcome[b].leaked BY <2>2 DEF Build!TypeOK
  <2> QED BY <1>1, <2>1, <2>3 DEF BuildDrops
<1>3. CASE BuildRecovers(b)
  <2>1. CASE Build!DropName(b)
    <3>1. mode[b] = "drop" /\ dropped'[b] = dropped[b] + 1 BY <2>1 DEF Build!DropName, Build!TypeOK
    <3>2. CASE outcome' = [outcome EXCEPT ![b].leaked = TRUE]
      <4>1. outcome'[b].leaked BY <3>2 DEF Build!TypeOK
      <4> QED BY <1>1, <3>1, <4>1 DEF BuildDrops
    <3>3. CASE outcome' # [outcome EXCEPT ![b].leaked = TRUE]
      <4>1. /\ names' = [names EXCEPT ![Build!Own(b, Build!Suffix[dropped[b] + 1])] = Free]
            /\ outcome' = outcome
        BY <2>1, <3>3 DEF Build!DropName
      <4> QED BY <1>1, <3>1, <4>1 DEF BuildDrops
    <3> QED BY <3>2, <3>3
  <2>2. CASE Build!RecoveryFails(b)
    <3>1. dropped' = dropped /\ outcome' = [outcome EXCEPT ![b].reported = TRUE]
      BY <2>2 DEF Build!RecoveryFails
    <3>2. outcome'[b].leaked = outcome[b].leaked BY <3>1 DEF Build!TypeOK
    <3> QED BY <1>1, <3>1, <3>2 DEF BuildDrops
  <2>3. CASE ~(Build!DropName(b) \/ Build!RecoveryFails(b))
    <3>1. dropped' = dropped /\ outcome' = outcome
      BY <1>3, <2>3 DEF BuildRecovers, Build!RollbackCompare, Build!RollbackRemove,
         Build!RollbackSync, Build!Cleanup, Build!DropDone, Build!Continue
    <3> QED BY <1>1, <3>1 DEF BuildDrops
  <2> QED BY <2>1, <2>2, <2>3
<1> QED BY <1>2, <1>3, BuildKinds

(* TrackedBefore for one name. *)
BuildBacked(n) ==
  names[n] = Free \/
    \E b \in Contender, i \in 1..5 :
      /\ n = Build!Own(b, Build!Suffix[i]) /\ names[n] = <<b, Build!Suffix[i]>>
      /\ i <= tracked[b]
      /\ i <= dropped[b] => outcome[b].leaked

LEMMA BuildTrackedBefore ==
  ASSUME Build!TypeOK, Build!InStep, Build!TrackedBefore, Build!Next
  PROVE  Build!TrackedBefore'
<1>1. \A n \in Build!Name : BuildBacked(n) BY DEF Build!TrackedBefore, BuildBacked
<1>2. Build!TypeOK' BY BuildType
<1>3. nonce' = nonce BY BuildNonces
<1>4. ASSUME NEW b \in Contender, Build!Build(b), NEW n \in Build!Name PROVE BuildBacked(n)'
  <2>1. BuildDrops(b) /\ \A c \in Contender : c # b => BuildSame(c)
    BY <1>4, BuildStepDrops, BuildOthers
  <2>2. ASSUME names'[n] = names[n], names[n] # Free PROVE BuildBacked(n)'
    <3>1. PICK c \in Contender, i \in 1..5 :
            /\ n = Build!Own(c, Build!Suffix[i]) /\ names[n] = <<c, Build!Suffix[i]>>
            /\ i <= tracked[c]
            /\ i <= dropped[c] => outcome[c].leaked
      BY <1>1, <2>2 DEF BuildBacked
    <3>2. tracked[c] \in 0..5 /\ tracked'[c] \in 0..5 /\ dropped[c] \in 0..5 BY <1>2 DEF Build!TypeOK
    <3>3. i <= tracked'[c] BY <2>1, <3>1, <3>2 DEF BuildDrops, BuildSame
    <3>4. i <= dropped'[c] => outcome'[c].leaked
      <4>1. CASE c # b BY <2>1, <3>1, <4>1 DEF BuildSame
      <4>2. CASE c = b
        <5>1. CASE dropped' = dropped BY <2>1, <3>1, <4>2, <5>1 DEF BuildDrops
        <5>2. CASE dropped'[b] = dropped[b] + 1 /\ outcome'[b].leaked BY <4>2, <5>2
        <5>3. CASE /\ dropped'[b] = dropped[b] + 1
                   /\ names' = [names EXCEPT ![Build!Own(b, Build!Suffix[dropped[b] + 1])] = Free]
          <6>1. i # dropped[b] + 1
            BY <2>2, <3>1, <4>2, <5>3 DEF Build!TypeOK
          <6>2. i <= dropped'[c] => i <= dropped[c] BY <3>2, <4>2, <5>3, <6>1
          <6> QED BY <2>1, <3>1, <4>2, <6>2 DEF BuildDrops
        <5> QED BY <2>1, <5>1, <5>2, <5>3 DEF BuildDrops
      <4> QED BY <4>1, <4>2
    <3>5. n = Build!Own(c, Build!Suffix[i])' BY <1>3, <3>1 DEF Build!Own
    <3> QED BY <2>2, <3>1, <3>3, <3>4, <3>5 DEF BuildBacked, Build!Own
  <2>3. ASSUME BuildCreates(b), Build!CreateFile(b), n = Build!Target(b) PROVE BuildBacked(n)'
    <3> DEFINE k == Build!CreatedAt[at[b]] + 1
    <3>0. Build!Doing(b, "create") BY <2>3 DEF BuildCreates
    <3>1. n = Build!Own(b, Build!Suffix[k]) /\ k \in 1..5 /\ mode[b] = "build"
          /\ k <= Build!TrackedAt[at[b] + 1]
      <4>1. tracked[b] \in 0..5 BY DEF Build!TypeOK
      <4>2. k \in 1..5 /\ k <= Build!TrackedAt[at[b] + 1] BY <3>0, <4>1, BuildRoom
      <4> QED BY <2>3, <3>0, <4>2, BuildRoom DEF Build!Doing
    <3>2. n = <<nonce'[b], Build!Suffix[k]>> BY <1>3, <3>1 DEF Build!Own
    <3>3. names'[n] = <<b, Build!Suffix[k]>> BY <2>3, <3>1 DEF BuildCreates, Build!TypeOK, Build!Own
    <3>4. tracked'[b] = Build!TrackedAt[at[b] + 1] /\ dropped' = dropped
      BY <2>3 DEF Build!CreateFile, Build!Track, Build!TypeOK
    <3>5. dropped'[b] = 0 BY <3>1, <3>4 DEF Build!InStep, Build!Mode
    <3> HIDE DEF k
    <3> QED BY <3>1, <3>2, <3>3, <3>4, <3>5 DEF BuildBacked, Build!Own
  <2>4. names'[n] \in {names[n], Free} \/ (BuildCreates(b) /\ Build!CreateFile(b) /\ n = Build!Target(b))
    BY <1>4, BuildNames DEF BuildCreates, BuildRemoves, Build!TypeOK
  <2>5. names'[n] = Free => BuildBacked(n)' BY DEF BuildBacked
  <2> QED BY <2>2, <2>3, <2>4, <2>5
<1>5. CASE Build!PowerLoss \/ \E b \in Contender : Build!Crash(b)
  BY <1>5, BuildCrashes DEF Build!TrackedBefore, Build!Own
<1>6. ASSUME \A n \in Build!Name : BuildBacked(n)' PROVE Build!TrackedBefore'
  BY <1>6 DEF BuildBacked, Build!TrackedBefore
<1> QED BY <1>4, <1>5, <1>6 DEF Build!Next

(* A builder that builds after its step was building before, and it is     *)
(* past its first file if it was, or if it has just created that file.     *)
LEMMA BuildActive ==
  ASSUME Build!TypeOK, Build!InStep, NEW b \in Contender, Build!Build(b), mode'[b] = "build"
  PROVE  /\ mode[b] = "build"
         /\ Build!Active(b)' => Build!Active(b) \/ (at[b] = 2 /\ BuildCreates(b) /\ Build!CreateFile(b))
<1>1. CASE BuildRecovers(b)
  BY <1>1 DEF BuildRecovers, Build!RollbackCompare, Build!RollbackRemove, Build!RollbackSync,
     Build!Cleanup, Build!RecoveryFails, Build!DropName, Build!DropDone, Build!Continue, Build!TypeOK
<1>2. CASE BuildWorks(b)
  <2>1. mode[b] = "build" /\ Build!Advance(b)
    BY <1>2 DEF BuildWorks, Build!Check, Build!CreateFile, Build!OpenFile, Build!WriteContainer,
       Build!TakeIdentity, Build!Link, Build!Unlink, Build!Sync, Build!StepFails, Build!Doing,
       Build!Return, Build!FailsTo, Build!TypeOK
  <2>2. at'[b] = at[b] + 1 /\ at[b] \in Build!Step BY <2>1 DEF Build!Advance, Build!TypeOK
  <2>3. CASE at[b] = 1 BY <2>1, <2>2, <2>3 DEF Build!Active
  <2>4. CASE at[b] = 2
    <3>1. Build!Doing(b, "create") BY <2>1, <2>4, BuildSteps DEF Build!Doing, Build!Step
    <3>2. Build!CreateFile(b)
      BY <1>2, <3>1, <2>1 DEF BuildWorks, Build!Check, Build!OpenFile, Build!WriteContainer,
         Build!TakeIdentity, Build!Link, Build!Unlink, Build!Sync, Build!StepFails, Build!Doing,
         Build!Return, Build!FailsTo, Build!TypeOK, Build!Advance
    <3>3. BuildCreates(b)
      BY <2>1, <3>1, <3>2 DEF BuildCreates, Build!CreateFile, Build!CreateNew, Build!Return,
         Build!Advance, Build!TypeOK
    <3> QED BY <2>1, <2>4, <3>2, <3>3
  <2>5. CASE at[b] > 2 BY <2>1, <2>5 DEF Build!Active
  <2> QED BY <2>2, <2>3, <2>4, <2>5 DEF Build!Step
<1> QED BY <1>1, <1>2, BuildKinds

(* A step touches the names of its own builder only. *)
LEMMA BuildOwnNames ==
  ASSUME Build!TypeOK, Build!InStep, NEW b \in Contender, Build!Build(b), NEW n \in Build!Name,
         names'[n] # names[n]
  PROVE  /\ n[1] = nonce[b]
         /\ \/ names'[n] = Free
            \/ /\ BuildCreates(b) /\ n = Build!Target(b) /\ names[n] = Free
               /\ names'[n] = <<b, n[2]>>
         /\ names'[n] = Free => mode[b] # "build" \/ n[2] = "commit"
<1>1. CASE BuildCreates(b)
  <2>1. n = Build!Target(b) /\ names'[n] = <<b, n[2]>> BY <1>1 DEF BuildCreates, Build!TypeOK
  <2>2. n[1] = nonce[b] BY <2>1 DEF Build!Target, Build!Own
  <2> QED BY <1>1, <2>1, <2>2 DEF BuildCreates
<1>2. CASE BuildRemoves(b)
  <2>1. CASE /\ names' = [names EXCEPT ![Build!Own(b, "commit")] = Free]
             /\ Build!Doing(b, "unlink") \/ mode[b] = "cleanup"
    <3>1. n = Build!Own(b, "commit") /\ names'[n] = Free BY <2>1 DEF Build!TypeOK
    <3> QED BY <3>1 DEF Build!Own
  <2>2. CASE /\ names' = [names EXCEPT ![Build!Own(b, Build!Suffix[dropped[b] + 1])] = Free]
             /\ mode[b] = "drop"
    <3>1. n = Build!Own(b, Build!Suffix[dropped[b] + 1]) /\ names'[n] = Free BY <2>2 DEF Build!TypeOK
    <3> QED BY <2>2, <3>1 DEF Build!Own
  <2> QED BY <1>2, <2>1, <2>2 DEF BuildRemoves
<1> QED BY <1>1, <1>2, BuildNames

(* Nobody creates the files of a builder that is past its first one. *)
LEMMA BuildUndisturbed ==
  ASSUME Build!BuilderAssumption, Build!TypeOK, Build!InStep, Build!OneActive,
         NEW b \in Contender, Build!Active(b), NEW c \in Contender, c # b, nonce[c] = nonce[b],
         BuildCreates(c)
  PROVE  FALSE
<1>1. mode[c] = "build" /\ at[c] \in {2, 4, 5, 8, 9}
  BY BuildRoom DEF BuildCreates, Build!Doing
<1>2. ~Build!Active(c) BY DEF Build!OneActive
<1>3. at[c] = 2 BY <1>1, <1>2 DEF Build!Active
<1>4. Build!Target(c) = Build!Own(c, "run") BY <1>3 DEF Build!Target, Build!Program
<1>5. names[Build!Own(b, "run")] = Free BY <1>4 DEF BuildCreates, Build!Own
<1> QED BY <1>1, <1>5 DEF Build!OneActive

LEMMA BuildOneActive ==
  ASSUME Build!BuilderAssumption, Build!TypeOK, Build!InStep, Build!NoThreeShare, Build!OneActive,
         NEW e \in Contender, Build!Build(e)
  PROVE  Build!OneActive'
<1>1. nonce' = nonce BY BuildNonces DEF Build!Next
<1> SUFFICES ASSUME NEW b \in Contender, NEW c \in Contender, b # c, nonce[b] = nonce[c],
                    Build!Active(b)'
             PROVE  /\ ~Build!Active(c)'
                    /\ names'[Build!Own(b, "run")] = Free => mode'[c] # "build"
  BY <1>1 DEF Build!OneActive, Build!Own, Build!Active
<1>2. Build!Own(b, "run") \in Build!Name /\ Build!Own(b, "run") = Build!Own(c, "run")
  BY DEF Build!TypeOK, Build!Name, Build!Kind, Build!Own
<1> DEFINE n == Build!Own(b, "run")
<1>3. n[1] = nonce[b] /\ n[2] = "run" BY DEF Build!Own
<1>4. CASE e = b
  <2>1. BuildSame(c) BY <1>4, BuildOthers
  <2>2. CASE Build!Active(b)
    <3>1. ~Build!Active(c) /\ (names[n] = Free => mode[c] # "build") BY <2>2 DEF Build!OneActive
    <3>2. names'[n] = Free => names[n] = Free
      BY <1>2, <1>3, <1>4, <2>2, BuildOwnNames DEF Build!Active
    <3> QED BY <2>1, <3>1, <3>2 DEF BuildSame, Build!Active
  <2>3. CASE ~Build!Active(b)
    <3>1. at[b] = 2 /\ BuildCreates(b) /\ mode[b] = "build"
      BY <1>4, <2>3, BuildActive DEF Build!Active
    <3>2. Build!Target(b) = n BY <3>1 DEF Build!Target, Build!Program
    <3>3. names[n] = Free /\ names'[n] = <<b, "run">>
      BY <1>2, <1>3, <3>1, <3>2 DEF BuildCreates, Build!TypeOK
    <3>4. names'[n] # Free BY <3>3 DEF Build!BuilderAssumption, Build!File, Build!Kind
    <3>5. ~Build!Active(c) BY <1>2, <3>1, <3>3 DEF Build!OneActive
    <3> QED BY <2>1, <3>4, <3>5 DEF BuildSame, Build!Active
  <2> QED BY <2>2, <2>3
<1>5. CASE e # b
  <2>1. BuildSame(b) BY <1>5, BuildOthers
  <2>2. Build!Active(b) BY <2>1 DEF BuildSame, Build!Active
  <2>3. ~Build!Active(c) /\ (names[n] = Free => mode[c] # "build") BY <2>2 DEF Build!OneActive
  <2>4. CASE e = c
    <3>1. mode'[c] = "build" => mode[c] = "build" BY <2>4, BuildActive
    <3>2. ~Build!Active(c)'
      <4> SUFFICES ASSUME Build!Active(c)' PROVE FALSE OBVIOUS
      <4>1. BuildCreates(c) BY <2>3, <2>4, BuildActive DEF Build!Active
      <4> QED BY <2>2, <4>1, BuildUndisturbed
    <3>3. names'[n] = Free /\ names[n] # Free => mode[c] # "build"
      BY <1>2, <1>3, <2>4, BuildOwnNames
    <3> QED BY <2>3, <3>1, <3>2, <3>3
  <2>5. CASE e # c
    <3>1. nonce[e] # nonce[b] BY <1>5, <2>5 DEF Build!NoThreeShare
    <3>2. names'[n] = names[n] BY <1>2, <1>3, <3>1, BuildOwnNames
    <3>3. BuildSame(c) BY <2>5, BuildOthers
    <3> QED BY <2>3, <3>2, <3>3 DEF BuildSame, Build!Active
  <2> QED BY <2>4, <2>5
<1> QED BY <1>4, <1>5

LEMMA BuildOwnFiles ==
  ASSUME Build!BuilderAssumption, Build!TypeOK, Build!InStep, Build!OneActive, Build!OwnFiles,
         NEW e \in Contender, Build!Build(e)
  PROVE  Build!OwnFiles'
<1>1. nonce' = nonce /\ Build!TypeOK' BY BuildNonces, BuildType DEF Build!Next
<1> SUFFICES ASSUME NEW b \in Contender, Build!Active(b)', NEW i \in 1..Build!CreatedAt[at'[b]]
             PROVE  names'[Build!Own(b, Build!Suffix[i])] \in {Free, <<b, Build!Suffix[i]>>}
  BY <1>1 DEF Build!OwnFiles, Build!Own
<1> DEFINE n == Build!Own(b, Build!Suffix[i])
<1>2. i \in 1..5
  <2>1. Build!CreatedAt[at'[b]] \in 0..5 BY <1>1, BuildTracked DEF Build!TypeOK
  <2> QED BY <2>1
<1>3. n \in Build!Name /\ n[1] = nonce[b] /\ n[2] = Build!Suffix[i]
  BY <1>2, BuildSuffixKind DEF Build!TypeOK, Build!Name, Build!Own
<1>4. CASE e = b
  <2>1. CASE names'[n] # names[n] BY <1>3, <1>4, <2>1, BuildOwnNames
  <2>2. CASE names'[n] = names[n]
    <3>0. /\ mode[b] = "build" /\ at'[b] = at[b] + 1 /\ at[b] \in Build!Step
          /\ ~Build!Doing(b, "sync") /\ Build!CreatedAt[at[b]] \in 0..5
      <4>1. at[b] \in Build!Step BY DEF Build!TypeOK
      <4>2. mode[b] = "build" /\ at'[b] = at[b] + 1 /\ ~Build!Doing(b, "sync")
        BY <1>4 DEF Build!Active, Build!Build, Build!Check, Build!CreateFile, Build!OpenFile,
           Build!WriteContainer, Build!TakeIdentity, Build!Link, Build!Unlink, Build!Sync,
           Build!StepFails, Build!RollbackCompare, Build!RollbackRemove, Build!RollbackSync,
           Build!Cleanup, Build!RecoveryFails, Build!DropName, Build!DropDone, Build!Continue,
           Build!Doing, Build!Advance, Build!Return, Build!FailsTo, Build!TypeOK
      <4> QED BY <4>1, <4>2, BuildTracked
    <3>1. CASE i <= Build!CreatedAt[at[b]] /\ Build!Active(b)
      BY <1>2, <2>2, <3>0, <3>1 DEF Build!OwnFiles
    <3>2. CASE ~(i <= Build!CreatedAt[at[b]])
      <4>1. Build!Doing(b, "create") /\ i = Build!CreatedAt[at[b]] + 1
        <5>1. Build!Doing(b, "create") BY <3>0, <3>2, BuildAdvances
        <5>2. Build!CreatedAt[at[b] + 1] = Build!CreatedAt[at[b]] + 1 BY <5>1, BuildRoom
        <5> QED BY <1>2, <3>0, <3>2, <5>1, <5>2
      <4>2. Build!Target(b) = n BY <4>1, BuildRoom
      <4>3. BuildCreates(b)
        BY <1>4, <4>1 DEF Build!Active, Build!Build, Build!Check, Build!CreateFile, Build!OpenFile,
           Build!WriteContainer, Build!TakeIdentity, Build!Link, Build!Unlink, Build!Sync,
           Build!StepFails, Build!RollbackCompare, Build!RollbackRemove, Build!RollbackSync,
           Build!Cleanup, Build!RecoveryFails, Build!DropName, Build!DropDone, Build!Continue,
           Build!Doing, Build!Return, Build!FailsTo, Build!TypeOK, BuildCreates, Build!CreateNew
      <4> QED BY <1>3, <4>2, <4>3 DEF BuildCreates, Build!TypeOK
    <3>3. CASE i <= Build!CreatedAt[at[b]] /\ ~Build!Active(b)
      <4>1. at[b] = 2 /\ mode[b] = "build" BY <1>4, <3>3, BuildActive DEF Build!Active
      <4>2. Build!CreatedAt[at[b]] = 0 BY <4>1, BuildTracked DEF Build!Step
      <4> QED BY <1>2, <3>3, <4>2
    <3> QED BY <3>1, <3>2, <3>3
  <2> QED BY <2>1, <2>2
<1>5. CASE e # b
  <2>1. BuildSame(b) BY <1>5, BuildOthers
  <2>2. Build!Active(b) /\ i \in 1..Build!CreatedAt[at[b]] BY <2>1 DEF BuildSame, Build!Active
  <2>3. names[n] \in {Free, <<b, Build!Suffix[i]>>} BY ONLY <2>2, Build!OwnFiles DEF Build!OwnFiles
  <2>4. names'[n] # names[n] => names'[n] = Free
    BY <1>3, <1>5, <2>2, BuildOwnNames, BuildUndisturbed
  <2> QED BY <2>3, <2>4
<1> QED BY <1>4, <1>5

(* DestinationOwned for one builder, by its place in build_external. *)
BuildLinked(c) ==
  \/ mode[c] = "build" /\ at[c] \in {14, 15}
  \/ mode[c] \in {"rollback", "rollback_remove"}

BuildOwned(c) ==
  /\ BuildLinked(c) \/ outcome[c].result = "published" => dest = Build!Commit(c)
  /\ BuildLinked(c) \/ (mode[c] = "build" /\ at[c] = 13) =>
       c \in complete /\ identity[c] = Build!Commit(c)
  /\ outcome[c].result = "published" =>
       recoverable = {Build!Commit(c)} /\ mode[c] \in {"drop", "done", "crashed"}
  /\ mode[c] = "rollback_sync" => dest # Build!Commit(c)
  /\ \/ mode[c] = "build" /\ at[c] \notin {14, 15}
     \/ mode[c] \in {"cleanup", "drop", "done"} /\ outcome[c].result # "published"
     => outcome[c].reported \/ Build!Commit(c) \notin recoverable \cup {dest}

LEMMA BuildOwnedIs ==
  ASSUME Build!TypeOK
  PROVE  Build!DestinationOwned <=> \A c \in Contender : BuildOwned(c)
<1>1. ASSUME NEW c \in Contender
      PROVE  /\ Build!Doing(c, "link") <=> mode[c] = "build" /\ at[c] = 13
             /\ Build!Linked(c) <=> BuildLinked(c)
  <2>1. at[c] \in Build!Step BY DEF Build!TypeOK
  <2> QED BY <2>1, BuildSteps DEF Build!Doing, Build!Linked, BuildLinked
<1> QED BY <1>1 DEF Build!DestinationOwned, BuildOwned, Build!Published, Build!Unpublished, BuildLinked

LEMMA BuildOwnedIsNext ==
  ASSUME Build!TypeOK', \A c \in Contender : BuildOwned(c)'
  PROVE  Build!DestinationOwned'
<1>1. ASSUME NEW c \in Contender
      PROVE  /\ Build!Doing(c, "link")' <=> mode'[c] = "build" /\ at'[c] = 13
             /\ Build!Linked(c)' <=> BuildLinked(c)'
  <2>1. at'[c] \in Build!Step BY DEF Build!TypeOK
  <2> QED BY <2>1, BuildSteps DEF Build!Doing, Build!Linked, BuildLinked
<1> QED BY <1>1 DEF Build!DestinationOwned, BuildOwned, Build!Published, Build!Unpublished, BuildLinked

(* The file of a builder that is about to take its identity, or to link    *)
(* it, is its own or gone.                                                 *)
LEMMA BuildOwnCommit ==
  ASSUME Build!TypeOK, Build!InStep, Build!OwnFiles, NEW b \in Contender,
         mode[b] = "build", at[b] \in {12, 13}
  PROVE  names[Build!Own(b, "commit")] \in {Free, Build!Commit(b)}
<1>1. Build!CreatedAt[at[b]] = 5 BY BuildTracked DEF Build!TypeOK
<1> QED BY <1>1, BuildSuffix DEF Build!OwnFiles, Build!Active, Build!Commit

LEMMA BuildCommits ==
  ASSUME Build!BuilderAssumption
  PROVE  \A b, c \in Contender : Build!Commit(b) # Free /\ (Build!Commit(b) = Build!Commit(c) => b = c)
  BY DEF Build!BuilderAssumption, Build!File, Build!Kind, Build!Commit

(* What is known while no three builders share a nonce. *)
BuildSafe ==
  /\ Build!OneActive /\ Build!OwnFiles /\ mixed = {}
  /\ \A b \in Contender : mode[b] = "build" /\ at[b] = 12 => b \in complete
  /\ \A file \in (recoverable \cup {dest}) \ {Free} : \E b \in complete : file = Build!Commit(b)
  /\ \A b \in Contender : BuildOwned(b)

(* A builder owns its destination after a step of its own. *)
LEMMA BuildOwnedStep ==
  ASSUME Build!BuilderAssumption, Build!TypeOK, Build!InStep, BuildSafe, NEW b \in Contender,
         Build!Build(b)
  PROVE  BuildOwned(b)'
<1>1. BuildOwned(b) BY DEF BuildSafe
<1>2. at[b] \in Build!Step BY DEF Build!TypeOK
<1>3. Build!Commit(b) # Free BY BuildCommits
<1>4. CASE BuildWorks(b)
  <2>1. mode[b] = "build" /\ outcome[b].result = "none"
    <3>1. mode[b] = "build"
      BY <1>4 DEF BuildWorks, Build!Check, Build!CreateFile, Build!OpenFile, Build!WriteContainer,
         Build!TakeIdentity, Build!Link, Build!Unlink, Build!Sync, Build!StepFails, Build!Doing
    <3> QED BY <3>1 DEF Build!InStep
  (* Before the link: the destination is not the builder's. *)
  <2>2. ASSUME at[b] \notin {14, 15}, UNCHANGED <<dest, recoverable>>,
               \/ Build!Advance(b) /\ at[b] \notin {12, 13}
               \/ \E how \in {"exists", "error"} : Build!Return(b, how, "drop")
        PROVE  BuildOwned(b)'
    <3>1. outcome[b].reported \/ Build!Commit(b) \notin recoverable \cup {dest}
      BY <1>1, <2>1, <2>2 DEF BuildOwned
    <3>2. CASE Build!Advance(b) /\ at[b] \notin {12, 13}
      <4>1. mode'[b] = "build" /\ at'[b] = at[b] + 1 /\ outcome' = outcome
        BY <2>1, <3>2 DEF Build!Advance, Build!TypeOK
      <4>2. at'[b] \notin {13, 14, 15} BY <1>2, <2>2, <3>2, <4>1 DEF Build!Step
      <4> QED BY <2>1, <2>2, <3>1, <4>1, <4>2 DEF BuildOwned, BuildLinked, Build!Commit
    <3>3. CASE \E how \in {"exists", "error"} : Build!Return(b, how, "drop")
      <4>1. mode'[b] = "drop" /\ outcome'[b].result \in {"exists", "error"}
            /\ outcome'[b].reported = outcome[b].reported
        BY <3>3 DEF Build!Return, Build!TypeOK
      <4> QED BY <2>2, <3>1, <4>1 DEF BuildOwned, BuildLinked, Build!Commit
    <3> QED BY <2>2, <3>2, <3>3
  (* After it: the destination is. *)
  <2>3. ASSUME at[b] \in {14, 15}, UNCHANGED <<dest, identity>>, complete' = complete,
               \/ Build!Advance(b) /\ at[b] = 14
               \/ Build!Return(b, "error", "rollback")
        PROVE  BuildOwned(b)'
    <3>1. dest = Build!Commit(b) /\ b \in complete /\ identity[b] = Build!Commit(b)
      BY <1>1, <2>1, <2>3 DEF BuildOwned, BuildLinked
    <3>2. /\ outcome'[b].result \in {"none", "error"}
          /\ (mode'[b] = "build" /\ at'[b] = 15) \/ mode'[b] = "rollback"
      BY <2>1, <2>3 DEF Build!Advance, Build!Return, Build!TypeOK
    <3> QED BY <2>3, <3>1, <3>2 DEF BuildOwned, BuildLinked, Build!Commit
  <2>4. CASE Build!Check(b) \/ Build!CreateFile(b) \/ Build!OpenFile(b) \/ Build!WriteContainer(b)
    <3>1. at[b] \notin {12, 13, 14, 15}
      BY <1>2, <2>4, BuildSteps DEF Build!Check, Build!CreateFile, Build!OpenFile,
         Build!WriteContainer, Build!Doing
    <3>2. UNCHANGED <<dest, recoverable>>
          /\ (Build!Advance(b) \/ \E how \in {"exists", "error"} : Build!Return(b, how, "drop"))
      BY <2>4 DEF Build!Check, Build!CreateFile, Build!OpenFile, Build!WriteContainer, Build!files
    <3> QED BY <2>2, <3>1, <3>2
  <2>5. CASE Build!TakeIdentity(b)
    <3>1. at[b] = 12 /\ UNCHANGED <<dest, recoverable, complete>>
      BY <1>2, <2>5, BuildSteps DEF Build!TakeIdentity, Build!Doing, Build!files, Build!inputs
    <3>2. CASE names[Build!Own(b, "commit")] = Free
      <4>1. Build!Return(b, "error", "drop") BY <2>5, <3>2 DEF Build!TakeIdentity
      <4> QED BY <2>2, <3>1, <4>1
    <3>3. CASE names[Build!Own(b, "commit")] # Free
      <4>1. names[Build!Own(b, "commit")] = Build!Commit(b)
        BY <2>1, <3>1, <3>3, BuildOwnCommit DEF BuildSafe
      <4>2. /\ mode'[b] = "build" /\ at'[b] = 13 /\ outcome' = outcome
        BY <2>1, <2>5, <3>1, <3>3 DEF Build!TakeIdentity, Build!Advance, Build!TypeOK
      <4>3. identity' = [identity EXCEPT ![b] = Build!Commit(b)] BY <2>5, <4>1 DEF Build!TakeIdentity
      <4>4. identity'[b] = Build!Commit(b) BY <4>3 DEF Build!TypeOK
      <4>5. b \in complete BY <2>1, <3>1 DEF BuildSafe
      <4>6. outcome[b].reported \/ Build!Commit(b) \notin recoverable \cup {dest}
        BY <1>1, <2>1, <3>1 DEF BuildOwned
      <4> QED BY <2>1, <3>1, <4>2, <4>4, <4>5, <4>6 DEF BuildOwned, BuildLinked, Build!Commit
    <3> QED BY <3>2, <3>3
  <2>6. CASE Build!Link(b)
    <3>1. at[b] = 13 /\ UNCHANGED <<identity, complete>>
      BY <1>2, <2>6, BuildSteps DEF Build!Link, Build!Doing, Build!inputs
    <3>2. CASE names[Build!Own(b, "commit")] # Free /\ dest = Free
      <4>1. names[Build!Own(b, "commit")] = Build!Commit(b)
        BY <2>1, <3>1, <3>2, BuildOwnCommit DEF BuildSafe
      <4>2. dest' = Build!Commit(b) /\ Build!Advance(b)
        BY <2>6, <3>2, <4>1 DEF Build!Link, Build!LinkClaims
      <4>3. mode'[b] = "build" /\ at'[b] = 14 /\ outcome' = outcome
        BY <2>1, <3>1, <4>2 DEF Build!Advance, Build!TypeOK
      <4>4. b \in complete /\ identity[b] = Build!Commit(b) BY <1>1, <2>1, <3>1 DEF BuildOwned
      <4> QED BY <2>1, <3>1, <4>2, <4>3, <4>4 DEF BuildOwned, BuildLinked, Build!Commit
    <3>3. CASE ~(names[Build!Own(b, "commit")] # Free /\ dest = Free)
      <4>1. \E how \in {"exists", "error"} : Build!Return(b, how, "drop")
        BY <2>6, <3>3 DEF Build!Link, Build!LinkClaims
      <4>2. UNCHANGED <<dest, recoverable>> BY <2>6, <3>3 DEF Build!Link, Build!LinkClaims
      <4> QED BY <2>2, <3>1, <4>1, <4>2
    <3> QED BY <3>2, <3>3
  <2>7. CASE Build!Unlink(b)
    <3>1. at[b] = 14 BY <1>2, <2>7, BuildSteps DEF Build!Unlink, Build!Doing
    <3> QED BY <2>3, <2>7, <3>1 DEF Build!Unlink, Build!inputs
  <2>8. CASE Build!Sync(b)
    <3>1. at[b] = 15 BY <1>2, <2>8, BuildSteps DEF Build!Sync, Build!Doing
    <3>2. dest = Build!Commit(b) BY <1>1, <2>1, <3>1 DEF BuildOwned, BuildLinked
    <3>3. recoverable' = {dest} /\ dest' = dest /\ Build!Return(b, "published", "drop")
      BY <2>8 DEF Build!Sync, Build!Synced
    <3>4. mode'[b] = "drop" /\ outcome'[b].result = "published"
      BY <3>3 DEF Build!Return, Build!TypeOK
    <3> QED BY <3>2, <3>3, <3>4 DEF BuildOwned, BuildLinked, Build!Commit
  <2>9. CASE Build!StepFails(b)
    <3>1. CASE at[b] \in {14, 15}
      <4>1. Build!Return(b, "error", "rollback")
        BY <1>2, <2>1, <2>9, <3>1, BuildSteps DEF Build!StepFails, Build!FailsTo, Build!Doing
      <4> QED BY <2>3, <2>9, <3>1, <4>1 DEF Build!StepFails, Build!files, Build!inputs
    <3>2. CASE at[b] \notin {14, 15}
      <4>1. Build!Return(b, "error", "drop")
        BY <1>2, <2>1, <2>9, <3>2, BuildSteps DEF Build!StepFails, Build!FailsTo, Build!Doing
      <4> QED BY <2>2, <2>9, <3>2, <4>1 DEF Build!StepFails, Build!files
    <3> QED BY <3>1, <3>2
  <2> QED BY <1>4, <2>4, <2>5, <2>6, <2>7, <2>8, <2>9 DEF BuildWorks
<1>5. CASE BuildRecovers(b)
  <2>1. complete' = complete /\ identity' = identity
    BY <1>5 DEF BuildRecovers, Build!RollbackCompare, Build!RollbackRemove, Build!RollbackSync,
       Build!Cleanup, Build!RecoveryFails, Build!DropName, Build!DropDone, Build!inputs
  <2>2. CASE Build!RollbackCompare(b)
    <3>1. mode[b] = "rollback" BY <2>2 DEF Build!RollbackCompare, Build!Continue
    <3>2. dest = Build!Commit(b) /\ b \in complete /\ identity[b] = Build!Commit(b)
          /\ outcome[b].result # "published"
      BY <1>1, <3>1 DEF BuildOwned, BuildLinked
    <3>3. mode'[b] = "rollback_remove" /\ dest' = dest /\ outcome' = outcome
      BY <1>3, <2>2, <3>2 DEF Build!RollbackCompare, Build!Continue, Build!files, Build!TypeOK
    <3> QED BY <2>1, <3>2, <3>3 DEF BuildOwned, BuildLinked, Build!Commit
  <2>3. CASE Build!RollbackRemove(b)
    <3>1. mode[b] = "rollback_remove" BY <2>3 DEF Build!RollbackRemove, Build!Continue
    <3>2. outcome[b].result # "published" BY <1>1, <3>1 DEF BuildOwned
    <3>3. mode'[b] = "rollback_sync" /\ dest' = Free /\ outcome' = outcome
      BY <2>3 DEF Build!RollbackRemove, Build!Continue, Build!TypeOK
    <3> QED BY <1>3, <3>2, <3>3 DEF BuildOwned, BuildLinked, Build!Commit
  <2>4. CASE Build!RollbackSync(b)
    <3>1. mode[b] = "rollback_sync" BY <2>4 DEF Build!RollbackSync, Build!Continue
    <3>2. outcome[b].result # "published" /\ dest # Build!Commit(b) BY <1>1, <3>1 DEF BuildOwned
    <3>3. mode'[b] = "cleanup" /\ dest' = dest /\ recoverable' = {dest} /\ outcome' = outcome
      BY <2>4 DEF Build!RollbackSync, Build!Continue, Build!Synced, Build!TypeOK
    <3> QED BY <3>2, <3>3 DEF BuildOwned, BuildLinked, Build!Commit
  <2>5. CASE Build!Cleanup(b)
    <3>1. mode[b] = "cleanup" BY <2>5 DEF Build!Cleanup, Build!Continue
    <3>2. mode'[b] = "drop" /\ UNCHANGED <<dest, recoverable, outcome>>
      BY <2>5 DEF Build!Cleanup, Build!Continue, Build!TypeOK
    <3> QED BY <1>1, <3>1, <3>2 DEF BuildOwned, BuildLinked, Build!Commit
  <2>6. CASE Build!RecoveryFails(b)
    <3>1. mode[b] \in {"rollback", "rollback_remove", "rollback_sync", "cleanup"}
      BY <2>6 DEF Build!RecoveryFails
    <3>2. outcome[b].result # "published" BY <1>1, <3>1 DEF BuildOwned
    <3>3. outcome'[b].reported /\ outcome'[b].result = outcome[b].result
      BY <2>6 DEF Build!RecoveryFails, Build!TypeOK
    <3>4. mode'[b] \in {"cleanup", "drop"} BY <2>6 DEF Build!RecoveryFails, Build!TypeOK
    <3> QED BY <3>2, <3>3, <3>4 DEF BuildOwned, BuildLinked, Build!Commit
  <2>7. CASE Build!DropName(b)
    <3>1. mode[b] = "drop" /\ UNCHANGED <<dest, recoverable, mode, at>> BY <2>7 DEF Build!DropName
    <3>2. /\ outcome'[b].result = outcome[b].result
          /\ outcome'[b].reported = outcome[b].reported
      BY <2>7 DEF Build!DropName, Build!TypeOK
    <3> QED BY <1>1, <3>1, <3>2 DEF BuildOwned, BuildLinked, Build!Commit
  <2>8. CASE Build!DropDone(b)
    <3>1. mode[b] = "drop" /\ mode'[b] = "done" /\ UNCHANGED <<dest, recoverable, outcome>>
      BY <2>8 DEF Build!DropDone, Build!Continue, Build!files, Build!TypeOK
    <3> QED BY <1>1, <3>1 DEF BuildOwned, BuildLinked, Build!Commit
  <2> QED BY <1>5, <2>2, <2>3, <2>4, <2>5, <2>6, <2>7, <2>8 DEF BuildRecovers
<1> QED BY <1>4, <1>5, BuildKinds

(* What a step does to the destination. *)
BuildFilesSame == UNCHANGED <<dest, recoverable>>

LEMMA BuildFiles ==
  ASSUME Build!BuilderAssumption, Build!TypeOK, Build!InStep, BuildSafe, NEW e \in Contender,
         Build!Build(e)
  PROVE  \/ BuildFilesSame
         \/ /\ dest = Free /\ dest' = Build!Commit(e) /\ e \in complete
            /\ recoverable' = recoverable \cup {Build!Commit(e)}
         \/ dest = Build!Commit(e) /\ dest' = dest /\ recoverable' = {dest}
         \/ dest = Build!Commit(e) /\ dest' = Free /\ recoverable' = recoverable \cup {Free}
         \/ mode[e] = "rollback_sync" /\ dest' = dest /\ recoverable' = {dest}
<1>1. BuildOwned(e) /\ at[e] \in Build!Step BY DEF BuildSafe, Build!TypeOK
<1>2. CASE Build!Link(e)
  <2>1. CASE names[Build!Own(e, "commit")] # Free /\ dest = Free
    <3>1. mode[e] = "build" /\ at[e] = 13 BY <1>1, <1>2, BuildSteps DEF Build!Link, Build!Doing
    <3>2. names[Build!Own(e, "commit")] = Build!Commit(e) /\ e \in complete
      BY <1>1, <2>1, <3>1, BuildOwnCommit DEF BuildSafe, BuildOwned
    <3> QED BY <1>2, <2>1, <3>2 DEF Build!Link, Build!LinkClaims
  <2>2. CASE ~(names[Build!Own(e, "commit")] # Free /\ dest = Free)
    BY <1>2, <2>2 DEF Build!Link, Build!LinkClaims, BuildFilesSame
  <2> QED BY <2>1, <2>2
<1>3. CASE Build!Sync(e)
  <2>1. mode[e] = "build" /\ at[e] = 15 BY <1>1, <1>3, BuildSteps DEF Build!Sync, Build!Doing
  <2> QED BY <1>1, <1>3, <2>1 DEF BuildOwned, BuildLinked, Build!Sync, Build!Synced
<1>4. CASE Build!RollbackRemove(e)
  BY <1>1, <1>4 DEF BuildOwned, BuildLinked, Build!RollbackRemove, Build!Continue
<1>5. CASE Build!RollbackSync(e)
  BY <1>5 DEF Build!RollbackSync, Build!Continue, Build!Synced
<1>6. CASE ~(Build!Link(e) \/ Build!Sync(e) \/ Build!RollbackRemove(e) \/ Build!RollbackSync(e))
  BY <1>6 DEF BuildFilesSame, Build!Build, Build!Check, Build!CreateFile, Build!OpenFile,
     Build!WriteContainer, Build!TakeIdentity, Build!Unlink, Build!StepFails, Build!RollbackCompare,
     Build!Cleanup, Build!RecoveryFails, Build!DropName, Build!DropDone, Build!files
<1> QED BY <1>2, <1>3, <1>4, <1>5, <1>6

LEMMA BuildInputs ==
  ASSUME Build!BuilderAssumption, Build!TypeOK, Build!InStep, BuildSafe, NEW e \in Contender,
         Build!Build(e)
  PROVE  /\ complete \subseteq complete' /\ mixed' = {}
         /\ \A b \in Contender : mode'[b] = "build" /\ at'[b] = 12 => b \in complete'
<1>1. at[e] \in Build!Step BY DEF Build!TypeOK
<1>2. mixed' = {}
  <2>1. CASE Build!OpenFile(e)
    <3>1. mode[e] = "build" /\ at[e] \in {3, 6, 7, 10}
      BY <1>1, <2>1, BuildSteps DEF Build!OpenFile, Build!Doing
    <3>2. PICK j \in 1..Build!CreatedAt[at[e]] : Build!Target(e) = Build!Own(e, Build!Suffix[j])
      BY <1>1, <3>1, BuildTargets DEF Build!Target
    <3>3. names[Build!Target(e)] \in {Free, <<e, Build!Suffix[j]>>}
      BY <3>1, <3>2 DEF BuildSafe, Build!OwnFiles, Build!Active
    <3>4. Build!Target(e)[2] = Build!Suffix[j] BY <3>2 DEF Build!Own
    <3> QED BY <2>1, <3>3, <3>4 DEF Build!OpenFile, BuildSafe
  <2>2. CASE ~Build!OpenFile(e)
    BY <2>2 DEF BuildSafe, Build!Build, Build!Check, Build!CreateFile, Build!WriteContainer,
       Build!TakeIdentity, Build!Link, Build!Unlink, Build!Sync, Build!StepFails,
       Build!RollbackCompare, Build!RollbackRemove, Build!RollbackSync, Build!Cleanup,
       Build!RecoveryFails, Build!DropName, Build!DropDone, Build!inputs
  <2> QED BY <2>1, <2>2
<1>3. complete' = complete \/ Build!WriteContainer(e)
  BY DEF Build!Build, Build!Check, Build!CreateFile, Build!OpenFile, Build!TakeIdentity, Build!Link,
     Build!Unlink, Build!Sync, Build!StepFails, Build!RollbackCompare, Build!RollbackRemove,
     Build!RollbackSync, Build!Cleanup, Build!RecoveryFails, Build!DropName, Build!DropDone,
     Build!inputs
<1>4. complete \subseteq complete' BY <1>3 DEF Build!WriteContainer
<1>5. ASSUME NEW b \in Contender, mode'[b] = "build", at'[b] = 12 PROVE b \in complete'
  <2>1. CASE b # e
    <3>1. BuildSame(b) BY <2>1, BuildOthers
    <3> QED BY <1>4, <1>5, <3>1 DEF BuildSafe, BuildSame
  <2>2. CASE b = e
    <3>1. mode[e] = "build" BY <1>5, <2>2, BuildActive
    <3>2. BuildWorks(e)
      BY <3>1, BuildKinds DEF BuildRecovers, Build!RollbackCompare, Build!RollbackRemove,
         Build!RollbackSync, Build!Cleanup, Build!RecoveryFails, Build!DropName, Build!DropDone,
         Build!Continue
    <3>3. at'[e] = at[e] + 1
      BY <1>5, <2>2, <3>1, <3>2 DEF BuildWorks, Build!Check, Build!CreateFile, Build!OpenFile,
         Build!WriteContainer, Build!TakeIdentity, Build!Link, Build!Unlink, Build!Sync,
         Build!StepFails, Build!Return, Build!Advance, Build!FailsTo, Build!TypeOK
    <3>4. at[e] = 11 BY <1>1, <1>5, <2>2, <3>3 DEF Build!Step
    <3>5. Build!Doing(e, "write") BY <1>1, <3>1, <3>4, BuildSteps DEF Build!Doing
    <3>6. Build!WriteContainer(e)
      BY <1>5, <2>2, <3>2, <3>5 DEF BuildWorks, Build!Check, Build!CreateFile, Build!OpenFile,
         Build!TakeIdentity, Build!Link, Build!Unlink, Build!Sync, Build!StepFails, Build!Doing,
         Build!Return, Build!FailsTo, Build!TypeOK
    <3> QED BY <2>2, <3>6 DEF Build!WriteContainer
  <2> QED BY <2>1, <2>2
<1> QED BY <1>2, <1>4, <1>5

(* No step of another builder touches what a builder owns. *)
LEMMA BuildOwnedOther ==
  ASSUME Build!BuilderAssumption, Build!TypeOK, Build!InStep, BuildSafe, NEW e \in Contender,
         Build!Build(e), NEW c \in Contender, c # e
  PROVE  BuildOwned(c)'
<1>1. BuildOwned(c) /\ BuildSame(c) BY BuildOthers DEF BuildSafe
<1>2. complete \subseteq complete' BY BuildInputs
<1>3. Build!Commit(c) # Free /\ Build!Commit(c) # Build!Commit(e) BY BuildCommits
<1>4. Build!Commit(c)' = Build!Commit(c) BY DEF Build!Commit
<1>5. CASE BuildFilesSame BY <1>1, <1>2, <1>4, <1>5 DEF BuildFilesSame, BuildOwned, BuildSame, BuildLinked
<1>6. CASE dest = Free /\ dest' = Build!Commit(e) /\ recoverable' = recoverable \cup {Build!Commit(e)}
  <2>1. ~BuildLinked(c) /\ outcome[c].result # "published" BY <1>1, <1>3, <1>6 DEF BuildOwned
  <2> QED BY <1>1, <1>2, <1>3, <1>4, <1>6, <2>1 DEF BuildOwned, BuildSame, BuildLinked
<1>7. CASE dest = Build!Commit(e) /\ dest' = dest /\ recoverable' = {dest}
  <2>1. ~BuildLinked(c) /\ outcome[c].result # "published" BY <1>1, <1>3, <1>7 DEF BuildOwned
  <2> QED BY <1>1, <1>2, <1>3, <1>4, <1>7, <2>1 DEF BuildOwned, BuildSame, BuildLinked
<1>8. CASE dest = Build!Commit(e) /\ dest' = Free /\ recoverable' = recoverable \cup {Free}
  <2>1. ~BuildLinked(c) /\ outcome[c].result # "published" BY <1>1, <1>3, <1>8 DEF BuildOwned
  <2> QED BY <1>1, <1>2, <1>3, <1>4, <1>8, <2>1 DEF BuildOwned, BuildSame, BuildLinked
<1>9. CASE dest' = dest /\ recoverable' = {dest}
  BY <1>1, <1>2, <1>3, <1>4, <1>9 DEF BuildOwned, BuildSame, BuildLinked
<1> QED BY <1>5, <1>6, <1>7, <1>8, <1>9, BuildFiles

LEMMA BuildSafeStep ==
  ASSUME Build!BuilderAssumption, Build!TypeOK, Build!InStep, Build!NoThreeShare, BuildSafe,
         NEW e \in Contender, Build!Build(e)
  PROVE  BuildSafe'
<1>1. Build!OneActive' /\ Build!OwnFiles' BY BuildOneActive, BuildOwnFiles DEF BuildSafe
<1>2. \A b \in Contender : BuildOwned(b)' BY BuildOwnedStep, BuildOwnedOther
<1>3. ASSUME NEW file \in (recoverable' \cup {dest'}) \ {Free}
      PROVE  \E b \in complete' : file = Build!Commit(b)
  <2>1. complete \subseteq complete' BY BuildInputs
  <2>2. file \in (recoverable \cup {dest}) \ {Free} \/ (file = Build!Commit(e) /\ e \in complete)
    BY <1>3, BuildFiles DEF BuildFilesSame
  <2> QED BY <2>1, <2>2 DEF BuildSafe
<1>4. \A b : Build!Commit(b)' = Build!Commit(b) BY DEF Build!Commit
<1> QED BY <1>1, <1>2, <1>3, <1>4, BuildInputs DEF BuildSafe

LEMMA BuildSafeCrash ==
  ASSUME Build!BuilderAssumption, Build!TypeOK, BuildSafe,
         Build!PowerLoss \/ \E b \in Contender : Build!Crash(b)
  PROVE  BuildSafe'
<1>1. /\ \A c \in Contender : mode'[c] = mode[c] \/ mode'[c] = "crashed"
      /\ UNCHANGED <<nonce, names, at, tracked, dropped, identity, outcome, complete, mixed>>
  BY BuildCrashes
<1>2. \A b \in Contender : Build!Active(b)' => Build!Active(b) BY <1>1 DEF Build!Active
<1>3. Build!OneActive'
  <2> SUFFICES ASSUME NEW b \in Contender, NEW c \in Contender, b # c, nonce[b] = nonce[c],
                      Build!Active(b)
               PROVE  /\ ~Build!Active(c)'
                      /\ names[Build!Own(b, "run")] = Free => mode'[c] # "build"
    BY <1>1, <1>2 DEF Build!OneActive, Build!Own
  <2>1. ~Build!Active(c) /\ (names[Build!Own(b, "run")] = Free => mode[c] # "build")
    BY DEF BuildSafe, Build!OneActive
  <2> QED BY <1>1, <1>2, <2>1
<1>4. Build!OwnFiles'
  <2> SUFFICES ASSUME NEW b \in Contender, Build!Active(b), NEW i \in 1..Build!CreatedAt[at[b]]
               PROVE  names[Build!Own(b, Build!Suffix[i])] \in {Free, <<b, Build!Suffix[i]>>}
    BY <1>1, <1>2 DEF Build!OwnFiles, Build!Own
  <2> QED BY DEF BuildSafe, Build!OwnFiles
<1>5. \A b : Build!Commit(b)' = Build!Commit(b) BY DEF Build!Commit
<1>6. CASE UNCHANGED <<dest, recoverable>>
  <2>1. ASSUME NEW b \in Contender PROVE BuildOwned(b)'
    <3>1. BuildOwned(b) BY DEF BuildSafe
    <3> QED BY <1>1, <1>5, <1>6, <3>1 DEF BuildOwned, BuildLinked
  <2> QED BY <1>1, <1>3, <1>4, <1>5, <1>6, <2>1 DEF BuildSafe
<1>7. CASE Build!PowerLoss
  <2>1. PICK file \in recoverable : dest' = file /\ recoverable' = {file}
    BY <1>7 DEF Build!PowerLoss
  <2>2. ASSUME NEW b \in Contender PROVE BuildOwned(b)'
    <3>1. BuildOwned(b) BY DEF BuildSafe
    <3>2. mode'[b] \in {"done", "crashed"} /\ (mode'[b] = "done" => mode[b] = "done")
      BY <1>7 DEF Build!PowerLoss, Build!Stopped, Build!TypeOK
    <3> QED BY <1>1, <1>5, <2>1, <3>1, <3>2 DEF BuildOwned, BuildLinked
  <2> QED BY <1>1, <1>3, <1>4, <1>5, <2>1, <2>2 DEF BuildSafe
<1>8. UNCHANGED <<dest, recoverable>> \/ Build!PowerLoss BY DEF Build!Crash, Build!files
<1> QED BY <1>6, <1>7, <1>8

LEMMA BuildParts ==
  ASSUME Build!TypeOK
  PROVE  Build!IInv <=> Build!TrackedBefore /\ Build!InStep /\ (Build!NoThreeShare => BuildSafe)
<1>1. \A b \in Contender : Build!Doing(b, "identity") <=> mode[b] = "build" /\ at[b] = 12
  BY BuildSteps DEF Build!TypeOK, Build!Doing
<1> QED BY <1>1, BuildOwnedIs DEF Build!IInv, BuildSafe

LEMMA BuildPartsNext ==
  ASSUME Build!TypeOK', Build!TrackedBefore', Build!InStep', Build!NoThreeShare' => BuildSafe'
  PROVE  Build!IInv'
<1>1. \A b \in Contender : Build!Doing(b, "identity")' <=> mode'[b] = "build" /\ at'[b] = 12
  BY BuildSteps DEF Build!TypeOK, Build!Doing
<1> QED BY <1>1, BuildOwnedIsNext DEF Build!IInv, BuildSafe

LEMMA BuildNextInvariant ==
  ASSUME Build!BuilderAssumption, Build!IInv, [Build!Next]_(Build!vars)
  PROVE  Build!IInv'
<1>1. /\ Build!TypeOK /\ Build!TrackedBefore /\ Build!InStep
      /\ Build!NoThreeShare => BuildSafe
  BY BuildParts DEF Build!IInv
<1>2. CASE Build!Next
  <2>1. Build!TypeOK' /\ Build!TrackedBefore' /\ Build!InStep'
    BY <1>1, <1>2, BuildType, BuildTrackedBefore, BuildInStep
  <2>2. Build!NoThreeShare' => Build!NoThreeShare BY <1>2, BuildNonces DEF Build!NoThreeShare
  <2>3. Build!NoThreeShare' => BuildSafe'
    BY <1>1, <1>2, <2>2, BuildSafeStep, BuildSafeCrash DEF Build!Next
  <2> QED BY <2>1, <2>3, BuildPartsNext
<1>3. CASE UNCHANGED Build!vars
  <2>1. Build!TypeOK' BY <1>1, <1>3 DEF Build!TypeOK, Build!vars
  <2>2. Build!TrackedBefore' BY <1>1, <1>3 DEF Build!TrackedBefore, Build!Own, Build!vars
  <2>3. Build!InStep' BY <1>1, <1>3 DEF Build!InStep, Build!vars
  <2>4. Build!NoThreeShare' => Build!NoThreeShare BY <1>3 DEF Build!NoThreeShare, Build!vars
  <2>5. BuildSafe => BuildSafe'
    <3>1. \A b : BuildOwned(b)' <=> BuildOwned(b)
      BY <1>3 DEF BuildOwned, BuildLinked, Build!Commit, Build!vars
    <3>2. Build!OneActive' <=> Build!OneActive
      BY <1>3 DEF Build!OneActive, Build!Active, Build!Own, Build!vars
    <3>3. Build!OwnFiles' <=> Build!OwnFiles
      BY <1>3 DEF Build!OwnFiles, Build!Active, Build!Own, Build!vars
    <3> QED BY <1>3, <3>1, <3>2, <3>3 DEF BuildSafe, Build!Commit, Build!vars
  <2> QED BY <1>1, <2>1, <2>2, <2>3, <2>4, <2>5, BuildPartsNext
<1> QED BY <1>2, <1>3

LEMMA BuildInvariantImplies ==
  ASSUME Build!BuilderAssumption, Build!IInv
  PROVE  Build!OnlyOwnComplete /\ Build!PublishedIsDurable /\ Build!FailedLeavesNothing
<1>1. /\ Build!TypeOK /\ Build!TrackedBefore /\ Build!InStep
      /\ Build!NoThreeShare => BuildSafe
  BY BuildParts DEF Build!IInv
<1>2. Build!OnlyOwnComplete
  <2> SUFFICES ASSUME BuildSafe, NEW file \in (recoverable \cup {dest}) \ {Free}
               PROVE  file[2] = "commit" /\ file[1] \in complete \ mixed
    BY <1>1 DEF Build!OnlyOwnComplete
  <2> QED BY DEF BuildSafe, Build!Commit
<1>3. Build!PublishedIsDurable
  BY <1>1 DEF Build!PublishedIsDurable, BuildSafe, BuildOwned
<1>4. Build!FailedLeavesNothing
  <2> SUFFICES ASSUME NEW b \in Contender, mode[b] = "done", ~outcome[b].leaked
               PROVE  /\ \A n \in Build!Name : names[n] = Free \/ names[n][1] # b
                      /\ Build!NoThreeShare /\ outcome[b].result # "published" /\ ~outcome[b].reported
                           => Build!Commit(b) \notin recoverable \cup {dest}
    BY DEF Build!FailedLeavesNothing
  <2>1. ASSUME NEW n \in Build!Name, names[n] # Free, names[n][1] = b PROVE FALSE
    <3>1. PICK c \in Contender, i \in 1..5 :
            /\ names[n] = <<c, Build!Suffix[i]>> /\ i <= tracked[c]
            /\ i <= dropped[c] => outcome[c].leaked
      BY <1>1, <2>1 DEF Build!TrackedBefore
    <3>2. c = b BY <2>1, <3>1
    <3>3. dropped[b] = tracked[b] BY <1>1 DEF Build!InStep
    <3> QED BY <3>1, <3>2, <3>3
  <2>2. BuildSafe /\ outcome[b].result # "published" /\ ~outcome[b].reported
          => Build!Commit(b) \notin recoverable \cup {dest}
    BY DEF BuildSafe, BuildOwned
  <2> QED BY <1>1, <2>1, <2>2
<1> QED BY <1>2, <1>3, <1>4

(* The destination of build_external names only complete containers made   *)
(* from the files of one builder, a build that returned Ok stays           *)
(* published, and one that failed leaves nothing: for any number of        *)
(* builders, nonces and faults, as long as no three builders share one     *)
(* nonce.                                                                  *)
THEOREM BuildIsAtomic ==
  Build!Spec => [](Build!OnlyOwnComplete /\ Build!PublishedIsDurable /\ Build!FailedLeavesNothing)
<1>1. Build!Init => Build!IInv BY BuildInitInvariant, Assumptions
<1>2. Build!IInv /\ [Build!Next]_(Build!vars) => Build!IInv' BY BuildNextInvariant, Assumptions
<1>3. Build!IInv => Build!OnlyOwnComplete /\ Build!PublishedIsDurable /\ Build!FailedLeavesNothing
  BY BuildInvariantImplies, Assumptions
<1> QED BY <1>1, <1>2, <1>3, PTL DEF Build!Spec

-----------------------------------------------------------------------------
(***************************************************************************)
(* The protocols together                                                  *)
(***************************************************************************)

Inv ==
  /\ part = "race" => Race!IInv
  /\ part = "foreign" => Foreign!IInv
  /\ part = "build" => Build!IInv
  /\ part = "lazy" => Lazy!IInv
  /\ part = "outputs" => Outputs!IInv

LEMMA InitInv == Init => Inv
<1> SUFFICES ASSUME Init PROVE Inv OBVIOUS
<1>1. part = "race" => Race!Init BY DEF Init
<1>2. part = "foreign" => Foreign!Init BY DEF Init
<1>3. part = "build" => Build!Init BY DEF Init
<1>4. part = "lazy" => Lazy!Init BY DEF Init
<1>5. part = "outputs" => Outputs!Init BY DEF Init
<1> QED BY <1>1, <1>2, <1>3, <1>4, <1>5, Assumptions, Race!InitInvariant, Foreign!InitInvariant,
           BuildInitInvariant, LazyInitInvariant, OutputsInitInvariant DEF Inv

(* A step of the bundle is a step of the part it is about. *)
LEMMA StepOfPart ==
  ASSUME [Next]_vars
  PROVE  /\ part' = part
         /\ part = "race" => [Race!Next]_(Race!vars)
         /\ part = "foreign" => [Foreign!Next]_(Foreign!vars)
         /\ part = "build" => [Build!Next]_(Build!vars)
         /\ part = "lazy" => [Lazy!Next]_(Lazy!vars)
         /\ part = "outputs" => [Outputs!Next]_(Outputs!vars)
<1>1. part' = part BY DEF Next, vars
<1>2. part = "race" => [Race!Next]_(Race!vars) BY DEF Next, vars, Race!vars
<1>3. part = "foreign" => [Foreign!Next]_(Foreign!vars) BY DEF Next, vars, Foreign!vars
<1>4. part = "build" => [Build!Next]_(Build!vars) BY DEF Next, vars, Build!vars
<1>5. part = "lazy" => [Lazy!Next]_(Lazy!vars) BY DEF Next, vars, Lazy!vars
<1>6. part = "outputs" => [Outputs!Next]_(Outputs!vars) BY DEF Next, vars, Outputs!vars
<1> QED BY <1>1, <1>2, <1>3, <1>4, <1>5, <1>6

LEMMA NextInv == Inv /\ [Next]_vars => Inv'
<1> SUFFICES ASSUME Inv, [Next]_vars PROVE Inv' OBVIOUS
<1>1. part' = "race" => Race!IInv' BY StepOfPart, Race!NextInvariant, Assumptions DEF Inv
<1>2. part' = "foreign" => Foreign!IInv' BY StepOfPart, Foreign!NextInvariant, Assumptions DEF Inv
<1>3. part' = "build" => Build!IInv' BY StepOfPart, BuildNextInvariant, Assumptions DEF Inv
<1>4. part' = "lazy" => Lazy!IInv' BY StepOfPart, LazyNextInvariant, Assumptions DEF Inv
<1>5. part' = "outputs" => Outputs!IInv' BY StepOfPart, OutputsNextInvariant, Assumptions DEF Inv
<1> QED BY <1>1, <1>2, <1>3, <1>4, <1>5 DEF Inv

(* Every publication keeps its inductive invariant. *)
THEOREM PublicationInvariant == Spec => []Inv
  BY InitInv, NextInv, PTL DEF Spec

(* No destination of create, of build_external or of the conversion to a   *)
(* lazy index ever names a torn or half-written file, whatever the number  *)
(* of creators, processes and builders, and however often calls fail,      *)
(* processes die or the power is lost: as long as no three builders share  *)
(* a nonce and no three converting processes a process id.                 *)
THEOREM DestinationsComplete == Spec => []OnlyComplete
<1>1. Inv => OnlyComplete
  BY Assumptions, BuildInvariantImplies, LazyInvariantImplies
  DEF Inv, OnlyComplete, Race!IInv, Foreign!IInv
<1> QED BY <1>1, PublicationInvariant, PTL

(* What a publisher reported as published is at the destination, and no    *)
(* later step of anybody nor a power loss undoes it, under the same        *)
(* exclusion of three sharers.                                             *)
THEOREM PublicationIsDurable == Spec => []ReportedIsPublished
<1>1. Inv => ReportedIsPublished
  BY Assumptions, Race!InvariantImplies, BuildInvariantImplies, LazyInvariantImplies,
     OutputsInvariantImplies
  DEF Inv, ReportedIsPublished
<1> QED BY <1>1, PublicationInvariant, PTL

(* A publication that failed leaves neither a temporary nor a destination  *)
(* behind, unless it says that its cleanup failed, or Drop of the builder, *)
(* which reports nothing, failed to remove a temporary.  The same          *)
(* exclusion of three sharers.                                             *)
THEOREM FailureLeavesNothing == Spec => []FailedLeavesNothing
<1>1. Inv => FailedLeavesNothing
  BY Assumptions, Race!InvariantImplies, Foreign!InvariantImplies, BuildInvariantImplies,
     LazyInvariantImplies, OutputsInvariantImplies
  DEF Inv, FailedLeavesNothing
<1> QED BY <1>1, PublicationInvariant, PTL

(* No create replaces the file a destination names or withdraws another's, *)
(* and no workload changes an output name that holds another program's     *)
(* file, unless that file came between comparison and removal.             *)
THEOREM ForeignFilesKept == Spec => OthersKept
<1>1. Inv /\ [Next]_vars =>
        [/\ part = "race" => Race!PreservesOthers
         /\ part = "outputs" => Outputs!KeepsForeign]_vars
  BY Assumptions, StepOfPart, Race!StepPreservesOthers, OutputsKeepForeign DEF Inv
<1> QED BY <1>1, PublicationInvariant, PTL DEF Spec, OthersKept

=============================================================================
