-------------------------- MODULE InteractionsProofs --------------------------
(***************************************************************************)
(* Theorems about blocking asks, for any number of questions, groups and   *)
(* faults and every cap, and about a waiting outcome, for every set of     *)
(* writers and sweepers and any number of takes and faults.                *)
(***************************************************************************)
EXTENDS AskGroups, WaitingOutcomes, FiniteSetTheorems, TLAPS

-----------------------------------------------------------------------------
(* Blocking asks: the inductive invariant.                                 *)

PendingOf(g) == {q \in Group(g) : question[q] = "pending"}
NotAskedYet == {"idle", "reserved", "purged", "lost"}

(***************************************************************************)
(* A transaction about to be executed still has the count it has read, and *)
(* a question is only written by an ask that got that far.                 *)
(***************************************************************************)
TxnCurrent ==
  \A q \in Question, d \in EndDoor :
    txn[q][d] # NoTxn =>
      /\ question[q] = "pending"
      /\ count[GroupOf[q]] > 0
      /\ txn[q][d] = count[GroupOf[q]] - 1

AskedFirst ==
  \A q \in Question : ask[q] \in NotAskedYet => question[q] = "absent"

CountsInv == AskTypeOK /\ TxnCurrent /\ AskedFirst /\ CountCoversOpen

(***************************************************************************)
(* The places taken are those of the questions that are open or opening.   *)
(***************************************************************************)
OpeningsHavePlaces == \A q \in Question \ late : Opening(q) => q \in openIndex

PlacesWithinCap == Cardinality(openIndex \ late) <= MaxOpen

PlacesInv == OpeningsHavePlaces /\ PlacesWithinCap /\ PlacesComeBack

(***************************************************************************)
(* The group of an open question has its stream, so that no reader takes   *)
(* it for a phantom, and its deadline is not before the question's.        *)
(***************************************************************************)
OpenGroupsKeep ==
  \A q \in Question :
    question[q] = "pending" =>
      /\ GroupOf[q] \in stream
      /\ q \notin late \cup swept => ~Dropping(GroupOf[q]) /\ q \in dated[GroupOf[q]]

ListInv == OpenGroupsKeep /\ OpenQuestionsListed

AskInv == CountsInv /\ PlacesInv /\ ListInv

-----------------------------------------------------------------------------
(* Counting.                                                               *)

LEMMA GroupFinite ==
  ASSUME NEW g \in AskGroup
  PROVE  IsFiniteSet(PendingOf(g)) /\ Cardinality(PendingOf(g)) \in Nat
<1>1. PendingOf(g) \in SUBSET Question
  BY DEF PendingOf, Group
<1>2. IsFiniteSet(PendingOf(g))
  BY <1>1, QuestionAssumption, FS_Subset
<1> QED
  BY <1>2, FS_CardinalityType

LEMMA CoversIs ==
  CountCoversOpen <=> \A g \in AskGroup : count[g] >= Cardinality(PendingOf(g))
  BY DEF CountCoversOpen, PendingOf

LEMMA CoversIsNext ==
  CountCoversOpen' <=> \A g \in AskGroup : count'[g] >= Cardinality(PendingOf(g)')
  BY DEF CountCoversOpen, PendingOf, Group

(***************************************************************************)
(* A question that becomes pending adds one to its group, one that stops   *)
(* being pending takes one away, and the other groups stay.                *)
(***************************************************************************)
LEMMA OneOpens ==
  ASSUME NEW q \in Question, question[q] # "pending", question'[q] = "pending",
         \A p \in Question : p # q => question'[p] = question[p]
  PROVE  \A g \in AskGroup :
           Cardinality(PendingOf(g)') =
             IF g = GroupOf[q] THEN Cardinality(PendingOf(g)) + 1
             ELSE Cardinality(PendingOf(g))
<1> TAKE g \in AskGroup
<1>1. CASE g = GroupOf[q]
  <2>1. PendingOf(g)' = PendingOf(g) \cup {q} /\ q \notin PendingOf(g)
    BY <1>1 DEF PendingOf, Group
  <2>2. Cardinality(PendingOf(g) \cup {q}) =
          IF q \in PendingOf(g) THEN Cardinality(PendingOf(g))
          ELSE Cardinality(PendingOf(g)) + 1
    BY GroupFinite, FS_AddElement
  <2> QED
    BY <1>1, <2>1, <2>2
<1>2. CASE g # GroupOf[q]
  <2>1. PendingOf(g)' = PendingOf(g)
    BY <1>2 DEF PendingOf, Group
  <2> QED
    BY <1>2, <2>1
<1> QED
  BY <1>1, <1>2

LEMMA OneCloses ==
  ASSUME NEW q \in Question, question[q] = "pending", question'[q] # "pending",
         \A p \in Question : p # q => question'[p] = question[p]
  PROVE  \A g \in AskGroup :
           Cardinality(PendingOf(g)') =
             IF g = GroupOf[q] THEN Cardinality(PendingOf(g)) - 1
             ELSE Cardinality(PendingOf(g))
<1> TAKE g \in AskGroup
<1>1. CASE g = GroupOf[q]
  <2>1. PendingOf(g)' = PendingOf(g) \ {q} /\ q \in PendingOf(g)
    BY <1>1 DEF PendingOf, Group
  <2>2. Cardinality(PendingOf(g) \ {q}) =
          IF q \in PendingOf(g) THEN Cardinality(PendingOf(g)) - 1
          ELSE Cardinality(PendingOf(g))
    BY GroupFinite, FS_RemoveElement
  <2> QED
    BY <1>1, <2>1, <2>2
<1>2. CASE g # GroupOf[q]
  <2>1. PendingOf(g)' = PendingOf(g)
    BY <1>2 DEF PendingOf, Group
  <2> QED
    BY <1>2, <2>1
<1> QED
  BY <1>1, <1>2

(***************************************************************************)
(* An end that finds nothing left but its own question leaves its group    *)
(* with no open question.                                                  *)
(***************************************************************************)
LEMMA LastIsAlone ==
  ASSUME CountsInv, NEW q \in Question, NEW d \in EndDoor, txn[q][d] # NoTxn, txn[q][d] <= 0
  PROVE  \A p \in Question : GroupOf[p] = GroupOf[q] /\ question[p] = "pending" => p = q
<1> DEFINE g == GroupOf[q]
<1>1. g \in AskGroup
  BY GroupOfAssumption
<1>2. question[q] = "pending" /\ count[g] <= 1 /\ count[g] \in Nat
  BY <1>1 DEF CountsInv, TxnCurrent, AskTypeOK
<1>3. q \in PendingOf(g)
  BY <1>2 DEF PendingOf, Group
<1>4. Cardinality(PendingOf(g)) <= 1
  <2>1. count[g] >= Cardinality(PendingOf(g))
    BY <1>1, CoversIs DEF CountsInv
  <2> QED
    BY <1>1, <1>2, <2>1, GroupFinite
<1>5. IsFiniteSet(PendingOf(g) \ {q})
      /\ Cardinality(PendingOf(g) \ {q}) = Cardinality(PendingOf(g)) - 1
  BY <1>1, <1>3, GroupFinite, FS_RemoveElement
<1>6. Cardinality(PendingOf(g) \ {q}) \in Nat
  BY <1>5, FS_CardinalityType
<1>7. Cardinality(PendingOf(g) \ {q}) = 0
  BY <1>1, <1>4, <1>5, <1>6, GroupFinite
<1>8. PendingOf(g) \ {q} = {}
  BY <1>5, <1>7, FS_EmptySet
<1> QED
  BY <1>8 DEF PendingOf, Group

LEMMA DirtiedForgets ==
  ASSUME AskTypeOK, NEW q \in Question
  PROVE  /\ Dirtied(q) \in [Question -> [EndDoor -> Int]]
         /\ \A p \in Question, d \in EndDoor :
              Dirtied(q)[p][d] # NoTxn =>
                GroupOf[p] # GroupOf[q] /\ Dirtied(q)[p][d] = txn[p][d]
<1>1. [d \in EndDoor |-> NoTxn] \in [EndDoor -> Int]
  BY DEF NoTxn
<1>2. \A p \in Question : txn[p] \in [EndDoor -> Int]
  BY DEF AskTypeOK
<1> QED
  BY <1>1, <1>2 DEF Dirtied

-----------------------------------------------------------------------------
(* The first states.                                                       *)

LEMMA AskInitHolds ==
  ASSUME AskInit
  PROVE  AskInv
<1>1. PICK never, lost \in SUBSET Question, reading \in {"idle", "away"}, spent \in 0..MaxAskFaults :
        Cardinality(lost) <= MaxOpen /\ AskStart(never, lost, reading, spent)
  BY DEF AskInit
<1>2. AskTypeOK
  <2>1. txn \in [Question -> [EndDoor -> Int]]
    BY <1>1 DEF AskStart, NoTxn
  <2>2. lister \in [pc : {"idle", "away", "unlist", "undate"}, group : AskGroup \cup {NoGroup}]
    BY <1>1 DEF AskStart
  <2> QED
    BY <1>1, <2>1, <2>2 DEF AskStart, AskTypeOK
<1>3. \A q \in Question : question[q] = "absent"
  BY <1>1 DEF AskStart
<1>4. TxnCurrent /\ AskedFirst
  BY <1>1, <1>3 DEF AskStart, TxnCurrent, AskedFirst
<1>5. CountCoversOpen
  <2>1. ASSUME NEW g \in AskGroup PROVE count[g] >= Cardinality(PendingOf(g))
    <3>1. PendingOf(g) = {}
      BY <1>3 DEF PendingOf, Group
    <3>2. count[g] = 0
      BY <1>1 DEF AskStart
    <3>3. Cardinality(PendingOf(g)) = 0
      BY <3>1, FS_EmptySet
    <3> QED
      BY <3>2, <3>3
  <2> QED
    BY <2>1, CoversIs
<1>6. PlacesInv
  <2>1. openIndex = lost /\ openIndex \ late = lost
    BY <1>1 DEF AskStart
  <2>2. \A q \in Question : Opening(q) <=> q \in lost
    BY <1>1 DEF AskStart, Opening
  <2> QED
    BY <1>1, <2>1, <2>2 DEF PlacesInv, OpeningsHavePlaces, PlacesWithinCap, PlacesComeBack
<1>7. ListInv
  BY <1>3 DEF ListInv, OpenGroupsKeep, OpenQuestionsListed
<1> QED
  BY <1>2, <1>4, <1>5, <1>6, <1>7 DEF AskInv, CountsInv

-----------------------------------------------------------------------------
(* The counts.                                                             *)

LEMMA TypeKept ==
  ASSUME CountsInv, AskNext
  PROVE  AskTypeOK'
<1> USE DEF CountsInv
<1>1. ASSUME NEW q \in Question, Reserve(q) PROVE AskTypeOK'
  BY <1>1 DEF Reserve, AskAt, AskTypeOK
<1>2. ASSUME NEW q \in Question, PurgeExpired(q) PROVE AskTypeOK'
  BY <1>2 DEF PurgeExpired, AskAt, AskTypeOK
<1>3. ASSUME NEW q \in Question, Add(q) PROVE AskTypeOK'
  <2>1. txn' \in [Question -> [EndDoor -> Int]]
    BY <1>3, DirtiedForgets DEF Add, Stored
  <2>2. GroupOf[q] \in AskGroup
    BY GroupOfAssumption
  <2>3. dated' \in [AskGroup -> SUBSET Question]
    BY <1>3, <2>2 DEF Add, AskTypeOK
  <2>4. count' \in [AskGroup -> Nat] /\ lister' = lister
    BY <1>3, <2>2 DEF Add, Stored, AskTypeOK
  <2> QED
    BY <1>3, <2>1, <2>2, <2>3, <2>4 DEF Add, Stored, AskAt, AskTypeOK
<1>4. ASSUME NEW q \in Question, TakeReply(q) \/ GiveUp(q) \/ PruneReturns(q)
      PROVE  AskTypeOK'
  BY <1>4 DEF TakeReply, GiveUp, PruneReturns, AskAt, AskTypeOK, indexVars
<1>5. ASSUME NEW q \in Question, AskerDies(q) PROVE AskTypeOK'
  <2>1. txn' \in [Question -> [EndDoor -> Int]]
    BY <1>5 DEF AskerDies, AskTypeOK, EndDoor, NoTxn
  <2>2. ask'
          \in [Question -> {"idle", "reserved", "purged", "waiting", "abandoned", "lost", "ended"}]
    BY <1>5 DEF AskerDies, AskAt, AskTypeOK
  <2> QED
    BY <1>5, <2>1, <2>2 DEF AskerDies, AskTypeOK, indexVars
<1>6. ASSUME NEW q \in Question, NEW d \in EndDoor, Watch(q, d) PROVE AskTypeOK'
  <2>1. count[GroupOf[q]] - 1 \in Int
    BY GroupOfAssumption DEF AskTypeOK
  <2>2. txn' \in [Question -> [EndDoor -> Int]]
    BY <1>6, <2>1 DEF Watch, AskTypeOK
  <2> QED
    BY <1>6, <2>2 DEF Watch, AskTypeOK, indexVars
<1>7. ASSUME NEW q \in Question, NEW d \in EndDoor, Exec(q, d) PROVE AskTypeOK'
  <2> DEFINE g == GroupOf[q]
  <2>1. g \in AskGroup /\ count[g] \in Nat
    BY GroupOfAssumption DEF AskTypeOK
  <2>2. txn' \in [Question -> [EndDoor -> Int]]
    BY <1>7, DirtiedForgets DEF Exec, Ends
  <2>3. count' \in [AskGroup -> Nat]
    <3>1. count[g] > 0
      BY <1>7 DEF Exec, Ends, TxnCurrent
    <3> QED
      BY <1>7, <2>1, <3>1 DEF Exec, Ends, AskTypeOK
  <2>4. dated' \in [AskGroup -> SUBSET Question]
    BY <1>7, <2>1 DEF Exec, Ends, AskTypeOK
  <2>5. question' \in [Question -> {"absent", "pending", "answered", "gone"}]
    BY <1>7 DEF Exec, Ends, AskTypeOK
  <2> QED
    BY <1>7, <2>1, <2>2, <2>3, <2>4, <2>5 DEF Exec, Ends, AskTypeOK
<1>8. ASSUME NEW q \in Question, DeadlinePasses(q) PROVE AskTypeOK'
  BY <1>8 DEF DeadlinePasses, AskTypeOK, indexVars
<1>9. ASSUME NEW q \in Question, StateLapses(q) PROVE AskTypeOK'
  <2>1. txn' \in [Question -> [EndDoor -> Int]]
    BY <1>9, DirtiedForgets DEF StateLapses
  <2> QED
    BY <1>9, <2>1 DEF StateLapses, AskTypeOK, indexVars
<1>10. ASSUME NEW g \in AskGroup, GroupLapses(g) PROVE AskTypeOK'
  BY <1>10 DEF GroupLapses, AskTypeOK
<1>11. ASSUME NEW g \in AskGroup, FindPhantom(g) PROVE AskTypeOK'
  BY <1>11 DEF FindPhantom, AskTypeOK, indexVars
<1>12. CASE DropPhantom
  BY <1>12 DEF DropPhantom, AskTypeOK
<1>13. CASE DropPhantomDate
  BY <1>13 DEF DropPhantomDate, AskTypeOK
<1> QED
  BY <1>1, <1>2, <1>3, <1>4, <1>5, <1>6, <1>7, <1>8, <1>9, <1>10, <1>11, <1>12, <1>13
  DEF AskNext

LEMMA TxnKept ==
  ASSUME CountsInv, AskNext
  PROVE  TxnCurrent'
<1> USE DEF CountsInv
<1>1. CASE \/ \E q \in Question : \/ Reserve(q) \/ PurgeExpired(q) \/ TakeReply(q) \/ GiveUp(q)
                                  \/ PruneReturns(q) \/ DeadlinePasses(q)
           \/ \E g \in AskGroup : FindPhantom(g)
           \/ DropPhantom \/ DropPhantomDate
  <2>1. UNCHANGED <<question, count, txn>>
    BY <1>1 DEF Reserve, PurgeExpired, TakeReply, GiveUp, PruneReturns, DeadlinePasses,
       FindPhantom, DropPhantom, DropPhantomDate, indexVars
  <2> QED
    BY <2>1 DEF TxnCurrent
<1>2. ASSUME NEW q \in Question, Add(q) PROVE TxnCurrent'
  <2>1. txn' = Dirtied(q)
    BY <1>2 DEF Add, Stored
  <2>2. \A p \in Question : GroupOf[p] # GroupOf[q] =>
          question'[p] = question[p] /\ count'[GroupOf[p]] = count[GroupOf[p]]
    BY <1>2, GroupOfAssumption DEF Add, Stored, AskTypeOK
  <2>3. \A p \in Question, e \in EndDoor :
          txn'[p][e] # NoTxn => GroupOf[p] # GroupOf[q] /\ txn'[p][e] = txn[p][e]
    BY <2>1, DirtiedForgets
  <2> QED
    BY <2>1, <2>2, <2>3 DEF TxnCurrent
<1>3. ASSUME NEW q \in Question, AskerDies(q) PROVE TxnCurrent'
  <2>1. UNCHANGED <<question, count>>
    BY <1>3 DEF AskerDies, indexVars
  <2>2. \A p \in Question, d \in EndDoor : txn'[p][d] # NoTxn => txn'[p][d] = txn[p][d]
    BY <1>3 DEF AskerDies, AskTypeOK, EndDoor
  <2> QED
    BY <2>1, <2>2 DEF TxnCurrent
<1>4. ASSUME NEW q \in Question, NEW d \in EndDoor, Watch(q, d) PROVE TxnCurrent'
  <2>1. UNCHANGED <<question, count>>
    BY <1>4 DEF Watch, indexVars
  <2>2. \A p \in Question, e \in EndDoor :
          txn'[p][e] = IF p = q /\ e = d THEN count[GroupOf[q]] - 1 ELSE txn[p][e]
    BY <1>4 DEF Watch, AskTypeOK
  <2>3. question[q] = "pending" /\ count[GroupOf[q]] > 0
    BY <1>4 DEF Watch
  <2> QED
    BY <2>1, <2>2, <2>3 DEF TxnCurrent
<1>5. ASSUME NEW q \in Question, NEW d \in EndDoor, Exec(q, d) PROVE TxnCurrent'
  <2>1. txn' = Dirtied(q)
    BY <1>5 DEF Exec, Ends
  <2>2. \A p \in Question : GroupOf[p] # GroupOf[q] =>
          question'[p] = question[p] /\ count'[GroupOf[p]] = count[GroupOf[p]]
    BY <1>5, GroupOfAssumption DEF Exec, Ends, AskTypeOK
  <2>3. \A p \in Question, e \in EndDoor :
          txn'[p][e] # NoTxn => GroupOf[p] # GroupOf[q] /\ txn'[p][e] = txn[p][e]
    BY <2>1, DirtiedForgets
  <2> QED
    BY <2>1, <2>2, <2>3 DEF TxnCurrent
<1>6. ASSUME NEW q \in Question, StateLapses(q) PROVE TxnCurrent'
  <2>1. txn' = Dirtied(q) /\ count' = count
    BY <1>6 DEF StateLapses, indexVars
  <2>2. \A p \in Question : GroupOf[p] # GroupOf[q] => question'[p] = question[p]
    BY <1>6 DEF StateLapses, AskTypeOK
  <2>3. \A p \in Question, e \in EndDoor :
          txn'[p][e] # NoTxn => GroupOf[p] # GroupOf[q] /\ txn'[p][e] = txn[p][e]
    BY <2>1, DirtiedForgets
  <2> QED
    BY <2>1, <2>2, <2>3 DEF TxnCurrent
<1>7. ASSUME NEW g \in AskGroup, GroupLapses(g) PROVE TxnCurrent'
  <2>1. UNCHANGED <<question, txn>>
    BY <1>7 DEF GroupLapses
  <2>2. \A p \in Question : question[p] = "pending" => GroupOf[p] # g
    BY <1>7 DEF GroupLapses, Group
  <2>3. \A p \in Question : GroupOf[p] # g => count'[GroupOf[p]] = count[GroupOf[p]]
    BY <1>7, GroupOfAssumption DEF GroupLapses, AskTypeOK
  <2> QED
    BY <2>1, <2>2, <2>3 DEF TxnCurrent
<1> QED
  BY <1>1, <1>2, <1>3, <1>4, <1>5, <1>6, <1>7 DEF AskNext

LEMMA AskedFirstKept ==
  ASSUME CountsInv, AskNext
  PROVE  AskedFirst'
<1> USE DEF CountsInv
<1>1. CASE \E q \in Question :
             \/ Reserve(q) \/ PurgeExpired(q) \/ TakeReply(q) \/ GiveUp(q) \/ AskerDies(q)
             \/ PruneReturns(q)
  <2>1. PICK q \in Question :
          \/ Reserve(q) \/ PurgeExpired(q) \/ TakeReply(q) \/ GiveUp(q) \/ AskerDies(q)
          \/ PruneReturns(q)
    BY <1>1
  <2>2. UNCHANGED question
    BY <2>1 DEF Reserve, PurgeExpired, TakeReply, GiveUp, AskerDies, PruneReturns
  <2>3. \A p \in Question : ask'[p] \in NotAskedYet => ask[p] \in NotAskedYet
    BY <2>1 DEF Reserve, PurgeExpired, TakeReply, GiveUp, AskerDies, PruneReturns, AskAt,
       NotAskedYet, AskTypeOK
  <2> QED
    BY <2>2, <2>3 DEF AskedFirst
<1>2. ASSUME NEW q \in Question, Add(q) PROVE AskedFirst'
  <2>1. \A p \in Question : ask'[p] = IF p = q THEN "waiting" ELSE ask[p]
    BY <1>2 DEF Add, Stored, AskAt, AskTypeOK
  <2>2. \A p \in Question : p # q => question'[p] = question[p]
    BY <1>2 DEF Add, Stored, AskTypeOK
  <2> QED
    BY <2>1, <2>2 DEF AskedFirst, NotAskedYet
<1>3. ASSUME NEW q \in Question, StateLapses(q) \/ \E d \in EndDoor : Exec(q, d)
      PROVE  AskedFirst'
  <2>1. question[q] = "pending" /\ ask' = ask
    BY <1>3 DEF StateLapses, Exec, Ends, TxnCurrent
  <2>2. \A p \in Question : p # q => question'[p] = question[p]
    BY <1>3 DEF StateLapses, Exec, Ends, AskTypeOK
  <2> QED
    BY <2>1, <2>2 DEF AskedFirst
<1>4. CASE \/ \E q \in Question : DeadlinePasses(q) \/ \E d \in EndDoor : Watch(q, d)
           \/ \E g \in AskGroup : GroupLapses(g) \/ FindPhantom(g)
           \/ DropPhantom \/ DropPhantomDate
  <2>1. UNCHANGED <<question, ask>>
    BY <1>4 DEF DeadlinePasses, Watch, GroupLapses, FindPhantom, DropPhantom, DropPhantomDate
  <2> QED
    BY <2>1 DEF AskedFirst
<1> QED
  BY <1>1, <1>2, <1>3, <1>4 DEF AskNext

LEMMA CoversKept ==
  ASSUME CountsInv, AskNext
  PROVE  CountCoversOpen'
<1> USE DEF CountsInv
<1>0. \A g \in AskGroup : count[g] \in Nat /\ count[g] >= Cardinality(PendingOf(g))
  BY CoversIs DEF AskTypeOK
<1>1. CASE UNCHANGED <<question, count>>
  BY <1>1 DEF CountCoversOpen, Group
<1>2. ASSUME NEW q \in Question, Add(q) PROVE CountCoversOpen'
  <2>1. /\ question[q] # "pending" /\ question'[q] = "pending"
        /\ \A p \in Question : p # q => question'[p] = question[p]
    BY <1>2 DEF Add, Stored, AskedFirst, NotAskedYet, AskTypeOK
  <2>2. \A g \in AskGroup :
          count'[g] = IF g = GroupOf[q] THEN count[g] + 1 ELSE count[g]
    BY <1>2 DEF Add, Stored, AskTypeOK
  <2>3. \A g \in AskGroup :
          Cardinality(PendingOf(g)') =
            IF g = GroupOf[q] THEN Cardinality(PendingOf(g)) + 1 ELSE Cardinality(PendingOf(g))
    BY <2>1, OneOpens
  <2>4. ASSUME NEW g \in AskGroup PROVE count'[g] >= Cardinality(PendingOf(g)')
    BY <1>0, <2>2, <2>3, GroupFinite
  <2> QED
    BY <2>4, CoversIsNext
<1>3. ASSUME NEW q \in Question, NEW d \in EndDoor, Exec(q, d) PROVE CountCoversOpen'
  <2>1. /\ question[q] = "pending" /\ question'[q] # "pending"
        /\ \A p \in Question : p # q => question'[p] = question[p]
    BY <1>3 DEF Exec, Ends, TxnCurrent, AskTypeOK
  <2>2. \A g \in AskGroup :
          Cardinality(PendingOf(g)') =
            IF g = GroupOf[q] THEN Cardinality(PendingOf(g)) - 1 ELSE Cardinality(PendingOf(g))
    BY <2>1, OneCloses
  <2>3. \A g \in AskGroup : g # GroupOf[q] => count'[g] = count[g]
    BY <1>3 DEF Exec, Ends, AskTypeOK
  <2>4. count'[GroupOf[q]] = count[GroupOf[q]] - 1
    <3>1. count[GroupOf[q]] > 0 /\ txn[q][d] = count[GroupOf[q]] - 1
      BY <1>3 DEF Exec, Ends, TxnCurrent
    <3>2. count' = [count EXCEPT ![GroupOf[q]] = IF txn[q][d] <= 0 THEN 0 ELSE @ - 1]
      BY <1>3 DEF Exec, Ends
    <3> QED
      BY <1>0, <3>1, <3>2, GroupOfAssumption DEF AskTypeOK
  <2>5. ASSUME NEW g \in AskGroup PROVE count'[g] >= Cardinality(PendingOf(g)')
    BY <1>0, <2>2, <2>3, <2>4, GroupFinite
  <2> QED
    BY <2>5, CoversIsNext
<1>4. ASSUME NEW q \in Question, StateLapses(q) PROVE CountCoversOpen'
  <2>1. /\ question[q] = "pending" /\ question'[q] # "pending" /\ count' = count
        /\ \A p \in Question : p # q => question'[p] = question[p]
    BY <1>4 DEF StateLapses, AskTypeOK, indexVars
  <2>2. \A g \in AskGroup :
          Cardinality(PendingOf(g)') =
            IF g = GroupOf[q] THEN Cardinality(PendingOf(g)) - 1 ELSE Cardinality(PendingOf(g))
    BY <2>1, OneCloses
  <2>3. ASSUME NEW g \in AskGroup PROVE count'[g] >= Cardinality(PendingOf(g)')
    BY <1>0, <2>1, <2>2, GroupFinite
  <2> QED
    BY <2>3, CoversIsNext
<1>5. ASSUME NEW g \in AskGroup, GroupLapses(g) PROVE CountCoversOpen'
  <2>1. PendingOf(g) = {} /\ question' = question
    BY <1>5 DEF GroupLapses, PendingOf
  <2>2. Cardinality(PendingOf(g)) = 0
    BY <2>1, FS_EmptySet
  <2>3. ASSUME NEW h \in AskGroup PROVE count'[h] >= Cardinality(PendingOf(h)')
    <3>1. PendingOf(h)' = PendingOf(h)
      BY <2>1 DEF PendingOf, Group
    <3>2. count'[h] = IF h = g THEN 0 ELSE count[h]
      BY <1>5 DEF GroupLapses, AskTypeOK
    <3> QED
      BY <1>0, <2>2, <3>1, <3>2
  <2> QED
    BY <2>3, CoversIsNext
<1>6. \/ UNCHANGED <<question, count>>
      \/ \E q \in Question : Add(q) \/ StateLapses(q) \/ \E d \in EndDoor : Exec(q, d)
      \/ \E g \in AskGroup : GroupLapses(g)
  BY DEF AskNext, Reserve, PurgeExpired, TakeReply, GiveUp, AskerDies, PruneReturns,
     DeadlinePasses, Watch, FindPhantom, DropPhantom, DropPhantomDate, indexVars
<1> QED
  BY <1>1, <1>2, <1>3, <1>4, <1>5, <1>6

-----------------------------------------------------------------------------
(* The places.                                                             *)

LEMMA FewerPlaces ==
  ASSUME AskTypeOK, PlacesWithinCap, NEW S \in SUBSET (openIndex \ late)
  PROVE  Cardinality(S) <= MaxOpen
<1>1. IsFiniteSet(openIndex \ late)
  <2>1. openIndex \ late \in SUBSET Question
    BY DEF AskTypeOK
  <2> QED
    BY <2>1, QuestionAssumption, FS_Subset
<1>2. IsFiniteSet(S) /\ Cardinality(S) <= Cardinality(openIndex \ late)
  BY <1>1, FS_Subset
<1>3. Cardinality(S) \in Nat /\ Cardinality(openIndex \ late) \in Nat
  BY <1>1, <1>2, FS_CardinalityType
<1> QED
  BY <1>2, <1>3, AskBoundsAssumption DEF PlacesWithinCap

LEMMA OneMorePlace ==
  ASSUME AskTypeOK, NEW q \in Question, Cardinality(openIndex \ late) < MaxOpen
  PROVE  Cardinality(((openIndex \ late) \cup {q}) \ late) <= MaxOpen
<1> DEFINE fresh == openIndex \ late
           more == (fresh \cup {q}) \ late
<1>1. IsFiniteSet(fresh)
  <2>1. fresh \in SUBSET Question
    BY DEF AskTypeOK
  <2> QED
    BY <2>1, QuestionAssumption, FS_Subset
<1>2. /\ IsFiniteSet(fresh \cup {q})
      /\ Cardinality(fresh \cup {q}) =
           IF q \in fresh THEN Cardinality(fresh) ELSE Cardinality(fresh) + 1
  BY <1>1, FS_AddElement
<1>3. more \in SUBSET (fresh \cup {q})
  OBVIOUS
<1>4. IsFiniteSet(more) /\ Cardinality(more) <= Cardinality(fresh \cup {q})
  BY <1>2, <1>3, FS_Subset
<1>5. Cardinality(more) \in Nat /\ Cardinality(fresh) \in Nat
  BY <1>1, <1>4, FS_CardinalityType
<1> QED
  BY <1>2, <1>4, <1>5, AskBoundsAssumption

LEMMA PlacesKept ==
  ASSUME CountsInv, PlacesInv, AskNext
  PROVE  PlacesInv'
<1> USE DEF CountsInv, PlacesInv
<1>0. openIndex \subseteq Question
  BY DEF AskTypeOK
<1>1. ASSUME UNCHANGED <<openIndex>>, late \subseteq late',
             \A q \in Question \ late' : Opening(q)' <=> Opening(q)
      PROVE  PlacesInv'
  <2>1. openIndex' \ late' \in SUBSET (openIndex \ late)
    BY <1>1
  <2>2. PlacesWithinCap'
    BY <2>1, FewerPlaces DEF PlacesWithinCap
  <2> QED
    BY <1>0, <1>1, <2>2 DEF OpeningsHavePlaces, PlacesComeBack
<1>2. ASSUME NEW q \in Question, Reserve(q) PROVE PlacesInv'
  <2> DEFINE fresh == openIndex \ late
  <2>1. question[q] = "absent" /\ UNCHANGED <<question, late>>
    BY <1>2 DEF Reserve, AskedFirst, NotAskedYet
  <2>2. ~Opening(q)
    BY <1>2, <2>1 DEF Reserve, Opening
  <2>3. CASE Cardinality(fresh) >= MaxOpen
    <3>1. openIndex' = fresh /\ ask' = [ask EXCEPT ![q] = "ended"]
      BY <1>2, <2>3 DEF Reserve, AskAt
    <3>2. \A p \in Question : Opening(p)' <=> Opening(p)
      BY <2>1, <2>2, <3>1 DEF Opening, AskTypeOK
    <3>3. PlacesWithinCap'
      BY <2>1, <3>1, FewerPlaces DEF PlacesWithinCap
    <3> QED
      BY <1>0, <2>1, <3>1, <3>2, <3>3 DEF OpeningsHavePlaces, PlacesComeBack
  <2>4. CASE ~(Cardinality(fresh) >= MaxOpen)
    <3>1. openIndex' = fresh \cup {q} /\ ask' = [ask EXCEPT ![q] = "reserved"]
      BY <1>2, <2>4 DEF Reserve, AskAt
    <3>2. \A p \in Question : Opening(p)' <=> p = q \/ Opening(p)
      BY <2>1, <3>1 DEF Opening, AskTypeOK
    <3>3. PlacesWithinCap'
      <4>1. IsFiniteSet(fresh)
        <5>1. fresh \in SUBSET Question
          BY <1>0
        <5> QED
          BY <5>1, QuestionAssumption, FS_Subset
      <4>2. Cardinality(fresh) \in Nat
        BY <4>1, FS_CardinalityType
      <4>3. Cardinality(fresh) < MaxOpen
        BY <2>4, <4>2, AskBoundsAssumption
      <4> QED
        BY <2>1, <3>1, <4>3, OneMorePlace DEF PlacesWithinCap
    <3> QED
      BY <1>0, <2>1, <3>1, <3>2, <3>3 DEF OpeningsHavePlaces, PlacesComeBack
  <2> QED
    BY <2>3, <2>4
<1>3. ASSUME NEW q \in Question, Add(q) PROVE PlacesInv'
  <2>1. openIndex' = openIndex \ late /\ late' = late
    BY <1>3 DEF Add, Stored
  <2>2. Opening(q) /\ Opening(q)'
    BY <1>3 DEF Add, Stored, Opening, AskTypeOK
  <2>3. \A p \in Question : p # q => question'[p] = question[p] /\ ask'[p] = ask[p]
    BY <1>3 DEF Add, Stored, AskAt, AskTypeOK
  <2>4. \A p \in Question : Opening(p)' <=> Opening(p)
    BY <2>2, <2>3 DEF Opening
  <2>5. PlacesWithinCap'
    BY <2>1, FewerPlaces DEF PlacesWithinCap
  <2> QED
    BY <1>0, <2>1, <2>4, <2>5 DEF OpeningsHavePlaces, PlacesComeBack
<1>4. ASSUME NEW q \in Question,
             \/ PurgeExpired(q) \/ TakeReply(q) \/ GiveUp(q) \/ AskerDies(q) \/ PruneReturns(q)
      PROVE  PlacesInv'
  <2>1. UNCHANGED <<question, late, openIndex>>
    BY <1>4 DEF PurgeExpired, TakeReply, GiveUp, AskerDies, PruneReturns, indexVars
  <2>2. \A p \in Question : Opening(p)' <=> Opening(p)
    BY <1>4, <2>1 DEF PurgeExpired, TakeReply, GiveUp, AskerDies, PruneReturns, AskAt, Opening,
       AskTypeOK
  <2> QED
    BY <1>1, <2>1, <2>2
<1>5. ASSUME NEW q \in Question, NEW d \in EndDoor, Exec(q, d) PROVE PlacesInv'
  <2>1. question[q] = "pending" /\ ask[q] \notin NotAskedYet
    BY <1>5 DEF Exec, Ends, TxnCurrent, AskedFirst
  <2>2. /\ openIndex' = openIndex \ {q} /\ late' = late /\ ask' = ask
        /\ question' = [question EXCEPT ![q] = IF d = "answer" THEN "answered" ELSE "gone"]
    BY <1>5 DEF Exec, Ends
  <2>3. \A p \in Question : Opening(p)' <=> p # q /\ Opening(p)
    BY <2>1, <2>2 DEF Opening, NotAskedYet, AskTypeOK
  <2>4. openIndex' \ late' \in SUBSET (openIndex \ late)
    BY <2>2
  <2>5. PlacesWithinCap'
    BY <2>4, FewerPlaces DEF PlacesWithinCap
  <2> QED
    BY <1>0, <2>2, <2>3, <2>5 DEF OpeningsHavePlaces, PlacesComeBack
<1>6. ASSUME NEW q \in Question, DeadlinePasses(q) PROVE PlacesInv'
  BY <1>1, <1>6 DEF DeadlinePasses, indexVars, Opening
<1>7. ASSUME NEW q \in Question, StateLapses(q) PROVE PlacesInv'
  <2>1. UNCHANGED <<ask, late, openIndex>> /\ q \in late
    BY <1>7 DEF StateLapses, indexVars
  <2>2. \A p \in Question : p # q => question'[p] = question[p]
    BY <1>7 DEF StateLapses, AskTypeOK
  <2> QED
    BY <1>1, <2>1, <2>2 DEF Opening
<1>8. CASE \/ \E q \in Question, d \in EndDoor : Watch(q, d)
           \/ \E g \in AskGroup : GroupLapses(g) \/ FindPhantom(g)
           \/ DropPhantom \/ DropPhantomDate
  <2>1. UNCHANGED <<ask, question, late, openIndex>>
    BY <1>8 DEF Watch, GroupLapses, FindPhantom, DropPhantom, DropPhantomDate, indexVars
  <2> QED
    BY <1>1, <2>1 DEF Opening
<1> QED
  BY <1>2, <1>3, <1>4, <1>5, <1>6, <1>7, <1>8 DEF AskNext

-----------------------------------------------------------------------------
(* The pending list.                                                       *)

Listed(p) ==
  question[p] = "pending" =>
    /\ GroupOf[p] \in stream
    /\ p \notin late \cup swept =>
         ~Dropping(GroupOf[p]) /\ p \in dated[GroupOf[p]] /\ GroupOf[p] \in listed

LEMMA ListIs ==
  ListInv <=> \A p \in Question : Listed(p)
  BY DEF ListInv, OpenGroupsKeep, OpenQuestionsListed, Listed

LEMMA ListIsNext ==
  ListInv' <=> \A p \in Question : Listed(p)'
  BY DEF ListInv, OpenGroupsKeep, OpenQuestionsListed, Listed

LEMMA ListKept ==
  ASSUME CountsInv, ListInv, AskNext
  PROVE  ListInv'
<1> USE DEF CountsInv
<1>0. \A p \in Question : Listed(p) /\ GroupOf[p] \in AskGroup
  BY ListIs, GroupOfAssumption
<1> SUFFICES ASSUME NEW p \in Question
             PROVE  Listed(p)'
  BY ListIsNext
<1>1. ASSUME NEW q \in Question,
             \/ Reserve(q) \/ TakeReply(q) \/ GiveUp(q) \/ AskerDies(q) \/ PruneReturns(q)
             \/ DeadlinePasses(q) \/ \E d \in EndDoor : Watch(q, d)
      PROVE  Listed(p)'
  <2>1. UNCHANGED <<question, listed, dated, stream, lister, swept>> /\ late \subseteq late'
    BY <1>1 DEF Reserve, TakeReply, GiveUp, AskerDies, PruneReturns, DeadlinePasses, Watch,
       indexVars
  <2> QED
    BY <1>0, <2>1 DEF Listed, Dropping
<1>2. ASSUME NEW q \in Question, PurgeExpired(q) PROVE Listed(p)'
  <2> DEFINE dead == {g \in AskGroup \ {GroupOf[q]} : dated[g] # {} /\ dated[g] \subseteq late}
  <2>1. /\ listed' = listed \ dead
        /\ dated' = [g \in AskGroup |-> IF g \in dead THEN {} ELSE dated[g]]
        /\ UNCHANGED <<question, late, stream, lister, swept>>
    BY <1>2 DEF PurgeExpired
  <2>2. p \in dated[GroupOf[p]] /\ p \notin late => GroupOf[p] \notin dead
    OBVIOUS
  <2>3. GroupOf[p] \notin dead =>
          (GroupOf[p] \in listed => GroupOf[p] \in listed') /\ dated'[GroupOf[p]] = dated[GroupOf[p]]
    BY <1>0, <2>1
  <2> HIDE DEF dead
  <2> QED
    BY <1>0, <2>1, <2>2, <2>3 DEF Listed, Dropping
<1>3. ASSUME NEW q \in Question, Add(q) PROVE Listed(p)'
  <2>1. /\ listed' = listed \cup {GroupOf[q]} /\ stream' = stream \cup {GroupOf[q]}
        /\ UNCHANGED <<late, lister>>
        /\ dated' = [dated EXCEPT ![GroupOf[q]] = @ \cup {q}]
        /\ swept' = IF Dropping(GroupOf[q]) THEN swept \cup {q} ELSE swept
    BY <1>3 DEF Add, Stored
  <2>2. p # q => question'[p] = question[p]
    BY <1>3 DEF Add, Stored, AskTypeOK
  <2>3. dated[GroupOf[p]] \subseteq dated'[GroupOf[p]] /\ q \in dated'[GroupOf[q]]
    BY <1>0, <2>1 DEF AskTypeOK
  <2>4. \A g \in AskGroup : Dropping(g)' <=> Dropping(g)
    BY <2>1 DEF Dropping
  <2>5. CASE p = q
    BY <1>0, <2>1, <2>3, <2>4, <2>5 DEF Listed
  <2>6. CASE p # q
    BY <1>0, <2>1, <2>2, <2>3, <2>4, <2>6 DEF Listed
  <2> QED
    BY <2>5, <2>6
<1>4. ASSUME NEW q \in Question, NEW d \in EndDoor, Exec(q, d) PROVE Listed(p)'
  <2>1. UNCHANGED <<late, stream, lister, swept>>
    BY <1>4 DEF Exec, Ends
  <2>2. /\ p # q => question'[p] = question[p]
        /\ question'[q] # "pending"
    BY <1>4 DEF Exec, Ends, AskTypeOK
  <2>3. CASE ~(txn[q][d] <= 0)
    <3>1. UNCHANGED <<listed, dated>>
      BY <1>4, <2>3 DEF Exec, Ends
    <3> QED
      BY <1>0, <2>1, <2>2, <3>1 DEF Listed, Dropping
  <2>4. CASE txn[q][d] <= 0
    <3>1. question[p] = "pending" /\ p # q => GroupOf[p] # GroupOf[q]
      BY <1>4, <2>4, LastIsAlone DEF Exec, Ends
    <3>2. listed' = listed \ {GroupOf[q]} /\ dated' = [dated EXCEPT ![GroupOf[q]] = {}]
      BY <1>4, <2>4 DEF Exec, Ends
    <3>3. GroupOf[p] # GroupOf[q] => dated'[GroupOf[p]] = dated[GroupOf[p]]
      BY <1>0, <3>2 DEF AskTypeOK
    <3> QED
      BY <1>0, <2>1, <2>2, <3>1, <3>2, <3>3 DEF Listed, Dropping
  <2> QED
    BY <2>3, <2>4
<1>5. ASSUME NEW q \in Question, StateLapses(q) PROVE Listed(p)'
  <2>1. UNCHANGED <<late, listed, dated, stream, lister, swept>>
    BY <1>5 DEF StateLapses, indexVars
  <2>2. question'[p] = "pending" => question[p] = "pending"
    BY <1>5 DEF StateLapses, AskTypeOK
  <2> QED
    BY <1>0, <2>1, <2>2 DEF Listed, Dropping
<1>6. ASSUME NEW g \in AskGroup, GroupLapses(g) PROVE Listed(p)'
  <2>1. UNCHANGED <<question, late, listed, dated, lister, swept>> /\ stream' = stream \ {g}
    BY <1>6 DEF GroupLapses
  <2>2. question[p] = "pending" => GroupOf[p] # g
    BY <1>6 DEF GroupLapses, Group
  <2> QED
    BY <1>0, <2>1, <2>2 DEF Listed, Dropping
<1>7. ASSUME NEW g \in AskGroup, FindPhantom(g) PROVE Listed(p)'
  <2>1. /\ UNCHANGED <<question, late, listed, dated, stream, swept>>
        /\ lister' = [pc |-> "unlist", group |-> g] /\ g \notin stream
    BY <1>7 DEF FindPhantom, indexVars
  <2> QED
    BY <1>0, <2>1 DEF Listed, Dropping
<1>8. CASE DropPhantom
  <2>1. /\ UNCHANGED <<question, late, dated, stream, swept>>
        /\ listed' = listed \ {lister.group}
        /\ lister.pc = "unlist" /\ lister'.group = lister.group
    BY <1>8 DEF DropPhantom, AskTypeOK
  <2> QED
    BY <1>0, <2>1 DEF Listed, Dropping
<1>9. CASE DropPhantomDate
  <2>1. /\ UNCHANGED <<question, late, listed, stream, swept>>
        /\ dated' = [dated EXCEPT ![lister.group] = {}]
        /\ lister.pc = "undate" /\ lister'.pc = "idle"
    BY <1>9 DEF DropPhantomDate
  <2>2. GroupOf[p] # lister.group => dated'[GroupOf[p]] = dated[GroupOf[p]]
    BY <1>0, <2>1 DEF AskTypeOK
  <2> QED
    BY <1>0, <2>1, <2>2 DEF Listed, Dropping
<1> QED
  BY <1>1, <1>2, <1>3, <1>4, <1>5, <1>6, <1>7, <1>8, <1>9 DEF AskNext

-----------------------------------------------------------------------------
(* The theorems.                                                           *)

LEMMA AskStutters ==
  ASSUME AskInv, UNCHANGED askVars
  PROVE  AskInv'
<1> USE DEF askVars
<1>1. CountsInv'
  BY DEF AskInv, CountsInv, AskTypeOK, TxnCurrent, AskedFirst, CountCoversOpen, Group
<1>2. PlacesInv'
  BY DEF AskInv, PlacesInv, OpeningsHavePlaces, PlacesWithinCap, PlacesComeBack, Opening
<1>3. ListInv'
  BY DEF AskInv, ListInv, OpenGroupsKeep, OpenQuestionsListed, Dropping
<1> QED
  BY <1>1, <1>2, <1>3 DEF AskInv

(***************************************************************************)
(* The invariant of every run of AskSpec.                                  *)
(***************************************************************************)
THEOREM AskInvariant == AskSpec => []AskInv
<1>1. AskInit => AskInv
  BY AskInitHolds
<1>2. AskInv /\ [AskNext]_askVars => AskInv'
  <2>1. ASSUME AskInv, AskNext PROVE AskInv'
    BY <2>1, TypeKept, TxnKept, AskedFirstKept, CoversKept, PlacesKept, ListKept
    DEF AskInv, CountsInv
  <2> QED
    BY <2>1, AskStutters
<1> QED
  BY <1>1, <1>2, PTL DEF AskSpec

(***************************************************************************)
(* Every state has its type: no count of a group goes below zero           *)
(* (_queue_group_decrement).                                               *)
(***************************************************************************)
THEOREM AskTypeCorrect == AskSpec => []AskTypeOK
<1>1. AskInv => AskTypeOK
  BY DEF AskInv, CountsInv
<1> QED
  BY <1>1, AskInvariant, PTL

(***************************************************************************)
(* No more questions are open before their deadline than max_concurrent    *)
(* allows (reserve_open_slot), whoever asks, answers, prunes or dies.      *)
(***************************************************************************)
THEOREM AsksStayWithinCap == AskSpec => []OpenWithinCap
<1>1. AskInv => OpenWithinCap
  <2> SUFFICES ASSUME AskInv PROVE OpenWithinCap
    OBVIOUS
  <2>1. {q \in Question \ late : Opening(q)} \in SUBSET (openIndex \ late)
    BY DEF AskInv, PlacesInv, OpeningsHavePlaces
  <2>2. Cardinality({q \in Question \ late : Opening(q)}) <= MaxOpen
    BY <2>1, FewerPlaces DEF AskInv, CountsInv, PlacesInv
  <2> QED
    BY <2>2 DEF OpenWithinCap
<1> QED
  BY <1>1, AskInvariant, PTL

(***************************************************************************)
(* No place under the cap outlives its question, but that of an ask lost   *)
(* before its question was written (record_answer, prune_pending).         *)
(***************************************************************************)
THEOREM PlacesAreFreed == AskSpec => []PlacesComeBack
<1>1. AskInv => PlacesComeBack
  BY DEF AskInv, PlacesInv
<1> QED
  BY <1>1, AskInvariant, PTL

(***************************************************************************)
(* The count of a group never falls behind its open questions, however     *)
(* many answers and prunes of one group race (the WATCH of record_answer). *)
(***************************************************************************)
THEOREM CountsCover == AskSpec => []CountCoversOpen
<1>1. AskInv => CountCoversOpen
  BY DEF AskInv, CountsInv
<1> QED
  BY <1>1, AskInvariant, PTL

(***************************************************************************)
(* A question that is open before its deadline is on the pending list,     *)
(* unless it was added while a reader dropped its group as a phantom.      *)
(***************************************************************************)
THEOREM OpenQuestionsStayListed == AskSpec => []OpenQuestionsListed
<1>1. AskInv => OpenQuestionsListed
  BY DEF AskInv, ListInv
<1> QED
  BY <1>1, AskInvariant, PTL

-----------------------------------------------------------------------------
(* A waiting outcome: the inductive invariant.                             *)

Reporting == {s \in Sweeper : sweeper[s] = "reporting"}

(***************************************************************************)
(* A sweeper that found no row behind a member has none until it repairs   *)
(* that, unless one was written meanwhile.                                 *)
(***************************************************************************)
OrphansAreGone == revived \/ ~OrphanSeen \/ ~waiting

OutcomeInv == OutcomeTypeOK /\ WaitingIsIndexed /\ OrphansAreGone /\ OutcomeLeavesOnce

-----------------------------------------------------------------------------
(* Counting.                                                               *)

LEMMA ReportingFinite ==
  IsFiniteSet(Reporting) /\ Cardinality(Reporting) \in Nat
<1>1. Reporting \in SUBSET Sweeper
  BY DEF Reporting
<1>2. IsFiniteSet(Reporting)
  BY <1>1, SweeperAssumption, FS_Subset
<1> QED
  BY <1>2, FS_CardinalityType

(***************************************************************************)
(* One sweeper that goes to another state moves the number of those about  *)
(* to report by what it was and what it becomes.                           *)
(***************************************************************************)
LEMMA OneSweeperMoves ==
  ASSUME NEW s \in Sweeper, \A q \in Sweeper : q # s => sweeper'[q] = sweeper[q]
  PROVE  Cardinality(Reporting') =
           Cardinality(Reporting) - (IF sweeper[s] = "reporting" THEN 1 ELSE 0)
                                  + (IF sweeper'[s] = "reporting" THEN 1 ELSE 0)
<1>1. s \in Reporting <=> sweeper[s] = "reporting"
  BY DEF Reporting
<1>2. CASE sweeper'[s] = "reporting"
  <2>1. Reporting' = Reporting \cup {s}
    BY <1>2 DEF Reporting
  <2>2. Cardinality(Reporting \cup {s}) =
          IF s \in Reporting THEN Cardinality(Reporting) ELSE Cardinality(Reporting) + 1
    BY ReportingFinite, FS_AddElement
  <2> QED
    BY <1>1, <1>2, <2>1, <2>2, ReportingFinite
<1>3. CASE sweeper'[s] # "reporting"
  <2>1. Reporting' = Reporting \ {s}
    BY <1>3 DEF Reporting
  <2>2. Cardinality(Reporting \ {s}) =
          IF s \in Reporting THEN Cardinality(Reporting) - 1 ELSE Cardinality(Reporting)
    BY ReportingFinite, FS_RemoveElement
  <2> QED
    BY <1>1, <1>3, <2>1, <2>2, ReportingFinite
<1> QED
  BY <1>2, <1>3

Exits == exits["taken"] + exits["killed"] + exits["reported"] + exits["unreported"]

LEMMA OneMoreLeaves ==
  ASSUME OutcomeTypeOK, NEW how \in Exit, Leaves(how)
  PROVE  exits' \in [Exit -> Nat] /\ Exits' = Exits + 1
  BY DEF OutcomeTypeOK, Leaves, Exit, Exits

LEMMA ExitsType ==
  ASSUME OutcomeTypeOK
  PROVE  Exits \in Nat
  BY DEF OutcomeTypeOK, Exit, Exits

(***************************************************************************)
(* The invariant in these terms.                                           *)
(***************************************************************************)
LEMMA LeavesOnceIs ==
  OutcomeLeavesOnce <=>
    \/ revived
    \/ written = Exits + Cardinality(Reporting)
                + (IF waiting \/ indexed THEN 1 ELSE 0)
  BY DEF OutcomeLeavesOnce, Exits, Reporting

LEMMA LeavesOnceIsNext ==
  OutcomeLeavesOnce' <=>
    \/ revived'
    \/ written' = Exits' + Cardinality(Reporting')
                + (IF waiting' \/ indexed' THEN 1 ELSE 0)
  BY DEF OutcomeLeavesOnce, Exits, Reporting

-----------------------------------------------------------------------------
(* The steps.                                                              *)

LEMMA OutcomeInitHolds ==
  ASSUME OutcomeInit
  PROVE  OutcomeInv
<1>1. OutcomeTypeOK /\ WaitingIsIndexed /\ OrphansAreGone
  BY DEF OutcomeInit, OutcomeTypeOK, WaitingIsIndexed, OrphansAreGone,
                 OrphanSeen
<1>2. Reporting = {}
  BY DEF OutcomeInit, Reporting
<1>3. Exits = 0
  BY DEF OutcomeInit, Exits, Exit
<1>4. Cardinality(Reporting) = 0
  BY <1>2, FS_EmptySet
<1>5. OutcomeLeavesOnce
  BY <1>3, <1>4, LeavesOnceIs DEF OutcomeInit
<1> QED
  BY <1>1, <1>5 DEF OutcomeInv

(***************************************************************************)
(* A step that leaves the sweepers alone.                                  *)
(***************************************************************************)
LEMMA OthersKeep ==
  ASSUME OutcomeInv,
         \/ \E w \in Writer : LookForRow(w) \/ WriteRow(w)
         \/ TakeOutcome \/ KillReads \/ KillRemoves \/ HorizonPasses \/ BackstopLapses
  PROVE  OutcomeInv'
<1>1. Reporting' = Reporting
  BY DEF Reporting, LookForRow, WriteRow, TakeOutcome, KillReads, KillRemoves, HorizonPasses,
         BackstopLapses
<1>2. Cardinality(Reporting) \in Nat /\ Exits \in Nat /\ written \in Nat
  BY ReportingFinite, ExitsType DEF OutcomeInv, OutcomeTypeOK
<1>3. revived \/ written = Exits + Cardinality(Reporting)
                       + (IF waiting \/ indexed THEN 1 ELSE 0)
  BY LeavesOnceIs DEF OutcomeInv
<1>4. "taken" \in Exit /\ "killed" \in Exit
  BY DEF Exit
<1>5. ASSUME UNCHANGED exits PROVE Exits' = Exits /\ exits' \in [Exit -> Nat]
  BY <1>5 DEF Exits, OutcomeInv, OutcomeTypeOK
<1>6. CASE \E w \in Writer : LookForRow(w)
  <2>1. OutcomeTypeOK'
    BY <1>6 DEF LookForRow, OutcomeInv, OutcomeTypeOK
  <2>2. WaitingIsIndexed'
    BY <1>6 DEF LookForRow, OutcomeInv, WaitingIsIndexed
  <2>3. UNCHANGED <<revived, sweeper, waiting>>
    BY <1>6 DEF LookForRow
  <2>4. OrphansAreGone'
    BY <2>3 DEF OutcomeInv, OrphansAreGone, OrphanSeen
  <2>5. OutcomeLeavesOnce'
    BY <1>1, <1>3, <1>5, <1>6, LeavesOnceIsNext DEF LookForRow
  <2> QED
    BY <2>1, <2>2, <2>4, <2>5 DEF OutcomeInv
<1>7. CASE \E w \in Writer : WriteRow(w)
  <2>0. /\ waiting' = TRUE /\ indexed' = TRUE /\ aged' = FALSE
        /\ UNCHANGED <<sweeper, killing, exits>>
        /\ written' = IF waiting THEN written ELSE written + 1
        /\ \E w \in Writer : writer' = [writer EXCEPT ![w] = "done"]
    BY <1>7 DEF WriteRow
  <2>1. revived' = (revived \/ (~waiting /\ (indexed \/ OrphanSeen)))
    BY <1>7 DEF WriteRow
  <2>2. revived' \in BOOLEAN
    BY <2>1, Zenon
  <2>3. OutcomeTypeOK'
    <3>1. {waiting, indexed, aged, killing, revived}' \subseteq BOOLEAN
      <4>1. killing' \in BOOLEAN
        BY <2>0 DEF OutcomeInv, OutcomeTypeOK
      <4> QED
        BY <2>0, <2>2, <4>1
    <3>2. exits' \in [Exit -> Nat] /\ written' \in Nat
      BY <1>2, <1>5, <2>0
    <3>3. writer' \in [Writer -> {"idle", "absent", "done"}]
      BY <2>0 DEF OutcomeInv, OutcomeTypeOK
    <3>4. sweeper' \in [Sweeper -> {"idle", "listed", "orphan", "reporting"}]
      BY <2>0 DEF OutcomeInv, OutcomeTypeOK
    <3> QED
      BY <3>1, <3>2, <3>3, <3>4 DEF OutcomeTypeOK
  <2>4. WaitingIsIndexed'
    BY <2>0 DEF WaitingIsIndexed
  <2>5. OrphanSeen' <=> OrphanSeen
    BY <2>0 DEF OrphanSeen
  <2>6. OrphansAreGone'
    BY <2>1, <2>5 DEF OutcomeInv, OrphansAreGone
  <2>7. revived' \/ (~revived /\ (indexed <=> waiting))
    BY <2>1 DEF OutcomeInv, WaitingIsIndexed
  <2>8. OutcomeLeavesOnce'
    <3>1. CASE revived'
      BY <3>1, LeavesOnceIsNext
    <3>2. CASE ~revived /\ (indexed <=> waiting)
      <4>1. Exits' = Exits
        BY <1>5, <2>0
      <4>2. written' = Exits' + Cardinality(Reporting')
                         + (IF waiting' \/ indexed' THEN 1 ELSE 0)
        BY <1>1, <1>2, <1>3, <2>0, <3>2, <4>1
      <4> QED
        BY <4>2, LeavesOnceIsNext
    <3> QED
      BY <2>7, <3>1, <3>2
  <2> QED
    BY <2>3, <2>4, <2>6, <2>8 DEF OutcomeInv
<1>8. CASE TakeOutcome
  <2>1. Exits' = Exits + 1 /\ exits' \in [Exit -> Nat]
    BY <1>4, <1>8, OneMoreLeaves DEF TakeOutcome, OutcomeInv
  <2>2. OutcomeTypeOK' /\ WaitingIsIndexed' /\ OrphansAreGone'
    BY <1>8, <2>1 DEF TakeOutcome, OutcomeInv, OutcomeTypeOK, WaitingIsIndexed, OrphansAreGone,
                 OrphanSeen
  <2>3. OutcomeLeavesOnce'
    BY <1>1, <1>2, <1>3, <1>8, <2>1, LeavesOnceIsNext DEF TakeOutcome
  <2> QED
    BY <2>2, <2>3 DEF OutcomeInv
<1>9. CASE KillRemoves
  <2>1. /\ exits' \in [Exit -> Nat]
        /\ Exits' = IF waiting \/ indexed THEN Exits + 1 ELSE Exits
    BY <1>4, <1>5, <1>9, OneMoreLeaves DEF KillRemoves, OutcomeInv
  <2>2. OutcomeTypeOK' /\ WaitingIsIndexed' /\ OrphansAreGone'
    BY <1>9, <2>1 DEF KillRemoves, OutcomeInv, OutcomeTypeOK, WaitingIsIndexed, OrphansAreGone,
                 OrphanSeen
  <2>3. OutcomeLeavesOnce'
    BY <1>1, <1>2, <1>3, <1>9, <2>1, LeavesOnceIsNext DEF KillRemoves
  <2> QED
    BY <2>2, <2>3 DEF OutcomeInv
<1>10. CASE KillReads \/ HorizonPasses
  <2>1. OutcomeTypeOK' /\ WaitingIsIndexed' /\ OrphansAreGone'
    BY <1>10 DEF KillReads, HorizonPasses, OutcomeInv, OutcomeTypeOK, WaitingIsIndexed,
                 OrphansAreGone, OrphanSeen
  <2>2. OutcomeLeavesOnce'
    BY <1>1, <1>3, <1>5, <1>10, LeavesOnceIsNext DEF KillReads, HorizonPasses
  <2> QED
    BY <2>1, <2>2 DEF OutcomeInv
<1>11. CASE BackstopLapses
  <2>1. OutcomeTypeOK' /\ WaitingIsIndexed' /\ OrphansAreGone'
    BY <1>11 DEF BackstopLapses, OutcomeInv, OutcomeTypeOK, WaitingIsIndexed, OrphansAreGone,
                 OrphanSeen
  <2>2. revived \/ indexed
    BY <1>11 DEF BackstopLapses, OutcomeInv, WaitingIsIndexed
  <2>3. OutcomeLeavesOnce'
    BY <1>1, <1>3, <1>5, <1>11, <2>2, LeavesOnceIsNext DEF BackstopLapses
  <2> QED
    BY <2>1, <2>3 DEF OutcomeInv
<1> QED
  BY <1>6, <1>7, <1>8, <1>9, <1>10, <1>11

(***************************************************************************)
(* A step of the sweep.                                                    *)
(***************************************************************************)
LEMMA SweepsKeep ==
  ASSUME OutcomeInv, NEW s \in Sweeper,
         \/ DueUntaken(s) \/ SweepClaims(s) \/ ReconcileOrphan(s)
         \/ ReportDropped(s) \/ SweeperDies(s)
  PROVE  OutcomeInv'
<1>1. Cardinality(Reporting) \in Nat /\ Exits \in Nat /\ written \in Nat
  BY ReportingFinite, ExitsType DEF OutcomeInv, OutcomeTypeOK
<1>2. revived \/ written = Exits + Cardinality(Reporting)
                       + (IF waiting \/ indexed THEN 1 ELSE 0)
  BY LeavesOnceIs DEF OutcomeInv
<1>3. "reported" \in Exit /\ "unreported" \in Exit
  BY DEF Exit
<1>4. ASSUME UNCHANGED exits PROVE Exits' = Exits /\ exits' \in [Exit -> Nat]
  BY <1>4 DEF Exits, OutcomeInv, OutcomeTypeOK
<1>5. CASE DueUntaken(s)
  <2>0. /\ \A q \in Sweeper : q # s => sweeper'[q] = sweeper[q]
        /\ sweeper[s] = "idle" /\ sweeper'[s] = "listed"
    BY <1>5 DEF DueUntaken, OutcomeInv, OutcomeTypeOK
  <2>1. Cardinality(Reporting') = Cardinality(Reporting)
    BY <1>1, <2>0, ReportingFinite, OneSweeperMoves
  <2>2. OutcomeTypeOK' /\ WaitingIsIndexed' /\ OrphansAreGone'
    BY <1>5 DEF DueUntaken, OutcomeInv, OutcomeTypeOK, WaitingIsIndexed, OrphansAreGone,
                 OrphanSeen
  <2>3. OutcomeLeavesOnce'
    BY <1>2, <1>4, <1>5, <2>1, LeavesOnceIsNext DEF DueUntaken
  <2> QED
    BY <2>2, <2>3 DEF OutcomeInv
<1>6. CASE SweepClaims(s)
  <2>1. OutcomeTypeOK' /\ WaitingIsIndexed' /\ OrphansAreGone'
    BY <1>6 DEF SweepClaims, OutcomeInv, OutcomeTypeOK, WaitingIsIndexed, OrphansAreGone,
                 OrphanSeen
  <2>2. Exits' = Exits
    BY <1>4, <1>6 DEF SweepClaims
  <2>3. CASE waiting
    <3>0. /\ \A q \in Sweeper : q # s => sweeper'[q] = sweeper[q]
          /\ sweeper[s] = "listed" /\ sweeper'[s] = "reporting"
      BY <1>6, <2>3 DEF SweepClaims, OutcomeInv, OutcomeTypeOK
    <3>1. Cardinality(Reporting') = Cardinality(Reporting) + 1
      BY <1>1, <3>0, ReportingFinite, OneSweeperMoves
    <3>2. ~waiting' /\ ~indexed' /\ written' = written /\ revived' = revived
      BY <1>6, <2>3 DEF SweepClaims
    <3>3. OutcomeLeavesOnce'
      BY <1>1, <1>2, <2>2, <2>3, <3>1, <3>2, LeavesOnceIsNext
    <3> QED
      BY <2>1, <3>3 DEF OutcomeInv
  <2>4. CASE ~waiting
    <3>0. /\ \A q \in Sweeper : q # s => sweeper'[q] = sweeper[q]
          /\ sweeper[s] = "listed" /\ sweeper'[s] = "orphan"
      BY <1>6, <2>4 DEF SweepClaims, OutcomeInv, OutcomeTypeOK
    <3>1. Cardinality(Reporting') = Cardinality(Reporting)
      BY <1>1, <3>0, ReportingFinite, OneSweeperMoves
    <3> QED
      BY <1>1, <1>2, <1>6, <2>1, <2>2, <2>4, <3>1, LeavesOnceIsNext
      DEF SweepClaims, OutcomeInv
  <2> QED
    BY <2>3, <2>4
<1>7. CASE ReconcileOrphan(s)
  <2>1. revived \/ ~waiting
    BY <1>7 DEF ReconcileOrphan, OutcomeInv, OrphansAreGone, OrphanSeen
  <2>2. OutcomeTypeOK' /\ WaitingIsIndexed' /\ OrphansAreGone'
    BY <1>7, <2>1 DEF ReconcileOrphan, OutcomeInv, OutcomeTypeOK, WaitingIsIndexed,
                 OrphansAreGone, OrphanSeen
  <2>3. Exits' = Exits
    BY <1>4, <1>7 DEF ReconcileOrphan
  <2>0. /\ \A q \in Sweeper : q # s => sweeper'[q] = sweeper[q]
        /\ sweeper[s] = "orphan"
        /\ sweeper'[s] = IF indexed THEN "reporting" ELSE "idle"
    BY <1>7 DEF ReconcileOrphan, OutcomeInv, OutcomeTypeOK
  <2>4. Cardinality(Reporting') = Cardinality(Reporting) + (IF indexed THEN 1 ELSE 0)
    BY <1>1, <2>0, ReportingFinite, OneSweeperMoves
  <2>5. OutcomeLeavesOnce'
    BY <1>1, <1>2, <1>7, <2>1, <2>3, <2>4, LeavesOnceIsNext DEF ReconcileOrphan
  <2> QED
    BY <2>2, <2>5 DEF OutcomeInv
<1>8. CASE ReportDropped(s)
  <2>0. /\ \A q \in Sweeper : q # s => sweeper'[q] = sweeper[q]
        /\ sweeper[s] = "reporting" /\ sweeper'[s] = "idle"
    BY <1>8 DEF ReportDropped, OutcomeInv, OutcomeTypeOK
  <2>1. Cardinality(Reporting') = Cardinality(Reporting) - 1
    BY <1>1, <2>0, ReportingFinite, OneSweeperMoves
  <2>2. Exits' = Exits + 1 /\ exits' \in [Exit -> Nat]
    BY <1>3, <1>8, OneMoreLeaves DEF ReportDropped, OutcomeInv
  <2>3. OutcomeTypeOK' /\ WaitingIsIndexed' /\ OrphansAreGone'
    BY <1>8, <2>2 DEF ReportDropped, OutcomeInv, OutcomeTypeOK, WaitingIsIndexed,
                 OrphansAreGone, OrphanSeen
  <2>4. OutcomeLeavesOnce'
    BY <1>1, <1>2, <1>8, <2>1, <2>2, LeavesOnceIsNext DEF ReportDropped
  <2> QED
    BY <2>3, <2>4 DEF OutcomeInv
<1>9. CASE SweeperDies(s)
  <2>0. /\ \A q \in Sweeper : q # s => sweeper'[q] = sweeper[q]
        /\ sweeper'[s] = "idle"
    BY <1>9 DEF SweeperDies, OutcomeInv, OutcomeTypeOK
  <2>1. Cardinality(Reporting') =
          Cardinality(Reporting) - (IF sweeper[s] = "reporting" THEN 1 ELSE 0)
    BY <1>1, <2>0, ReportingFinite, OneSweeperMoves
  <2>2. /\ exits' \in [Exit -> Nat]
        /\ Exits' = IF sweeper[s] = "reporting" THEN Exits + 1 ELSE Exits
    BY <1>3, <1>4, <1>9, OneMoreLeaves DEF SweeperDies, OutcomeInv
  <2>3. OutcomeTypeOK' /\ WaitingIsIndexed' /\ OrphansAreGone'
    BY <1>9, <2>2 DEF SweeperDies, OutcomeInv, OutcomeTypeOK, WaitingIsIndexed, OrphansAreGone,
                 OrphanSeen
  <2>4. OutcomeLeavesOnce'
    BY <1>1, <1>2, <1>9, <2>1, <2>2, LeavesOnceIsNext DEF SweeperDies
  <2> QED
    BY <2>3, <2>4 DEF OutcomeInv
<1> QED
  BY <1>5, <1>6, <1>7, <1>8, <1>9

LEMMA OutcomeStutters ==
  ASSUME OutcomeInv, UNCHANGED outcomeVars
  PROVE  OutcomeInv'
  BY DEF OutcomeInv, outcomeVars, OutcomeTypeOK, WaitingIsIndexed, OrphansAreGone,
         OrphanSeen, OutcomeLeavesOnce

LEMMA OutcomeStep ==
  ASSUME OutcomeInv, [OutcomeNext]_outcomeVars
  PROVE  OutcomeInv'
<1>1. CASE OutcomeNext
  BY <1>1, OthersKeep, SweepsKeep DEF OutcomeNext
<1> QED
  BY <1>1, OutcomeStutters

-----------------------------------------------------------------------------
(* The theorems.                                                           *)

(***************************************************************************)
(* Every outcome that was written waits, lies in the retention index for   *)
(* the sweep, or has left once: taken by an owner, killed, or reported as  *)
(* dropped (sweep_untaken_outcomes_once, claim_outcome, delete_outcome),   *)
(* for any number of deliveries, however late, of sweepers and of faults.  *)
(* Excepted is a behaviour in which an outcome is written anew between the *)
(* lapse of its row and the sweep's repair of that (add_outcome,           *)
(* reconcile_orphan_outcome): there the loss of one goes unreported.       *)
(***************************************************************************)
THEOREM OutcomesLeaveOnce == OutcomeSpec => []OutcomeLeavesOnce
<1>1. OutcomeInit => OutcomeInv
  BY OutcomeInitHolds
<1>2. OutcomeInv /\ [OutcomeNext]_outcomeVars => OutcomeInv'
  BY OutcomeStep
<1>3. OutcomeInv => OutcomeLeavesOnce
  BY DEF OutcomeInv
<1> QED
  BY <1>1, <1>2, <1>3, PTL DEF OutcomeSpec

(***************************************************************************)
(* No outcome waits outside the retention index (add_outcome's zadd and    *)
(* _queue_outcome_removal), so none can lapse unnoticed, with the same     *)
(* exception.                                                              *)
(***************************************************************************)
THEOREM WaitingOutcomesAreIndexed == OutcomeSpec => []WaitingIsIndexed
<1>1. OutcomeInit => OutcomeInv
  BY OutcomeInitHolds
<1>2. OutcomeInv /\ [OutcomeNext]_outcomeVars => OutcomeInv'
  BY OutcomeStep
<1>3. OutcomeInv => WaitingIsIndexed
  BY DEF OutcomeInv
<1> QED
  BY <1>1, <1>2, <1>3, PTL DEF OutcomeSpec
=============================================================================
