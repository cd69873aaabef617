------------------------------ MODULE ParksProofs ------------------------------
(***************************************************************************)
(* Theorems about the park lifecycle, for every set of parks, runs, drives *)
(* and doors and every number of faults.                                   *)
(***************************************************************************)
EXTENDS Parks, TLAPS

USE DEF outcomeVars

(***************************************************************************)
(* The names every store operation is written in.                          *)
(***************************************************************************)
StoreStep ==
  \/ \E p \in Park : \/ Add(p) \/ RecordAnswer(p) \/ PrunePending(p)
                     \/ ClearContinuationDue(p) \/ ClearKillDue(p)
                     \/ DropExpiryMember(p) \/ DropOrphanContinuation(p)
                     \/ DropOrphanKill(p) \/ StateAgesOut(p)
                     \/ TicketAgesOut(p) \/ KillDueAgesOut(p)
  \/ \E p \in Park, terminal \in Terminal : EnqueueKill(p, terminal)
  \/ UNCHANGED storeVars

(***************************************************************************)
(* Every operation of the store keeps the store's types.                   *)
(***************************************************************************)
LEMMA StoreTypes ==
  ASSUME StoreTypeOK, StoreStep
  PROVE  StoreTypeOK'
<1> USE DEF StoreTypeOK
<1>1. ASSUME NEW p \in Park, Add(p) PROVE StoreTypeOK'
  <2>1. RunOf[p] \in Run
    BY RunOfAssumption
  <2> QED
    BY <1>1, <2>1 DEF Add
<1>2. ASSUME NEW p \in Park, RecordAnswer(p) PROVE StoreTypeOK'
  BY <1>2 DEF RecordAnswer
<1>3. ASSUME NEW p \in Park, PrunePending(p) PROVE StoreTypeOK'
  BY <1>3 DEF PrunePending
<1>4. ASSUME NEW p \in Park, ClearContinuationDue(p) PROVE StoreTypeOK'
  BY <1>4 DEF ClearContinuationDue
<1>5. ASSUME NEW p \in Park, ClearKillDue(p) PROVE StoreTypeOK'
  BY <1>5 DEF ClearKillDue
<1>6. ASSUME NEW p \in Park, DropExpiryMember(p) PROVE StoreTypeOK'
  BY <1>6 DEF DropExpiryMember
<1>7. ASSUME NEW p \in Park, DropOrphanContinuation(p) PROVE StoreTypeOK'
  BY <1>7 DEF DropOrphanContinuation
<1>8. ASSUME NEW p \in Park, DropOrphanKill(p) PROVE StoreTypeOK'
  BY <1>8 DEF DropOrphanKill
<1>9. ASSUME NEW p \in Park, StateAgesOut(p) PROVE StoreTypeOK'
  BY <1>9 DEF StateAgesOut
<1>10. ASSUME NEW p \in Park, TicketAgesOut(p) PROVE StoreTypeOK'
  BY <1>10 DEF TicketAgesOut
<1>11. ASSUME NEW p \in Park, KillDueAgesOut(p) PROVE StoreTypeOK'
  BY <1>11 DEF KillDueAgesOut
<1>12. ASSUME NEW p \in Park, NEW terminal \in Terminal, EnqueueKill(p, terminal)
       PROVE  StoreTypeOK'
  <2>1. RunOf[p] \in Run
    BY RunOfAssumption
  <2>2. CASE state[p] = "pending"
    BY <1>12, <2>1, <2>2 DEF EnqueueKill
  <2>3. CASE state[p] # "pending"
    BY <1>12, <2>1, <2>3 DEF EnqueueKill
  <2> QED
    BY <2>2, <2>3
<1>13. CASE UNCHANGED storeVars
  BY <1>13 DEF storeVars, redisVars
<1> QED
  BY <1>1, <1>2, <1>3, <1>4, <1>5, <1>6, <1>7, <1>8, <1>9, <1>10, <1>11,
     <1>12, <1>13 DEF StoreStep

-----------------------------------------------------------------------------
(***************************************************************************)
(* The steps that start, run or lose a drive, and an answer.               *)
(***************************************************************************)
DriveAction ==
  \/ \E d \in Drive, r \in Run : StartRun(d, r)
  \/ \E r \in Run : TakeOutcome(r)
  \/ \E p \in Park : AnswerPark(p) \/ DispatchLost(p)
  \/ \E d \in Drive, p \in Park : \/ DispatchContinuation(d, p)
                                  \/ RedeliverContinuation(d, p)
  \/ \E d \in Drive : DriveStep(d) \/ DriveDies(d)

(***************************************************************************)
(* A drive works on a park of its own run, and is never past its first     *)
(* segment without one: what DriveTypeOK has to be strengthened by.        *)
(***************************************************************************)
DriveShape(rec) ==
  /\ rec.pc # "idle" => rec.run \in Run
  /\ rec.park # NoPark => rec.run = RunOf[rec.park]
  /\ rec.pc \in {"entry", "ticket", "deliver", "record", "clear"} => rec.park \in Park
  /\ rec.pc \in {"asking", "sending"} => rec.ask \in Park
  /\ rec.pc \in {"asking", "sending"} => RunOf[rec.ask] = rec.run

DrivesOK == \A d \in Drive : DriveShape(drive[d])

LEMMA NoDriveType == NoDrive \in DriveRecord /\ DriveShape(NoDrive)
  BY NoParkAssumption DEF NoDrive, DriveRecord, DriveShape, Pc, Status

LEMMA ResumeOfType ==
  ASSUME NEW p \in Park
  PROVE  ResumeOf(p) \in DriveRecord /\ DriveShape(ResumeOf(p))
<1>1. RunOf[p] \in Run
  BY RunOfAssumption
<1>2. p # NoPark
  BY NoParkAssumption
<1> QED
  BY <1>1, <1>2 DEF ResumeOf, NoDrive, DriveRecord, DriveShape, Pc, Status

(***************************************************************************)
(* Setting one slot to a well-formed record keeps every slot well formed.  *)
(***************************************************************************)
LEMMA DriveUpdate ==
  ASSUME drive \in [Drive -> DriveRecord], DrivesOK,
         NEW d \in Drive, NEW rec \in DriveRecord, DriveShape(rec),
         drive' = [drive EXCEPT ![d] = rec]
  PROVE  drive' \in [Drive -> DriveRecord] /\ DrivesOK'
<1>1. \A e \in Drive : drive'[e] = IF e = d THEN rec ELSE drive[e]
  OBVIOUS
<1>2. DrivesOK'
  BY <1>1 DEF DrivesOK
<1> QED
  BY <1>2

LEMMA ContinuationTypes ==
  ASSUME StoreTypeOK, DriveTypeOK, DrivesOK, DriveAction
  PROVE  StoreTypeOK' /\ DriveTypeOK' /\ DrivesOK'
<1> USE DEF DriveTypeOK
<1>1. ASSUME NEW d \in Drive, NEW r \in Run, StartRun(d, r)
      PROVE  StoreTypeOK' /\ DriveTypeOK' /\ DrivesOK'
  <2> DEFINE rec == [NoDrive EXCEPT !.pc = "running", !.run = r]
  <2>1. rec \in DriveRecord /\ DriveShape(rec)
    BY NoParkAssumption DEF NoDrive, DriveRecord, DriveShape, Pc, Status
  <2>2. drive' = [drive EXCEPT ![d] = rec]
    BY <1>1 DEF StartRun
  <2> HIDE DEF rec
  <2>3. drive' \in [Drive -> DriveRecord] /\ DrivesOK'
    BY <2>1, <2>2, DriveUpdate
  <2>4. StoreTypeOK'
    BY <1>1, StoreTypes DEF StartRun, StoreStep
  <2> QED
    BY <1>1, <2>3, <2>4 DEF StartRun
<1>2. ASSUME NEW p \in Park, AnswerPark(p)
      PROVE  StoreTypeOK' /\ DriveTypeOK' /\ DrivesOK'
  <2>1. StoreTypeOK'
    BY <1>2, StoreTypes DEF AnswerPark, StoreStep
  <2> QED
    BY <1>2, <2>1 DEF AnswerPark, DrivesOK
<1>3. ASSUME NEW p \in Park, DispatchLost(p)
      PROVE  StoreTypeOK' /\ DriveTypeOK' /\ DrivesOK'
  <2>1. StoreTypeOK'
    BY <1>3, StoreTypes DEF DispatchLost, StoreStep
  <2> QED
    BY <1>3, <2>1 DEF DispatchLost, DrivesOK
<1>4. ASSUME NEW d \in Drive, NEW p \in Park,
             DispatchContinuation(d, p) \/ RedeliverContinuation(d, p)
      PROVE  StoreTypeOK' /\ DriveTypeOK' /\ DrivesOK'
  <2>1. StoreTypeOK'
    BY <1>4, StoreTypes DEF DispatchContinuation, RedeliverContinuation, StoreStep
  <2>2. drive' = [drive EXCEPT ![d] = ResumeOf(p)]
    BY <1>4 DEF DispatchContinuation, RedeliverContinuation
  <2>3. drive' \in [Drive -> DriveRecord] /\ DrivesOK'
    BY <2>2, ResumeOfType, DriveUpdate
  <2> QED
    BY <1>4, <2>1, <2>3 DEF DispatchContinuation, RedeliverContinuation
<1>5. ASSUME NEW d \in Drive, DriveStep(d) \/ DriveDies(d)
      PROVE  StoreTypeOK' /\ DriveTypeOK' /\ DrivesOK'
  <2> DEFINE me == drive[d]
  <2>0. me \in DriveRecord /\ DriveShape(me)
    BY DEF DrivesOK
  <2>1. CASE DriveDies(d) \/ AssertResumeAuthorized(d)
    <3>1. StoreTypeOK'
      BY <2>1, StoreTypes DEF DriveDies, AssertResumeAuthorized, StoreStep
    <3>2. \/ drive' = [drive EXCEPT ![d] = NoDrive]
          \/ drive' = [drive EXCEPT ![d] = [me EXCEPT !.pc = "running"]] /\ me.pc = "entry"
      BY <2>1 DEF DriveDies, AssertResumeAuthorized, End, Go
    <3>3. me.pc = "entry" => /\ [me EXCEPT !.pc = "running"] \in DriveRecord
                             /\ DriveShape([me EXCEPT !.pc = "running"])
      BY <2>0 DEF DriveRecord, DriveShape, Pc
    <3>4. drive' \in [Drive -> DriveRecord] /\ DrivesOK'
      BY <3>2, <3>3, NoDriveType, DriveUpdate
    <3> QED
      BY <2>1, <3>1, <3>4 DEF DriveDies, AssertResumeAuthorized
  <2>2. ASSUME NEW q \in Park, AskCheck(d, q)
        PROVE  StoreTypeOK' /\ DriveTypeOK' /\ DrivesOK'
    <3> DEFINE rec == [me EXCEPT !.pc = "asking", !.ask = q]
    <3>1. StoreTypeOK'
      BY <2>2, StoreTypes DEF AskCheck, StoreStep
    <3>2. \/ drive' = [drive EXCEPT ![d] = NoDrive]
          \/ drive' = [drive EXCEPT ![d] = me]
          \/ drive' = [drive EXCEPT ![d] = rec]
      BY <2>2 DEF AskCheck, End
    <3>3. rec \in DriveRecord /\ DriveShape(rec)
      BY <2>0, <2>2 DEF DriveRecord, DriveShape, Pc, AskCheck
    <3> HIDE DEF rec
    <3>4. drive' \in [Drive -> DriveRecord] /\ DrivesOK'
      BY <2>0, <3>2, <3>3, NoDriveType, DriveUpdate
    <3> QED
      BY <2>2, <3>1, <3>4 DEF AskCheck
  <2>3. CASE AskWrite(d)
    <3> DEFINE rec == [me EXCEPT !.pc = "sending"]
    <3>1. me.ask \in Park
      BY <2>0, <2>3 DEF AskWrite, DriveShape
    <3>2. StoreTypeOK'
      BY <2>3, <3>1, StoreTypes DEF AskWrite, StoreStep
    <3>3. drive' = [drive EXCEPT ![d] = rec]
      BY <2>3 DEF AskWrite, Go
    <3>4. rec \in DriveRecord /\ DriveShape(rec)
      BY <2>0, <2>3 DEF DriveRecord, DriveShape, Pc, AskWrite
    <3> HIDE DEF rec
    <3>5. drive' \in [Drive -> DriveRecord] /\ DrivesOK'
      BY <3>3, <3>4, DriveUpdate
    <3> QED
      BY <2>3, <3>2, <3>5 DEF AskWrite
  <2>4. CASE AskDeliver(d) \/ AskDeliveryFails(d)
    <3> DEFINE rec(b) == [me EXCEPT !.pc = "running", !.ask = NoPark, !.parked = b]
    <3>1. me.pc = "sending" /\ me.ask \in Park
      BY <2>0, <2>4 DEF AskDeliver, AskDeliveryFails, DriveShape
    <3>2. StoreTypeOK'
      BY <2>4, <3>1, StoreTypes DEF AskDeliver, AskDeliveryFails, StoreStep
    <3>3. me.parked \in BOOLEAN
      BY <2>0 DEF DriveRecord
    <3>4. \E b \in BOOLEAN : drive' = [drive EXCEPT ![d] = rec(b)]
      <4>1. CASE \/ AskDeliver(d)
                 \/ AskDeliveryFails(d) /\ state[me.ask] # "pending"
        <5>1. drive' = [drive EXCEPT ![d] = rec(TRUE)]
          BY <4>1 DEF AskDeliver, AskDeliveryFails, PrunePending
        <5> QED
          BY <5>1
      <4>2. CASE AskDeliveryFails(d) /\ state[me.ask] = "pending"
        <5>1. drive' = [drive EXCEPT ![d] = rec(me.parked)]
          BY <2>0, <4>2 DEF AskDeliveryFails, DriveRecord
        <5> QED
          BY <3>3, <5>1
      <4> QED
        BY <2>4, <4>1, <4>2
    <3>5. \A b \in BOOLEAN : rec(b) \in DriveRecord /\ DriveShape(rec(b))
      BY <2>0, <3>1 DEF DriveRecord, DriveShape, Pc
    <3> HIDE DEF rec
    <3>6. drive' \in [Drive -> DriveRecord] /\ DrivesOK'
      BY <3>4, <3>5, DriveUpdate
    <3>7. channel' \in [Park -> {"none", "held", "stray", "released"}]
      BY <2>4, <3>1 DEF AskDeliver, AskDeliveryFails
    <3> QED
      BY <2>4, <3>2, <3>6, <3>7 DEF AskDeliver, AskDeliveryFails
  <2>5. CASE ReturnSuspended(d)
    <3>1. StoreTypeOK'
      BY <2>5, StoreTypes DEF ReturnSuspended, StoreStep
    <3>2. me.pc = "running" /\ me.park \in Park \cup {NoPark}
      BY <2>0, <2>5 DEF ReturnSuspended, DriveRecord
    <3>3. \/ drive' = [drive EXCEPT ![d] = NoDrive] /\ moved' = moved
          \/ /\ drive' = [drive EXCEPT ![d] = [me EXCEPT !.pc = "clear"]]
             /\ me.park # NoPark
             /\ moved' = moved \cup {me.park}
      BY <2>5 DEF ReturnSuspended, End, Go
    <3>4. me.park # NoPark => /\ [me EXCEPT !.pc = "clear"] \in DriveRecord
                              /\ DriveShape([me EXCEPT !.pc = "clear"])
      BY <2>0, <3>2 DEF DriveRecord, DriveShape, Pc
    <3>5. drive' \in [Drive -> DriveRecord] /\ DrivesOK'
      BY <3>3, <3>4, NoDriveType, DriveUpdate
    <3>6. moved' \subseteq Park
      BY <3>2, <3>3
    <3> QED
      BY <2>5, <3>1, <3>5, <3>6 DEF ReturnSuspended
  <2>6. ASSUME NEW status \in Status, ReturnTerminal(d, status)
        PROVE  StoreTypeOK' /\ DriveTypeOK' /\ DrivesOK'
    <3> DEFINE rec == [me EXCEPT !.pc = "ticket", !.status = status]
    <3>1. StoreTypeOK'
      BY <2>6, StoreTypes DEF ReturnTerminal, StoreStep
    <3>2. me.pc = "running" /\ me.park \in Park \cup {NoPark}
      BY <2>0, <2>6 DEF ReturnTerminal, DriveRecord
    <3>3. \/ drive' = [drive EXCEPT ![d] = NoDrive]
          \/ drive' = [drive EXCEPT ![d] = rec] /\ me.park # NoPark
      BY <2>6 DEF ReturnTerminal, End
    <3>4. me.park # NoPark => rec \in DriveRecord /\ DriveShape(rec)
      BY <2>0, <3>2 DEF DriveRecord, DriveShape, Pc
    <3> HIDE DEF rec
    <3>5. drive' \in [Drive -> DriveRecord] /\ DrivesOK'
      BY <3>3, <3>4, NoDriveType, DriveUpdate
    <3> QED
      BY <2>6, <3>1, <3>5 DEF ReturnTerminal
  <2>7. CASE TicketStands(d)
    <3> DEFINE rec == [me EXCEPT !.pc = "deliver"]
    <3>1. StoreTypeOK'
      BY <2>7, StoreTypes DEF TicketStands, StoreStep
    <3>2. drive' = [drive EXCEPT ![d] = NoDrive] \/ drive' = [drive EXCEPT ![d] = rec]
      BY <2>7 DEF TicketStands, End, Go
    <3>3. rec \in DriveRecord /\ DriveShape(rec)
      BY <2>0, <2>7 DEF DriveRecord, DriveShape, Pc, TicketStands
    <3> HIDE DEF rec
    <3>4. drive' \in [Drive -> DriveRecord] /\ DrivesOK'
      BY <3>2, <3>3, NoDriveType, DriveUpdate
    <3> QED
      BY <2>7, <3>1, <3>4 DEF TicketStands
  <2>8. CASE DeliverOutcome(d)
    <3> DEFINE rec(pc) == [me EXCEPT !.pc = pc]
    <3>1. StoreTypeOK'
      BY <2>8, StoreTypes DEF DeliverOutcome, StoreStep
    <3>2. PICK pc \in {"record", "clear"} : drive' = [drive EXCEPT ![d] = rec(pc)]
      BY <2>8 DEF DeliverOutcome, Go
    <3>3. rec(pc) \in DriveRecord /\ DriveShape(rec(pc))
      BY <2>0, <2>8 DEF DriveRecord, DriveShape, Pc, DeliverOutcome
    <3> HIDE DEF rec
    <3>4. drive' \in [Drive -> DriveRecord] /\ DrivesOK'
      BY <3>2, <3>3, DriveUpdate
    <3> QED
      BY <2>8, <3>1, <3>4 DEF DeliverOutcome
  <2>10. CASE RecordOutcome(d)
    <3> DEFINE rec == [me EXCEPT !.pc = "clear"]
    <3>1. StoreTypeOK'
      BY <2>10, StoreTypes DEF RecordOutcome, StoreStep
    <3>2. drive' = [drive EXCEPT ![d] = rec]
      BY <2>10 DEF RecordOutcome, Go
    <3>3. rec \in DriveRecord /\ DriveShape(rec)
      BY <2>0, <2>10 DEF DriveRecord, DriveShape, Pc, RecordOutcome
    <3>4. me.run \in Run /\ me.status \in Status
      BY <2>0, <2>10 DEF DriveRecord, DriveShape, RecordOutcome
    <3> HIDE DEF rec
    <3>5. drive' \in [Drive -> DriveRecord] /\ DrivesOK'
      BY <3>2, <3>3, DriveUpdate
    <3>6. recorded' \subseteq Run /\ delivered' \in [Run -> Status \cup {"none"}]
      BY <2>10, <3>4 DEF RecordOutcome, Land
    <3> QED
      BY <2>10, <3>1, <3>5, <3>6 DEF RecordOutcome
  <2>9. CASE ClearDue(d)
    <3>1. me.park \in Park
      BY <2>0, <2>9 DEF ClearDue, DriveShape
    <3>2. StoreTypeOK'
      BY <2>9, <3>1, StoreTypes DEF ClearDue, StoreStep
    <3>3. drive' = [drive EXCEPT ![d] = NoDrive]
      BY <2>9 DEF ClearDue, End
    <3>4. drive' \in [Drive -> DriveRecord] /\ DrivesOK'
      BY <3>3, NoDriveType, DriveUpdate
    <3> QED
      BY <2>9, <3>2, <3>4 DEF ClearDue
  <2> QED
    BY <1>5, <2>1, <2>2, <2>3, <2>4, <2>5, <2>6, <2>7, <2>8, <2>9, <2>10 DEF DriveStep
<1>6. ASSUME NEW r \in Run, TakeOutcome(r)
      PROVE  StoreTypeOK' /\ DriveTypeOK' /\ DrivesOK'
  <2>1. StoreTypeOK'
    BY <1>6, StoreTypes DEF TakeOutcome, StoreStep
  <2> QED
    BY <1>6, <2>1 DEF TakeOutcome, DrivesOK
<1> QED
  BY <1>1, <1>2, <1>3, <1>4, <1>5, <1>6 DEF DriveAction

-----------------------------------------------------------------------------
(***************************************************************************)
(* A door in flight names a park, and the one it is at where it needs one. *)
(***************************************************************************)
DoorShape(rec) ==
  /\ rec.pc # "idle" => rec.park \in Park
  /\ rec.pc \in {"withdraw_member", "deliver", "record", "clear"} => rec.at \in Park
  /\ rec.pc = "record" => rec.terminal \in Status

DoorsOK == \A k \in Door : DoorShape(door[k])

LEMMA NoDoorType == NoDoor \in DoorRecord /\ DoorShape(NoDoor)
  BY DEF NoDoor, DoorRecord, DoorShape, DoorPc, Terminal

LEMMA DoorUpdate ==
  ASSUME door \in [Door -> DoorRecord], DoorsOK,
         NEW k \in Door, NEW rec \in DoorRecord, DoorShape(rec),
         door' = [door EXCEPT ![k] = rec]
  PROVE  door' \in [Door -> DoorRecord] /\ DoorsOK'
<1>1. \A e \in Door : door'[e] = IF e = k THEN rec ELSE door[e]
  OBVIOUS
<1>2. DoorsOK'
  BY <1>1 DEF DoorsOK
<1> QED
  BY <1>2

(***************************************************************************)
(* The record a door starts a kill of p with.                              *)
(***************************************************************************)
KillOf(p, terminal) ==
  [NoDoor EXCEPT !.pc = "withdraw", !.park = p, !.terminal = terminal, !.dues = {p}]

LEMMA KillOfType ==
  ASSUME NEW p \in Park, NEW terminal \in Terminal
  PROVE  KillOf(p, terminal) \in DoorRecord /\ DoorShape(KillOf(p, terminal))
  BY DEF KillOf, NoDoor, DoorRecord, DoorShape, DoorPc, Terminal

(***************************************************************************)
(* The steps of kills and of the reaper.                                   *)
(***************************************************************************)
DoorAction ==
  \/ \E k \in Door, p \in Park :
       \/ CancelPark(k, p) \/ EraseMember(k, p) \/ RevokeMember(k, p)
       \/ FireParkKilled(k, p) \/ ParkKillNotReady(k, p) \/ RedeliverKill(k, p)
       \/ ReapRead(k, p) \/ DropContinuation(k, p)
  \/ \E k \in Door :
       \/ WithdrawChannelDelivery(k) \/ RunMembers(k) \/ WithdrawMember(k)
       \/ DeliverKillTerminal(k) \/ RecordKillTerminal(k) \/ CompleteKill(k)
       \/ KillDone(k) \/ CompleteKillRaises(k) \/ DoorDies(k)
       \/ ExpireResume(k) \/ ExpireKill(k) \/ SettleExpiry(k)
       \/ GiveUp(k) \/ RecordGiveUp(k)
  \/ \E p \in Park : AbandonKill(p) \/ DropKill(p)

(***************************************************************************)
(* A revoke takes one of two courses.                                      *)
(***************************************************************************)
LEMMA RevokeTypes ==
  ASSUME StoreTypeOK, door \in [Door -> DoorRecord], DoorsOK,
         NEW k \in Door, NEW p \in Park, NEW act_on, NEW terminal \in Terminal,
         Revoke(k, p, act_on, terminal)
  PROVE  StoreTypeOK' /\ door' \in [Door -> DoorRecord] /\ DoorsOK'
<1>1. StoreTypeOK'
  BY StoreTypes DEF Revoke, StoreStep
<1>2. \/ door' = [door EXCEPT ![k] = NoDoor]
      \/ door' = [door EXCEPT ![k] = KillOf(p, terminal)]
  BY DEF Revoke, Leave, KillOf
<1> QED
  BY <1>1, <1>2, NoDoorType, KillOfType, DoorUpdate

LEMMA SameDrives ==
  ASSUME DriveTypeOK, DrivesOK, UNCHANGED driveVars
  PROVE  DriveTypeOK' /\ DrivesOK'
  BY DEF DriveTypeOK, DrivesOK, driveVars

LEMMA DeliveredType ==
  ASSUME DriveTypeOK, NEW r \in Run, NEW status \in Status, Land(r, status)
  PROVE  recorded' \subseteq Run /\ delivered' \in [Run -> Status \cup {"none"}]
  BY DEF DriveTypeOK, Land

AllTypes == StoreTypeOK /\ DriveTypeOK /\ DrivesOK /\ DoorTypeOK /\ DoorsOK

LEMMA KillTypes ==
  ASSUME AllTypes, DoorAction
  PROVE  AllTypes'
<1> USE DEF AllTypes, DoorTypeOK
<1>1. ASSUME NEW k \in Door, NEW p \in Park, CancelPark(k, p) \/ EraseMember(k, p)
      PROVE  AllTypes'
  <2>1. "withdrawn" \in Terminal
    BY DEF Terminal
  <2>2. StoreTypeOK' /\ door' \in [Door -> DoorRecord] /\ DoorsOK'
    BY <1>1, <2>1, RevokeTypes DEF CancelPark, EraseMember
  <2>3. UNCHANGED <<driveVars, told, kill_abandoned>>
    BY <1>1 DEF CancelPark, EraseMember
  <2> QED
    BY <2>2, <2>3, SameDrives
<1>2. ASSUME NEW k \in Door, NEW p \in Park, RevokeMember(k, p)
      PROVE  AllTypes'
  <2> DEFINE me == door[k]
             on == [me EXCEPT !.todo = @ \ {p}]
             hit == [me EXCEPT !.pc = "withdraw_member", !.at = p,
                               !.todo = @ \ {p}, !.dues = @ \cup {p}]
  <2>1. me \in DoorRecord /\ DoorShape(me) /\ me.terminal \in Terminal
    BY DEF DoorsOK, DoorRecord
  <2>2. StoreTypeOK'
    BY <1>2, <2>1, StoreTypes DEF RevokeMember, StoreStep
  <2>3. \/ door' = [door EXCEPT ![k] = on]
        \/ door' = [door EXCEPT ![k] = hit]
    BY <1>2 DEF RevokeMember
  <2>4. on \in DoorRecord /\ DoorShape(on)
    BY <2>1 DEF DoorRecord, DoorShape
  <2>5. me.pc = "revoke"
    BY <1>2 DEF RevokeMember
  <2>6. hit \in DoorRecord /\ DoorShape(hit)
    BY <2>1, <2>5 DEF DoorRecord, DoorShape, DoorPc
  <2> HIDE DEF on, hit
  <2>7. door' \in [Door -> DoorRecord] /\ DoorsOK'
    BY <2>3, <2>4, <2>6, DoorUpdate
  <2> QED
    BY <1>2, <2>2, <2>7, SameDrives DEF RevokeMember
<1>3. ASSUME NEW k \in Door, NEW p \in Park,
             FireParkKilled(k, p) \/ ParkKillNotReady(k, p)
      PROVE  AllTypes'
  <2> DEFINE me == door[k]
             fire == [me EXCEPT !.pc = "deliver", !.at = p, !.dues = @ \ {p}]
             skip == [me EXCEPT !.pc = "complete", !.dues = @ \ {p}]
  <2>1. me \in DoorRecord /\ DoorShape(me) /\ me.pc \in {"revoke", "complete"}
    BY <1>3 DEF DoorsOK, FireParkKilled, ParkKillNotReady
  <2>2. StoreTypeOK'
    BY <1>3, StoreTypes DEF FireParkKilled, ParkKillNotReady, StoreStep
  <2>3. \/ door' = [door EXCEPT ![k] = fire]
        \/ door' = [door EXCEPT ![k] = skip]
    BY <1>3 DEF FireParkKilled, ParkKillNotReady
  <2>4. fire \in DoorRecord /\ DoorShape(fire)
    BY <2>1 DEF DoorRecord, DoorShape, DoorPc
  <2>5. skip \in DoorRecord /\ DoorShape(skip)
    BY <2>1 DEF DoorRecord, DoorShape, DoorPc
  <2> HIDE DEF fire, skip
  <2>6. door' \in [Door -> DoorRecord] /\ DoorsOK'
    BY <2>3, <2>4, <2>5, DoorUpdate
  <2> QED
    BY <1>3, <2>2, <2>6, SameDrives DEF FireParkKilled, ParkKillNotReady
<1>4. ASSUME NEW k \in Door, NEW p \in Park, RedeliverKill(k, p)
      PROVE  AllTypes'
  <2>1. kill_due[p] \in Terminal
    BY <1>4 DEF RedeliverKill, StoreTypeOK
  <2>2. door' = [door EXCEPT ![k] = KillOf(p, kill_due[p])]
    BY <1>4 DEF RedeliverKill, KillOf
  <2>3. door' \in [Door -> DoorRecord] /\ DoorsOK'
    BY <2>1, <2>2, KillOfType, DoorUpdate
  <2>4. StoreTypeOK'
    BY <1>4, StoreTypes DEF RedeliverKill, StoreStep
  <2> QED
    BY <1>4, <2>3, <2>4, SameDrives DEF RedeliverKill
<1>5. ASSUME NEW k \in Door, NEW p \in Park, ReapRead(k, p) \/ DropContinuation(k, p)
      PROVE  AllTypes'
  <2> DEFINE rec(pc) == [NoDoor EXCEPT !.park = p, !.pc = pc]
  <2>1. StoreTypeOK'
    BY <1>5, StoreTypes DEF ReapRead, DropContinuation, StoreStep
  <2>2. \E pc \in {"expire", "settle", "giveup"} : door' = [door EXCEPT ![k] = rec(pc)]
    BY <1>5 DEF ReapRead, DropContinuation, NoDoor
  <2>3. \A pc \in {"expire", "settle", "giveup"} :
          rec(pc) \in DoorRecord /\ DoorShape(rec(pc))
    BY DEF NoDoor, DoorRecord, DoorShape, DoorPc, Terminal
  <2> HIDE DEF rec
  <2>4. door' \in [Door -> DoorRecord] /\ DoorsOK'
    BY <2>2, <2>3, DoorUpdate
  <2> QED
    BY <1>5, <2>1, <2>4, SameDrives DEF ReapRead, DropContinuation
<1>6. ASSUME NEW k \in Door, WithdrawChannelDelivery(k) \/ WithdrawMember(k)
      PROVE  AllTypes'
  <2> DEFINE me == door[k]
             members == [me EXCEPT !.pc = "members"]
             back == [me EXCEPT !.pc = "revoke", !.at = NoPark]
  <2>1. me \in DoorRecord /\ DoorShape(me) /\ me.pc \in {"withdraw", "withdraw_member"}
    BY <1>6 DEF DoorsOK, WithdrawChannelDelivery, WithdrawMember
  <2>2. StoreTypeOK'
    BY <1>6, StoreTypes DEF WithdrawChannelDelivery, WithdrawMember, StoreStep
  <2>3. \/ door' = [door EXCEPT ![k] = members]
        \/ door' = [door EXCEPT ![k] = back]
    BY <1>6 DEF WithdrawChannelDelivery, WithdrawMember
  <2>4. members \in DoorRecord /\ DoorShape(members)
    BY <2>1 DEF DoorRecord, DoorShape, DoorPc
  <2>5. back \in DoorRecord /\ DoorShape(back)
    BY <2>1 DEF DoorRecord, DoorShape, DoorPc
  <2> HIDE DEF members, back
  <2>6. door' \in [Door -> DoorRecord] /\ DoorsOK'
    BY <2>3, <2>4, <2>5, DoorUpdate
  <2>7. channel' \in [Park -> {"none", "held", "stray", "released"}]
    BY <1>6 DEF WithdrawChannelDelivery, WithdrawMember, DriveTypeOK
  <2>8. DriveTypeOK' /\ DrivesOK'
    BY <1>6, <2>7 DEF WithdrawChannelDelivery, WithdrawMember, DriveTypeOK, DrivesOK
  <2> QED
    BY <1>6, <2>2, <2>6, <2>8 DEF WithdrawChannelDelivery, WithdrawMember
<1>7. ASSUME NEW k \in Door, RunMembers(k)
      PROVE  AllTypes'
  <2> DEFINE me == door[k]
             found == (ParksOf(RunOf[me.park]) \cap run_parks) \ {me.park}
             rec == [me EXCEPT !.pc = "revoke", !.todo = found]
  <2>1. me \in DoorRecord /\ DoorShape(me) /\ me.pc = "members"
    BY <1>7 DEF DoorsOK, RunMembers
  <2>2. StoreTypeOK'
    BY <1>7, StoreTypes DEF RunMembers, StoreStep
  <2>3. door' = [door EXCEPT ![k] = rec]
    BY <1>7 DEF RunMembers
  <2>4. found \subseteq Park
    BY DEF ParksOf
  <2> HIDE DEF found
  <2>5. rec \in DoorRecord /\ DoorShape(rec)
    BY <2>1, <2>4 DEF DoorRecord, DoorShape, DoorPc
  <2> HIDE DEF rec
  <2>6. door' \in [Door -> DoorRecord] /\ DoorsOK'
    BY <2>3, <2>5, DoorUpdate
  <2> QED
    BY <1>7, <2>2, <2>6, SameDrives DEF RunMembers
<1>8. ASSUME NEW k \in Door, DeliverKillTerminal(k)
      PROVE  AllTypes'
  <2> DEFINE me == door[k]
             rec(pc) == [me EXCEPT !.pc = pc]
  <2>1. me \in DoorRecord /\ DoorShape(me) /\ me.pc = "deliver"
    BY <1>8 DEF DoorsOK, DeliverKillTerminal
  <2>2. StoreTypeOK'
    BY <1>8, StoreTypes DEF DeliverKillTerminal, StoreStep
  <2>3. CASE door' = [door EXCEPT ![k] = rec("record")] /\ me.terminal \in Status
    <3>1. rec("record") \in DoorRecord /\ DoorShape(rec("record"))
      BY <2>1, <2>3 DEF DoorRecord, DoorShape, DoorPc
    <3> HIDE DEF rec
    <3>2. door' \in [Door -> DoorRecord] /\ DoorsOK'
      BY <2>3, <3>1, DoorUpdate
    <3> QED
      BY <1>8, <2>2, <3>2, SameDrives DEF DeliverKillTerminal
  <2>4. CASE door' = [door EXCEPT ![k] = rec("clear")]
    <3>1. rec("clear") \in DoorRecord /\ DoorShape(rec("clear"))
      BY <2>1 DEF DoorRecord, DoorShape, DoorPc
    <3> HIDE DEF rec
    <3>2. door' \in [Door -> DoorRecord] /\ DoorsOK'
      BY <2>4, <3>1, DoorUpdate
    <3> QED
      BY <1>8, <2>2, <3>2, SameDrives DEF DeliverKillTerminal
  <2> QED
    BY <1>8, <2>3, <2>4 DEF DeliverKillTerminal, Lands
<1>14. ASSUME NEW k \in Door, RecordKillTerminal(k)
       PROVE  AllTypes'
  <2> DEFINE me == door[k]
             rec == [me EXCEPT !.pc = "clear"]
  <2>1. me \in DoorRecord /\ DoorShape(me) /\ me.pc = "record"
    BY <1>14 DEF DoorsOK, RecordKillTerminal
  <2>2. StoreTypeOK'
    BY <1>14, StoreTypes DEF RecordKillTerminal, StoreStep
  <2>3. rec \in DoorRecord /\ DoorShape(rec)
    BY <2>1 DEF DoorRecord, DoorShape, DoorPc
  <2>4. door' = [door EXCEPT ![k] = rec]
    BY <1>14 DEF RecordKillTerminal
  <2> HIDE DEF rec
  <2>5. door' \in [Door -> DoorRecord] /\ DoorsOK'
    BY <2>3, <2>4, DoorUpdate
  <2>6. RunOf[me.park] \in Run /\ me.terminal \in Status
    BY <2>1, RunOfAssumption DEF DoorShape
  <2>7. recorded' \subseteq Run /\ delivered' \in [Run -> Status \cup {"none"}]
    BY <1>14, <2>6, DeliveredType DEF RecordKillTerminal
  <2>8. DriveTypeOK' /\ DrivesOK'
    BY <1>14, <2>7 DEF RecordKillTerminal, DriveTypeOK, DrivesOK
  <2> QED
    BY <1>14, <2>2, <2>5, <2>8 DEF RecordKillTerminal
<1>9. ASSUME NEW k \in Door, CompleteKill(k) \/ CompleteKillRaises(k)
      PROVE  AllTypes'
  <2> DEFINE me == door[k]
             rec == [me EXCEPT !.pc = "complete", !.at = NoPark]
  <2>1. me \in DoorRecord /\ DoorShape(me) /\ me.pc \in {"deliver", "record", "clear"}
    BY <1>9 DEF DoorsOK, CompleteKill, CompleteKillRaises
  <2>2. me.at \in Park
    BY <2>1 DEF DoorShape
  <2>3. StoreTypeOK'
    BY <1>9, <2>2, StoreTypes DEF CompleteKill, CompleteKillRaises, StoreStep
  <2>4. rec \in DoorRecord /\ DoorShape(rec)
    BY <2>1 DEF DoorRecord, DoorShape, DoorPc
  <2>5. door' = [door EXCEPT ![k] = rec]
    BY <1>9 DEF CompleteKill, CompleteKillRaises
  <2> HIDE DEF rec
  <2>6. door' \in [Door -> DoorRecord] /\ DoorsOK'
    BY <2>4, <2>5, DoorUpdate
  <2> QED
    BY <1>9, <2>3, <2>6, SameDrives DEF CompleteKill, CompleteKillRaises
<1>10. ASSUME NEW k \in Door, KillDone(k) \/ DoorDies(k)
       PROVE  AllTypes'
  <2>1. StoreTypeOK'
    BY <1>10, StoreTypes DEF KillDone, DoorDies, StoreStep
  <2>2. door' = [door EXCEPT ![k] = NoDoor]
    BY <1>10 DEF KillDone, DoorDies, Leave
  <2>3. door' \in [Door -> DoorRecord] /\ DoorsOK'
    BY <2>2, NoDoorType, DoorUpdate
  <2> QED
    BY <1>10, <2>1, <2>3, SameDrives DEF KillDone, DoorDies
<1>11. ASSUME NEW k \in Door, ExpireResume(k) \/ ExpireKill(k)
       PROVE  AllTypes'
  <2> DEFINE me == door[k]
             p == me.park
             rec == [me EXCEPT !.pc = "settle"]
  <2>1. me \in DoorRecord /\ DoorShape(me) /\ me.pc = "expire"
    BY <1>11 DEF DoorsOK, ExpireResume, ExpireKill
  <2>2. p \in Park
    BY <2>1 DEF DoorShape
  <2>3. rec \in DoorRecord /\ DoorShape(rec)
    BY <2>1 DEF DoorRecord, DoorShape, DoorPc
  <2> HIDE DEF rec
  <2>4. CASE AnswerPark(p) /\ Leave(k) /\ UNCHANGED <<told, kill_abandoned>>
    <3>1. door' = [door EXCEPT ![k] = NoDoor]
      BY <2>4 DEF Leave
    <3>2. door' \in [Door -> DoorRecord] /\ DoorsOK'
      BY <3>1, NoDoorType, DoorUpdate
    <3>3. StoreTypeOK' /\ DriveTypeOK' /\ DrivesOK'
      BY <2>2, <2>4, ContinuationTypes DEF DriveAction
    <3> QED
      BY <2>4, <3>2, <3>3
  <2>5. CASE Revoke(k, p, KillActOnPending, "failed")
                /\ UNCHANGED <<driveVars, told, kill_abandoned>>
    <3>1. "failed" \in Terminal
      BY DEF Terminal
    <3>2. StoreTypeOK' /\ door' \in [Door -> DoorRecord] /\ DoorsOK'
      BY <2>2, <2>5, <3>1, RevokeTypes
    <3> QED
      BY <2>5, <3>2, SameDrives
  <2>6. CASE door' = [door EXCEPT ![k] = rec]
               /\ UNCHANGED <<storeVars, driveVars, told, kill_abandoned>>
    <3>1. door' \in [Door -> DoorRecord] /\ DoorsOK'
      BY <2>3, <2>6, DoorUpdate
    <3>2. StoreTypeOK'
      BY <2>6, StoreTypes DEF StoreStep
    <3> QED
      BY <2>6, <3>1, <3>2, SameDrives
  <2> QED
    BY <1>11, <2>4, <2>5, <2>6 DEF ExpireResume, ExpireKill, rec
<1>12. ASSUME NEW k \in Door, SettleExpiry(k) \/ GiveUp(k) \/ RecordGiveUp(k)
       PROVE  AllTypes'
  <2> DEFINE me == door[k]
             p == me.park
             rec == [me EXCEPT !.pc = "record_giveup"]
  <2>1. /\ me \in DoorRecord /\ DoorShape(me) /\ me.pc # "idle"
        /\ p \in Park /\ RunOf[p] \in Run
    BY <1>12, RunOfAssumption DEF DoorsOK, DoorShape, SettleExpiry, GiveUp, RecordGiveUp
  <2>2. StoreTypeOK'
    BY <1>12, <2>1, StoreTypes DEF SettleExpiry, GiveUp, RecordGiveUp, StoreStep
  <2>3. \/ door' = [door EXCEPT ![k] = NoDoor]
        \/ door' = [door EXCEPT ![k] = rec]
    BY <1>12 DEF SettleExpiry, GiveUp, RecordGiveUp, Leave
  <2>4. rec \in DoorRecord /\ DoorShape(rec)
    BY <2>1 DEF DoorRecord, DoorShape, DoorPc
  <2> HIDE DEF rec
  <2>5. door' \in [Door -> DoorRecord] /\ DoorsOK'
    BY <2>3, <2>4, NoDoorType, DoorUpdate
  <2>6. CASE SettleExpiry(k) \/ GiveUp(k)
    BY <2>2, <2>5, <2>6, SameDrives DEF SettleExpiry, GiveUp
  <2>7. CASE RecordGiveUp(k)
    <3>1. recorded' \subseteq Run /\ delivered' \in [Run -> Status \cup {"none"}]
      BY <2>1, <2>7, DeliveredType DEF RecordGiveUp
    <3>2. DriveTypeOK' /\ DrivesOK'
      BY <2>7, <3>1 DEF RecordGiveUp, DriveTypeOK, DrivesOK
    <3> QED
      BY <2>2, <2>5, <2>7, <3>2 DEF RecordGiveUp
  <2> QED
    BY <1>12, <2>6, <2>7
<1>13. ASSUME NEW p \in Park, AbandonKill(p) \/ DropKill(p)
       PROVE  AllTypes'
  <2>1. StoreTypeOK'
    BY <1>13, StoreTypes DEF AbandonKill, DropKill, StoreStep
  <2> QED
    BY <1>13, <2>1, SameDrives DEF AbandonKill, DropKill, DoorsOK
<1> QED
  BY <1>1, <1>2, <1>3, <1>4, <1>5, <1>6, <1>7, <1>8, <1>9, <1>10, <1>11, <1>12,
     <1>13, <1>14 DEF DoorAction

-----------------------------------------------------------------------------
(***************************************************************************)
(* A hash or a record of the store ages out, and nothing else moves.       *)
(***************************************************************************)
AgeAction ==
  /\ \E p \in Park : StateAgesOut(p) \/ TicketAgesOut(p) \/ KillDueAgesOut(p)
  /\ UNCHANGED <<driveVars, doorVars, reaperVars>>

(***************************************************************************)
(* A step is a step of the drives, of the doors, or of time.               *)
(***************************************************************************)
LEMMA NextCases ==
  ASSUME Next
  PROVE  \/ DriveAction /\ UNCHANGED <<doorVars, reaperVars>>
         \/ DoorAction
         \/ AgeAction
<1>1. CASE Demand
  BY <1>1 DEF Demand, DriveAction, DoorAction
<1>2. CASE Resume
  BY <1>2 DEF Resume, DriveAction
<1>3. ASSUME NEW k \in Door, KillStep(k) \/ ReaperStep(k)
      PROVE  DoorAction
  BY <1>3 DEF KillStep, ReaperStep, DoorAction
<1>4. ASSUME NEW k \in Door, NEW p \in Park, ReaperStart(k, p)
      PROVE  DoorAction
  BY <1>4 DEF ReaperStart, DoorAction
<1>5. CASE \E p \in Park : DropKill(p)
  BY <1>5 DEF DoorAction
<1>6. CASE Fault
  BY <1>6 DEF Fault, DriveAction, DoorAction
<1>7. CASE Lapse
  BY <1>7 DEF Lapse, AgeAction, DoorAction
<1> QED
  BY <1>1, <1>2, <1>3, <1>4, <1>5, <1>6, <1>7 DEF Next, Progress, Trouble

(***************************************************************************)
(* The reaper's two reports are the only steps that add to its history.    *)
(***************************************************************************)
LEMMA HistoryStep ==
  ASSUME Next
  PROVE  /\ UNCHANGED abandoned \/ \E k \in Door : SettleExpiry(k)
         /\ UNCHANGED dropped \/ \E k \in Door, p \in Park : DropContinuation(k, p)
<1> USE DEF reaperVars
<1>1. CASE Demand \/ Resume \/ Fault \/ Lapse
  BY <1>1 DEF Demand, Resume, Fault, Lapse
<1>2. ASSUME NEW k \in Door, KillStep(k) \/ ReaperStep(k)
      PROVE  /\ UNCHANGED abandoned \/ SettleExpiry(k)
             /\ UNCHANGED dropped
  BY <1>2 DEF KillStep, ReaperStep, ExpireResume, ExpireKill, SettleExpiry, GiveUp,
               RecordGiveUp
<1>3. ASSUME NEW k \in Door, NEW p \in Park, ReaperStart(k, p)
      PROVE  /\ UNCHANGED abandoned
             /\ UNCHANGED dropped \/ DropContinuation(k, p)
  BY <1>3 DEF ReaperStart, ReapRead, DropContinuation
<1>4. CASE \E p \in Park : DropKill(p) /\ UNCHANGED reaperVars
  BY <1>4
<1> QED
  BY <1>1, <1>2, <1>3, <1>4 DEF Next, Progress, Trouble

(***************************************************************************)
(* TypeOK, with the shapes of the drives and doors in flight that make it  *)
(* inductive.                                                              *)
(***************************************************************************)
TypeInv ==
  /\ AllTypes
  /\ abandoned \subseteq Park
  /\ dropped \subseteq Park
  /\ faults \in 0..Faults

LEMMA TypeInit == Init => TypeInv
<1> SUFFICES ASSUME Init PROVE TypeInv
  OBVIOUS
<1>1. StoreTypeOK
  BY DEF Init, StoreInit, StoreTypeOK
<1>2. DriveTypeOK /\ DrivesOK
  BY NoDriveType DEF Init, DriveInit, DriveTypeOK, DrivesOK
<1>3. DoorTypeOK /\ DoorsOK
  BY NoDoorType DEF Init, DoorInit, DoorTypeOK, DoorsOK
<1>4. faults \in 0..Faults
  BY FaultsAssumption DEF Init
<1> QED
  BY <1>1, <1>2, <1>3, <1>4 DEF Init, TypeInv, AllTypes

LEMMA TypeStep == TypeInv /\ [Next]_vars => TypeInv'
<1> SUFFICES ASSUME TypeInv, [Next]_vars PROVE TypeInv'
  OBVIOUS
<1> USE DEF TypeInv
<1>1. CASE UNCHANGED vars
  <2>1. StoreTypeOK'
    BY <1>1, StoreTypes DEF vars, StoreStep, AllTypes
  <2>2. DriveTypeOK' /\ DrivesOK'
    BY <1>1, SameDrives DEF vars, AllTypes
  <2>3. DoorTypeOK' /\ DoorsOK'
    BY <1>1 DEF vars, AllTypes, doorVars, DoorTypeOK, DoorsOK
  <2> QED
    BY <1>1, <2>1, <2>2, <2>3 DEF vars, AllTypes, reaperVars
<1>2. CASE Next
  <2>1. ASSUME DriveAction, UNCHANGED <<doorVars, reaperVars>>
        PROVE  AllTypes'
    <3>1. StoreTypeOK' /\ DriveTypeOK' /\ DrivesOK'
      BY <2>1, ContinuationTypes DEF AllTypes
    <3>2. DoorTypeOK' /\ DoorsOK'
      BY <2>1 DEF AllTypes, doorVars, DoorTypeOK, DoorsOK
    <3> QED
      BY <3>1, <3>2 DEF AllTypes
  <2>2. ASSUME DoorAction PROVE AllTypes'
    BY <2>2, KillTypes
  <2>3. ASSUME AgeAction PROVE AllTypes'
    <3>1. StoreTypeOK'
      BY <2>3, StoreTypes DEF AgeAction, StoreStep, AllTypes
    <3>2. DriveTypeOK' /\ DrivesOK'
      BY <2>3, SameDrives DEF AgeAction, AllTypes
    <3>3. DoorTypeOK' /\ DoorsOK'
      BY <2>3 DEF AgeAction, AllTypes, doorVars, DoorTypeOK, DoorsOK
    <3> QED
      BY <3>1, <3>2, <3>3 DEF AllTypes
  <2>4. AllTypes'
    BY <1>2, <2>1, <2>2, <2>3, NextCases
  <2>5. abandoned' \subseteq Park
    <3>1. ASSUME NEW k \in Door, SettleExpiry(k) PROVE abandoned' \subseteq Park
      BY <3>1 DEF SettleExpiry, AllTypes, DoorsOK, DoorShape
    <3> QED
      BY <1>2, <3>1, HistoryStep
  <2>6. dropped' \subseteq Park
    BY <1>2, HistoryStep DEF DropContinuation
  <2>7. faults' \in 0..Faults
    BY <1>2, FaultsAssumption DEF Next, Progress, Trouble
  <2> QED
    BY <2>4, <2>5, <2>6, <2>7
<1> QED
  BY <1>1, <1>2

(***************************************************************************)
(* Every state the lifecycle reaches is well typed: no store operation,    *)
(* drive step or kill step leaves a field outside its values, and no drive *)
(* or door acts on a park it does not have.                                *)
(***************************************************************************)
THEOREM TypeCorrect == Spec => []TypeOK
<1>1. Spec => []TypeInv
  BY TypeInit, TypeStep, PTL DEF Spec
<1>2. TypeInv => TypeOK
  BY DEF TypeInv, AllTypes, TypeOK
<1> QED
  BY <1>1, <1>2, PTL

-----------------------------------------------------------------------------
(***************************************************************************)
(* What a step does to the store, by the properties it concerns: a park is *)
(* written by its ask only, a ticket is taken from the due index by a      *)
(* drive's clear, by the loud drop or by a kill.                           *)
(***************************************************************************)
PlainStoreStep ==
  \/ \E p \in Park : \/ RecordAnswer(p) \/ PrunePending(p) \/ ClearKillDue(p)
                     \/ DropExpiryMember(p) \/ DropOrphanKill(p)
                     \/ StateAgesOut(p) \/ TicketAgesOut(p) \/ KillDueAgesOut(p)
  \/ \E p \in Park, terminal \in Terminal : EnqueueKill(p, terminal)
  \/ UNCHANGED storeVars

Written == \E d \in Drive : AskWrite(d)
Cleared == \E d \in Drive : ClearDue(d)
DroppedLoud == \E k \in Door, p \in Park : DropContinuation(k, p)

LEMMA RevokeStores ==
  ASSUME NEW k \in Door, NEW p \in Park, NEW act_on, NEW terminal \in Terminal,
         Revoke(k, p, act_on, terminal)
  PROVE  PlainStoreStep
  BY DEF Revoke, PlainStoreStep

LEMMA StoreCases ==
  ASSUME TypeInv, Next
  PROVE  PlainStoreStep \/ Written \/ Cleared \/ DroppedLoud
<1> USE DEF TypeInv, AllTypes
<1>1. ASSUME DriveAction
      PROVE  PlainStoreStep \/ Written \/ Cleared
  <2>1. ASSUME NEW d \in Drive, NEW r \in Run, StartRun(d, r)
        PROVE  PlainStoreStep
    BY <2>1 DEF StartRun, PlainStoreStep
  <2>5. ASSUME NEW r \in Run, TakeOutcome(r)
        PROVE  PlainStoreStep
    BY <2>5 DEF TakeOutcome, PlainStoreStep
  <2>2. ASSUME NEW p \in Park, AnswerPark(p) \/ DispatchLost(p)
        PROVE  PlainStoreStep
    BY <2>2 DEF AnswerPark, DispatchLost, PlainStoreStep
  <2>3. ASSUME NEW d \in Drive, NEW p \in Park,
               DispatchContinuation(d, p) \/ RedeliverContinuation(d, p)
        PROVE  PlainStoreStep
    BY <2>3 DEF DispatchContinuation, RedeliverContinuation, PlainStoreStep
  <2>4. ASSUME NEW d \in Drive, DriveStep(d) \/ DriveDies(d),
               ~AskWrite(d), ~ClearDue(d)
        PROVE  PlainStoreStep
    <3>1. CASE AskDeliveryFails(d)
      <4>1. drive[d].ask \in Park
        BY <3>1 DEF AskDeliveryFails, DrivesOK, DriveShape
      <4> QED
        BY <3>1, <4>1 DEF AskDeliveryFails, PlainStoreStep
    <3>2. CASE \/ AssertResumeAuthorized(d) \/ AskDeliver(d) \/ ReturnSuspended(d)
               \/ TicketStands(d) \/ DeliverOutcome(d) \/ RecordOutcome(d)
               \/ DriveDies(d)
      BY <3>2 DEF AssertResumeAuthorized, AskDeliver, ReturnSuspended, TicketStands,
                  DeliverOutcome, RecordOutcome, DriveDies, PlainStoreStep
    <3>3. CASE \E q \in Park : AskCheck(d, q)
      BY <3>3 DEF AskCheck, PlainStoreStep
    <3>4. CASE \E status \in Status : ReturnTerminal(d, status)
      BY <3>4 DEF ReturnTerminal, PlainStoreStep
    <3> QED
      BY <2>4, <3>1, <3>2, <3>3, <3>4 DEF DriveStep
  <2> QED
    BY <1>1, <2>1, <2>2, <2>3, <2>4, <2>5 DEF DriveAction, Written, Cleared
<1>2. ASSUME DoorAction
      PROVE  PlainStoreStep \/ DroppedLoud
  <2>1. ASSUME NEW k \in Door, NEW p \in Park, CancelPark(k, p) \/ EraseMember(k, p)
        PROVE  PlainStoreStep
    <3>1. "withdrawn" \in Terminal
      BY DEF Terminal
    <3> QED
      BY <2>1, <3>1, RevokeStores DEF CancelPark, EraseMember
  <2>2. ASSUME NEW k \in Door, NEW p \in Park, RevokeMember(k, p)
        PROVE  PlainStoreStep
    <3>1. door[k].terminal \in Terminal
      BY DEF DoorTypeOK, DoorRecord
    <3> QED
      BY <2>2, <3>1 DEF RevokeMember, PlainStoreStep
  <2>3. ASSUME NEW k \in Door, NEW p \in Park,
               \/ FireParkKilled(k, p) \/ ParkKillNotReady(k, p)
               \/ RedeliverKill(k, p) \/ ReapRead(k, p)
        PROVE  PlainStoreStep
    BY <2>3 DEF FireParkKilled, ParkKillNotReady, RedeliverKill, ReapRead, PlainStoreStep
  <2>4. ASSUME NEW k \in Door,
               \/ WithdrawChannelDelivery(k) \/ RunMembers(k) \/ WithdrawMember(k)
               \/ DeliverKillTerminal(k) \/ RecordKillTerminal(k) \/ KillDone(k)
               \/ CompleteKillRaises(k) \/ DoorDies(k) \/ GiveUp(k) \/ RecordGiveUp(k)
        PROVE  PlainStoreStep
    BY <2>4 DEF WithdrawChannelDelivery, RunMembers, WithdrawMember,
                DeliverKillTerminal, RecordKillTerminal, KillDone, CompleteKillRaises,
                DoorDies, GiveUp, RecordGiveUp, PlainStoreStep
  <2>5. ASSUME NEW k \in Door, CompleteKill(k)
        PROVE  PlainStoreStep
    <3>1. door[k].at \in Park
      BY <2>5 DEF CompleteKill, DoorsOK, DoorShape
    <3> QED
      BY <2>5, <3>1 DEF CompleteKill, PlainStoreStep
  <2>6. ASSUME NEW k \in Door, ExpireResume(k) \/ ExpireKill(k) \/ SettleExpiry(k)
        PROVE  PlainStoreStep
    <3>1. door[k].park \in Park
      BY <2>6 DEF ExpireResume, ExpireKill, SettleExpiry, DoorsOK, DoorShape
    <3>2. "failed" \in Terminal
      BY DEF Terminal
    <3>3. CASE ExpireResume(k)
      BY <3>1, <3>3 DEF ExpireResume, AnswerPark, PlainStoreStep
    <3>4. CASE ExpireKill(k)
      <4>1. \/ Revoke(k, door[k].park, KillActOnPending, "failed")
            \/ UNCHANGED storeVars
        BY <3>4 DEF ExpireKill
      <4> QED
        BY <3>1, <3>2, <4>1, RevokeStores DEF PlainStoreStep
    <3>5. CASE SettleExpiry(k)
      BY <3>1, <3>5 DEF SettleExpiry, PlainStoreStep
    <3> QED
      BY <2>6, <3>3, <3>4, <3>5
  <2>7. ASSUME NEW p \in Park, AbandonKill(p) \/ DropKill(p)
        PROVE  PlainStoreStep
    BY <2>7 DEF AbandonKill, DropKill, PlainStoreStep
  <2> QED
    BY <1>2, <2>1, <2>2, <2>3, <2>4, <2>5, <2>6, <2>7 DEF DoorAction, DroppedLoud
<1>3. ASSUME AgeAction
      PROVE  PlainStoreStep
  BY <1>3 DEF AgeAction, PlainStoreStep
<1> QED
  BY <1>1, <1>2, <1>3, NextCases

-----------------------------------------------------------------------------
(***************************************************************************)
(* No claimed answer is lost.                                              *)
(***************************************************************************)

(***************************************************************************)
(* The run of a resume has something to show for it.                       *)
(***************************************************************************)
Ended(p) == delivered[RunOf[p]] # "none" \/ p \in moved

(***************************************************************************)
(* A drive about to clear its ticket got its outcome, or its wait, out     *)
(* first, and a record under the completion id is of an outcome delivered: *)
(* the order that makes the property inductive.                            *)
(***************************************************************************)
OwedInv ==
  /\ continuation_due \subseteq continuation_due_index
  /\ ClaimedResumeNotLost
  /\ \A d \in Drive : drive[d].pc = "clear" => Ended(drive[d].park)
  /\ \A r \in recorded : delivered[r] # "none"

LEMMA EndedDrives ==
  ASSUME TypeInv, DriveAction
  PROVE  /\ moved \subseteq moved'
         /\ \A r \in Run : delivered[r] # "none" => delivered'[r] # "none"
         /\ \A r \in recorded' : r \in recorded \/ delivered'[r] # "none"
<1>1. CASE \/ \E d \in Drive, r \in Run : StartRun(d, r)
           \/ \E r \in Run : TakeOutcome(r)
  BY <1>1 DEF StartRun, TakeOutcome
<1>2. CASE \E p \in Park : AnswerPark(p) \/ DispatchLost(p)
  BY <1>2 DEF AnswerPark, DispatchLost
<1>3. CASE \E d \in Drive, p \in Park : \/ DispatchContinuation(d, p)
                                       \/ RedeliverContinuation(d, p)
  BY <1>3 DEF DispatchContinuation, RedeliverContinuation
<1>4. CASE \E d \in Drive : \/ AssertResumeAuthorized(d) \/ AskWrite(d) \/ AskDeliver(d)
                           \/ AskDeliveryFails(d) \/ TicketStands(d)
                           \/ DeliverOutcome(d) \/ ClearDue(d) \/ DriveDies(d)
  BY <1>4 DEF AssertResumeAuthorized, AskWrite, AskDeliver, AskDeliveryFails,
              TicketStands, DeliverOutcome, ClearDue, DriveDies
<1>5. CASE \E d \in Drive, q \in Park : AskCheck(d, q)
  BY <1>5 DEF AskCheck
<1>6. CASE \E d \in Drive, status \in Status : ReturnTerminal(d, status)
  BY <1>6 DEF ReturnTerminal
<1>7. CASE \E d \in Drive : ReturnSuspended(d)
  BY <1>7 DEF ReturnSuspended
<1>8. ASSUME NEW d \in Drive, RecordOutcome(d)
      PROVE  /\ moved \subseteq moved'
             /\ \A r \in Run : delivered[r] # "none" => delivered'[r] # "none"
             /\ \A r \in recorded' : r \in recorded \/ delivered'[r] # "none"
  <2>1. /\ delivered \in [Run -> Status \cup {"none"}]
        /\ drive[d].status \in Status /\ drive[d].run \in Run
    BY <1>8 DEF TypeInv, AllTypes, DriveTypeOK, DriveRecord, DrivesOK, DriveShape,
                RecordOutcome
  <2> QED
    BY <1>8, <2>1 DEF RecordOutcome, Land, Status
<1> QED
  BY <1>1, <1>2, <1>3, <1>4, <1>5, <1>6, <1>7, <1>8 DEF DriveAction, DriveStep

LEMMA EndedDoors ==
  ASSUME TypeInv, DoorAction
  PROVE  /\ moved \subseteq moved'
         /\ \A r \in Run : delivered[r] # "none" => delivered'[r] # "none"
         /\ \A r \in recorded' : r \in recorded \/ delivered'[r] # "none"
<1> USE DEF driveVars
<1>0. delivered \in [Run -> Status \cup {"none"}]
  BY DEF TypeInv, AllTypes, DriveTypeOK
<1>1. CASE \E k \in Door, p \in Park :
             \/ CancelPark(k, p) \/ EraseMember(k, p) \/ RevokeMember(k, p)
             \/ FireParkKilled(k, p) \/ ParkKillNotReady(k, p) \/ RedeliverKill(k, p)
             \/ ReapRead(k, p) \/ DropContinuation(k, p)
  BY <1>1 DEF CancelPark, EraseMember, RevokeMember, FireParkKilled, ParkKillNotReady,
              RedeliverKill, ReapRead, DropContinuation
<1>2. CASE \E k \in Door :
             \/ WithdrawChannelDelivery(k) \/ RunMembers(k) \/ WithdrawMember(k)
             \/ CompleteKill(k) \/ KillDone(k) \/ CompleteKillRaises(k) \/ DoorDies(k)
  BY <1>2 DEF WithdrawChannelDelivery, RunMembers, WithdrawMember, CompleteKill,
              KillDone, CompleteKillRaises, DoorDies
<1>3. CASE \E k \in Door : ExpireResume(k) \/ ExpireKill(k) \/ SettleExpiry(k)
  BY <1>3 DEF ExpireResume, ExpireKill, SettleExpiry, AnswerPark
<1>4. CASE \E k \in Door : DeliverKillTerminal(k) \/ GiveUp(k)
  BY <1>4 DEF DeliverKillTerminal, GiveUp
<1>6. CASE \E k \in Door : RecordKillTerminal(k) \/ RecordGiveUp(k)
  <2>1. \A k \in Door : DoorShape(door[k])
    BY DEF TypeInv, AllTypes, DoorsOK
  <2>2. \A k \in Door : door[k].pc # "idle" => RunOf[door[k].park] \in Run
    BY <2>1, RunOfAssumption DEF DoorShape
  <2> QED
    BY <1>0, <1>6, <2>1, <2>2 DEF RecordKillTerminal, RecordGiveUp, Land, Status, DoorShape
<1>5. CASE \E p \in Park : AbandonKill(p) \/ DropKill(p)
  BY <1>5 DEF AbandonKill, DropKill
<1> QED
  BY <1>1, <1>2, <1>3, <1>4, <1>5, <1>6 DEF DoorAction

(***************************************************************************)
(* What a run has to show is never taken back.                             *)
(***************************************************************************)
LEMMA DischargeStays ==
  ASSUME TypeInv, Next
  PROVE  /\ \A p \in Park : Ended(p) => Ended(p)'
         /\ \A p \in Park : Discharged(p) => Discharged(p)'
<1>1. /\ moved \subseteq moved'
      /\ \A r \in Run : delivered[r] # "none" => delivered'[r] # "none"
  BY NextCases, EndedDrives, EndedDoors DEF AgeAction, driveVars
<1>2. run_killed \subseteq run_killed'
  <2>1. CASE PlainStoreStep
    BY <2>1 DEF PlainStoreStep, RecordAnswer, PrunePending, ClearKillDue,
                DropExpiryMember, DropOrphanKill, StateAgesOut, TicketAgesOut,
                KillDueAgesOut, EnqueueKill, storeVars, redisVars
  <2>2. CASE Written \/ Cleared
    BY <2>2 DEF Written, Cleared, AskWrite, ClearDue, Add, ClearContinuationDue
  <2>3. CASE DroppedLoud
    BY <2>3 DEF DroppedLoud, DropContinuation, DropOrphanContinuation
  <2> QED
    BY <2>1, <2>2, <2>3, StoreCases
<1>3. dropped \subseteq dropped'
  BY HistoryStep DEF DropContinuation
<1>4. \A p \in Park : RunOf[p] \in Run
  BY RunOfAssumption
<1> QED
  BY <1>1, <1>2, <1>3, <1>4 DEF Ended, Discharged

LEMMA DoorsLeaveDrives ==
  ASSUME DoorAction
  PROVE  UNCHANGED <<drive, minted>>
<1> USE DEF driveVars
<1>1. CASE \E k \in Door, p \in Park :
             \/ CancelPark(k, p) \/ EraseMember(k, p) \/ RevokeMember(k, p)
             \/ FireParkKilled(k, p) \/ ParkKillNotReady(k, p) \/ RedeliverKill(k, p)
             \/ ReapRead(k, p) \/ DropContinuation(k, p)
  BY <1>1 DEF CancelPark, EraseMember, RevokeMember, FireParkKilled, ParkKillNotReady,
              RedeliverKill, ReapRead, DropContinuation
<1>2. CASE \E k \in Door :
             \/ WithdrawChannelDelivery(k) \/ RunMembers(k) \/ WithdrawMember(k)
             \/ DeliverKillTerminal(k) \/ RecordKillTerminal(k) \/ CompleteKill(k)
             \/ KillDone(k) \/ CompleteKillRaises(k) \/ DoorDies(k)
             \/ ExpireResume(k) \/ ExpireKill(k) \/ SettleExpiry(k)
             \/ GiveUp(k) \/ RecordGiveUp(k)
  BY <1>2 DEF WithdrawChannelDelivery, RunMembers, WithdrawMember, DeliverKillTerminal,
              RecordKillTerminal, CompleteKill, KillDone, CompleteKillRaises, DoorDies,
              ExpireResume, ExpireKill, SettleExpiry, GiveUp, RecordGiveUp, AnswerPark
<1>3. CASE \E p \in Park : AbandonKill(p) \/ DropKill(p)
  BY <1>3 DEF AbandonKill, DropKill
<1> QED
  BY <1>1, <1>2, <1>3 DEF DoorAction

(***************************************************************************)
(* A drive comes to its clear from its wait or from its delivery.          *)
(***************************************************************************)
LEMMA DriveClears ==
  ASSUME TypeInv, Next,
         \A e \in Drive : drive[e].pc = "clear" => Ended(drive[e].park),
         \A r \in recorded : delivered[r] # "none",
         NEW d \in Drive, drive'[d].pc = "clear"
  PROVE  Ended(drive[d].park)'
<1> DEFINE stays == drive[d].pc = "clear" /\ drive'[d].park = drive[d].park
<1>0. /\ drive \in [Drive -> DriveRecord]
      /\ delivered \in [Run -> Status \cup {"none"}]
      /\ drive[d].pc = "clear" => drive[d].park \in Park
  BY DEF TypeInv, AllTypes, DriveTypeOK, DrivesOK, DriveShape
<1>1. stays => Ended(drive[d].park)'
  <2>1. ASSUME stays PROVE Ended(drive[d].park)'
    <3>1. Ended(drive[d].park) /\ drive[d].park \in Park
      BY <1>0, <2>1
    <3>2. delivered'[RunOf[drive[d].park]] # "none" \/ drive[d].park \in moved'
      BY <3>1, DischargeStays DEF Ended
    <3> QED
      BY <2>1, <3>2 DEF Ended
  <2> QED
    BY <2>1
<1>2. CASE UNCHANGED drive
  BY <1>1, <1>2
<1>3. ASSUME NEW e \in Drive, NEW rec \in DriveRecord, rec.pc # "clear",
             drive' = [drive EXCEPT ![e] = rec]
      PROVE  Ended(drive[d].park)'
  <2>1. e # d
    BY <1>0, <1>3
  <2>2. drive'[d] = drive[d]
    BY <1>0, <1>3, <2>1
  <2> QED
    BY <1>1, <2>2
<1> HIDE DEF stays
<1>4. CASE DriveAction
  <2>1. CASE \E p \in Park : AnswerPark(p) \/ DispatchLost(p)
    BY <1>2, <2>1 DEF AnswerPark, DispatchLost
  <2>5. CASE \E r \in Run : TakeOutcome(r)
    BY <1>2, <2>5 DEF TakeOutcome
  <2>2. ASSUME NEW e \in Drive, NEW r \in Run, StartRun(e, r)
        PROVE  Ended(drive[d].park)'
    <3> DEFINE rec == [NoDrive EXCEPT !.pc = "running", !.run = r]
    <3>1. rec \in DriveRecord /\ rec.pc # "clear"
      BY NoDriveType DEF NoDrive, DriveRecord, Pc
    <3>2. drive' = [drive EXCEPT ![e] = rec]
      BY <2>2 DEF StartRun
    <3> HIDE DEF rec
    <3> QED
      BY <1>3, <3>1, <3>2
  <2>3. ASSUME NEW e \in Drive, NEW p \in Park,
               DispatchContinuation(e, p) \/ RedeliverContinuation(e, p)
        PROVE  Ended(drive[d].park)'
    <3>1. drive' = [drive EXCEPT ![e] = ResumeOf(p)]
      BY <2>3 DEF DispatchContinuation, RedeliverContinuation
    <3>2. ResumeOf(p).pc # "clear"
      BY DEF ResumeOf, NoDrive
    <3> QED
      BY <1>3, <3>1, <3>2, ResumeOfType
  <2>4. ASSUME NEW e \in Drive, DriveStep(e) \/ DriveDies(e)
        PROVE  Ended(drive[d].park)'
    <3>1. CASE e # d
      <4>1. drive'[d] = drive[d]
        BY <1>0, <2>4, <3>1
           DEF DriveStep, AssertResumeAuthorized, AskCheck, AskWrite, AskDeliver,
               AskDeliveryFails, ReturnSuspended, ReturnTerminal, TicketStands,
               DeliverOutcome, RecordOutcome, ClearDue, DriveDies, End, Go
      <4> QED
        BY <1>1, <4>1 DEF stays
    <3>2. CASE e = d /\ ReturnSuspended(d)
      <4>1. /\ drive' = [drive EXCEPT ![d].pc = "clear"]
            /\ moved' = moved \cup {drive[d].park}
        BY <1>0, <3>2 DEF ReturnSuspended, End, Go, NoDrive
      <4>2. drive'[d].park = drive[d].park
        BY <1>0, <4>1 DEF DriveRecord
      <4> QED
        BY <4>1, <4>2 DEF Ended
    <3>3. CASE e = d /\ (DeliverOutcome(d) \/ RecordOutcome(d))
      <4>1. drive'[d].park = drive[d].park
        BY <1>0, <3>3 DEF DeliverOutcome, RecordOutcome, Go, DriveRecord
      <4>2. /\ drive[d].run = RunOf[drive[d].park]
            /\ drive[d].run \in Run
            /\ drive[d].status \in Status
        BY <1>0, <3>3, NoParkAssumption
           DEF DeliverOutcome, RecordOutcome, TypeInv, AllTypes, DrivesOK, DriveShape,
               DriveRecord
      <4>3. CASE DeliverOutcome(d)
        <5>1. drive'[d].pc = IF Lands(drive[d].run, drive[d].status)
                             THEN "record" ELSE "clear"
          BY <1>0, <4>3 DEF DeliverOutcome, Go, DriveRecord
        <5>2. ~Lands(drive[d].run, drive[d].status)
          BY <5>1
        <5>3. delivered'[drive[d].run] # "none"
          BY <4>2, <4>3, <5>2 DEF DeliverOutcome, Lands
        <5> QED
          BY <4>1, <4>2, <5>3 DEF Ended
      <4>4. CASE RecordOutcome(d)
        <5>1. delivered'[drive[d].run] # "none"
          BY <1>0, <4>2, <4>4 DEF RecordOutcome, Land, Status
        <5> QED
          BY <4>1, <4>2, <5>1 DEF Ended
      <4> QED
        BY <3>3, <4>3, <4>4
    <3>4. CASE e = d /\ ~ReturnSuspended(d) /\ ~DeliverOutcome(d) /\ ~RecordOutcome(d)
      <4>1. drive'[d].pc # "clear"
        BY <1>0, <2>4, <3>4
           DEF DriveStep, AssertResumeAuthorized, AskCheck, AskWrite, AskDeliver,
               AskDeliveryFails, ReturnTerminal, TicketStands, ClearDue, DriveDies,
               End, Go, NoDrive, DriveRecord
      <4> QED
        BY <4>1
    <3> QED
      BY <3>1, <3>2, <3>3, <3>4
  <2> QED
    BY <1>4, <2>1, <2>2, <2>3, <2>4, <2>5 DEF DriveAction
<1>5. CASE DoorAction
  BY <1>2, <1>5, DoorsLeaveDrives
<1>6. CASE AgeAction
  BY <1>2, <1>6 DEF AgeAction, driveVars
<1> QED
  BY <1>4, <1>5, <1>6, NextCases

LEMMA OwedStep == TypeInv /\ OwedInv /\ [Next]_vars => OwedInv'
<1> SUFFICES ASSUME TypeInv, OwedInv, [Next]_vars PROVE OwedInv'
  OBVIOUS
<1> USE DEF OwedInv, ClaimedResumeNotLost
<1>1. CASE UNCHANGED vars
  BY <1>1 DEF vars, storeVars, redisVars, driveVars, reaperVars, Ended, Discharged
<1>2. CASE Next
  <2> DEFINE Kept == /\ continuation_due' \subseteq continuation_due_index'
                     /\ \A p \in claimed' :
                          p \in continuation_due_index' \/ Discharged(p)'
  <2>1. \A d \in Drive : drive'[d].pc = "clear" => Ended(drive[d].park)'
    BY <1>2, DriveClears
  <2>2. \A p \in Park : Discharged(p) => Discharged(p)'
    BY <1>2, DischargeStays
  <2>3. \A p \in Park : RunOf[p] \in run_killed' => Discharged(p)'
    BY DEF Discharged
  <2>4. claimed \subseteq Park
    BY DEF TypeInv, AllTypes, StoreTypeOK
  <2>5. Kept
    <3>1. CASE PlainStoreStep
      <4>1. CASE \E p \in Park : RecordAnswer(p)
        BY <2>2, <2>4, <4>1 DEF RecordAnswer
      <4>2. ASSUME NEW p \in Park, NEW terminal \in Terminal, EnqueueKill(p, terminal)
            PROVE  Kept
        <5>1. Discharged(p)'
          BY <2>3, <4>2 DEF EnqueueKill
        <5> QED
          BY <2>2, <2>4, <4>2, <5>1 DEF EnqueueKill
      <4>3. CASE \/ \E p \in Park : \/ PrunePending(p) \/ ClearKillDue(p)
                                    \/ DropExpiryMember(p) \/ DropOrphanKill(p)
                                    \/ StateAgesOut(p) \/ TicketAgesOut(p)
                                    \/ KillDueAgesOut(p)
                 \/ UNCHANGED storeVars
        BY <2>2, <2>4, <4>3
           DEF PrunePending, ClearKillDue, DropExpiryMember, DropOrphanKill,
               StateAgesOut, TicketAgesOut, KillDueAgesOut, storeVars, redisVars
      <4> QED
        BY <3>1, <4>1, <4>2, <4>3 DEF PlainStoreStep
    <3>2. CASE Written
      BY <2>2, <2>4, <3>2 DEF Written, AskWrite, Add
    <3>3. ASSUME NEW d \in Drive, ClearDue(d)
          PROVE  Kept
      <4>1. PICK q \in Park : q = drive[d].park
        BY <3>3 DEF ClearDue, TypeInv, AllTypes, DrivesOK, DriveShape
      <4>2. Discharged(q)
        BY <3>3, <4>1 DEF ClearDue, Ended, Discharged
      <4>3. Discharged(q)'
        BY <2>2, <4>2
      <4> QED
        BY <2>2, <2>4, <3>3, <4>1, <4>3 DEF ClearDue, ClearContinuationDue
    <3>4. ASSUME NEW k \in Door, NEW p \in Park, DropContinuation(k, p)
          PROVE  Kept
      <4>1. Discharged(p)'
        BY <3>4 DEF DropContinuation, Discharged
      <4> QED
        BY <2>2, <2>4, <3>4, <4>1 DEF DropContinuation, DropOrphanContinuation
    <3> QED
      BY <1>2, <3>1, <3>2, <3>3, <3>4, StoreCases DEF Cleared, DroppedLoud
  <2>6. (\A d \in Drive : drive[d].pc = "clear" => Ended(drive[d].park))'
    BY <2>1
  <2>7. \A r \in recorded' : delivered'[r] # "none"
    <3>1. /\ \A r \in recorded' : r \in recorded \/ delivered'[r] # "none"
          /\ \A r \in Run : delivered[r] # "none" => delivered'[r] # "none"
      BY <1>2, NextCases, EndedDrives, EndedDoors DEF AgeAction, driveVars
    <3>2. recorded \subseteq Run
      BY DEF TypeInv, AllTypes, DriveTypeOK
    <3> QED
      BY <3>1, <3>2
  <2> QED
    BY <2>5, <2>6, <2>7
<1> QED
  BY <1>1, <1>2

(***************************************************************************)
(* A claimed answer is never lost: while its run has no outcome, does not  *)
(* wait on and was not taken down, its due-index member stands, however    *)
(* many drives resumed it and wherever they died.                          *)
(***************************************************************************)
THEOREM ClaimsAreKept == Spec => []ClaimedResumeNotLost
<1>1. Init => OwedInv
  BY DEF Init, StoreInit, DriveInit, OwedInv, ClaimedResumeNotLost, NoDrive
<1>2. Spec => []TypeInv
  BY TypeInit, TypeStep, PTL DEF Spec
<1>3. Spec => []OwedInv
  BY <1>1, <1>2, OwedStep, PTL DEF Spec
<1>4. OwedInv => ClaimedResumeNotLost
  BY DEF OwedInv
<1> QED
  BY <1>3, <1>4, PTL

-----------------------------------------------------------------------------
(***************************************************************************)
(* One door resolves a park, and only a park nobody resolved is abandoned. *)
(***************************************************************************)

(***************************************************************************)
(* Two drives never ask under one id, and an id being asked is in use.     *)
(***************************************************************************)
AskersInv ==
  /\ \A d \in Drive : drive[d].pc = "asking" => drive[d].ask \in minted
  /\ \A d, e \in Drive :
       d # e /\ drive[d].pc = "asking" /\ drive[e].pc = "asking"
         => drive[d].ask # drive[e].ask

(***************************************************************************)
(* What the history says of a park, by where the park stands.              *)
(***************************************************************************)
ParkInv(p) ==
  /\ Unwritten(p) => /\ state[p] = "absent"
                     /\ p \notin claimed \cup pruned \cup pending_expiry \cup abandoned
  /\ ~(p \in claimed /\ p \in pruned)
  /\ state[p] = "pending" => p \notin claimed \cup pruned
  /\ state[p] = "answered" => p \in claimed
  /\ p \in pending_expiry => p \notin claimed \cup pruned
  /\ p \in abandoned => p \notin claimed \cup pruned /\ state[p] = "absent"

(***************************************************************************)
(* A reaper step that settles a park read it no longer pending, and it     *)
(* stays so.                                                               *)
(***************************************************************************)
SettlerInv(k) ==
  /\ door[k].pc \in {"expire", "settle"} => ~Unwritten(door[k].park)
  /\ door[k].pc = "settle" => state[door[k].park] # "pending"

ResolveInv ==
  /\ AskersInv
  /\ \A p \in Park : ParkInv(p)
  /\ \A k \in Door : SettlerInv(k)

(***************************************************************************)
(* What a step of a drive leaves: at most one slot moves, and it comes to  *)
(* ask only under an id that was not in use.                               *)
(***************************************************************************)
LEMMA AskSteps ==
  ASSUME TypeInv, Next
  PROVE  /\ minted \subseteq minted'
         /\ \A d \in Drive : drive'[d].pc = "asking" =>
              \/ drive[d].pc = "asking" /\ drive'[d].ask = drive[d].ask
              \/ /\ drive'[d].ask \in minted' \ minted
                 /\ \A e \in Drive \ {d} : drive'[e] = drive[e]
<1> DEFINE Goal == /\ minted \subseteq minted'
                   /\ \A d \in Drive : drive'[d].pc = "asking" =>
                        \/ drive[d].pc = "asking" /\ drive'[d].ask = drive[d].ask
                        \/ /\ drive'[d].ask \in minted' \ minted
                           /\ \A e \in Drive \ {d} : drive'[e] = drive[e]
<1>0. drive \in [Drive -> DriveRecord]
  BY DEF TypeInv, AllTypes, DriveTypeOK
<1>1. ASSUME UNCHANGED <<drive, minted>> PROVE Goal
  BY <1>1
<1>2. ASSUME NEW d \in Drive, NEW rec \in DriveRecord, rec.pc # "asking",
             drive' = [drive EXCEPT ![d] = rec], UNCHANGED minted
      PROVE  Goal
  BY <1>0, <1>2
<1> HIDE DEF Goal
<1>3. ASSUME DriveAction PROVE Goal
  <2>1. CASE \E p \in Park : AnswerPark(p) \/ DispatchLost(p)
    BY <1>1, <2>1 DEF AnswerPark, DispatchLost
  <2>6. CASE \E r \in Run : TakeOutcome(r)
    BY <1>1, <2>6 DEF TakeOutcome
  <2>2. ASSUME NEW d \in Drive, NEW r \in Run, StartRun(d, r)
        PROVE  Goal
    <3> DEFINE rec == [NoDrive EXCEPT !.pc = "running", !.run = r]
    <3>1. rec \in DriveRecord /\ rec.pc # "asking"
      BY NoDriveType DEF NoDrive, DriveRecord, Pc
    <3>2. drive' = [drive EXCEPT ![d] = rec] /\ UNCHANGED minted
      BY <2>2 DEF StartRun
    <3> HIDE DEF rec
    <3> QED
      BY <1>2, <3>1, <3>2
  <2>3. ASSUME NEW d \in Drive, NEW p \in Park,
               DispatchContinuation(d, p) \/ RedeliverContinuation(d, p)
        PROVE  Goal
    <3>1. drive' = [drive EXCEPT ![d] = ResumeOf(p)] /\ UNCHANGED minted
      BY <2>3 DEF DispatchContinuation, RedeliverContinuation
    <3>2. ResumeOf(p).pc # "asking"
      BY DEF ResumeOf, NoDrive
    <3> QED
      BY <1>2, <3>1, <3>2, ResumeOfType
  <2>4. ASSUME NEW d \in Drive, NEW q \in Park, AskCheck(d, q)
        PROVE  Goal
    BY <1>0, <2>4 DEF AskCheck, End, NoDrive, DriveRecord, Goal
  <2>5. ASSUME NEW d \in Drive, DriveStep(d) \/ DriveDies(d),
               ~\E q \in Park : AskCheck(d, q)
        PROVE  Goal
    <3>1. /\ UNCHANGED minted
          /\ drive'[d].pc # "asking"
          /\ \A e \in Drive \ {d} : drive'[e] = drive[e]
      BY <1>0, <2>5
         DEF DriveStep, AssertResumeAuthorized, AskWrite, AskDeliver, AskDeliveryFails,
             ReturnSuspended, ReturnTerminal, TicketStands, DeliverOutcome,
             RecordOutcome, ClearDue, DriveDies, End, Go, NoDrive, DriveRecord
    <3> QED
      BY <3>1 DEF Goal
  <2> QED
    BY <1>3, <2>1, <2>2, <2>3, <2>4, <2>5, <2>6 DEF DriveAction
<1>4. ASSUME DoorAction PROVE Goal
  BY <1>1, <1>4, DoorsLeaveDrives
<1>5. ASSUME AgeAction PROVE Goal
  BY <1>1, <1>5 DEF AgeAction, driveVars
<1>6. Goal
  BY <1>3, <1>4, <1>5, NextCases
<1> QED
  BY <1>6 DEF Goal

LEMMA AskersStep ==
  ASSUME TypeInv, AskersInv, Next
  PROVE  /\ AskersInv'
         /\ \A p \in Park : Unwritten(p)' => Unwritten(p)
<1>1. AskersInv'
  BY AskSteps DEF AskersInv
<1>2. ASSUME NEW p \in Park, Unwritten(p)' PROVE Unwritten(p)
  BY <1>2, AskSteps DEF Unwritten
<1> QED
  BY <1>1, <1>2

(***************************************************************************)
(* The store operations, one park at a time.                               *)
(***************************************************************************)
LEMMA ParkInvPlain ==
  ASSUME TypeInv, \A p \in Park : ParkInv(p), PlainStoreStep, UNCHANGED abandoned,
         \A p \in Park : Unwritten(p)' => Unwritten(p)
  PROVE  \A p \in Park : ParkInv(p)'
<1> SUFFICES ASSUME NEW p \in Park PROVE ParkInv(p)'
  OBVIOUS
<1>0. /\ ParkInv(p)
      /\ Unwritten(p)' => Unwritten(p)
      /\ state \in [Park -> {"absent", "pending", "answered"}]
  BY DEF TypeInv, AllTypes, StoreTypeOK
<1> HIDE DEF Unwritten
<1> USE DEF ParkInv
<1>1. ASSUME NEW q \in Park, RecordAnswer(q) PROVE ParkInv(p)'
  BY <1>0, <1>1 DEF RecordAnswer
<1>2. ASSUME NEW q \in Park, PrunePending(q) PROVE ParkInv(p)'
  BY <1>0, <1>2 DEF PrunePending
<1>3. ASSUME NEW q \in Park, NEW terminal \in Terminal, EnqueueKill(q, terminal)
      PROVE  ParkInv(p)'
  <2>1. CASE state[q] = "pending"
    BY <1>0, <1>3, <2>1 DEF EnqueueKill
  <2>2. CASE state[q] # "pending"
    BY <1>0, <1>3, <2>2 DEF EnqueueKill
  <2> QED
    BY <2>1, <2>2
<1>4. ASSUME NEW q \in Park, DropExpiryMember(q) PROVE ParkInv(p)'
  BY <1>0, <1>4 DEF DropExpiryMember
<1>5. ASSUME NEW q \in Park, StateAgesOut(q) PROVE ParkInv(p)'
  BY <1>0, <1>5 DEF StateAgesOut
<1>6. CASE \/ \E q \in Park : \/ ClearKillDue(q) \/ DropOrphanKill(q)
                              \/ TicketAgesOut(q) \/ KillDueAgesOut(q)
           \/ UNCHANGED storeVars
  BY <1>0, <1>6 DEF ClearKillDue, DropOrphanKill, TicketAgesOut, KillDueAgesOut,
                    storeVars, redisVars
<1> QED
  BY <1>1, <1>2, <1>3, <1>4, <1>5, <1>6 DEF PlainStoreStep

LEMMA ParkInvStep ==
  ASSUME TypeInv, ResolveInv, Next
  PROVE  \A p \in Park : ParkInv(p)'
<1>1. \A p \in Park : Unwritten(p)' => Unwritten(p)
  BY AskersStep DEF ResolveInv
<1>2. CASE PlainStoreStep /\ UNCHANGED abandoned
  BY <1>1, <1>2, ParkInvPlain DEF ResolveInv
<1>3. ASSUME NEW k \in Door, SettleExpiry(k)
      PROVE  \A p \in Park : ParkInv(p)'
  <2>1. PICK q \in Park : q = door[k].park
    BY <1>3 DEF SettleExpiry, TypeInv, AllTypes, DoorsOK, DoorShape
  <2>2. ~Unwritten(q) /\ state[q] # "pending"
    BY <1>3, <2>1 DEF SettleExpiry, ResolveInv, SettlerInv
  <2>3. state \in [Park -> {"absent", "pending", "answered"}]
    BY DEF TypeInv, AllTypes, StoreTypeOK
  <2>4. ASSUME NEW p \in Park PROVE ParkInv(p)'
    <3>1. ParkInv(p) /\ ParkInv(q)
      BY DEF ResolveInv
    <3> HIDE DEF Unwritten
    <3> QED
      BY <1>1, <1>3, <2>1, <2>2, <2>3, <3>1 DEF SettleExpiry, DropExpiryMember, ParkInv
  <2> QED
    BY <2>4
<1>4. ASSUME NEW d \in Drive, AskWrite(d), UNCHANGED abandoned
      PROVE  \A p \in Park : ParkInv(p)'
  <2>1. PICK q \in Park : q = drive[d].ask
    BY <1>4 DEF AskWrite, TypeInv, AllTypes, DrivesOK, DriveShape
  <2>2. Unwritten(q)
    BY <1>4, <2>1 DEF AskWrite, Unwritten
  <2>3. ~Unwritten(q)'
    <3>1. q \in minted'
      BY <1>4, <2>1 DEF AskWrite, ResolveInv, AskersInv
    <3>2. drive'[d].pc # "asking"
      BY <1>4 DEF AskWrite, Go, TypeInv, AllTypes, DriveTypeOK, DriveRecord
    <3>3. \A e \in Drive : drive'[e].pc = "asking" => e # d /\ drive'[e] = drive[e]
      BY <1>4, <3>2 DEF AskWrite, Go, TypeInv, AllTypes, DriveTypeOK
    <3>4. \A e \in Drive : drive'[e].pc = "asking" => drive'[e].ask # q
      BY <1>4, <2>1, <3>3 DEF AskWrite, ResolveInv, AskersInv
    <3> QED
      BY <3>1, <3>4 DEF Unwritten
  <2>4. ASSUME NEW p \in Park PROVE ParkInv(p)'
    <3>1. ParkInv(p) /\ ParkInv(q)
      BY DEF ResolveInv
    <3>2. state \in [Park -> {"absent", "pending", "answered"}]
      BY DEF TypeInv, AllTypes, StoreTypeOK
    <3> HIDE DEF Unwritten
    <3> QED
      BY <1>1, <1>4, <2>1, <2>2, <2>3, <3>1, <3>2 DEF AskWrite, Add, ParkInv
  <2> QED
    BY <2>4
<1>5. ASSUME Cleared \/ DroppedLoud, UNCHANGED abandoned
      PROVE  \A p \in Park : ParkInv(p)'
  <2>1. UNCHANGED <<state, claimed, pruned, pending_expiry>>
    BY <1>5 DEF Cleared, DroppedLoud, ClearDue, ClearContinuationDue, DropContinuation,
                DropOrphanContinuation
  <2>2. ASSUME NEW p \in Park PROVE ParkInv(p)'
    <3>1. ParkInv(p)
      BY DEF ResolveInv
    <3> HIDE DEF Unwritten
    <3> QED
      BY <1>1, <1>5, <2>1, <3>1 DEF ParkInv
  <2> QED
    BY <2>2
<1> QED
  BY <1>2, <1>3, <1>4, <1>5, StoreCases, HistoryStep DEF Written

(***************************************************************************)
(* A park comes to be pending only by being written for the first time.    *)
(***************************************************************************)
LEMMA PendingIsWritten ==
  ASSUME TypeInv, Next, NEW p \in Park, ~Unwritten(p), state[p] # "pending"
  PROVE  state'[p] # "pending"
<1>0. state \in [Park -> {"absent", "pending", "answered"}]
  BY DEF TypeInv, AllTypes, StoreTypeOK
<1>1. CASE PlainStoreStep
  BY <1>0, <1>1 DEF PlainStoreStep, RecordAnswer, PrunePending, ClearKillDue,
                    DropExpiryMember, DropOrphanKill, StateAgesOut, TicketAgesOut,
                    KillDueAgesOut, EnqueueKill, storeVars, redisVars
<1>2. ASSUME NEW d \in Drive, AskWrite(d)
      PROVE  state'[p] # "pending"
  <2>1. drive[d].ask # p
    BY <1>2 DEF AskWrite, Unwritten
  <2> QED
    BY <1>0, <1>2, <2>1 DEF AskWrite, Add
<1>3. CASE Cleared \/ DroppedLoud
  BY <1>3 DEF Cleared, DroppedLoud, ClearDue, ClearContinuationDue, DropContinuation,
              DropOrphanContinuation
<1> QED
  BY <1>1, <1>2, <1>3, StoreCases DEF Written

(***************************************************************************)
(* The door that revokes a park goes on to the withdrawal, or leaves; the  *)
(* other doors stay where they are.                                        *)
(***************************************************************************)
LEMMA RevokeDoors ==
  ASSUME door \in [Door -> DoorRecord], NEW j \in Door, NEW p, NEW act_on, NEW terminal,
         Revoke(j, p, act_on, terminal), NEW k \in Door
  PROVE  door'[k] = door[k] \/ door'[k].pc \in {"withdraw", "idle"}
<1>1. CASE door' = [door EXCEPT ![j] = [NoDoor EXCEPT !.pc = "withdraw", !.park = p,
                                         !.terminal = terminal, !.dues = {p}]]
  <2>1. CASE k = j
    BY <1>1, <2>1 DEF NoDoor
  <2>2. CASE k # j
    BY <1>1, <2>2
  <2> QED
    BY <2>1, <2>2
<1>2. CASE Leave(j)
  BY <1>2 DEF Leave, NoDoor
<1> QED
  BY <1>1, <1>2 DEF Revoke

LEMMA SettlerStep ==
  ASSUME TypeInv, ResolveInv, Next
  PROVE  \A k \in Door : SettlerInv(k)'
<1> SUFFICES ASSUME NEW k \in Door PROVE SettlerInv(k)'
  OBVIOUS
<1>0. /\ door \in [Door -> DoorRecord]
      /\ state \in [Park -> {"absent", "pending", "answered"}]
      /\ pending_expiry \subseteq Park
  BY DEF TypeInv, AllTypes, DoorTypeOK, StoreTypeOK
<1>1. \A p \in Park : /\ Unwritten(p)' => Unwritten(p)
                      /\ ~Unwritten(p) /\ state[p] # "pending" => state'[p] # "pending"
  BY AskersStep, PendingIsWritten DEF ResolveInv
<1> HIDE DEF Unwritten
<1>2. ASSUME door'[k] = door[k] PROVE SettlerInv(k)'
  <2>1. door[k].pc \in {"expire", "settle"} => door[k].park \in Park
    BY DEF TypeInv, AllTypes, DoorsOK, DoorShape
  <2> QED
    BY <1>1, <1>2, <2>1 DEF ResolveInv, SettlerInv
<1>3. ASSUME door'[k].pc \notin {"expire", "settle"} PROVE SettlerInv(k)'
  BY <1>3 DEF SettlerInv
<1>4. ASSUME NEW p \in Park, ReapRead(k, p) PROVE SettlerInv(k)'
  <2>1. ~Unwritten(p)
    BY <1>4 DEF ReapRead, ResolveInv, ParkInv
  <2>2. /\ door'[k].park = p
        /\ door'[k].pc = "settle" => state[p] # "pending"
    BY <1>0, <1>4 DEF ReapRead, NoDoor
  <2> QED
    BY <1>1, <2>1, <2>2 DEF SettlerInv
<1>5. ASSUME ExpireResume(k) \/ ExpireKill(k) PROVE SettlerInv(k)'
  <2>1. PICK p \in Park : p = door[k].park
    BY <1>5 DEF ExpireResume, ExpireKill, TypeInv, AllTypes, DoorsOK, DoorShape
  <2>2. ~Unwritten(p)
    BY <1>5, <2>1 DEF ExpireResume, ExpireKill, ResolveInv, SettlerInv
  <2>3. CASE \/ OnExpiry[p] = "resume" /\ state[p] = "pending"
             \/ OnExpiry[p] = "kill" /\ Live(p)
    <3>1. door' = [door EXCEPT ![k] = NoDoor]
            \/ Revoke(k, p, KillActOnPending, "failed")
      BY <1>5, <2>1, <2>3 DEF ExpireResume, ExpireKill, Leave
    <3>2. CASE door' = [door EXCEPT ![k] = NoDoor]
      BY <1>0, <1>3, <3>2 DEF NoDoor
    <3>3. CASE Revoke(k, p, KillActOnPending, "failed")
      <4>1. door[k].pc = "expire"
        BY <1>5 DEF ExpireResume, ExpireKill
      <4>2. door'[k] = door[k] \/ door'[k].pc \in {"withdraw", "idle"}
        BY <1>0, <3>3, RevokeDoors
      <4> QED
        BY <1>2, <1>3, <4>2
    <3> QED
      BY <3>1, <3>2, <3>3
  <2>4. CASE ~ \/ OnExpiry[p] = "resume" /\ state[p] = "pending"
               \/ OnExpiry[p] = "kill" /\ Live(p)
    <3>1. door' = [door EXCEPT ![k].pc = "settle"] /\ state[p] # "pending"
      BY <1>5, <2>1, <2>4 DEF ExpireResume, ExpireKill, Live
    <3>2. door'[k].park = p /\ state[p] # "pending"
      BY <1>0, <2>1, <3>1 DEF DoorRecord
    <3> QED
      BY <1>1, <2>2, <3>2 DEF SettlerInv
  <2> QED
    BY <2>3, <2>4
<1>6. ASSUME NEW j \in Door, NEW p \in Park,
             \/ CancelPark(j, p) \/ EraseMember(j, p) \/ RevokeMember(j, p)
             \/ FireParkKilled(j, p) \/ ParkKillNotReady(j, p)
             \/ RedeliverKill(j, p) \/ DropContinuation(j, p)
      PROVE  SettlerInv(k)'
  <2>1. CASE CancelPark(j, p) \/ EraseMember(j, p)
    <3>1. door'[k] = door[k] \/ door'[k].pc \in {"withdraw", "idle"}
      BY <1>0, <2>1, RevokeDoors DEF CancelPark, EraseMember
    <3> QED
      BY <1>2, <1>3, <3>1
  <2>2. CASE ~(CancelPark(j, p) \/ EraseMember(j, p))
    <3>1. CASE RevokeMember(j, p) \/ FireParkKilled(j, p) \/ ParkKillNotReady(j, p)
      <4>1. door'[k] = door[k] \/ door'[k].pc \notin {"expire", "settle"}
        BY <1>0, <3>1 DEF RevokeMember, FireParkKilled, ParkKillNotReady, DoorRecord
      <4> QED
        BY <1>2, <1>3, <4>1
    <3>2. CASE RedeliverKill(j, p)
      <4>1. door' = [door EXCEPT ![j] = [NoDoor EXCEPT !.pc = "withdraw", !.park = p,
                                          !.terminal = kill_due[p], !.dues = {p}]]
        BY <3>2 DEF RedeliverKill
      <4>2. j = k => door'[k].pc = "withdraw"
        BY <1>0, <4>1 DEF NoDoor
      <4> QED
        BY <1>0, <1>2, <1>3, <4>1, <4>2
    <3>3. CASE DropContinuation(j, p)
      <4>1. door'[k] = door[k] \/ door'[k].pc = "giveup"
        BY <1>0, <3>3 DEF DropContinuation, NoDoor
      <4> QED
        BY <1>2, <1>3, <4>1
    <3> QED
      BY <1>6, <2>2, <3>1, <3>2, <3>3
  <2> QED
    BY <2>1, <2>2
<1>7. ASSUME NEW j \in Door,
             \/ WithdrawChannelDelivery(j) \/ RunMembers(j) \/ WithdrawMember(j)
             \/ DeliverKillTerminal(j) \/ RecordKillTerminal(j) \/ CompleteKill(j)
             \/ KillDone(j) \/ CompleteKillRaises(j) \/ DoorDies(j) \/ SettleExpiry(j)
             \/ GiveUp(j) \/ RecordGiveUp(j)
      PROVE  SettlerInv(k)'
  <2>1. door'[k] = door[k] \/ door'[k].pc \notin {"expire", "settle"}
    BY <1>0, <1>7 DEF WithdrawChannelDelivery, RunMembers, WithdrawMember,
                      DeliverKillTerminal, RecordKillTerminal, CompleteKill, KillDone,
                      CompleteKillRaises, DoorDies, SettleExpiry, GiveUp, RecordGiveUp, Leave, NoDoor, DoorRecord
  <2> QED
    BY <1>2, <1>3, <2>1
<1>8. ASSUME NEW j \in Door, NEW p \in Park, j # k,
             ReapRead(j, p) \/ ExpireResume(j) \/ ExpireKill(j)
      PROVE  SettlerInv(k)'
  <2>1. door'[k] = door[k]
    BY <1>0, <1>8 DEF ReapRead, ExpireResume, ExpireKill, Revoke, Leave
  <2> QED
    BY <1>2, <2>1
<1>9. ASSUME UNCHANGED door PROVE SettlerInv(k)'
  BY <1>2, <1>9
<1>10. ASSUME DoorAction PROVE SettlerInv(k)'
  <2>1. CASE \E p \in Park : AbandonKill(p) \/ DropKill(p)
    BY <1>9, <2>1 DEF AbandonKill, DropKill
  <2>2. CASE \E j \in Door : ExpireResume(j) \/ ExpireKill(j)
    <3>1. PICK j \in Door : ExpireResume(j) \/ ExpireKill(j)
      BY <2>2
    <3>2. door[j].park \in Park
      BY <3>1 DEF ExpireResume, ExpireKill, TypeInv, AllTypes, DoorsOK, DoorShape
    <3> QED
      BY <1>5, <1>8, <3>1, <3>2
  <2>3. CASE \E j \in Door, p \in Park : ReapRead(j, p)
    BY <1>4, <1>8, <2>3
  <2> QED
    BY <1>6, <1>7, <1>10, <2>1, <2>2, <2>3 DEF DoorAction
<1> QED
  BY <1>9, <1>10, NextCases DEF AgeAction, doorVars

LEMMA ResolveStep == TypeInv /\ ResolveInv /\ [Next]_vars => ResolveInv'
<1> SUFFICES ASSUME TypeInv, ResolveInv, [Next]_vars PROVE ResolveInv'
  OBVIOUS
<1>1. CASE UNCHANGED vars
  BY <1>1 DEF vars, storeVars, redisVars, driveVars, doorVars, reaperVars, ResolveInv,
              AskersInv, ParkInv, SettlerInv, Unwritten
<1>2. CASE Next
  <2>1. AskersInv'
    BY <1>2, AskersStep DEF ResolveInv
  <2>2. (\A p \in Park : ParkInv(p))'
    BY <1>2, ParkInvStep
  <2>3. (\A k \in Door : SettlerInv(k))'
    BY <1>2, SettlerStep
  <2> QED
    BY <2>1, <2>2, <2>3 DEF ResolveInv
<1> QED
  BY <1>1, <1>2

LEMMA ResolveHolds == Spec => [](TypeInv /\ ResolveInv)
<1>1. Init => ResolveInv
  BY DEF Init, StoreInit, DriveInit, DoorInit, ResolveInv, AskersInv, ParkInv,
         SettlerInv, NoDrive, NoDoor
<1> QED
  BY <1>1, ResolveStep, TypeInit, TypeStep, PTL DEF Spec

(***************************************************************************)
(* An answer that was claimed is never also pruned, whichever doors race.  *)
(***************************************************************************)
THEOREM OneDoorWins == Spec => []OneDoorResolves
<1>1. TypeInv /\ ResolveInv => OneDoorResolves
  BY DEF TypeInv, AllTypes, StoreTypeOK, ResolveInv, ParkInv, OneDoorResolves
<1> QED
  BY <1>1, ResolveHolds, PTL

(***************************************************************************)
(* A park the reaper reports as abandoned was resolved by nobody.          *)
(***************************************************************************)
THEOREM AbandonedUnresolved == Spec => []AbandonedLapsedUnresolved
<1>1. TypeInv /\ ResolveInv => AbandonedLapsedUnresolved
  BY DEF TypeInv, ResolveInv, ParkInv, AbandonedLapsedUnresolved
<1> QED
  BY <1>1, ResolveHolds, PTL

-----------------------------------------------------------------------------
(***************************************************************************)
(* A kill that stopped midway is still owed, and the drivers are told last.*)
(***************************************************************************)
Open(p) == state[p] = "pending" \/ p \in continuation_due

(***************************************************************************)
(* A park that can be resumed was claimed or is pending, and is in its     *)
(* run's index; a revoked one never can be again.                          *)
(***************************************************************************)
RunIndexed(p) ==
  /\ p \in continuation_due => p \in claimed
  /\ Open(p) => p \in run_parks
  /\ p \in revoked => /\ ~Open(p)
                      /\ ~Unwritten(p)
                      /\ RunOf[p] \in run_killed
  /\ kill_due[p] # "none" => p \in revoked

(***************************************************************************)
(* A record of the kill stands, or its abandonment was surfaced.           *)
(***************************************************************************)
Surfaced(p) == p \in kill_due_index \cup kill_abandoned

Covered(p) ==
  /\ OpenAtKill(p) => KillOwed(RunOf[p])
  /\ p \in revoked => Surfaced(p) \/ channel[p] # "held"

Walking == {"withdraw", "members", "revoke", "withdraw_member"}
Telling == {"complete", "deliver", "record", "clear"}

OpenIn(r) == {q \in ParksOf(r) : OpenAtKill(q)}

(***************************************************************************)
(* What a kill in flight has done: every park it still holds a record for  *)
(* is a revoked one of its run; from the walk of the run's index on, the   *)
(* parks a kill still owes are among those left to revoke; and each record *)
(* past its withdrawal has no delivery held.                               *)
(***************************************************************************)
DoorOwes(rec) ==
  /\ rec.pc \in Walking \cup Telling =>
       /\ rec.park \in revoked
       /\ \A q \in rec.dues : q \in revoked /\ RunOf[q] = RunOf[rec.park]
  /\ rec.pc = "withdraw" => rec.dues = {rec.park}
  /\ rec.pc \in {"withdraw_member", "deliver", "record", "clear"} =>
       rec.at \in revoked /\ RunOf[rec.at] = RunOf[rec.park]
  /\ rec.pc \in {"revoke", "withdraw_member"} =>
       /\ OpenIn(RunOf[rec.park]) \subseteq rec.todo
       /\ rec.todo \subseteq ParksOf(RunOf[rec.park])
  /\ rec.pc \in Telling => OpenIn(RunOf[rec.park]) = {}
  /\ rec.pc \in {"members", "revoke"} \cup Telling => \A q \in rec.dues : channel[q] # "held"
  /\ rec.pc = "withdraw_member" => \A q \in rec.dues \ {rec.at} : channel[q] # "held"
  /\ rec.pc \in {"deliver", "record", "clear"} => channel[rec.at] # "held"

KillInv ==
  /\ \A p \in Park : RunIndexed(p) /\ Covered(p)
  /\ \A k \in Door : DoorOwes(door[k])

(***************************************************************************)
(* No park a kill owes comes up in a run already taken down, and no        *)
(* revoke or taken-down mark is taken back.                                *)
(***************************************************************************)
Settling ==
  /\ revoked \subseteq revoked'
  /\ run_killed \subseteq run_killed'
  /\ \A p \in Park : OpenAtKill(p)' => OpenAtKill(p) \/ RunOf[p] \notin run_killed

LEMMA RunIndexedStep ==
  ASSUME TypeInv, ResolveInv, \A p \in Park : RunIndexed(p), Next
  PROVE  (\A p \in Park : RunIndexed(p)') /\ Settling
<1> DEFINE Goal(p) == /\ RunIndexed(p)'
                      /\ OpenAtKill(p)' => OpenAtKill(p) \/ RunOf[p] \notin run_killed
           Grow == revoked \subseteq revoked' /\ run_killed \subseteq run_killed'
<1>0. \A p \in Park : Unwritten(p)' => Unwritten(p)
  BY AskersStep DEF ResolveInv
<1>1. /\ state \in [Park -> {"absent", "pending", "answered"}]
      /\ kill_due \in [Park -> Terminal \cup {"none"}]
      /\ \A p \in Park : RunOf[p] \in Run
  BY RunOfAssumption DEF TypeInv, AllTypes, StoreTypeOK
<1>2. \A p \in Park : ParkInv(p)
  BY DEF ResolveInv
<1> HIDE DEF Unwritten
<1> USE DEF RunIndexed, Open, OpenAtKill
<1>3. ASSUME NEW p \in Park PROVE Goal(p)
  <2>0. /\ RunIndexed(p)
        /\ Unwritten(p)' => Unwritten(p)
        /\ Unwritten(p) => state[p] = "absent" /\ p \notin claimed
        /\ state[p] = "pending" => p \notin claimed
    BY <1>0, <1>2 DEF ParkInv
  <2>1. ASSUME NEW q \in Park, RecordAnswer(q) PROVE Goal(p)
    BY <1>1, <2>0, <2>1 DEF RecordAnswer
  <2>2. ASSUME NEW q \in Park, PrunePending(q) PROVE Goal(p)
    BY <1>1, <2>0, <2>2 DEF PrunePending
  <2>3. ASSUME NEW q \in Park, NEW terminal \in Terminal, EnqueueKill(q, terminal)
        PROVE  Goal(p)
    <3>0. Unwritten(q) => ~Live(q)
      BY <1>2 DEF ParkInv, Live
    <3>1. ~Unwritten(q) /\ RunOf[q] \in run_killed'
      BY <2>3, <3>0 DEF EnqueueKill
    <3>2. CASE state[q] = "pending"
      BY <1>1, <2>0, <2>3, <3>1, <3>2 DEF EnqueueKill
    <3>3. CASE state[q] # "pending"
      BY <1>1, <2>0, <2>3, <3>1, <3>3 DEF EnqueueKill
    <3> QED
      BY <3>2, <3>3
  <2>4. ASSUME NEW q \in Park, StateAgesOut(q) PROVE Goal(p)
    BY <1>1, <2>0, <2>4 DEF StateAgesOut
  <2>5. ASSUME NEW q \in Park, ClearKillDue(q) \/ KillDueAgesOut(q)
        PROVE  Goal(p)
    BY <1>1, <2>0, <2>5 DEF ClearKillDue, KillDueAgesOut
  <2>6. CASE \/ \E q \in Park : \/ DropOrphanKill(q) \/ TicketAgesOut(q)
                                \/ DropExpiryMember(q)
             \/ UNCHANGED storeVars
    BY <1>1, <2>0, <2>6 DEF DropOrphanKill, TicketAgesOut, DropExpiryMember,
                            storeVars, redisVars
  <2>7. CASE PlainStoreStep
    BY <2>1, <2>2, <2>3, <2>4, <2>5, <2>6, <2>7 DEF PlainStoreStep
  <2>8. ASSUME NEW d \in Drive, AskWrite(d) PROVE Goal(p)
    <3>1. PICK q \in Park : q = drive[d].ask
      BY <2>8 DEF AskWrite, TypeInv, AllTypes, DrivesOK, DriveShape
    <3>2. Unwritten(q)
      BY <2>8, <3>1 DEF AskWrite, Unwritten
    <3>3. q \notin claimed /\ q \notin revoked
      BY <1>2, <3>2 DEF ParkInv
    <3> QED
      BY <1>1, <2>0, <2>8, <3>1, <3>3 DEF AskWrite, Add
  <2>9. CASE Cleared
    BY <1>1, <2>0, <2>9 DEF Cleared, ClearDue, ClearContinuationDue
  <2>10. CASE DroppedLoud
    BY <1>1, <2>0, <2>10 DEF DroppedLoud, DropContinuation, DropOrphanContinuation
  <2> QED
    BY <2>7, <2>8, <2>9, <2>10, StoreCases DEF Written
<1>4. Grow
  <2>1. CASE PlainStoreStep
    BY <2>1 DEF PlainStoreStep, RecordAnswer, PrunePending, ClearKillDue,
                DropExpiryMember, DropOrphanKill, StateAgesOut, TicketAgesOut,
                KillDueAgesOut, EnqueueKill, storeVars, redisVars
  <2>2. CASE Written \/ Cleared
    BY <2>2 DEF Written, Cleared, AskWrite, ClearDue, Add, ClearContinuationDue
  <2>3. CASE DroppedLoud
    BY <2>3 DEF DroppedLoud, DropContinuation, DropOrphanContinuation
  <2> QED
    BY <2>1, <2>2, <2>3, StoreCases
<1> QED
  BY <1>3, <1>4 DEF Settling

(***************************************************************************)
(* The channel of a revoked park is written by the kill's withdrawals and  *)
(* by a late delivery, which is told apart.                                *)
(***************************************************************************)
LEMMA RevokedNotHeld ==
  ASSUME TypeInv, Next, NEW p \in revoked, channel[p] # "held"
  PROVE  channel'[p] # "held"
<1>0. channel \in [Park -> {"none", "held", "stray", "released"}] /\ p \in Park
  BY DEF TypeInv, AllTypes, DriveTypeOK, StoreTypeOK
<1>1. CASE DriveAction
  <2>1. CASE \E d \in Drive : AskDeliver(d)
    BY <1>0, <2>1 DEF AskDeliver
  <2>2. CASE UNCHANGED channel
    BY <2>2
  <2>3. ASSUME NEW d \in Drive, DriveStep(d) \/ DriveDies(d), ~AskDeliver(d)
        PROVE  UNCHANGED channel
    BY <2>3 DEF DriveStep, AssertResumeAuthorized, AskCheck, AskWrite, AskDeliveryFails,
                ReturnSuspended, ReturnTerminal, TicketStands, DeliverOutcome,
                RecordOutcome, ClearDue, DriveDies
  <2> QED
    BY <1>1, <2>1, <2>2, <2>3
       DEF DriveAction, StartRun, TakeOutcome, AnswerPark, DispatchLost,
           DispatchContinuation, RedeliverContinuation
<1>2. CASE DoorAction
  <2> USE DEF driveVars
  <2>1. ASSUME NEW k \in Door, WithdrawChannelDelivery(k) \/ WithdrawMember(k)
        PROVE  channel'[p] # "held"
    BY <1>0, <2>1 DEF WithdrawChannelDelivery, WithdrawMember
  <2>2. CASE \E k \in Door, q \in Park :
               \/ CancelPark(k, q) \/ EraseMember(k, q) \/ RevokeMember(k, q)
               \/ FireParkKilled(k, q) \/ ParkKillNotReady(k, q) \/ RedeliverKill(k, q)
               \/ ReapRead(k, q) \/ DropContinuation(k, q)
    BY <2>2 DEF CancelPark, EraseMember, RevokeMember, FireParkKilled, ParkKillNotReady,
                RedeliverKill, ReapRead, DropContinuation
  <2>3. CASE \E k \in Door :
               \/ RunMembers(k) \/ DeliverKillTerminal(k) \/ RecordKillTerminal(k)
               \/ CompleteKill(k) \/ KillDone(k) \/ CompleteKillRaises(k) \/ DoorDies(k)
               \/ ExpireResume(k) \/ ExpireKill(k) \/ SettleExpiry(k)
               \/ GiveUp(k) \/ RecordGiveUp(k)
    BY <2>3 DEF RunMembers, DeliverKillTerminal, RecordKillTerminal, CompleteKill,
                KillDone, CompleteKillRaises, DoorDies, ExpireResume, ExpireKill,
                SettleExpiry, GiveUp, RecordGiveUp, AnswerPark
  <2>4. CASE \E q \in Park : AbandonKill(q) \/ DropKill(q)
    BY <2>4 DEF AbandonKill, DropKill
  <2> QED
    BY <1>2, <2>1, <2>2, <2>3, <2>4 DEF DoorAction
<1>3. CASE AgeAction
  BY <1>3 DEF AgeAction, driveVars
<1> QED
  BY <1>1, <1>2, <1>3, NextCases

(***************************************************************************)
(* A record of a kill goes away only by its completion, and a park is      *)
(* revoked only with a record.                                             *)
(***************************************************************************)
RecordsKept ==
  /\ \A p \in Park : Surfaced(p) => Surfaced(p)'
                       \/ \E k \in Door : CompleteKill(k) /\ door[k].at = p
  /\ \A p \in revoked' : p \in revoked \/ Surfaced(p)'
  /\ \A r \in run_killed' \ run_killed : KillOwed(r)'

LEMMA EnqueueKeepsRecords ==
  ASSUME NEW p \in Park, NEW terminal, EnqueueKill(p, terminal), UNCHANGED kill_abandoned
  PROVE  RecordsKept
  BY DEF EnqueueKill, RecordsKept, Surfaced, KillOwed, ParksOf

(***************************************************************************)
(* An operation that is neither a revoke nor a clear of a kill record.     *)
(***************************************************************************)
LEMMA OthersKeepRecords ==
  ASSUME UNCHANGED <<kill_due_index, kill_abandoned, revoked, run_killed>>
  PROVE  RecordsKept
  BY DEF RecordsKept, Surfaced

LEMMA RecordsStep ==
  ASSUME TypeInv, Next
  PROVE  RecordsKept
<1> DEFINE Same == UNCHANGED <<kill_due_index, kill_abandoned, revoked, run_killed>>
<1>0. Same => RecordsKept
  BY OthersKeepRecords
<1>1. ASSUME DriveAction, UNCHANGED doorVars PROVE Same
  <2>1. ASSUME NEW d \in Drive, DriveStep(d) \/ DriveDies(d)
        PROVE  UNCHANGED <<kill_due_index, revoked, run_killed>>
    BY <2>1 DEF DriveStep, AssertResumeAuthorized, AskCheck, AskWrite, AskDeliver,
                AskDeliveryFails, ReturnSuspended, ReturnTerminal, TicketStands,
                DeliverOutcome, RecordOutcome, ClearDue, DriveDies, Add, PrunePending,
                ClearContinuationDue, storeVars, redisVars
  <2>2. ASSUME ~\E d \in Drive : DriveStep(d) \/ DriveDies(d)
        PROVE  UNCHANGED <<kill_due_index, revoked, run_killed>>
    BY <1>1, <2>2 DEF DriveAction, StartRun, TakeOutcome, AnswerPark, DispatchLost,
                DispatchContinuation, RedeliverContinuation, RecordAnswer, storeVars,
                redisVars
  <2> QED
    BY <1>1, <2>1, <2>2 DEF doorVars
<1>2. ASSUME NEW k \in Door, NEW p \in Park, NEW act_on, NEW terminal,
             Revoke(k, p, act_on, terminal), UNCHANGED kill_abandoned
      PROVE  RecordsKept
  BY <1>0, <1>2, EnqueueKeepsRecords DEF Revoke, storeVars, redisVars
<1>3. ASSUME DoorAction PROVE RecordsKept
  <2>1. ASSUME NEW k \in Door, NEW p \in Park, CancelPark(k, p) \/ EraseMember(k, p)
        PROVE  RecordsKept
    BY <1>2, <2>1 DEF CancelPark, EraseMember
  <2>2. ASSUME NEW k \in Door, NEW p \in Park, RevokeMember(k, p)
        PROVE  RecordsKept
    BY <1>0, <2>2, EnqueueKeepsRecords DEF RevokeMember, storeVars, redisVars
  <2>3. ASSUME NEW k \in Door, NEW p \in Park,
               \/ FireParkKilled(k, p) \/ ParkKillNotReady(k, p) \/ RedeliverKill(k, p)
               \/ ReapRead(k, p) \/ DropContinuation(k, p)
        PROVE  Same
    BY <2>3 DEF FireParkKilled, ParkKillNotReady, RedeliverKill, ReapRead,
                DropContinuation, DropOrphanContinuation, storeVars, redisVars
  <2>4. ASSUME NEW k \in Door,
               \/ WithdrawChannelDelivery(k) \/ RunMembers(k) \/ WithdrawMember(k)
               \/ DeliverKillTerminal(k) \/ RecordKillTerminal(k)
               \/ KillDone(k) \/ CompleteKillRaises(k) \/ DoorDies(k)
               \/ ExpireResume(k) \/ SettleExpiry(k) \/ GiveUp(k) \/ RecordGiveUp(k)
        PROVE  Same
    BY <2>4 DEF WithdrawChannelDelivery, RunMembers, WithdrawMember,
                DeliverKillTerminal, RecordKillTerminal, KillDone, CompleteKillRaises,
                DoorDies, ExpireResume, SettleExpiry, GiveUp, RecordGiveUp, AnswerPark,
                RecordAnswer, DropExpiryMember, storeVars, redisVars
  <2>5. ASSUME NEW k \in Door, ExpireKill(k) PROVE RecordsKept
    <3>1. door[k].park \in Park
      BY <2>5 DEF ExpireKill, TypeInv, AllTypes, DoorsOK, DoorShape
    <3>2. CASE Revoke(k, door[k].park, KillActOnPending, "failed")
      BY <1>2, <2>5, <3>1, <3>2 DEF ExpireKill
    <3>3. CASE UNCHANGED storeVars
      BY <1>0, <2>5, <3>3 DEF ExpireKill, storeVars, redisVars
    <3> QED
      BY <2>5, <3>2, <3>3 DEF ExpireKill
  <2>6. ASSUME NEW k \in Door, CompleteKill(k) PROVE RecordsKept
    BY <2>6 DEF CompleteKill, ClearKillDue, RecordsKept, Surfaced
  <2>7. ASSUME NEW p \in Park, AbandonKill(p) \/ DropKill(p) PROVE RecordsKept
    BY <2>7 DEF AbandonKill, DropKill, ClearKillDue, DropOrphanKill, RecordsKept, Surfaced
  <2> QED
    BY <1>0, <1>3, <2>1, <2>2, <2>3, <2>4, <2>5, <2>6, <2>7 DEF DoorAction
<1>4. ASSUME AgeAction PROVE Same
  BY <1>4 DEF AgeAction, StateAgesOut, TicketAgesOut, KillDueAgesOut, doorVars
<1> QED
  BY <1>0, <1>1, <1>3, <1>4, NextCases

LEMMA CoveredStep ==
  ASSUME TypeInv, KillInv, Settling, Next
  PROVE  \A p \in Park : Covered(p)'
<1>0. \A p \in Park : RunOf[p] \in Run
  BY RunOfAssumption
<1>1. RecordsKept
  BY RecordsStep
<1>2. ASSUME NEW p \in Park, OpenAtKill(p)'
      PROVE  KillOwed(RunOf[p])'
  <2>1. CASE RunOf[p] \notin run_killed
    BY <1>1, <1>2, <2>1 DEF RecordsKept, OpenAtKill
  <2>2. CASE OpenAtKill(p)
    <3>1. PICK q \in ParksOf(RunOf[p]) : Surfaced(q)
      BY <2>2 DEF KillInv, Covered, KillOwed, Surfaced
    <3>2. ASSUME NEW k \in Door, CompleteKill(k), door[k].at = q
          PROVE  FALSE
      <4>1. RunOf[door[k].park] = RunOf[p] /\ OpenIn(RunOf[door[k].park]) = {}
        BY <3>1, <3>2 DEF KillInv, DoorOwes, CompleteKill, Telling, ParksOf
      <4> QED
        BY <2>2, <4>1 DEF OpenIn, ParksOf
    <3>3. Surfaced(q)'
      BY <1>1, <3>1, <3>2 DEF RecordsKept, ParksOf
    <3> QED
      BY <3>1, <3>3 DEF KillOwed, Surfaced, ParksOf
  <2> QED
    BY <1>2, <2>1, <2>2 DEF Settling
<1>3. ASSUME NEW p \in revoked', ~Surfaced(p)'
      PROVE  channel'[p] # "held"
  <2>1. p \in revoked /\ p \in Park
    BY <1>1, <1>3, TypeStep DEF RecordsKept, TypeInv, AllTypes, StoreTypeOK
  <2>2. CASE channel[p] # "held"
    BY <2>1, <2>2, RevokedNotHeld
  <2>3. CASE Surfaced(p)
    <3>1. PICK k \in Door : CompleteKill(k) /\ door[k].at = p
      BY <1>1, <1>3, <2>1, <2>3 DEF RecordsKept
    <3>2. channel[p] # "held"
      BY <3>1 DEF KillInv, DoorOwes, CompleteKill
    <3> QED
      BY <2>1, <3>2, RevokedNotHeld
  <2> QED
    BY <2>1, <2>2, <2>3 DEF KillInv, Covered
<1> QED
  BY <1>2, <1>3 DEF Covered

-----------------------------------------------------------------------------
(***************************************************************************)
(* What a door owes stays owed whatever the other tasks do.                *)
(***************************************************************************)
LEMMA OwesStays ==
  ASSUME TypeInv, KillInv, Settling, Next, NEW rec \in DoorRecord, DoorOwes(rec)
  PROVE  DoorOwes(rec)'
<1>1. revoked \subseteq revoked' /\ revoked \subseteq Park
  BY DEF Settling, TypeInv, AllTypes, StoreTypeOK
<1>2. ASSUME rec.pc \in Walking \cup Telling
      PROVE  OpenIn(RunOf[rec.park])' \subseteq OpenIn(RunOf[rec.park])
  <2>1. RunOf[rec.park] \in run_killed
    BY <1>1, <1>2 DEF DoorOwes, KillInv, RunIndexed
  <2> QED
    BY <2>1 DEF OpenIn, ParksOf, Settling
<1>3. \A q \in revoked : channel[q] # "held" => channel'[q] # "held"
  BY RevokedNotHeld
<1>4. rec.pc \in Walking \cup Telling =>
        /\ rec.park \in revoked'
        /\ \A q \in rec.dues : q \in revoked' /\ RunOf[q] = RunOf[rec.park]
  BY <1>1 DEF DoorOwes
<1>5. rec.pc \in {"withdraw_member", "deliver", "record", "clear"} =>
        rec.at \in revoked' /\ RunOf[rec.at] = RunOf[rec.park]
  BY <1>1 DEF DoorOwes
<1>6. /\ rec.pc \in {"revoke", "withdraw_member"} =>
           /\ OpenIn(RunOf[rec.park])' \subseteq rec.todo
           /\ rec.todo \subseteq ParksOf(RunOf[rec.park])
      /\ rec.pc \in Telling => OpenIn(RunOf[rec.park])' = {}
  BY <1>2 DEF DoorOwes, Walking
<1>7. /\ rec.pc \in {"members", "revoke"} \cup Telling => \A q \in rec.dues : channel'[q] # "held"
      /\ rec.pc = "withdraw_member" => \A q \in rec.dues \ {rec.at} : channel'[q] # "held"
      /\ rec.pc \in {"deliver", "record", "clear"} => channel'[rec.at] # "held"
  BY <1>3 DEF DoorOwes, Walking, Telling
<1> QED
  BY <1>4, <1>5, <1>6, <1>7 DEF DoorOwes

(***************************************************************************)
(* Doors other than the one that moves.                                    *)
(***************************************************************************)
LEMMA OwesUpdate ==
  ASSUME TypeInv, KillInv, Settling, Next, NEW k \in Door, NEW rec \in DoorRecord,
         door' = [door EXCEPT ![k] = rec], DoorOwes(rec)'
  PROVE  \A j \in Door : DoorOwes(door[j])'
<1>0. door \in [Door -> DoorRecord]
  BY DEF TypeInv, AllTypes, DoorTypeOK
<1>1. ASSUME NEW j \in Door, j # k PROVE DoorOwes(door[j])'
  <2>1. PICK mine \in DoorRecord : mine = door[j]
    BY <1>0
  <2>2. DoorOwes(mine)
    BY <2>1 DEF KillInv
  <2>3. DoorOwes(mine)' /\ door'[j] = mine
    BY <1>0, <1>1, <2>1, <2>2, OwesStays
  <2> QED
    BY <2>3 DEF DoorOwes
<1>2. DoorOwes(door[k])'
  <2>1. door'[k] = rec
    BY <1>0
  <2> QED
    BY <2>1 DEF DoorOwes
<1> QED
  BY <1>1, <1>2

LEMMA IdleOwes == DoorOwes(NoDoor)
  BY DEF DoorOwes, NoDoor, Walking, Telling

(***************************************************************************)
(* A door that is not in a kill owes nothing.                              *)
(***************************************************************************)
LEMMA NoKillOwes ==
  ASSUME NEW rec, rec.pc \in {"idle", "expire", "settle", "giveup", "record_giveup"}
  PROVE  DoorOwes(rec)
  BY DEF DoorOwes, Walking, Telling

LEMMA DoorsStay ==
  ASSUME TypeInv, KillInv, Settling, Next, UNCHANGED door
  PROVE  \A j \in Door : DoorOwes(door[j])'
<1>1. ASSUME NEW j \in Door PROVE DoorOwes(door[j])'
  <2>1. PICK mine \in DoorRecord : mine = door[j]
    BY DEF TypeInv, AllTypes, DoorTypeOK
  <2>2. DoorOwes(mine)
    BY <2>1 DEF KillInv
  <2>3. DoorOwes(mine)' /\ door'[j] = mine
    BY <2>1, <2>2, OwesStays
  <2> QED
    BY <2>3 DEF DoorOwes
<1> QED
  BY <1>1

(***************************************************************************)
(* The revoke a kill starts with leaves one record, of the park it names.  *)
(***************************************************************************)
LEMMA KillStarts ==
  ASSUME NEW p, NEW terminal
  PROVE  /\ p \in revoked => DoorOwes(KillOf(p, terminal))
         /\ p \in revoked' => DoorOwes(KillOf(p, terminal))'
<1> DEFINE rec == KillOf(p, terminal)
<1>1. rec.pc = "withdraw" /\ rec.park = p /\ rec.dues = {p}
  BY DEF KillOf, NoDoor
<1> HIDE DEF rec
<1>2. p \in revoked => DoorOwes(rec)
  BY <1>1 DEF DoorOwes, Walking, Telling
<1>3. p \in revoked' => DoorOwes(rec)'
  BY <1>1 DEF DoorOwes, Walking, Telling
<1> QED
  BY <1>2, <1>3 DEF rec

LEMMA RevokeOwes ==
  ASSUME TypeInv, KillInv, Settling, Next, NEW k \in Door, NEW p \in Park, NEW act_on,
         NEW terminal \in Terminal, Revoke(k, p, act_on, terminal)
  PROVE  \A j \in Door : DoorOwes(door[j])'
<1>1. CASE door' = [door EXCEPT ![k] = NoDoor]
  BY <1>1, NoDoorType, IdleOwes, OwesStays, OwesUpdate
<1>2. CASE EnqueueKill(p, terminal) /\ door' = [door EXCEPT ![k] = KillOf(p, terminal)]
  <2>1. p \in revoked'
    BY <1>2 DEF EnqueueKill
  <2>2. DoorOwes(KillOf(p, terminal))'
    BY <2>1, KillStarts
  <2> QED
    BY <1>2, <2>2, KillOfType, OwesUpdate
<1> QED
  BY <1>1, <1>2 DEF Revoke, Leave, KillOf

(***************************************************************************)
(* A door that moves on without writing owes what it owed.                 *)
(***************************************************************************)
LEMMA MoveOwes ==
  ASSUME TypeInv, KillInv, Settling, Next, NEW k \in Door, NEW rec \in DoorRecord,
         door' = [door EXCEPT ![k] = rec], DoorOwes(rec)
  PROVE  \A j \in Door : DoorOwes(door[j])'
  BY OwesStays, OwesUpdate

LEMMA LeaveOwes ==
  ASSUME TypeInv, KillInv, Settling, Next, NEW k \in Door, Leave(k)
  PROVE  \A j \in Door : DoorOwes(door[j])'
  BY NoDoorType, IdleOwes, MoveOwes DEF Leave

LEMMA WithdrawOwes ==
  ASSUME TypeInv, KillInv, Settling, Next, NEW k \in Door,
         WithdrawChannelDelivery(k) \/ WithdrawMember(k)
  PROVE  \A j \in Door : DoorOwes(door[j])'
<1>1. PICK a \in DoorRecord : a = door[k]
  BY DEF TypeInv, AllTypes, DoorTypeOK
<1>2. DoorOwes(a) /\ channel \in [Park -> {"none", "held", "stray", "released"}]
  BY <1>1 DEF KillInv, TypeInv, AllTypes, DriveTypeOK
<1>3. revoked \subseteq Park
  BY DEF TypeInv, AllTypes, StoreTypeOK
<1>4. CASE WithdrawChannelDelivery(k)
  <2> DEFINE b == [a EXCEPT !.pc = "members"]
  <2>1. b \in DoorRecord /\ a.pc = "withdraw" /\ door' = [door EXCEPT ![k] = b]
    BY <1>1, <1>4 DEF WithdrawChannelDelivery, DoorRecord, DoorPc
  <2>2. b.pc = "members" /\ b.park = a.park /\ b.dues = a.dues
    BY DEF DoorRecord
  <2>3. a.park \in revoked /\ a.dues = {a.park} /\ channel'[a.park] # "held"
    BY <1>1, <1>2, <1>3, <1>4, <2>1 DEF DoorOwes, Walking, WithdrawChannelDelivery
  <2> HIDE DEF b
  <2>4. DoorOwes(b)'
    BY <2>2, <2>3 DEF DoorOwes, Walking, Telling, Settling
  <2> QED
    BY <2>1, <2>4, OwesUpdate
<1>5. CASE WithdrawMember(k)
  <2> DEFINE b == [a EXCEPT !.pc = "revoke", !.at = NoPark]
  <2>1. b \in DoorRecord /\ a.pc = "withdraw_member" /\ door' = [door EXCEPT ![k] = b]
    BY <1>1, <1>5 DEF WithdrawMember, DoorRecord, DoorPc
  <2>2. b.pc = "revoke" /\ b.park = a.park /\ b.dues = a.dues /\ b.todo = a.todo
    BY DEF DoorRecord
  <2>3. DoorOwes(a)'
    BY <1>2, OwesStays
  <2>4. \A q \in a.dues : q \in Park /\ channel'[q] # "held"
    BY <1>1, <1>2, <1>3, <1>5, <2>1 DEF DoorOwes, Walking, WithdrawMember
  <2> HIDE DEF b
  <2>5. DoorOwes(b)'
    BY <2>1, <2>2, <2>3, <2>4 DEF DoorOwes, Walking, Telling
  <2> QED
    BY <2>1, <2>5, OwesUpdate
<1> QED
  BY <1>4, <1>5

LEMMA MembersOwes ==
  ASSUME TypeInv, KillInv, Settling, Next, NEW k \in Door, RunMembers(k)
  PROVE  \A j \in Door : DoorOwes(door[j])'
<1>1. PICK a \in DoorRecord : a = door[k]
  BY DEF TypeInv, AllTypes, DoorTypeOK
<1>2. PICK todo \in SUBSET Park :
        todo = (ParksOf(RunOf[a.park]) \cap run_parks) \ {a.park}
  BY DEF ParksOf
<1> DEFINE b == [a EXCEPT !.pc = "revoke", !.todo = todo]
<1>3. b \in DoorRecord /\ a.pc = "members" /\ door' = [door EXCEPT ![k] = b]
  BY <1>1, <1>2 DEF RunMembers, DoorRecord, DoorPc
<1>4. b.pc = "revoke" /\ b.park = a.park /\ b.dues = a.dues /\ b.todo = todo
  BY DEF DoorRecord
<1>5. DoorOwes(a)
  BY <1>1 DEF KillInv
<1>6. OpenIn(RunOf[a.park]) \subseteq todo /\ todo \subseteq ParksOf(RunOf[a.park])
  <2>1. a.park \in revoked /\ revoked \subseteq Park
    BY <1>3, <1>5 DEF DoorOwes, Walking, TypeInv, AllTypes, StoreTypeOK
  <2>2. ~OpenAtKill(a.park)
    BY <2>1 DEF KillInv, RunIndexed, Open, OpenAtKill
  <2> QED
    BY <1>2, <2>2 DEF KillInv, RunIndexed, OpenIn, OpenAtKill, Open, ParksOf
<1> HIDE DEF b
<1>7. DoorOwes(b)
  BY <1>3, <1>4, <1>5, <1>6 DEF DoorOwes, Walking, Telling
<1> QED
  BY <1>3, <1>7, MoveOwes

LEMMA RevokeMemberOwes ==
  ASSUME TypeInv, KillInv, Settling, Next, NEW k \in Door, NEW q \in Park,
         RevokeMember(k, q)
  PROVE  \A j \in Door : DoorOwes(door[j])'
<1>1. PICK a \in DoorRecord : a = door[k]
  BY DEF TypeInv, AllTypes, DoorTypeOK
<1>2. DoorOwes(a) /\ a.pc = "revoke" /\ q \in a.todo
  BY <1>1 DEF KillInv, RevokeMember
<1>3. CASE Live(q)
  <2> DEFINE b == [a EXCEPT !.pc = "withdraw_member", !.at = q, !.todo = @ \ {q},
                            !.dues = @ \cup {q}]
  <2>1. b \in DoorRecord /\ door' = [door EXCEPT ![k] = b]
    BY <1>1, <1>3 DEF RevokeMember, DoorRecord, DoorPc
  <2>2. /\ b.pc = "withdraw_member" /\ b.park = a.park /\ b.at = q
        /\ b.dues = a.dues \cup {q} /\ b.todo = a.todo \ {q}
    BY DEF DoorRecord
  <2>3. DoorOwes(a)'
    BY <1>2, OwesStays
  <2>4. RunOf[q] = RunOf[a.park] /\ q \in revoked'
    BY <1>1, <1>2, <1>3 DEF RevokeMember, EnqueueKill, DoorOwes, ParksOf
  <2>5. ~OpenAtKill(q)'
    <3>1. state \in [Park -> {"absent", "pending", "answered"}]
      BY DEF TypeInv, AllTypes, StoreTypeOK
    <3> QED
      BY <1>3, <3>1 DEF RevokeMember, EnqueueKill, OpenAtKill
  <2> HIDE DEF b
  <2>6. DoorOwes(b)'
    BY <1>2, <2>2, <2>3, <2>4, <2>5 DEF DoorOwes, Walking, Telling, OpenIn
  <2> QED
    BY <2>1, <2>6, OwesUpdate
<1>4. CASE ~Live(q)
  <2> DEFINE b == [a EXCEPT !.todo = @ \ {q}]
  <2>1. b \in DoorRecord /\ door' = [door EXCEPT ![k] = b]
    BY <1>1, <1>4 DEF RevokeMember, DoorRecord, DoorPc
  <2>2. /\ b.pc = "revoke" /\ b.park = a.park /\ b.dues = a.dues
        /\ b.todo = a.todo \ {q}
    BY <1>2 DEF DoorRecord
  <2>3. ~OpenAtKill(q)
    BY <1>4 DEF Live, OpenAtKill
  <2> HIDE DEF b
  <2>4. DoorOwes(b)
    BY <1>2, <2>2, <2>3 DEF DoorOwes, Walking, Telling, OpenIn
  <2> QED
    BY <2>1, <2>4, MoveOwes
<1> QED
  BY <1>3, <1>4

(***************************************************************************)
(* Once the walk is done, nothing the kill owes is left open, and the      *)
(* records are told, recorded and cleared one by one.                      *)
(***************************************************************************)
LEMMA TellOwes ==
  ASSUME TypeInv, KillInv, Settling, Next, NEW k \in Door,
         \/ \E p \in Park : FireParkKilled(k, p) \/ ParkKillNotReady(k, p)
         \/ DeliverKillTerminal(k) \/ RecordKillTerminal(k) \/ CompleteKill(k)
         \/ CompleteKillRaises(k)
  PROVE  \A j \in Door : DoorOwes(door[j])'
<1>1. PICK a \in DoorRecord : a = door[k]
  BY DEF TypeInv, AllTypes, DoorTypeOK
<1>2. DoorOwes(a)
  BY <1>1 DEF KillInv
<1>3. ASSUME NEW p \in Park, FireParkKilled(k, p) \/ ParkKillNotReady(k, p)
      PROVE  \A j \in Door : DoorOwes(door[j])'
  <2>1. PICK pc \in {"complete", "deliver"}, at \in Park \cup {NoPark} :
          /\ pc = "deliver" => at = p
          /\ door' = [door EXCEPT ![k] = [a EXCEPT !.pc = pc, !.at = at,
                                                    !.dues = @ \ {p}]]
    <3>1. CASE FireParkKilled(k, p)
      BY <1>1, <3>1 DEF FireParkKilled
    <3>2. CASE ParkKillNotReady(k, p)
      <4>1. door' = [door EXCEPT ![k] = [a EXCEPT !.pc = "complete", !.at = a.at,
                                                  !.dues = @ \ {p}]]
        BY <1>1, <3>2 DEF ParkKillNotReady, DoorRecord
      <4>2. a.at \in Park \cup {NoPark}
        BY DEF DoorRecord
      <4> QED
        BY <4>1, <4>2
    <3> QED
      BY <1>3, <3>1, <3>2
  <2> DEFINE b == [a EXCEPT !.pc = pc, !.at = at, !.dues = @ \ {p}]
  <2>2. b \in DoorRecord
    BY <2>1 DEF DoorRecord, DoorPc
  <2>3. b.pc = pc /\ b.park = a.park /\ b.at = at /\ b.dues = a.dues \ {p}
    BY DEF DoorRecord
  <2>4. a.pc \in {"revoke", "complete"} /\ a.todo = {} /\ p \in a.dues
    BY <1>1, <1>3 DEF FireParkKilled, ParkKillNotReady
  <2>5. OpenIn(RunOf[a.park]) = {}
    BY <1>2, <2>4 DEF DoorOwes, Telling
  <2> HIDE DEF b
  <2>6. DoorOwes(b)
    BY <1>2, <2>1, <2>3, <2>4, <2>5 DEF DoorOwes, Walking, Telling
  <2> QED
    BY <2>1, <2>2, <2>6, MoveOwes DEF b
<1>4. ASSUME DeliverKillTerminal(k) \/ RecordKillTerminal(k)
      PROVE  \A j \in Door : DoorOwes(door[j])'
  <2>1. PICK pc \in {"record", "clear"} : door' = [door EXCEPT ![k] = [a EXCEPT !.pc = pc]]
    BY <1>1, <1>4 DEF DeliverKillTerminal, RecordKillTerminal
  <2> DEFINE b == [a EXCEPT !.pc = pc]
  <2>2. b \in DoorRecord
    BY DEF DoorRecord, DoorPc
  <2>3. b.pc = pc /\ b.park = a.park /\ b.at = a.at /\ b.dues = a.dues
    BY DEF DoorRecord
  <2>4. a.pc \in {"deliver", "record"}
    BY <1>1, <1>4 DEF DeliverKillTerminal, RecordKillTerminal
  <2> HIDE DEF b
  <2>5. DoorOwes(b)
    BY <1>2, <2>3, <2>4 DEF DoorOwes, Walking, Telling
  <2> QED
    BY <2>1, <2>2, <2>5, MoveOwes DEF b
<1>5. ASSUME CompleteKill(k) \/ CompleteKillRaises(k)
      PROVE  \A j \in Door : DoorOwes(door[j])'
  <2> DEFINE b == [a EXCEPT !.pc = "complete", !.at = NoPark]
  <2>1. door' = [door EXCEPT ![k] = b] /\ b \in DoorRecord
    BY <1>1, <1>5 DEF CompleteKill, CompleteKillRaises, DoorRecord, DoorPc
  <2>3. b.pc = "complete" /\ b.park = a.park /\ b.dues = a.dues
    BY DEF DoorRecord
  <2>4. a.pc \in {"deliver", "record", "clear"}
    BY <1>1, <1>5 DEF CompleteKill, CompleteKillRaises
  <2> HIDE DEF b
  <2>5. DoorOwes(b)
    BY <1>2, <2>3, <2>4 DEF DoorOwes, Walking, Telling
  <2> QED
    BY <2>1, <2>5, MoveOwes
<1> QED
  BY <1>3, <1>4, <1>5

LEMMA ReaperOwes ==
  ASSUME TypeInv, KillInv, Settling, Next, NEW k \in Door,
         \/ \E p \in Park : ReapRead(k, p) \/ DropContinuation(k, p) \/ RedeliverKill(k, p)
         \/ ExpireResume(k) \/ ExpireKill(k) \/ SettleExpiry(k) \/ GiveUp(k)
         \/ RecordGiveUp(k) \/ KillDone(k) \/ DoorDies(k)
  PROVE  \A j \in Door : DoorOwes(door[j])'
<1>0. door \in [Door -> DoorRecord] /\ kill_due \in [Park -> Terminal \cup {"none"}]
  BY DEF TypeInv, AllTypes, DoorTypeOK, StoreTypeOK
<1>1. ASSUME NEW rec \in DoorRecord, door' = [door EXCEPT ![k] = rec],
             rec.pc \in {"idle", "expire", "settle", "giveup", "record_giveup"}
      PROVE  \A j \in Door : DoorOwes(door[j])'
  <2>1. DoorOwes(rec)
    BY <1>1, NoKillOwes
  <2> QED
    BY <1>1, <2>1, MoveOwes
<1>2. ASSUME NEW p \in Park, ReapRead(k, p) \/ DropContinuation(k, p)
      PROVE  \A j \in Door : DoorOwes(door[j])'
  <2>1. PICK pc \in {"expire", "settle", "giveup"} :
          door' = [door EXCEPT ![k] = [NoDoor EXCEPT !.park = p, !.pc = pc]]
    BY <1>2 DEF ReapRead, DropContinuation, NoDoor
  <2>2. [NoDoor EXCEPT !.park = p, !.pc = pc] \in DoorRecord
    BY NoDoorType DEF DoorRecord, DoorPc
  <2>3. [NoDoor EXCEPT !.park = p, !.pc = pc].pc = pc
    BY DEF NoDoor
  <2> QED
    BY <1>1, <2>1, <2>2, <2>3
<1>3. ASSUME NEW p \in Park, RedeliverKill(k, p)
      PROVE  \A j \in Door : DoorOwes(door[j])'
  <2>1. PICK terminal \in Terminal : terminal = kill_due[p]
    BY <1>0, <1>3 DEF RedeliverKill
  <2>2. door' = [door EXCEPT ![k] = KillOf(p, terminal)]
    BY <1>3, <2>1 DEF RedeliverKill, KillOf
  <2>3. p \in revoked
    BY <1>3 DEF RedeliverKill, KillInv, RunIndexed
  <2>4. DoorOwes(KillOf(p, terminal))
    BY <2>3, KillStarts
  <2> QED
    BY <2>2, <2>4, KillOfType, MoveOwes
<1>4. ASSUME ExpireResume(k) \/ ExpireKill(k)
      PROVE  \A j \in Door : DoorOwes(door[j])'
  <2>1. door[k].park \in Park /\ "failed" \in Terminal
    BY <1>4 DEF ExpireResume, ExpireKill, TypeInv, AllTypes, DoorsOK, DoorShape, Terminal
  <2>2. CASE door' = [door EXCEPT ![k].pc = "settle"]
    <3>1. PICK rec \in DoorRecord : rec = [door[k] EXCEPT !.pc = "settle"]
      BY <1>0 DEF DoorRecord, DoorPc
    <3>2. door' = [door EXCEPT ![k] = rec] /\ rec.pc = "settle"
      BY <1>0, <2>2, <3>1 DEF DoorRecord
    <3> QED
      BY <1>1, <3>2
  <2>3. CASE Leave(k)
    BY <2>3, LeaveOwes
  <2>4. CASE Revoke(k, door[k].park, KillActOnPending, "failed")
    BY <2>1, <2>4, RevokeOwes
  <2> QED
    BY <1>4, <2>2, <2>3, <2>4 DEF ExpireResume, ExpireKill
<1>5. ASSUME SettleExpiry(k) \/ RecordGiveUp(k) \/ KillDone(k) \/ DoorDies(k)
      PROVE  \A j \in Door : DoorOwes(door[j])'
  BY <1>5, LeaveOwes DEF SettleExpiry, RecordGiveUp, KillDone, DoorDies
<1>6. ASSUME GiveUp(k)
      PROVE  \A j \in Door : DoorOwes(door[j])'
  <2>1. CASE door' = [door EXCEPT ![k].pc = "record_giveup"]
    <3>1. PICK rec \in DoorRecord : rec = [door[k] EXCEPT !.pc = "record_giveup"]
      BY <1>0 DEF DoorRecord, DoorPc
    <3>2. door' = [door EXCEPT ![k] = rec] /\ rec.pc = "record_giveup"
      BY <1>0, <2>1, <3>1 DEF DoorRecord
    <3> QED
      BY <1>1, <3>2
  <2>2. CASE Leave(k)
    BY <2>2, LeaveOwes
  <2> QED
    BY <1>6, <2>1, <2>2 DEF GiveUp
<1> QED
  BY <1>2, <1>3, <1>4, <1>5, <1>6

LEMMA DoorsOweStep ==
  ASSUME TypeInv, KillInv, Settling, Next
  PROVE  \A k \in Door : DoorOwes(door[k])'
<1>1. CASE UNCHANGED door
  BY <1>1, DoorsStay
<1>2. CASE DoorAction
  <2>1. ASSUME NEW k \in Door, NEW p \in Park, CancelPark(k, p) \/ EraseMember(k, p)
        PROVE  \A j \in Door : DoorOwes(door[j])'
    <3>1. "withdrawn" \in Terminal
      BY DEF Terminal
    <3> QED
      BY <2>1, <3>1, RevokeOwes DEF CancelPark, EraseMember
  <2>2. CASE \E p \in Park : AbandonKill(p) \/ DropKill(p)
    BY <1>1, <2>2 DEF AbandonKill, DropKill
  <2> QED
    BY <1>2, <2>1, <2>2, RevokeMemberOwes, TellOwes, ReaperOwes, WithdrawOwes,
       MembersOwes DEF DoorAction
<1> QED
  BY <1>1, <1>2, NextCases DEF AgeAction, doorVars

LEMMA KillInvStep == TypeInv /\ ResolveInv /\ KillInv /\ [Next]_vars => KillInv'
<1> SUFFICES ASSUME TypeInv, ResolveInv, KillInv, [Next]_vars PROVE KillInv'
  OBVIOUS
<1>1. CASE UNCHANGED vars
  BY <1>1 DEF vars, storeVars, redisVars, driveVars, doorVars, reaperVars, KillInv,
              RunIndexed, Covered, Surfaced, Open, OpenAtKill, OpenIn, Unwritten,
              KillOwed, DoorOwes
<1>2. CASE Next
  <2>1. (\A p \in Park : RunIndexed(p)') /\ Settling
    BY <1>2, RunIndexedStep DEF KillInv
  <2>2. (\A p \in Park : Covered(p)') /\ \A k \in Door : DoorOwes(door[k])'
    BY <1>2, <2>1, CoveredStep, DoorsOweStep
  <2> QED
    BY <2>1, <2>2 DEF KillInv
<1> QED
  BY <1>1, <1>2

LEMMA KillHolds == Spec => [](TypeInv /\ KillInv)
<1>1. Init => KillInv
  BY IdleOwes DEF Init, StoreInit, DriveInit, DoorInit, KillInv, RunIndexed, Covered,
         Open, OpenAtKill
<1> QED
  BY <1>1, KillInvStep, ResolveHolds, PTL DEF Spec

(***************************************************************************)
(* While a park of a run taken down is open or keeps its ticket, the run's *)
(* index leads to it and a record of a kill of the run stands, or was      *)
(* given up on aloud, wherever the kills that walked the run stopped.      *)
(***************************************************************************)
THEOREM KillIsOwed == Spec => []KilledRunStillOwed
<1>1. KillInv => KilledRunStillOwed
  BY DEF KillInv, RunIndexed, Covered, Open, OpenAtKill, KilledRunStillOwed
<1> QED
  BY <1>1, KillHolds, PTL

(***************************************************************************)
(* Who tells a driver: a door in its telling pass, of a run it has walked. *)
(***************************************************************************)
LEMMA TellersStep ==
  ASSUME TypeInv, KillInv, [Next]_vars, NEW p \in told' \ told
  PROVE  OpenIn(RunOf[p]) = {}
<1> USE DEF doorVars
<1>0. Next /\ DoorAction
  BY NextCases DEF vars, AgeAction
<1>1. ASSUME NEW k \in Door, NEW q \in Park, FireParkKilled(k, q)
      PROVE  OpenIn(RunOf[p]) = {}
  <2>1. p = q /\ door[k].pc \in {"revoke", "complete"} /\ door[k].todo = {} /\ p \in door[k].dues
    BY <1>1 DEF FireParkKilled
  <2> QED
    BY <2>1 DEF KillInv, DoorOwes, Walking, Telling
<1>2. ASSUME ~\E k \in Door, q \in Park : FireParkKilled(k, q)
      PROVE  UNCHANGED told
  <2>1. CASE \E k \in Door, q \in Park :
               \/ CancelPark(k, q) \/ EraseMember(k, q) \/ RevokeMember(k, q)
               \/ ParkKillNotReady(k, q) \/ RedeliverKill(k, q)
               \/ ReapRead(k, q) \/ DropContinuation(k, q)
    BY <2>1 DEF CancelPark, EraseMember, RevokeMember, ParkKillNotReady,
                RedeliverKill, ReapRead, DropContinuation
  <2>2. CASE \E k \in Door :
               \/ WithdrawChannelDelivery(k) \/ RunMembers(k) \/ WithdrawMember(k)
               \/ DeliverKillTerminal(k) \/ RecordKillTerminal(k) \/ CompleteKill(k)
               \/ KillDone(k) \/ CompleteKillRaises(k) \/ DoorDies(k)
               \/ ExpireResume(k) \/ ExpireKill(k) \/ SettleExpiry(k)
               \/ GiveUp(k) \/ RecordGiveUp(k)
    BY <2>2 DEF WithdrawChannelDelivery, RunMembers, WithdrawMember,
                DeliverKillTerminal, RecordKillTerminal, CompleteKill, KillDone,
                CompleteKillRaises, DoorDies, ExpireResume, ExpireKill, SettleExpiry,
                GiveUp, RecordGiveUp
  <2>3. CASE \E q \in Park : AbandonKill(q) \/ DropKill(q)
    BY <2>3 DEF AbandonKill, DropKill
  <2> QED
    BY <1>0, <1>2, <2>1, <2>2, <2>3 DEF DoorAction
<1> QED
  BY <1>1, <1>2

(***************************************************************************)
(* A driver is told of a kill only when nothing the kill could reach in    *)
(* the run is open any more.                                               *)
(***************************************************************************)
THEOREM ToldLast == Spec => DriversToldLast
<1> DEFINE Step == \A p \in Park : p \in told' \ told =>
                     ~\E q \in ParksOf(RunOf[p]) : OpenAtKill(q)
<1>1. TypeInv /\ KillInv /\ [Next]_vars => Step
  BY TellersStep DEF OpenIn
<1>2. Spec => [][Step]_vars
  BY <1>1, KillHolds, PTL DEF Spec
<1> QED
  BY <1>2 DEF DriversToldLast

(***************************************************************************)
(* A kill whose record was cleared left nothing held in its channel.       *)
(***************************************************************************)
THEOREM WithdrawnWhenCompleted == Spec => []CompletedKillWithdrew
<1>1. KillInv => CompletedKillWithdrew
  BY DEF KillInv, Covered, Surfaced, KillCompleted, CompletedKillWithdrew
<1> QED
  BY <1>1, KillHolds, PTL

-----------------------------------------------------------------------------
(***************************************************************************)
(* The lifecycle implements the ledger.                                    *)
(***************************************************************************)

(***************************************************************************)
(* Only an answered question is resumed, reported or given up on.          *)
(***************************************************************************)
DriveAnswers(rec) == rec.park # NoPark => rec.park \in claimed
GiverUp(rec) == rec.pc \in {"giveup", "record_giveup"} => rec.park \in dropped

AnswerInv ==
  /\ dispatching \subseteq claimed
  /\ continuation_due_index \subseteq claimed
  /\ dropped \subseteq claimed \ continuation_due
  /\ \A d \in Drive : DriveAnswers(drive[d])
  /\ \A k \in Door : GiverUp(door[k])

LEMMA AnswersKept ==
  ASSUME TypeInv, ResolveInv, AnswerInv, Next
  PROVE  /\ claimed \subseteq claimed' /\ dropped \subseteq dropped'
         /\ continuation_due_index' \subseteq claimed'
         /\ dropped' \subseteq claimed' \ continuation_due'
<1> USE DEF AnswerInv
<1>0. \A p \in Park : ParkInv(p)
  BY DEF ResolveInv
<1>1. dropped \subseteq dropped'
  BY HistoryStep DEF DropContinuation
<1>2. CASE PlainStoreStep /\ UNCHANGED dropped
  <2>1. ASSUME NEW p \in Park, RecordAnswer(p)
        PROVE  /\ claimed \subseteq claimed'
               /\ continuation_due_index' \subseteq claimed'
               /\ dropped' \subseteq claimed' \ continuation_due'
    <3>1. p \notin claimed
      BY <1>0, <2>1 DEF ParkInv, RecordAnswer
    <3> QED
      BY <1>2, <2>1, <3>1 DEF RecordAnswer
  <2>2. ASSUME ~\E p \in Park : RecordAnswer(p)
        PROVE  /\ claimed' = claimed
               /\ continuation_due' \subseteq continuation_due
               /\ continuation_due_index' \subseteq continuation_due_index
    BY <1>2, <2>2 DEF PlainStoreStep, PrunePending, ClearKillDue, DropExpiryMember,
                DropOrphanKill, StateAgesOut, TicketAgesOut, KillDueAgesOut,
                EnqueueKill, storeVars, redisVars
  <2> QED
    BY <1>1, <1>2, <2>1, <2>2
<1>3. CASE (Written \/ Cleared) /\ UNCHANGED dropped
  BY <1>3 DEF Written, Cleared, AskWrite, ClearDue, Add, ClearContinuationDue
<1>4. ASSUME NEW k \in Door, NEW p \in Park, DropContinuation(k, p)
      PROVE  /\ claimed' = claimed
             /\ continuation_due_index' \subseteq claimed'
             /\ dropped' \subseteq claimed' \ continuation_due'
  BY <1>4 DEF DropContinuation, DropOrphanContinuation
<1> QED
  BY <1>1, <1>2, <1>3, <1>4, StoreCases, HistoryStep DEF DroppedLoud

(***************************************************************************)
(* A slot comes to hold a park only by a spawn.                            *)
(***************************************************************************)
LEMMA AnswerDrives ==
  ASSUME TypeInv, Next
  PROVE  /\ \A p \in dispatching' : p \in dispatching \/ RecordAnswer(p)
         /\ \A d \in Drive : drive'[d].park \in {NoPark, drive[d].park}
                                \cup dispatching \cup continuation_due_index
<1> DEFINE Spawned == \A d \in Drive : drive'[d].park \in {NoPark, drive[d].park}
                                \cup dispatching \cup continuation_due_index
           Asked == \A p \in dispatching' : p \in dispatching \/ RecordAnswer(p)
<1>0. drive \in [Drive -> DriveRecord]
  BY DEF TypeInv, AllTypes, DriveTypeOK
<1>1. ASSUME DriveAction PROVE Asked /\ Spawned
  <2>1. CASE \E p \in Park : AnswerPark(p) \/ DispatchLost(p)
    BY <2>1 DEF AnswerPark, DispatchLost
  <2>2. CASE \E r \in Run : TakeOutcome(r)
    BY <2>2 DEF TakeOutcome
  <2>3. ASSUME NEW d \in Drive, NEW r \in Run, StartRun(d, r)
        PROVE  Asked /\ Spawned
    BY <1>0, <2>3 DEF StartRun, NoDrive
  <2>4. ASSUME NEW d \in Drive, NEW p \in Park,
               DispatchContinuation(d, p) \/ RedeliverContinuation(d, p)
        PROVE  Asked /\ Spawned
    <3>1. /\ drive' = [drive EXCEPT ![d] = ResumeOf(p)]
          /\ p \in dispatching \cup continuation_due_index
          /\ dispatching' \subseteq dispatching
      BY <2>4 DEF DispatchContinuation, RedeliverContinuation
    <3>2. ResumeOf(p).park = p
      BY DEF ResumeOf, NoDrive
    <3> QED
      BY <1>0, <3>1, <3>2
  <2>5. ASSUME NEW d \in Drive, DriveStep(d) \/ DriveDies(d)
        PROVE  Asked /\ Spawned
    <3>1. /\ UNCHANGED dispatching
          /\ drive'[d].park \in {NoPark, drive[d].park}
          /\ \A e \in Drive \ {d} : drive'[e] = drive[e]
      BY <1>0, <2>5
         DEF DriveStep, AssertResumeAuthorized, AskCheck, AskWrite, AskDeliver,
             AskDeliveryFails, ReturnSuspended, ReturnTerminal, TicketStands,
             DeliverOutcome, RecordOutcome, ClearDue, DriveDies, End, Go, NoDrive,
             DriveRecord
    <3> QED
      BY <3>1
  <2> QED
    BY <1>1, <2>1, <2>2, <2>3, <2>4, <2>5 DEF DriveAction
<1>2. ASSUME DoorAction PROVE Asked
  <2> USE DEF driveVars
  <2>1. CASE \E k \in Door, q \in Park :
               \/ CancelPark(k, q) \/ EraseMember(k, q) \/ RevokeMember(k, q)
               \/ FireParkKilled(k, q) \/ ParkKillNotReady(k, q) \/ RedeliverKill(k, q)
               \/ ReapRead(k, q) \/ DropContinuation(k, q)
    BY <2>1 DEF CancelPark, EraseMember, RevokeMember, FireParkKilled, ParkKillNotReady,
                RedeliverKill, ReapRead, DropContinuation
  <2>2. CASE \E k \in Door :
               \/ WithdrawChannelDelivery(k) \/ RunMembers(k) \/ WithdrawMember(k)
               \/ DeliverKillTerminal(k) \/ RecordKillTerminal(k) \/ CompleteKill(k)
               \/ KillDone(k) \/ CompleteKillRaises(k) \/ DoorDies(k)
               \/ ExpireKill(k) \/ SettleExpiry(k) \/ GiveUp(k) \/ RecordGiveUp(k)
    BY <2>2 DEF WithdrawChannelDelivery, RunMembers, WithdrawMember,
                DeliverKillTerminal, RecordKillTerminal, CompleteKill, KillDone,
                CompleteKillRaises, DoorDies, ExpireKill, SettleExpiry, GiveUp,
                RecordGiveUp
  <2>3. CASE \E k \in Door : ExpireResume(k)
    BY <2>3 DEF ExpireResume, AnswerPark
  <2>4. CASE \E q \in Park : AbandonKill(q) \/ DropKill(q)
    BY <2>4 DEF AbandonKill, DropKill
  <2> QED
    BY <1>2, <2>1, <2>2, <2>3, <2>4 DEF DoorAction
<1>3. ASSUME DoorAction PROVE Spawned
  BY <1>3, DoorsLeaveDrives
<1>4. ASSUME AgeAction PROVE Asked /\ Spawned
  BY <1>4 DEF AgeAction, driveVars
<1> QED
  BY <1>1, <1>2, <1>3, <1>4, NextCases

(***************************************************************************)
(* A door comes to give a resume up only with its loud drop.               *)
(***************************************************************************)
LEMMA GiverUpStep ==
  ASSUME TypeInv, AnswerInv, Next, dropped \subseteq dropped'
  PROVE  \A k \in Door : GiverUp(door[k])'
<1> DEFINE Ok(k) == GiverUp(door[k])'
<1>0. door \in [Door -> DoorRecord]
  BY DEF TypeInv, AllTypes, DoorTypeOK
<1>1. ASSUME NEW k \in Door, door'[k] = door[k] PROVE Ok(k)
  BY <1>1 DEF AnswerInv, GiverUp
<1>2. ASSUME NEW k \in Door, door'[k].pc \notin {"giveup", "record_giveup"} PROVE Ok(k)
  BY <1>2 DEF GiverUp
<1>3. ASSUME NEW j \in Door, NEW p \in Park, NEW act_on, NEW terminal,
             Revoke(j, p, act_on, terminal), NEW k \in Door
      PROVE  Ok(k)
  <2>1. door'[k] = door[k] \/ door'[k].pc \in {"withdraw", "idle"}
    BY <1>0, <1>3, RevokeDoors
  <2> QED
    BY <1>1, <1>2, <2>1
<1>4. ASSUME NEW j \in Door, NEW k \in Door,
             \/ \E p \in Park : CancelPark(j, p) \/ EraseMember(j, p)
             \/ ExpireKill(j)
      PROVE  Ok(k)
  <2>1. ASSUME NEW p \in Park, CancelPark(j, p) \/ EraseMember(j, p) PROVE Ok(k)
    BY <1>3, <2>1 DEF CancelPark, EraseMember
  <2>2. ASSUME ExpireKill(j) PROVE Ok(k)
    <3>1. door[j].park \in Park
      BY <2>2 DEF ExpireKill, TypeInv, AllTypes, DoorsOK, DoorShape
    <3>2. CASE Revoke(j, door[j].park, KillActOnPending, "failed")
      BY <1>3, <3>1, <3>2
    <3>3. CASE door' = [door EXCEPT ![j].pc = "settle"]
      <4>1. door'[k] = door[k] \/ door'[k].pc = "settle"
        BY <1>0, <3>3 DEF DoorRecord
      <4> QED
        BY <1>1, <1>2, <4>1
    <3> QED
      BY <2>2, <3>2, <3>3 DEF ExpireKill
  <2> QED
    BY <1>4, <2>1, <2>2
<1>5. ASSUME NEW j \in Door, NEW k \in Door,
             \/ \E p \in Park : \/ RevokeMember(j, p) \/ FireParkKilled(j, p)
                                \/ ParkKillNotReady(j, p) \/ RedeliverKill(j, p)
                                \/ ReapRead(j, p)
             \/ WithdrawChannelDelivery(j) \/ RunMembers(j) \/ WithdrawMember(j)
             \/ DeliverKillTerminal(j) \/ RecordKillTerminal(j) \/ CompleteKill(j)
             \/ KillDone(j) \/ CompleteKillRaises(j) \/ DoorDies(j)
             \/ ExpireResume(j) \/ SettleExpiry(j) \/ RecordGiveUp(j)
      PROVE  Ok(k)
  <2>1. door'[k] = door[k] \/ door'[k].pc \notin {"giveup", "record_giveup"}
    <3>1. CASE \E p \in Park : RevokeMember(j, p) \/ FireParkKilled(j, p)
                                 \/ ParkKillNotReady(j, p)
      BY <1>0, <3>1 DEF RevokeMember, FireParkKilled, ParkKillNotReady, DoorRecord
    <3>2. CASE \E p \in Park : RedeliverKill(j, p)
      BY <1>0, <3>2 DEF RedeliverKill, NoDoor
    <3>3. CASE \E p \in Park : ReapRead(j, p)
      BY <1>0, <3>3 DEF ReapRead, NoDoor
    <3>4. CASE \/ WithdrawChannelDelivery(j) \/ RunMembers(j) \/ WithdrawMember(j)
               \/ DeliverKillTerminal(j) \/ RecordKillTerminal(j) \/ CompleteKill(j)
               \/ KillDone(j) \/ CompleteKillRaises(j) \/ DoorDies(j)
               \/ ExpireResume(j) \/ SettleExpiry(j) \/ RecordGiveUp(j)
      BY <1>0, <3>4
         DEF WithdrawChannelDelivery, RunMembers, WithdrawMember, DeliverKillTerminal,
             RecordKillTerminal, CompleteKill, KillDone, CompleteKillRaises, DoorDies,
             ExpireResume, SettleExpiry, RecordGiveUp, Leave, NoDoor, DoorRecord
    <3> QED
      BY <1>5, <3>1, <3>2, <3>3, <3>4
  <2> QED
    BY <1>1, <1>2, <2>1
<1>6. ASSUME NEW j \in Door, NEW k \in Door, GiveUp(j)
      PROVE  Ok(k)
  <2>1. \/ door'[k] = door[k]
        \/ door'[k].pc = "idle"
        \/ k = j /\ door[k].pc = "giveup" /\ door'[k].park = door[k].park
    BY <1>0, <1>6 DEF GiveUp, Leave, NoDoor, DoorRecord
  <2> QED
    BY <1>1, <1>2, <2>1 DEF AnswerInv, GiverUp
<1>7. ASSUME NEW j \in Door, NEW k \in Door, NEW p \in Park, DropContinuation(j, p)
      PROVE  Ok(k)
  <2>1. door'[k] = door[k] \/ (door'[k].park = p /\ p \in dropped')
    BY <1>0, <1>7 DEF DropContinuation, NoDoor
  <2> QED
    BY <1>1, <2>1 DEF GiverUp
<1>8. CASE UNCHANGED door
  BY <1>1, <1>8
<1>9. CASE DoorAction
  <2>1. CASE \E p \in Park : AbandonKill(p) \/ DropKill(p)
    BY <1>8, <2>1 DEF AbandonKill, DropKill
  <2> QED
    BY <1>4, <1>5, <1>6, <1>7, <1>9, <2>1 DEF DoorAction
<1> QED
  BY <1>8, <1>9, NextCases DEF AgeAction, doorVars

LEMMA AnswerStep == TypeInv /\ ResolveInv /\ AnswerInv /\ [Next]_vars => AnswerInv'
<1> SUFFICES ASSUME TypeInv, ResolveInv, AnswerInv, [Next]_vars PROVE AnswerInv'
  OBVIOUS
<1>1. CASE UNCHANGED vars
  BY <1>1 DEF vars, storeVars, redisVars, driveVars, doorVars, reaperVars, AnswerInv,
              DriveAnswers, GiverUp
<1>2. CASE Next
  <2>1. /\ claimed \subseteq claimed' /\ dropped \subseteq dropped'
        /\ continuation_due_index' \subseteq claimed'
        /\ dropped' \subseteq claimed' \ continuation_due'
    BY <1>2, AnswersKept
  <2>2. dispatching' \subseteq claimed'
    BY <1>2, <2>1, AnswerDrives DEF AnswerInv, RecordAnswer
  <2>3. (\A d \in Drive : DriveAnswers(drive[d]))'
    BY <1>2, <2>1, AnswerDrives DEF AnswerInv, DriveAnswers
  <2>4. (\A k \in Door : GiverUp(door[k]))'
    BY <1>2, <2>1, GiverUpStep
  <2> QED
    BY <2>1, <2>2, <2>3, <2>4 DEF AnswerInv
<1> QED
  BY <1>1, <1>2

(***************************************************************************)
(* The order of the phases: a question that was answered, or was never     *)
(* written, stands where the ledger has it.                                *)
(***************************************************************************)
ImplInv == TypeInv /\ ResolveInv /\ OwedInv /\ KillInv /\ AnswerInv

LEMMA PhaseFacts ==
  ASSUME ImplInv, NEW p \in Park
  PROVE  /\ p \in continuation_due => /\ p \in continuation_due_index
                                      /\ p \notin dropped
         /\ p \in continuation_due_index \cup dropped => p \in claimed
         /\ p \in claimed => state[p] # "pending" /\ ~Unwritten(p)
         /\ Unwritten(p) => state[p] = "absent"
         /\ p \in revoked => /\ ~Unwritten(p)
                             /\ state[p] # "pending"
                             /\ p \notin continuation_due
  BY DEF ImplInv, OwedInv, AnswerInv, ResolveInv, ParkInv, KillInv, RunIndexed, Open

PhaseStays(p) ==
  /\ state'[p] = "pending" <=> state[p] = "pending"
  /\ p \in continuation_due' <=> p \in continuation_due
  /\ p \in continuation_due_index' \cup dropped'
       <=> p \in continuation_due_index \cup dropped
  /\ Unwritten(p)' <=> Unwritten(p)

LEMMA SamePhase ==
  ASSUME NEW p, PhaseStays(p)
  PROVE  PhaseOf(p)' = PhaseOf(p)
  BY DEF PhaseStays, PhaseOf

LedgerSame == UNCHANGED <<delivered, moved, run_killed>>

LEMMA LedgerStutters ==
  ASSUME \A p \in Park : PhaseStays(p), LedgerSame
  PROVE  UNCHANGED Ledger!ledgerVars
  BY SamePhase DEF Ledger!ledgerVars, LedgerSame

LEMMA Becomes ==
  ASSUME NEW q \in Park, NEW ph, PhaseOf(q)' = ph, \A p \in Park \ {q} : PhaseStays(p)
  PROVE  Ledger!Become(q, ph)
  BY SamePhase DEF Ledger!Become

(***************************************************************************)
(* The operations of the store, each as the ledger's step it implements.   *)
(***************************************************************************)
SameUnwritten == \A p \in Park : Unwritten(p)' <=> Unwritten(p)
LedgerStep == Ledger!LedgerNext \/ UNCHANGED Ledger!ledgerVars

LEMMA ClaimSteps ==
  ASSUME ImplInv, NEW q \in Park, RecordAnswer(q), SameUnwritten, LedgerSame, UNCHANGED dropped
  PROVE  Ledger!Claim(q)
<1>0. state \in [Park -> {"absent", "pending", "answered"}]
  BY DEF ImplInv, TypeInv, AllTypes, StoreTypeOK
<1> HIDE DEF Unwritten
<1>1. PhaseOf(q) = "open" /\ PhaseOf(q)' = "owed"
  BY <1>0 DEF RecordAnswer, PhaseOf
<1>2. \A p \in Park \ {q} : PhaseStays(p)
  BY <1>0 DEF RecordAnswer, SameUnwritten, PhaseStays
<1>3. Ledger!Become(q, "owed")
  BY <1>1, <1>2, Becomes
<1> QED
  BY <1>1, <1>3 DEF Ledger!Claim, LedgerSame

(***************************************************************************)
(* A pending question that leaves the store is closed.                     *)
(***************************************************************************)
LEMMA WithdrawSteps ==
  ASSUME ImplInv, NEW q \in Park, state[q] = "pending",
         state' = [state EXCEPT ![q] = "absent"],
         UNCHANGED <<continuation_due, continuation_due_index, dropped>>,
         SameUnwritten, LedgerSame
  PROVE  Ledger!Withdraw(q)
<1>0. state \in [Park -> {"absent", "pending", "answered"}]
  BY DEF ImplInv, TypeInv, AllTypes, StoreTypeOK
<1>1. /\ q \notin continuation_due \cup continuation_due_index \cup dropped
      /\ ~Unwritten(q)
  BY PhaseFacts
<1> HIDE DEF Unwritten
<1>2. PhaseOf(q) = "open" /\ PhaseOf(q)' = "closed"
  BY <1>0, <1>1 DEF PhaseOf, SameUnwritten
<1>3. \A p \in Park \ {q} : PhaseStays(p)
  BY <1>0 DEF SameUnwritten, PhaseStays
<1>4. Ledger!Become(q, "closed")
  BY <1>2, <1>3, Becomes
<1> QED
  BY <1>2, <1>4 DEF Ledger!Withdraw, LedgerSame

LEMMA TakeDownSteps ==
  ASSUME ImplInv, NEW q \in Park, NEW terminal, EnqueueKill(q, terminal),
         SameUnwritten, UNCHANGED <<delivered, moved, dropped>>
  PROVE  Ledger!TakeDown(q)
<1>0. state \in [Park -> {"absent", "pending", "answered"}]
  BY DEF ImplInv, TypeInv, AllTypes, StoreTypeOK
<1>1. /\ ~Unwritten(q)
      /\ q \in continuation_due => q \notin dropped
      /\ state[q] = "pending" => q \notin dropped
  BY PhaseFacts DEF EnqueueKill, Live
<1> HIDE DEF Unwritten
<1>2. state'[q] # "pending" /\ q \notin continuation_due' \cup continuation_due_index'
  BY <1>0 DEF EnqueueKill
<1>3. PhaseOf(q) # "unasked" /\ run_killed' = run_killed \cup {RunOf[q]}
  BY <1>1 DEF PhaseOf, EnqueueKill
<1>4. \A p \in Park \ {q} : PhaseStays(p)
  BY <1>0 DEF EnqueueKill, SameUnwritten, PhaseStays
<1>5. CASE q \in dropped
  <2>1. PhaseOf(q) = "lapsed" /\ PhaseOf(q)' = "lapsed"
    BY <1>1, <1>2, <1>5 DEF PhaseOf
  <2>2. \A p \in Park : PhaseOf(p)' = PhaseOf(p)
    BY <1>4, <2>1, SamePhase
  <2> QED
    BY <1>3, <2>1, <2>2 DEF Ledger!TakeDown
<1>6. CASE q \notin dropped
  <2>1. PhaseOf(q)' = "closed"
    BY <1>1, <1>2, <1>6 DEF PhaseOf, SameUnwritten
  <2>2. Ledger!Become(q, "closed")
    BY <1>4, <2>1, Becomes
  <2> QED
    BY <1>3, <2>2 DEF Ledger!TakeDown
<1> QED
  BY <1>5, <1>6

(***************************************************************************)
(* A ticket is cleared by a drive that got its outcome or its wait out, so *)
(* the debt is discharged; a ticket already surfaced stays lapsed.         *)
(***************************************************************************)
LEMMA DischargeSteps ==
  ASSUME ImplInv, NEW q \in Park, ClearContinuationDue(q), Ended(q), SameUnwritten,
         LedgerSame, UNCHANGED dropped
  PROVE  Ledger!Discharge(q) \/ UNCHANGED Ledger!ledgerVars
<1>1. /\ q \in continuation_due => q \in continuation_due_index /\ q \notin dropped
      /\ q \in continuation_due_index \cup dropped => state[q] # "pending" /\ ~Unwritten(q)
  BY PhaseFacts
<1> HIDE DEF Unwritten
<1>2. \A p \in Park \ {q} : PhaseStays(p)
  BY DEF ClearContinuationDue, SameUnwritten, PhaseStays
<1>3. CASE q \in continuation_due_index \ dropped
  <2>1. PhaseOf(q) \in {"owed", "lapsed"} /\ PhaseOf(q)' = "closed"
    BY <1>1, <1>3 DEF ClearContinuationDue, PhaseOf, SameUnwritten
  <2>2. Ledger!Become(q, "closed")
    BY <1>2, <2>1, Becomes
  <2> QED
    BY <2>1, <2>2 DEF Ledger!Discharge, Ended, LedgerSame
<1>4. CASE q \notin continuation_due_index \ dropped
  <2>1. PhaseStays(q)
    BY <1>1, <1>4 DEF ClearContinuationDue, PhaseStays, SameUnwritten
  <2> QED
    BY <1>2, <2>1, LedgerStutters
<1> QED
  BY <1>3, <1>4

LEMMA LapseSteps ==
  ASSUME ImplInv, NEW q \in Park, TicketAgesOut(q), SameUnwritten, LedgerSame,
         UNCHANGED dropped
  PROVE  Ledger!Lapse(q)
<1>1. q \in continuation_due_index /\ state[q] # "pending"
  BY PhaseFacts DEF TicketAgesOut
<1> HIDE DEF Unwritten
<1>2. \A p \in Park \ {q} : PhaseStays(p)
  BY DEF TicketAgesOut, SameUnwritten, PhaseStays
<1>3. PhaseOf(q) = "owed" /\ PhaseOf(q)' = "lapsed"
  BY <1>1 DEF TicketAgesOut, PhaseOf
<1>4. Ledger!Become(q, "lapsed")
  BY <1>2, <1>3, Becomes
<1> QED
  BY <1>3, <1>4 DEF Ledger!Lapse, LedgerSame

LEMMA SettleSteps ==
  ASSUME NEW q \in Park, state[q] # "pending", ~Unwritten(q), NEW status \in Status,
         RunOf[q] \in Run, Land(RunOf[q], status), SameUnwritten, UNCHANGED storeVars,
         UNCHANGED <<dropped, moved>>
  PROVE  Ledger!LedgerNext
<1>1. PhaseOf(q) \notin {"unasked", "open"}
  BY DEF PhaseOf
<1> HIDE DEF Unwritten
<1>2. \A p \in Park : PhaseStays(p)
  BY DEF SameUnwritten, PhaseStays, storeVars, redisVars
<1>3. \A p \in Park : PhaseOf(p)' = PhaseOf(p)
  BY <1>2, SamePhase
<1>4. Ledger!Settle(RunOf[q], status)
  BY <1>1, <1>3 DEF Ledger!Settle, Land, storeVars, redisVars
<1> QED
  BY <1>4 DEF Ledger!LedgerNext, Status

(***************************************************************************)
(* A question comes to be asked, or never does.                            *)
(***************************************************************************)
LEMMA AskImplements ==
  ASSUME ImplInv, NEW q \in Park, Unwritten(q), ~Unwritten(q)',
         \A p \in Park \ {q} : Unwritten(p)' <=> Unwritten(p),
         Add(q) \/ UNCHANGED storeVars, UNCHANGED <<delivered, moved, dropped>>
  PROVE  Ledger!Ask(q)
<1>0. state \in [Park -> {"absent", "pending", "answered"}]
  BY DEF ImplInv, TypeInv, AllTypes, StoreTypeOK
<1>1. /\ state[q] = "absent"
      /\ q \notin continuation_due \cup continuation_due_index \cup dropped
  BY PhaseFacts
<1> HIDE DEF Unwritten
<1>2. \A p \in Park \ {q} : PhaseStays(p)
  BY <1>0 DEF Add, storeVars, redisVars, PhaseStays
<1>3. PhaseOf(q) = "unasked" /\ PhaseOf(q)' \in {"open", "closed"}
  BY <1>0, <1>1 DEF Add, storeVars, redisVars, PhaseOf
<1>4. Ledger!Become(q, "open") \/ Ledger!Become(q, "closed")
  BY <1>2, <1>3, Becomes
<1> QED
  BY <1>3, <1>4 DEF Ledger!Ask, Add, storeVars, redisVars

(***************************************************************************)
(* One slot moves, and is asking neither before nor after.                 *)
(***************************************************************************)
LEMMA NotAsking ==
  ASSUME NEW d \in Drive, drive[d].pc # "asking", drive'[d].pc # "asking",
         \A e \in Drive \ {d} : drive'[e] = drive[e], UNCHANGED minted
  PROVE  SameUnwritten
  BY DEF SameUnwritten, Unwritten

LEMMA QuietDrives ==
  ASSUME ImplInv, Next, NEW d \in Drive, UNCHANGED dropped,
         \/ AssertResumeAuthorized(d) \/ AskDeliver(d) \/ TicketStands(d)
         \/ DeliverOutcome(d) \/ (AskDeliveryFails(d) /\ UNCHANGED storeVars)
         \/ \E status \in Status : ReturnTerminal(d, status)
         \/ \E r \in Run : StartRun(d, r)
         \/ \E p \in Park : DispatchContinuation(d, p) \/ RedeliverContinuation(d, p)
  PROVE  UNCHANGED Ledger!ledgerVars
<1>0. drive \in [Drive -> DriveRecord]
  BY DEF ImplInv, TypeInv, AllTypes, DriveTypeOK
<1>1. /\ drive[d].pc # "asking" /\ drive'[d].pc # "asking" /\ UNCHANGED minted
      /\ \A e \in Drive \ {d} : drive'[e] = drive[e]
      /\ UNCHANGED storeVars /\ UNCHANGED <<delivered, moved>>
  <2>1. CASE \/ AssertResumeAuthorized(d) \/ AskDeliver(d) \/ TicketStands(d)
             \/ DeliverOutcome(d) \/ (AskDeliveryFails(d) /\ UNCHANGED storeVars)
             \/ \E status \in Status : ReturnTerminal(d, status)
    BY <1>0, <2>1 DEF AssertResumeAuthorized, AskDeliver, TicketStands, DeliverOutcome,
                      AskDeliveryFails, ReturnTerminal, End, Go, NoDrive, DriveRecord
  <2>2. CASE \E r \in Run : StartRun(d, r)
    BY <1>0, <2>2 DEF StartRun, NoDrive
  <2>3. CASE \E p \in Park : DispatchContinuation(d, p) \/ RedeliverContinuation(d, p)
    <3>1. PICK p \in Park : DispatchContinuation(d, p) \/ RedeliverContinuation(d, p)
      BY <2>3
    <3>2. drive' = [drive EXCEPT ![d] = ResumeOf(p)] /\ ResumeOf(p).pc # "asking"
      BY <3>1 DEF DispatchContinuation, RedeliverContinuation, ResumeOf, NoDrive
    <3> QED
      BY <1>0, <3>1, <3>2 DEF DispatchContinuation, RedeliverContinuation
  <2> QED
    BY <2>1, <2>2, <2>3
<1>2. SameUnwritten
  BY <1>1, NotAsking
<1> HIDE DEF Unwritten
<1>3. \A p \in Park : PhaseStays(p)
  BY <1>1, <1>2 DEF PhaseStays, SameUnwritten, storeVars, redisVars
<1> QED
  BY <1>1, <1>3, LedgerStutters DEF LedgerSame, storeVars, redisVars

LEMMA AskingDrives ==
  ASSUME ImplInv, Next, NEW d \in Drive, UNCHANGED dropped,
         (\E q \in Park : AskCheck(d, q)) \/ AskWrite(d) \/ DriveDies(d)
  PROVE  LedgerStep
<1>0. drive \in [Drive -> DriveRecord] /\ AskersInv
  BY DEF ImplInv, TypeInv, AllTypes, DriveTypeOK, ResolveInv
<1>1. \A p \in Park : Unwritten(p)' => Unwritten(p)
  BY <1>0, AskersStep DEF ImplInv
<1>2. \A e \in Drive \ {d} : drive'[e] = drive[e]
  BY <1>0 DEF AskCheck, AskWrite, DriveDies, End, Go
<1>3. ASSUME NEW q \in Park, \A p \in Park \ {q} : Unwritten(p) => Unwritten(p)',
             UNCHANGED storeVars, UNCHANGED <<delivered, moved>>
      PROVE  LedgerStep
  <2> HIDE DEF Unwritten
  <2>1. CASE Unwritten(q) /\ ~Unwritten(q)'
    <3>1. Ledger!Ask(q)
      BY <1>1, <1>3, <2>1, AskImplements
    <3> QED
      BY <3>1 DEF LedgerStep, Ledger!LedgerNext
  <2>2. CASE ~(Unwritten(q) /\ ~Unwritten(q)')
    <3>1. \A p \in Park : PhaseStays(p)
      BY <1>1, <1>3, <2>2 DEF PhaseStays, storeVars, redisVars
    <3> QED
      BY <1>3, <3>1, LedgerStutters DEF LedgerStep, LedgerSame, storeVars, redisVars
  <2> QED
    BY <2>1, <2>2
<1>4. ASSUME NEW q \in Park, AskCheck(d, q) PROVE LedgerStep
  <2>1. ASSUME NEW p \in Park \ {q}, Unwritten(p) PROVE Unwritten(p)'
    <3>1. CASE p \notin minted
      BY <1>4, <3>1 DEF AskCheck, Unwritten
    <3>2. ASSUME NEW e \in Drive, drive[e].pc = "asking", drive[e].ask = p
          PROVE  Unwritten(p)'
      <4>1. e # d
        BY <1>4, <3>2 DEF AskCheck
      <4> QED
        BY <1>2, <3>2, <4>1 DEF Unwritten
    <3> QED
      BY <2>1, <3>1, <3>2 DEF Unwritten
  <2> QED
    BY <1>3, <1>4, <2>1 DEF AskCheck
<1>5. ASSUME NEW q \in Park, drive[d].ask = q, drive'[d].pc # "asking", UNCHANGED minted
      PROVE  \A p \in Park \ {q} : Unwritten(p) => Unwritten(p)'
  <2>1. ASSUME NEW p \in Park \ {q}, Unwritten(p) PROVE Unwritten(p)'
    <3>2. ASSUME NEW e \in Drive, drive[e].pc = "asking", drive[e].ask = p
          PROVE  Unwritten(p)'
      BY <1>2, <1>5, <3>2 DEF Unwritten
    <3> QED
      BY <1>5, <2>1, <3>2 DEF Unwritten
  <2> QED
    BY <2>1
<1>6. ASSUME AskWrite(d) PROVE LedgerStep
  <2>1. PICK q \in Park : q = drive[d].ask
    BY <1>6 DEF AskWrite, ImplInv, TypeInv, AllTypes, DrivesOK, DriveShape
  <2>2. /\ drive'[d].pc # "asking" /\ UNCHANGED minted /\ Add(q)
        /\ UNCHANGED <<delivered, moved>> /\ drive[d].pc = "asking"
    BY <1>0, <1>6, <2>1 DEF AskWrite, Go, DriveRecord
  <2>3. Unwritten(q)
    BY <2>1, <2>2 DEF Unwritten
  <2>4. ~Unwritten(q)'
    <3>1. q \in minted'
      BY <1>0, <2>1, <2>2 DEF AskersInv
    <3>2. \A e \in Drive : drive'[e].pc = "asking" => drive'[e].ask # q
      BY <1>0, <1>2, <2>1, <2>2 DEF AskersInv
    <3> QED
      BY <3>1, <3>2 DEF Unwritten
  <2>5. \A p \in Park \ {q} : Unwritten(p) => Unwritten(p)'
    BY <1>5, <2>1, <2>2
  <2> HIDE DEF Unwritten
  <2>6. Ledger!Ask(q)
    BY <1>1, <2>2, <2>3, <2>4, <2>5, AskImplements
  <2> QED
    BY <2>6 DEF LedgerStep, Ledger!LedgerNext
<1>7. ASSUME DriveDies(d) PROVE LedgerStep
  <2>1. /\ drive'[d].pc # "asking" /\ UNCHANGED minted /\ UNCHANGED storeVars
        /\ UNCHANGED <<delivered, moved>>
    BY <1>0, <1>7 DEF DriveDies, End, NoDrive
  <2>2. CASE drive[d].pc = "asking"
    <3>1. PICK q \in Park : q = drive[d].ask
      BY <2>2 DEF ImplInv, TypeInv, AllTypes, DrivesOK, DriveShape
    <3> QED
      BY <1>3, <1>5, <2>1, <3>1
  <2>3. CASE drive[d].pc # "asking"
    <3>1. SameUnwritten
      BY <1>2, <2>1, <2>3, NotAsking
    <3> HIDE DEF Unwritten
    <3>2. \A p \in Park : PhaseStays(p)
      BY <2>1, <3>1 DEF PhaseStays, SameUnwritten, storeVars, redisVars
    <3> QED
      BY <2>1, <3>2, LedgerStutters DEF LedgerStep, LedgerSame, storeVars, redisVars
  <2> QED
    BY <2>2, <2>3
<1> QED
  BY <1>4, <1>6, <1>7

LEMMA DrivesImplement ==
  ASSUME ImplInv, Next, DriveAction, UNCHANGED <<doorVars, reaperVars>>
  PROVE  LedgerStep
<1> USE DEF LedgerStep, reaperVars
<1>0. /\ drive \in [Drive -> DriveRecord]
      /\ \A d \in Drive : DriveShape(drive[d]) /\ DriveAnswers(drive[d])
  BY DEF ImplInv, TypeInv, AllTypes, DriveTypeOK, DrivesOK, AnswerInv
<1>1. ASSUME UNCHANGED <<drive, minted>>
      PROVE  SameUnwritten
  BY <1>1 DEF SameUnwritten, Unwritten
<1>2. ASSUME NEW p \in Park, AnswerPark(p) PROVE LedgerStep
  <2>1. Ledger!Claim(p)
    BY <1>1, <1>2, ClaimSteps DEF AnswerPark, RecordAnswer, LedgerSame
  <2> QED
    BY <2>1 DEF Ledger!LedgerNext
<1>3. ASSUME \/ \E p \in Park : DispatchLost(p)
             \/ \E r \in Run : TakeOutcome(r)
      PROVE  LedgerStep
  <2>1. UNCHANGED <<drive, minted>> /\ UNCHANGED <<delivered, moved>> /\ UNCHANGED storeVars
    BY <1>3 DEF DispatchLost, TakeOutcome
  <2>2. SameUnwritten
    BY <1>1, <2>1
  <2> HIDE DEF Unwritten
  <2>3. \A p \in Park : PhaseStays(p)
    BY <2>1, <2>2 DEF PhaseStays, SameUnwritten, storeVars, redisVars
  <2> QED
    BY <2>1, <2>3, LedgerStutters DEF LedgerSame, storeVars, redisVars
<1>4. ASSUME NEW d \in Drive, AskDeliveryFails(d) PROVE LedgerStep
  <2>1. CASE UNCHANGED storeVars
    BY <1>4, <2>1, QuietDrives
  <2>2. CASE PrunePending(drive[d].ask)
    <3>1. PICK q \in Park : q = drive[d].ask
      BY <1>0, <1>4 DEF AskDeliveryFails, DriveShape
    <3>2. /\ drive[d].pc # "asking" /\ drive'[d].pc # "asking" /\ UNCHANGED minted
          /\ \A e \in Drive \ {d} : drive'[e] = drive[e]
          /\ UNCHANGED <<delivered, moved>>
      BY <1>0, <1>4 DEF AskDeliveryFails, DriveRecord
    <3>3. SameUnwritten
      BY <3>2, NotAsking
    <3>4. Ledger!Withdraw(q)
      BY <2>2, <3>1, <3>2, <3>3, WithdrawSteps DEF PrunePending, LedgerSame
    <3> QED
      BY <3>4 DEF Ledger!LedgerNext
  <2> QED
    BY <1>4, <2>1, <2>2 DEF AskDeliveryFails
<1>5. ASSUME NEW d \in Drive, ReturnSuspended(d) PROVE LedgerStep
  <2>1. /\ drive[d].pc # "asking" /\ drive'[d].pc # "asking" /\ UNCHANGED minted
        /\ \A e \in Drive \ {d} : drive'[e] = drive[e]
        /\ UNCHANGED <<delivered, run_killed>> /\ UNCHANGED storeVars
    BY <1>0, <1>5 DEF ReturnSuspended, End, Go, NoDrive, DriveRecord, storeVars, redisVars
  <2>2. SameUnwritten
    BY <2>1, NotAsking
  <2> HIDE DEF Unwritten
  <2>3. \A p \in Park : PhaseStays(p)
    BY <2>1, <2>2 DEF PhaseStays, SameUnwritten, storeVars, redisVars
  <2>4. CASE drive[d].park = NoPark
    BY <1>5, <2>1, <2>3, <2>4, LedgerStutters DEF ReturnSuspended, LedgerSame
  <2>5. CASE drive[d].park # NoPark
    <3>1. PICK p \in Park : p = drive[d].park
      BY <1>0, <2>5 DEF DriveRecord
    <3>2. p \in claimed
      BY <1>0, <2>5, <3>1 DEF DriveAnswers
    <3>3. PhaseOf(p) \notin {"unasked", "open"}
      BY <3>2, PhaseFacts DEF PhaseOf
    <3>4. Ledger!Wait(p)
      BY <1>5, <2>1, <2>3, <2>5, <3>1, <3>3, SamePhase DEF ReturnSuspended, Ledger!Wait
    <3> QED
      BY <3>4 DEF Ledger!LedgerNext
  <2> QED
    BY <2>4, <2>5
<1>6. ASSUME NEW d \in Drive, RecordOutcome(d) PROVE LedgerStep
  <2>1. /\ drive[d].pc # "asking" /\ drive'[d].pc # "asking" /\ UNCHANGED minted
        /\ \A e \in Drive \ {d} : drive'[e] = drive[e]
        /\ UNCHANGED moved /\ UNCHANGED storeVars
    BY <1>0, <1>6 DEF RecordOutcome, Go, DriveRecord
  <2>2. SameUnwritten
    BY <2>1, NotAsking
  <2>3. PICK p \in Park : p = drive[d].park
    BY <1>0, <1>6 DEF RecordOutcome, DriveShape
  <2>4. PICK status \in Status : status = drive[d].status
    BY <1>0 DEF DriveRecord
  <2>5. p \in claimed /\ drive[d].run = RunOf[p] /\ RunOf[p] \in Run
    BY <1>0, <2>3, NoParkAssumption, RunOfAssumption DEF DriveAnswers, DriveShape
  <2>6. state[p] # "pending" /\ ~Unwritten(p)
    BY <2>5, PhaseFacts
  <2>7. Land(RunOf[p], status)
    BY <1>6, <2>4, <2>5 DEF RecordOutcome
  <2> QED
    BY <2>1, <2>2, <2>5, <2>6, <2>7, SettleSteps
<1>7. ASSUME NEW d \in Drive, ClearDue(d) PROVE LedgerStep
  <2>1. /\ drive[d].pc # "asking" /\ drive'[d].pc # "asking" /\ UNCHANGED minted
        /\ \A e \in Drive \ {d} : drive'[e] = drive[e]
        /\ UNCHANGED <<delivered, moved>>
    BY <1>0, <1>7 DEF ClearDue, End, NoDrive
  <2>2. SameUnwritten
    BY <2>1, NotAsking
  <2>3. PICK p \in Park : p = drive[d].park
    BY <1>0, <1>7 DEF ClearDue, DriveShape
  <2>4. Ended(p)
    BY <1>7, <2>3 DEF ClearDue, ImplInv, OwedInv
  <2>5. ClearContinuationDue(p) /\ LedgerSame
    BY <1>7, <2>1, <2>3 DEF ClearDue, ClearContinuationDue, LedgerSame
  <2>6. Ledger!Discharge(p) \/ UNCHANGED Ledger!ledgerVars
    BY <2>2, <2>4, <2>5, DischargeSteps
  <2> QED
    BY <2>6 DEF Ledger!LedgerNext
<1>8. ASSUME NEW d \in Drive,
             \/ AssertResumeAuthorized(d) \/ AskDeliver(d) \/ TicketStands(d)
             \/ DeliverOutcome(d) \/ \E status \in Status : ReturnTerminal(d, status)
             \/ \E r \in Run : StartRun(d, r)
             \/ \E p \in Park : DispatchContinuation(d, p) \/ RedeliverContinuation(d, p)
      PROVE  LedgerStep
  BY <1>8, QuietDrives
<1>9. ASSUME NEW d \in Drive, (\E q \in Park : AskCheck(d, q)) \/ AskWrite(d) \/ DriveDies(d)
      PROVE  LedgerStep
  BY <1>9, AskingDrives
<1> HIDE DEF LedgerStep
<1> QED
  BY <1>2, <1>3, <1>4, <1>5, <1>6, <1>7, <1>8, <1>9 DEF DriveAction, DriveStep

LEMMA DoorsImplement ==
  ASSUME ImplInv, Next, DoorAction
  PROVE  LedgerStep
<1> USE DEF LedgerStep, driveVars
<1>0. door \in [Door -> DoorRecord] /\ \A k \in Door : DoorShape(door[k])
  BY DEF ImplInv, TypeInv, AllTypes, DoorTypeOK, DoorsOK
<1>1. SameUnwritten
  BY DoorsLeaveDrives DEF SameUnwritten, Unwritten
<1> HIDE DEF Unwritten
<1>2. ASSUME UNCHANGED <<state, continuation_due>>, LedgerSame,
             continuation_due_index' \cup dropped' = continuation_due_index \cup dropped
      PROVE  LedgerStep
  <2>1. \A p \in Park : PhaseStays(p)
    BY <1>1, <1>2 DEF PhaseStays, SameUnwritten
  <2> QED
    BY <1>2, <2>1, LedgerStutters
<1>3. ASSUME NEW p \in Park, NEW terminal, EnqueueKill(p, terminal),
             UNCHANGED <<delivered, moved, dropped>>
      PROVE  LedgerStep
  BY <1>1, <1>3, TakeDownSteps DEF Ledger!LedgerNext
<1>4. ASSUME NEW k \in Door, NEW p \in Park, NEW act_on, NEW terminal,
             Revoke(k, p, act_on, terminal), UNCHANGED <<delivered, moved, dropped>>
      PROVE  LedgerStep
  BY <1>2, <1>3, <1>4 DEF Revoke, LedgerSame, storeVars, redisVars
<1>5. UNCHANGED dropped \/ \E k \in Door, p \in Park : DropContinuation(k, p)
  BY HistoryStep
<1>6. ASSUME NEW k \in Door, NEW p \in Park, DropContinuation(k, p) PROVE LedgerStep
  BY <1>2, <1>6 DEF DropContinuation, DropOrphanContinuation, LedgerSame
<1>7. ASSUME NEW k \in Door, NEW p \in Park, UNCHANGED dropped,
             CancelPark(k, p) \/ EraseMember(k, p) \/ RevokeMember(k, p)
      PROVE  LedgerStep
  <2>1. CASE CancelPark(k, p) \/ EraseMember(k, p)
    BY <1>4, <1>7, <2>1 DEF CancelPark, EraseMember
  <2>2. CASE RevokeMember(k, p)
    BY <1>2, <1>3, <1>7, <2>2 DEF RevokeMember, LedgerSame, storeVars, redisVars
  <2> QED
    BY <1>7, <2>1, <2>2
<1>8. ASSUME NEW k \in Door, UNCHANGED dropped, ExpireResume(k) PROVE LedgerStep
  <2>1. PICK p \in Park : p = door[k].park
    BY <1>0, <1>8 DEF ExpireResume, DoorShape
  <2>2. CASE AnswerPark(p)
    <3>1. Ledger!Claim(p)
      BY <1>1, <1>8, <2>2, ClaimSteps DEF AnswerPark, RecordAnswer, LedgerSame
    <3> QED
      BY <3>1 DEF Ledger!LedgerNext
  <2>3. CASE UNCHANGED <<storeVars, driveVars>>
    BY <1>2, <1>8, <2>3 DEF LedgerSame, storeVars, redisVars
  <2> QED
    BY <1>8, <2>1, <2>2, <2>3 DEF ExpireResume
<1>9. ASSUME NEW k \in Door, UNCHANGED dropped, ExpireKill(k) PROVE LedgerStep
  <2>1. door[k].park \in Park
    BY <1>0, <1>9 DEF ExpireKill, DoorShape
  <2>2. CASE Revoke(k, door[k].park, KillActOnPending, "failed")
    BY <1>4, <1>9, <2>1, <2>2 DEF ExpireKill
  <2>3. CASE UNCHANGED storeVars
    BY <1>2, <1>9, <2>3 DEF ExpireKill, LedgerSame, storeVars, redisVars
  <2> QED
    BY <1>9, <2>2, <2>3 DEF ExpireKill
<1>10. ASSUME NEW k \in Door, UNCHANGED dropped, RecordKillTerminal(k) PROVE LedgerStep
  <2>1. PICK p \in Park : p = door[k].park
    BY <1>0, <1>10 DEF RecordKillTerminal, DoorShape
  <2>2. p \in revoked
    BY <1>10, <2>1 DEF RecordKillTerminal, ImplInv, KillInv, DoorOwes, Telling
  <2>3. state[p] # "pending" /\ ~Unwritten(p) /\ RunOf[p] \in Run
    BY <2>2, PhaseFacts, RunOfAssumption
  <2>4. PICK status \in Status : status = door[k].terminal
    BY <1>0, <1>10 DEF RecordKillTerminal, DoorShape
  <2>5. Land(RunOf[p], status) /\ UNCHANGED storeVars /\ UNCHANGED moved
    BY <1>10, <2>1, <2>4 DEF RecordKillTerminal
  <2> QED
    BY <1>1, <1>10, <2>3, <2>5, SettleSteps
<1>11. ASSUME NEW k \in Door, UNCHANGED dropped, RecordGiveUp(k) PROVE LedgerStep
  <2>1. PICK p \in Park : p = door[k].park
    BY <1>0, <1>11 DEF RecordGiveUp, DoorShape
  <2>2. p \in dropped
    BY <1>11, <2>1 DEF RecordGiveUp, ImplInv, AnswerInv, GiverUp
  <2>3. state[p] # "pending" /\ ~Unwritten(p) /\ RunOf[p] \in Run
    BY <2>2, PhaseFacts, RunOfAssumption
  <2>4. PICK status \in Status : Land(RunOf[p], status)
    BY <1>11, <2>1 DEF RecordGiveUp
  <2>5. UNCHANGED storeVars /\ UNCHANGED moved
    BY <1>11 DEF RecordGiveUp
  <2> QED
    BY <1>1, <1>11, <2>3, <2>4, <2>5, SettleSteps
<1>12. ASSUME NEW k \in Door, UNCHANGED dropped,
              \/ \E p \in Park : \/ FireParkKilled(k, p) \/ ParkKillNotReady(k, p)
                                 \/ RedeliverKill(k, p) \/ ReapRead(k, p)
              \/ WithdrawChannelDelivery(k) \/ RunMembers(k) \/ WithdrawMember(k)
              \/ DeliverKillTerminal(k) \/ CompleteKill(k) \/ KillDone(k)
              \/ CompleteKillRaises(k) \/ DoorDies(k) \/ SettleExpiry(k) \/ GiveUp(k)
       PROVE  LedgerStep
  <2>1. UNCHANGED <<state, continuation_due, continuation_due_index>> /\ LedgerSame
    BY <1>12 DEF FireParkKilled, ParkKillNotReady, RedeliverKill, ReapRead,
                 WithdrawChannelDelivery, RunMembers, WithdrawMember,
                 DeliverKillTerminal, CompleteKill, KillDone, CompleteKillRaises,
                 DoorDies, SettleExpiry, GiveUp, ClearKillDue, DropExpiryMember,
                 storeVars, redisVars, LedgerSame
  <2> QED
    BY <1>2, <1>12, <2>1
<1>13. ASSUME NEW p \in Park, AbandonKill(p) \/ DropKill(p), UNCHANGED dropped
       PROVE  LedgerStep
  BY <1>2, <1>13 DEF AbandonKill, DropKill, ClearKillDue, DropOrphanKill, LedgerSame
<1> HIDE DEF LedgerStep
<1> QED
  BY <1>5, <1>6, <1>7, <1>8, <1>9, <1>10, <1>11, <1>12, <1>13 DEF DoorAction

LEMMA TimeImplements ==
  ASSUME ImplInv, Next, AgeAction
  PROVE  LedgerStep
<1> USE DEF LedgerStep, driveVars, reaperVars
<1>0. /\ UNCHANGED <<drive, minted, delivered, moved, dropped>>
      /\ state \in [Park -> {"absent", "pending", "answered"}]
  BY DEF AgeAction, ImplInv, TypeInv, AllTypes, StoreTypeOK
<1>1. SameUnwritten
  BY <1>0 DEF SameUnwritten, Unwritten
<1> HIDE DEF Unwritten
<1>2. ASSUME NEW p \in Park, StateAgesOut(p) PROVE LedgerStep
  <2>1. CASE state[p] = "pending"
    BY <1>0, <1>1, <1>2, <2>1, WithdrawSteps
       DEF StateAgesOut, LedgerSame, Ledger!LedgerNext
  <2>2. CASE state[p] # "pending"
    <3>1. \A q \in Park : PhaseStays(q)
      BY <1>0, <1>1, <1>2, <2>2 DEF StateAgesOut, PhaseStays, SameUnwritten
    <3> QED
      BY <1>0, <1>2, <3>1, LedgerStutters DEF StateAgesOut, LedgerSame
  <2> QED
    BY <2>1, <2>2
<1>3. ASSUME NEW p \in Park, TicketAgesOut(p) PROVE LedgerStep
  BY <1>0, <1>1, <1>3, LapseSteps DEF TicketAgesOut, LedgerSame, Ledger!LedgerNext
<1>4. ASSUME NEW p \in Park, KillDueAgesOut(p) PROVE LedgerStep
  <2>1. \A q \in Park : PhaseStays(q)
    BY <1>0, <1>1, <1>4 DEF KillDueAgesOut, PhaseStays, SameUnwritten
  <2> QED
    BY <1>0, <1>4, <2>1, LedgerStutters DEF KillDueAgesOut, LedgerSame
<1> QED
  BY <1>2, <1>3, <1>4 DEF AgeAction

LEMMA StepImplements ==
  ASSUME ImplInv, [Next]_vars
  PROVE  LedgerStep
<1>1. CASE UNCHANGED vars
  <2>1. \A p \in Park : PhaseStays(p)
    BY <1>1 DEF vars, storeVars, redisVars, driveVars, reaperVars, PhaseStays, Unwritten
  <2> QED
    BY <1>1, <2>1, LedgerStutters
       DEF vars, storeVars, redisVars, driveVars, LedgerSame, LedgerStep
<1>2. CASE Next
  BY <1>2, NextCases, DrivesImplement, DoorsImplement, TimeImplements
<1> QED
  BY <1>1, <1>2

LEMMA InitImplements == Init => Ledger!LedgerInit
  BY DEF Init, StoreInit, DriveInit, Ledger!LedgerInit, PhaseOf, Unwritten

LEMMA ImplHolds == Spec => []ImplInv
<1>1. Init => AnswerInv
  BY DEF Init, StoreInit, DriveInit, DoorInit, AnswerInv, DriveAnswers, GiverUp,
         NoDrive, NoDoor
<1>2. Init => OwedInv
  BY DEF Init, StoreInit, DriveInit, OwedInv, ClaimedResumeNotLost, NoDrive
<1>3. Spec => []OwedInv
  BY <1>2, OwedStep, ResolveHolds, PTL DEF Spec
<1>4. Spec => []AnswerInv
  BY <1>1, AnswerStep, ResolveHolds, PTL DEF Spec
<1>5. TypeInv /\ ResolveInv /\ OwedInv /\ KillInv /\ AnswerInv => ImplInv
  BY DEF ImplInv
<1> QED
  BY <1>3, <1>4, <1>5, ResolveHolds, KillHolds, PTL

(***************************************************************************)
(* The lifecycle implements the ledger: whatever the store, the drives,    *)
(* the doors, the reaper and time do, the ledger sees one of its own steps *)
(* or nothing at all.                                                      *)
(***************************************************************************)
THEOREM LifecycleImplementsLedger == Spec => ImplementsLedger
<1>1. ImplInv /\ [Next]_vars => [Ledger!LedgerNext]_(Ledger!ledgerVars)
  BY StepImplements DEF LedgerStep
<1>2. Spec => [][Ledger!LedgerNext]_(Ledger!ledgerVars)
  BY <1>1, ImplHolds, PTL DEF Spec
<1>3. Spec => Ledger!LedgerInit
  BY InitImplements DEF Spec
<1> QED
  BY <1>2, <1>3 DEF ImplementsLedger, Ledger!LedgerSpec
=============================================================================
