--------------------------------- MODULE Parks ---------------------------------
(***************************************************************************)
(* The park lifecycle: asks, answers, resumes, kills and the reaper        *)
(* (interactions/reaper.py, giveup_delivery.py) over one store.            *)
(*                                                                         *)
(* The reaper of every worker runs the same passes over the same indexes,  *)
(* so one reaper step is a door like any other.  Time is not kept: a       *)
(* deadline, a backoff or a TTL is due whenever the step that waits for it *)
(* may be taken.                                                           *)
(***************************************************************************)
EXTENDS KillSeam, Naturals

CONSTANTS
  OnExpiry,  \* what the ask of a park said to do when its deadline passes
  Faults     \* a bound on the crashes, raises and lapses of a behaviour

ASSUME OnExpiryAssumption == OnExpiry \in [Park -> {"kill", "resume"}]
ASSUME FaultsAssumption == Faults \in Nat

VARIABLES
  abandoned,  \* history: parks surfaced as lapsed with no action run
  dropped,    \* history: parks whose resume was surfaced as never to re-drive
  faults      \* crashes, raises and lapses so far

reaperVars == <<abandoned, dropped>>
vars == <<storeVars, driveVars, doorVars, reaperVars, faults>>

TypeOK ==
  /\ StoreTypeOK
  /\ DriveTypeOK
  /\ DoorTypeOK
  /\ abandoned \subseteq Park
  /\ dropped \subseteq Park
  /\ faults \in 0..Faults

Init ==
  /\ StoreInit
  /\ DriveInit
  /\ DoorInit
  /\ abandoned = {}
  /\ dropped = {}
  /\ faults = 0

-----------------------------------------------------------------------------
(* The expiry leg.                                                         *)

(***************************************************************************)
(* A member of the expiry index is due.  A member with no pending park     *)
(* behind it is settled; a pending one is resolved as its ask said, and    *)
(* what is decided on this read is written a round trip later.             *)
(***************************************************************************)
ReapRead(k, p) ==
  /\ door[k].pc = "idle"
  /\ p \in pending_expiry
  /\ door' = [door EXCEPT ![k] = [NoDoor EXCEPT !.park = p,
       !.pc = IF state[p] = "pending" THEN "expire" ELSE "settle"]]
  /\ UNCHANGED <<storeVars, driveVars, told, kill_abandoned, reaperVars>>

(***************************************************************************)
(* on_expiry = "resume": the expiry marker is claimed as the answer.       *)
(***************************************************************************)
ExpireResume(k) ==
  LET p == door[k].park IN
  /\ door[k].pc = "expire"
  /\ OnExpiry[p] = "resume"
  /\ IF state[p] = "pending"
     THEN AnswerPark(p) /\ Leave(k)
     ELSE /\ door' = [door EXCEPT ![k].pc = "settle"]
          /\ UNCHANGED <<storeVars, driveVars>>
  /\ UNCHANGED <<told, kill_abandoned, reaperVars>>

(***************************************************************************)
(* on_expiry = "kill": the run is taken down, if the park is still         *)
(* pending.  A park found gone is settled, an answered one is left to its  *)
(* own continuation.                                                       *)
(***************************************************************************)
ExpireKill(k) ==
  LET p == door[k].park IN
  /\ door[k].pc = "expire"
  /\ OnExpiry[p] = "kill"
  /\ IF Live(p)
     THEN Revoke(k, p, KillActOnPending, "failed")
     ELSE /\ door' = [door EXCEPT ![k].pc = "settle"]
          /\ UNCHANGED storeVars
  /\ UNCHANGED <<driveVars, told, kill_abandoned, reaperVars>>

(***************************************************************************)
(* Mutant of SettleExpiry: reported whoever removed the member.            *)
(***************************************************************************)
SettleAnyExpiry(k) ==
  LET p == door[k].park IN
  /\ door[k].pc = "settle"
  /\ abandoned' = abandoned \cup {p}
  /\ DropExpiryMember(p)
  /\ Leave(k)
  /\ UNCHANGED <<driveVars, told, kill_abandoned, dropped>>

(***************************************************************************)
(* _settle_unresolved_expiry: the member this call still removes is the    *)
(* witness of a park that lapsed unresolved.                               *)
(***************************************************************************)
SettleExpiry(k) ==
  LET p == door[k].park IN
  /\ door[k].pc = "settle"
  /\ abandoned' = IF p \in pending_expiry THEN abandoned \cup {p} ELSE abandoned
  /\ DropExpiryMember(p)
  /\ Leave(k)
  /\ UNCHANGED <<driveVars, told, kill_abandoned, dropped>>

-----------------------------------------------------------------------------
(* The give-up.                                                            *)

(***************************************************************************)
(* The retry claim found the continuation-due record aged out.             *)
(***************************************************************************)
DropContinuation(k, p) ==
  /\ door[k].pc = "idle"
  /\ DropOrphanContinuation(p)
  /\ dropped' = dropped \cup {p}
  /\ door' = [door EXCEPT ![k] = [NoDoor EXCEPT !.pc = "giveup", !.park = p]]
  /\ UNCHANGED <<driveVars, told, kill_abandoned, abandoned>>

(***************************************************************************)
(* deliver_park_giveup, off the park's own state while it stands: the      *)
(* driver's give-up handler ends the run its way, parks it again, or no    *)
(* driver owns the park and the run's FAILED is delivered.                 *)
(***************************************************************************)
GiveUp(k) ==
  LET p == door[k].park IN
  /\ door[k].pc = "giveup"
  /\ \/ /\ state[p] # "absent" /\ RunOf[p] \notin recorded
        /\ door' = [door EXCEPT ![k].pc = "record_giveup"]
     \/ Leave(k)
  /\ UNCHANGED <<storeVars, driveVars, told, kill_abandoned, reaperVars>>

RecordGiveUp(k) ==
  /\ door[k].pc = "record_giveup"
  /\ \E status \in Status : Land(RunOf[door[k].park], status)
  /\ Leave(k)
  /\ UNCHANGED <<storeVars, drive, started, minted, dispatching, channel,
                 moved, told, kill_abandoned, reaperVars>>

-----------------------------------------------------------------------------
(* The specification.                                                      *)

(***************************************************************************)
(* What people and the rest of the platform ask for.                       *)
(***************************************************************************)
Demand ==
  /\ \/ \E d \in Drive, r \in Run : StartRun(d, r) /\ UNCHANGED doorVars
     \/ \E p \in Park : AnswerPark(p) /\ UNCHANGED doorVars
     \/ \E r \in Run : TakeOutcome(r) /\ UNCHANGED doorVars
     \/ \E k \in Door, p \in Park : CancelPark(k, p) \/ EraseMember(k, p)
  /\ UNCHANGED reaperVars

(***************************************************************************)
(* What a drive in flight does.                                            *)
(***************************************************************************)
Resume ==
  /\ \/ \E d \in Drive, p \in Park : \/ DispatchContinuation(d, p)
                                     \/ RedeliverContinuation(d, p)
     \/ \E d \in Drive : DriveStep(d)
  /\ UNCHANGED <<doorVars, reaperVars>>

(***************************************************************************)
(* What a kill in flight does.                                             *)
(***************************************************************************)
KillStep(k) ==
  /\ \/ WithdrawChannelDelivery(k)
     \/ RunMembers(k)
     \/ \E q \in Park : RevokeMember(k, q)
     \/ WithdrawMember(k)
     \/ \E q \in Park : FireParkKilled(k, q)
     \/ DeliverKillTerminal(k)
     \/ RecordKillTerminal(k)
     \/ CompleteKill(k)
     \/ KillDone(k)
  /\ UNCHANGED reaperVars

ReaperStep(k) ==
  \/ ExpireResume(k)
  \/ ExpireKill(k)
  \/ SettleExpiry(k)
  \/ GiveUp(k)
  \/ RecordGiveUp(k)

ReaperStart(k, p) ==
  \/ ReapRead(k, p)
  \/ DropContinuation(k, p)
  \/ RedeliverKill(k, p) /\ UNCHANGED reaperVars

(***************************************************************************)
(* What goes wrong: crashes, raises, drivers that are not ready.           *)
(***************************************************************************)
Fault ==
  /\ \/ \E p \in Park : DispatchLost(p) /\ UNCHANGED doorVars
     \/ \E d \in Drive : DriveDies(d) /\ UNCHANGED doorVars
     \/ \E k \in Door, p \in Park : ParkKillNotReady(k, p)
     \/ \E k \in Door : CompleteKillRaises(k) \/ DoorDies(k)
  /\ UNCHANGED reaperVars

(***************************************************************************)
(* A retention horizon passes.                                             *)
(***************************************************************************)
Lapse ==
  /\ \E p \in Park :
       \/ /\ StateAgesOut(p) \/ TicketAgesOut(p) \/ KillDueAgesOut(p)
          /\ UNCHANGED doorVars
       \/ AbandonKill(p)
  /\ UNCHANGED <<driveVars, reaperVars>>

Progress ==
  /\ \/ Demand
     \/ Resume
     \/ \E k \in Door : KillStep(k) \/ ReaperStep(k)
     \/ \E k \in Door, p \in Park : ReaperStart(k, p)
     \/ \E p \in Park : DropKill(p) /\ UNCHANGED reaperVars
  /\ UNCHANGED faults

Trouble ==
  /\ Fault \/ Lapse
  /\ faults < Faults
  /\ faults' = faults + 1

Next == Progress \/ Trouble

Spec == Init /\ [][Next]_vars

(***************************************************************************)
(* Fairness.  A task that is in flight goes on (the event loop runs it);   *)
(* the reaper comes back to every index member, and a redelivery is never  *)
(* kept from starting by other drives.  Nobody has to ask, answer, cancel  *)
(* or dispatch, and nothing has to fail or lapse.                          *)
(***************************************************************************)
Unfaulted(A) == A /\ UNCHANGED faults

Fairness ==
  /\ \A d \in Drive :
       WF_vars(Unfaulted(DriveStep(d) /\ UNCHANGED <<doorVars, reaperVars>>))
  /\ \A k \in Door : WF_vars(Unfaulted(KillStep(k) \/ ReaperStep(k)))
  /\ \A p \in Park :
       /\ SF_vars(\E d \in Drive : Unfaulted(RedeliverContinuation(d, p)
                                     /\ UNCHANGED <<doorVars, reaperVars>>))
       /\ WF_vars(\E k \in Door : Unfaulted(ReapRead(k, p)))
       /\ WF_vars(\E k \in Door : Unfaulted(DropContinuation(k, p)))
       /\ WF_vars(\E k \in Door :
                    Unfaulted(RedeliverKill(k, p) /\ UNCHANGED reaperVars))
       /\ WF_vars(Unfaulted(DropKill(p) /\ UNCHANGED reaperVars))

FairSpec == Spec /\ Fairness

-----------------------------------------------------------------------------
(* Properties.                                                             *)

(***************************************************************************)
(* A resume that was claimed may end only with an outcome for its run, a   *)
(* further wait of its run, the taking down of its run, or the loud drop   *)
(* of a ticket that outlived its retention horizon.                        *)
(***************************************************************************)
Discharged(p) ==
  \/ delivered[RunOf[p]] # "none"
  \/ p \in moved
  \/ RunOf[p] \in run_killed
  \/ p \in dropped

(***************************************************************************)
(* No claimed answer is lost: as long as its run has nothing to show for   *)
(* it, the reaper's index still holds the park, whatever crashed between   *)
(* the claim, the dispatch, the drive, the delivery and the clear          *)
(* (record_answer, drive_and_deliver, redeliver_due_continuations_once).   *)
(***************************************************************************)
ClaimedResumeNotLost ==
  \A p \in claimed : p \in continuation_due_index \/ Discharged(p)

(***************************************************************************)
(* The reaper reports a park as abandoned only when nobody resolved it:    *)
(* an answer, a prune or a kill that raced its read removed the expiry     *)
(* member first (_settle_unresolved_expiry).                               *)
(***************************************************************************)
AbandonedLapsedUnresolved ==
  \A p \in abandoned : /\ p \notin claimed \cup pruned
                       /\ state[p] = "absent"

(***************************************************************************)
(* The doors that race to resolve a pending park have one winner: an       *)
(* answer that was claimed is never also pruned, by a cancel, an expiry, a *)
(* kill walk or a failed delivery (record_answer, prune_pending,           *)
(* enqueue_kill).                                                          *)
(***************************************************************************)
OneDoorResolves == claimed \cap pruned = {}

(***************************************************************************)
(* A kill of the run is recorded, or was given up on aloud.                *)
(***************************************************************************)
KillOwed(r) == \E q \in ParksOf(r) : q \in kill_due_index \cup kill_abandoned

(***************************************************************************)
(* A park or a ticket a kill owes the run: open, and written before the    *)
(* run was taken down.                                                     *)
(***************************************************************************)
OpenAtKill(p) ==
  /\ RunOf[p] \in run_killed
  /\ p \notin late
  /\ state[p] = "pending" \/ p \in continuation_due

(***************************************************************************)
(* A kill that stopped midway is still owed: while a park of a run taken   *)
(* down is open or keeps its ticket, a kill-due record of the run stands   *)
(* for the reaper or its abandonment was surfaced, and the run index leads *)
(* its redelivery to that park (_finish_kill, redeliver_kill).             *)
(***************************************************************************)
KilledRunStillOwed ==
  \A p \in Park : OpenAtKill(p) =>
    /\ p \in run_parks
    /\ KillOwed(RunOf[p])

(***************************************************************************)
(* Drivers are told last: when a driver learns its park was killed,        *)
(* nothing of the run that a kill could reach is open any more, and no     *)
(* ticket of it can redeliver into the run (_finish_kill).                 *)
(***************************************************************************)
DriversToldLast ==
  [][\A p \in Park : p \in told' \ told =>
       ~\E q \in ParksOf(RunOf[p]) : OpenAtKill(q)]_vars

KillCompleted(p) ==
  /\ p \in revoked
  /\ kill_due[p] = "none"
  /\ p \notin kill_due_index \cup kill_abandoned

(***************************************************************************)
(* A kill whose record was cleared withdrew the channel delivery of its    *)
(* park: the channel holds nothing it was handed for it before the kill    *)
(* (enqueue_kill, _revoke, _complete_kill).                                *)
(***************************************************************************)
CompletedKillWithdrew ==
  \A p \in Park : KillCompleted(p) => channel[p] # "held"

(***************************************************************************)
(* The lifecycle implements the ledger.  A question is open while its      *)
(* state is pending, owed while its continuation-due record stands, and    *)
(* lapsed once only its index member, or its loud drop, is left.           *)
(***************************************************************************)
Unwritten(p) ==
  \/ p \notin minted
  \/ \E d \in Drive : drive[d].pc = "asking" /\ drive[d].ask = p

PhaseOf(p) ==
  IF state[p] = "pending" THEN "open"
  ELSE IF p \in continuation_due THEN "owed"
  ELSE IF p \in continuation_due_index \cup dropped THEN "lapsed"
  ELSE IF Unwritten(p) THEN "unasked"
  ELSE "closed"

Ledger == INSTANCE ResumeLedger WITH
  phase <- [p \in Park |-> PhaseOf(p)],
  outcome <- delivered, waits <- moved, dead <- run_killed

ImplementsLedger == Ledger!LedgerSpec

(***************************************************************************)
(* Every question comes to an end: a pending park is answered, expired by  *)
(* the reaper, or taken down (reap_expired_parks_once).                    *)
(***************************************************************************)
EveryParkResolves ==
  \A p \in Park : (state[p] = "pending") ~> (state[p] # "pending")

(***************************************************************************)
(* Every answer that was claimed comes to something, whichever drives died *)
(* on the way (redeliver_due_continuations_once).                          *)
(***************************************************************************)
EveryClaimDischarged ==
  \A p \in Park : (p \in claimed) ~> Discharged(p)

(***************************************************************************)
(* Every kill that was recorded reaches the driver of its park, or its     *)
(* abandonment is surfaced (redeliver_due_kills_once).                     *)
(***************************************************************************)
EveryKillTold ==
  \A p \in Park : (kill_due[p] # "none") ~> (p \in told \cup kill_abandoned)

-----------------------------------------------------------------------------
(* What the code's own documentation says of it, and is not so.            *)

(***************************************************************************)
(* "No park of a taken-down run stays open" once its kills completed       *)
(* (enqueue_kill).                                                         *)
(***************************************************************************)
NoParkOutlivesItsRun ==
  \A p \in Park :
    RunOf[p] \in run_killed /\ ~KillOwed(RunOf[p]) => state[p] # "pending"

(***************************************************************************)
(* "A resume that was already driving when the kill landed delivers        *)
(* nothing" (drive_and_deliver).                                           *)
(***************************************************************************)
TakenDownRunDeliversNothing ==
  [][\A r \in run_killed :
       delivered[r] = "none" => delivered'[r] \in {"none", "failed"}]_vars

(***************************************************************************)
(* "The waiting outcome writes once, so a redelivery of the same terminal  *)
(* lands once" (_deliver_terminal).                                        *)
(***************************************************************************)
OutcomeWritesOnce ==
  [][\A d \in Drive : drive[d].pc = "record" /\ drive'[d].pc = "clear" =>
       delivered[drive[d].run] = "none"]_vars

(***************************************************************************)
(* Its address "is free when the kill returns" (kill.py).                  *)
(***************************************************************************)
KillFreesTheChannel ==
  \A p \in Park : KillCompleted(p) => channel[p] \notin {"held", "stray"}
=============================================================================
