----------------------------- MODULE Continuation -----------------------------
(***************************************************************************)
(* The asynchronous ask of a run and the detached drive that resumes it    *)
(* (interactions/ask/, continuation.py, continuation_dispatch.py).         *)
(*                                                                         *)
(* A drive is one task of a worker.  It is either the run's first segment  *)
(* (park = NoPark: a live caller takes what it returns) or the resume of   *)
(* an answered park, with no receiver, whose terminal the platform         *)
(* delivers.  Several drives may resume the same park: the door that       *)
(* claimed the answer spawns one, the reaper spawns more while the ticket  *)
(* stands.  Each step below is what happens between two awaits.            *)
(***************************************************************************)
EXTENDS InteractionStore

CONSTANTS
  Drive,    \* task slots, a bound on the drives in flight
  NoPark,
  NoRun

ASSUME NoParkAssumption == NoPark \notin Park
ASSUME NoRunAssumption == NoRun \notin Run

VARIABLES
  drive,        \* the drives in flight
  started,      \* runs whose first segment started
  minted,       \* interaction ids in use
  dispatching,  \* claimed parks whose door has not spawned the drive yet
  channel,      \* what the channel keeps for a park's delivery
  recorded,     \* runs with a record under their completion id
  delivered,    \* history: the outcome last delivered for the run
  moved         \* history: parks whose resume ended in a further wait

outcomeVars == <<recorded, delivered>>
driveVars == <<drive, started, minted, dispatching, channel, outcomeVars, moved>>

Pc == {"idle", "entry", "running", "asking", "sending", "ticket", "deliver",
       "record", "clear"}
Status == {"succeeded", "failed"}
NoDrive == [pc |-> "idle", run |-> NoRun, park |-> NoPark, ask |-> NoPark,
            parked |-> FALSE, status |-> "failed"]
DriveRecord == [pc : Pc, run : Run \cup {NoRun}, park : Park \cup {NoPark},
                ask : Park \cup {NoPark}, parked : BOOLEAN, status : Status]

DriveTypeOK ==
  /\ drive \in [Drive -> DriveRecord]
  /\ started \subseteq Run
  /\ minted \subseteq Park
  /\ dispatching \subseteq Park
  /\ channel \in [Park -> {"none", "held", "stray", "released"}]
  /\ recorded \subseteq Run
  /\ delivered \in [Run -> Status \cup {"none"}]
  /\ moved \subseteq Park

DriveInit ==
  /\ drive = [d \in Drive |-> NoDrive]
  /\ started = {} /\ minted = {} /\ dispatching = {}
  /\ recorded = {} /\ moved = {}
  /\ channel = [p \in Park |-> "none"]
  /\ delivered = [r \in Run |-> "none"]

Go(d, pc) == drive' = [drive EXCEPT ![d].pc = pc]
End(d) == drive' = [drive EXCEPT ![d] = NoDrive]
ResumeOf(p) == [NoDrive EXCEPT !.pc = "entry", !.run = RunOf[p], !.park = p]

(***************************************************************************)
(* _deliver_terminal reads what stands under the run's completion id and   *)
(* writes what it read nothing of a round trip later, on the address rung  *)
(* and on the subject rung alike: neither rung watches the key.  A         *)
(* withdrawn terminal records nothing.                                     *)
(***************************************************************************)
Lands(r, status) == status \in Status /\ r \notin recorded
Land(r, status) ==
  /\ recorded' = recorded \cup {r}
  /\ delivered' = [delivered EXCEPT ![r] = status]

(***************************************************************************)
(* The record leaves: its subject's owner takes the outcome, a kill drops  *)
(* it, the retention sweep does, or its horizon passes.  Nothing is left   *)
(* under the completion id.                                                *)
(***************************************************************************)
TakeOutcome(r) ==
  /\ r \in recorded
  /\ recorded' = recorded \ {r}
  /\ UNCHANGED <<storeVars, drive, started, minted, dispatching, channel,
                 delivered, moved>>

-----------------------------------------------------------------------------
(* Starting a drive.                                                       *)

(***************************************************************************)
(* A door starts the run: its first segment has a live caller.             *)
(***************************************************************************)
StartRun(d, r) ==
  /\ drive[d].pc = "idle"
  /\ r \notin started
  /\ drive' = [drive EXCEPT ![d] = [NoDrive EXCEPT !.pc = "running", !.run = r]]
  /\ started' = started \cup {r}
  /\ UNCHANGED <<storeVars, minted, dispatching, channel, outcomeVars, moved>>

(***************************************************************************)
(* An answer door claims the park.  The continuation is spawned by the     *)
(* same door, later: it reads the fingerprint in between.                  *)
(***************************************************************************)
AnswerPark(p) ==
  /\ RecordAnswer(p)
  /\ dispatching' = dispatching \cup {p}
  /\ UNCHANGED <<drive, started, minted, channel, outcomeVars, moved>>

DispatchContinuation(d, p) ==
  /\ p \in dispatching
  /\ drive[d].pc = "idle"
  /\ dispatching' = dispatching \ {p}
  /\ drive' = [drive EXCEPT ![d] = ResumeOf(p)]
  /\ UNCHANGED <<storeVars, started, minted, channel, outcomeVars, moved>>

(***************************************************************************)
(* The worker dies between the claim and the spawn.                        *)
(***************************************************************************)
DispatchLost(p) ==
  /\ p \in dispatching
  /\ dispatching' = dispatching \ {p}
  /\ UNCHANGED <<storeVars, drive, started, minted, channel, outcomeVars, moved>>

(***************************************************************************)
(* The reaper's retry claim found the record standing: it pushes the next  *)
(* attempt out and re-fires the continuation.                              *)
(***************************************************************************)
RedeliverContinuation(d, p) ==
  /\ p \in continuation_due_index
  /\ p \in continuation_due
  /\ drive[d].pc = "idle"
  /\ drive' = [drive EXCEPT ![d] = ResumeOf(p)]
  /\ UNCHANGED <<storeVars, started, minted, dispatching, channel, outcomeVars,
                 moved>>

-----------------------------------------------------------------------------
(* Inside a drive.                                                         *)

(***************************************************************************)
(* The resume face reads the taken-down mark: a resume of a run that was   *)
(* taken down ends here, delivers nothing and keeps whatever ticket stands.*)
(***************************************************************************)
AssertResumeAuthorized(d) ==
  /\ drive[d].pc = "entry"
  /\ IF drive[d].run \in run_killed THEN End(d) ELSE Go(d, "running")
  /\ UNCHANGED <<storeVars, started, minted, dispatching, channel, outcomeVars,
                 moved>>

(***************************************************************************)
(* The run asks.  add's first round trip: a run that was taken down parks  *)
(* nothing; the refusal ends the drive or is an error the run goes on from.*)
(***************************************************************************)
AskCheck(d, q) ==
  /\ drive[d].pc = "running"
  /\ q \notin minted
  /\ RunOf[q] = drive[d].run
  /\ minted' = minted \cup {q}
  /\ IF drive[d].run \in run_killed
     THEN End(d) \/ UNCHANGED drive
     ELSE drive' = [drive EXCEPT ![d].pc = "asking", ![d].ask = q]
  /\ UNCHANGED <<storeVars, started, dispatching, channel, outcomeVars, moved>>

(***************************************************************************)
(* add's last round trip: the question is written.                         *)
(***************************************************************************)
AskWrite(d) ==
  /\ drive[d].pc = "asking"
  /\ Add(drive[d].ask)
  /\ Go(d, "sending")
  /\ UNCHANGED <<started, minted, dispatching, channel, outcomeVars, moved>>

(***************************************************************************)
(* The channel delivers the question it was handed, whatever became of the *)
(* park meanwhile.  "stray" is a delivery of a park a kill revoked.        *)
(***************************************************************************)
AskDeliver(d) ==
  LET q == drive[d].ask IN
  /\ drive[d].pc = "sending"
  /\ channel' = [channel EXCEPT ![q] = IF q \in revoked THEN "stray"
                                                        ELSE "held"]
  /\ drive' = [drive EXCEPT ![d].pc = "running", ![d].ask = NoPark,
                            ![d].parked = TRUE]
  /\ UNCHANGED <<storeVars, started, minted, dispatching, outcomeVars, moved>>

(***************************************************************************)
(* The delivery failed for good.  A park still pending is pruned and the   *)
(* failure raised in the run; an answered or gone one falls through to the *)
(* suspension.                                                             *)
(***************************************************************************)
AskDeliveryFails(d) ==
  LET q == drive[d].ask IN
  /\ drive[d].pc = "sending"
  /\ \/ /\ PrunePending(q)
        /\ drive' = [drive EXCEPT ![d].pc = "running", ![d].ask = NoPark]
     \/ /\ state[q] # "pending"
        /\ drive' = [drive EXCEPT ![d].pc = "running", ![d].ask = NoPark,
                                  ![d].parked = TRUE]
        /\ UNCHANGED storeVars
  /\ UNCHANGED <<started, minted, dispatching, channel, outcomeVars, moved>>

(***************************************************************************)
(* The driver returns a wait: the run asked again, or sibling asks of the  *)
(* step are still open (a buffered step).  Nothing is delivered.           *)
(***************************************************************************)
ReturnSuspended(d) ==
  LET p == drive[d].park
      sibling(q) == q # p /\ (state[q] = "pending" \/ q \in continuation_due)
  IN
  /\ drive[d].pc = "running"
  /\ \/ drive[d].parked
     \/ p # NoPark /\ \E q \in ParksOf(drive[d].run) : sibling(q)
  /\ IF p = NoPark
     THEN End(d) /\ UNCHANGED moved
     ELSE Go(d, "clear") /\ moved' = moved \cup {p}
  /\ UNCHANGED <<storeVars, started, minted, dispatching, channel, outcomeVars>>

(***************************************************************************)
(* The driver returns the run's terminal, or raises it (RunTerminalFailed):*)
(* a live caller takes it, a resume goes on to deliver it.                 *)
(***************************************************************************)
ReturnTerminal(d, status) ==
  /\ drive[d].pc = "running"
  /\ ~drive[d].parked
  /\ IF drive[d].park = NoPark
     THEN End(d)
     ELSE drive' = [drive EXCEPT ![d].pc = "ticket", ![d].status = status]
  /\ UNCHANGED <<storeVars, started, minted, dispatching, channel, outcomeVars,
                 moved>>

(***************************************************************************)
(* Mutant of TicketStands: the ticket is taken rather than checked.        *)
(***************************************************************************)
TakeTicket(d) ==
  /\ drive[d].pc = "ticket"
  /\ IF drive[d].park \in continuation_due
     THEN Go(d, "deliver") /\ ClearContinuationDue(drive[d].park)
     ELSE End(d) /\ UNCHANGED storeVars
  /\ UNCHANGED <<started, minted, dispatching, channel, outcomeVars, moved>>

(***************************************************************************)
(* _ticket_stands: a read of its own, before the delivery.                 *)
(***************************************************************************)
TicketStands(d) ==
  /\ drive[d].pc = "ticket"
  /\ IF drive[d].park \in continuation_due THEN Go(d, "deliver") ELSE End(d)
  /\ UNCHANGED <<storeVars, started, minted, dispatching, channel, outcomeVars,
                 moved>>

(***************************************************************************)
(* Mutant of DeliverOutcome: the sense of the read is turned round.        *)
(***************************************************************************)
DeliverOnlyAgain(d) ==
  /\ drive[d].pc = "deliver"
  /\ Go(d, IF Lands(drive[d].run, drive[d].status) THEN "clear" ELSE "record")
  /\ UNCHANGED <<storeVars, started, minted, dispatching, channel, outcomeVars,
                 moved>>

DeliverOutcome(d) ==
  /\ drive[d].pc = "deliver"
  /\ Go(d, IF Lands(drive[d].run, drive[d].status) THEN "record" ELSE "clear")
  /\ UNCHANGED <<storeVars, started, minted, dispatching, channel, outcomeVars,
                 moved>>

RecordOutcome(d) ==
  /\ drive[d].pc = "record"
  /\ Land(drive[d].run, drive[d].status)
  /\ Go(d, "clear")
  /\ UNCHANGED <<storeVars, started, minted, dispatching, channel, moved>>

ClearDue(d) ==
  /\ drive[d].pc = "clear"
  /\ ClearContinuationDue(drive[d].park)
  /\ End(d)
  /\ UNCHANGED <<started, minted, dispatching, channel, outcomeVars, moved>>

(***************************************************************************)
(* The drive ends where it stands: its worker crashes, the continuation    *)
(* or the delivery raises, the loop is shut down.  The ticket is kept.     *)
(***************************************************************************)
DriveDies(d) ==
  /\ drive[d].pc # "idle"
  /\ End(d)
  /\ UNCHANGED <<storeVars, started, minted, dispatching, channel, outcomeVars,
                 moved>>

DriveStep(d) ==
  \/ AssertResumeAuthorized(d)
  \/ \E q \in Park : AskCheck(d, q)
  \/ AskWrite(d)
  \/ AskDeliver(d)
  \/ AskDeliveryFails(d)
  \/ ReturnSuspended(d)
  \/ \E status \in Status : ReturnTerminal(d, status)
  \/ TicketStands(d)
  \/ DeliverOutcome(d)
  \/ RecordOutcome(d)
  \/ ClearDue(d)
=============================================================================
