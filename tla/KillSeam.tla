------------------------------- MODULE KillSeam -------------------------------
(***************************************************************************)
(* The whole-run kill (kill.py): the one teardown every withdrawal door    *)
(* goes through, and its durable redelivery.                               *)
(*                                                                         *)
(* A door is a task that runs kill_park or redeliver_kill, or the reaper   *)
(* task resolving one lapsed park or one abandoned ticket.  It revokes the *)
(* park it names, revokes every other park of the run, and only then tells *)
(* the drivers, delivers the run's terminal and clears each kill-due       *)
(* record.  Whatever stops it midway, a kill-due record stands for the     *)
(* reaper.                                                                 *)
(***************************************************************************)
EXTENDS Continuation

CONSTANT
  Door  \* task slots, a bound on the kills and reaper steps in flight

VARIABLES
  door,            \* the doors in flight
  told,            \* parks whose driver was told of the kill
  kill_abandoned   \* history: kill-due records given up on

doorVars == <<door, told, kill_abandoned>>

DoorPc == {"idle", "withdraw", "members", "revoke", "withdraw_member",
           "complete", "deliver", "record", "clear", "expire", "settle",
           "giveup", "record_giveup"}
NoDoor == [pc |-> "idle", park |-> NoPark, terminal |-> "failed", todo |-> {},
           dues |-> {}, at |-> NoPark]
DoorRecord == [pc : DoorPc, park : Park \cup {NoPark}, terminal : Terminal,
               todo : SUBSET Park, dues : SUBSET Park, at : Park \cup {NoPark}]

DoorTypeOK ==
  /\ door \in [Door -> DoorRecord]
  /\ told \subseteq Park
  /\ kill_abandoned \subseteq Park

DoorInit ==
  /\ door = [k \in Door |-> NoDoor]
  /\ told = {} /\ kill_abandoned = {}

Leave(k) == door' = [door EXCEPT ![k] = NoDoor]

-----------------------------------------------------------------------------
(* The revoke of the park a door names.                                    *)

(***************************************************************************)
(* kill_park's _revoke of the named park p by door k, under the door's     *)
(* precondition act_on.  The read of the target and enqueue_kill are one   *)
(* action: enqueue_kill decides everything again under WATCH.  Nothing is  *)
(* written, and the door returns, when nothing live answers to p ("gone")  *)
(* or the precondition fails ("skipped").                                  *)
(***************************************************************************)
Revoke(k, p, act_on, terminal) ==
  \/ /\ Live(p)
     /\ Resolved(p) \in act_on
     /\ EnqueueKill(p, terminal)
     /\ door' = [door EXCEPT ![k] = [NoDoor EXCEPT !.pc = "withdraw",
                  !.park = p, !.terminal = terminal, !.dues = {p}]]
  \/ /\ ~(Live(p) /\ Resolved(p) \in act_on)
     /\ Leave(k)
     /\ UNCHANGED storeVars

(***************************************************************************)
(* cancel_interaction: a single-park door, the deliberate takedown.        *)
(***************************************************************************)
CancelPark(k, p) ==
  /\ door[k].pc = "idle"
  /\ p \in minted
  /\ Revoke(k, p, KillActOnPending, "withdrawn")
  /\ UNCHANGED <<driveVars, told, kill_abandoned>>

(***************************************************************************)
(* kill_members: a thread, person or route delete reaches a member of its  *)
(* index, pending or running.                                              *)
(***************************************************************************)
EraseMember(k, p) ==
  /\ door[k].pc = "idle"
  /\ p \in minted
  /\ Revoke(k, p, KillActOnAny, "withdrawn")
  /\ UNCHANGED <<driveVars, told, kill_abandoned>>

(***************************************************************************)
(* The channel that delivered the ask releases what it kept for it.        *)
(***************************************************************************)
WithdrawChannelDelivery(k) ==
  /\ door[k].pc = "withdraw"
  /\ channel' = [channel EXCEPT ![door[k].park] = "released"]
  /\ door' = [door EXCEPT ![k].pc = "members"]
  /\ UNCHANGED <<storeVars, drive, started, minted, dispatching, outcomeVars,
                 moved, told, kill_abandoned>>

-----------------------------------------------------------------------------
(* _finish_kill.                                                           *)

RunMembers(k) ==
  /\ door[k].pc = "members"
  /\ door' = [door EXCEPT ![k].pc = "revoke",
       ![k].todo = (ParksOf(RunOf[door[k].park]) \cap run_parks)
                     \ {door[k].park}]
  /\ UNCHANGED <<storeVars, driveVars, told, kill_abandoned>>

(***************************************************************************)
(* The revoke of one more park of the run; one that is gone writes nothing.*)
(***************************************************************************)
RevokeMember(k, q) ==
  /\ door[k].pc = "revoke"
  /\ q \in door[k].todo
  /\ IF Live(q)
     THEN /\ EnqueueKill(q, door[k].terminal)
          /\ door' = [door EXCEPT ![k].pc = "withdraw_member", ![k].at = q,
                       ![k].todo = @ \ {q}, ![k].dues = @ \cup {q}]
     ELSE /\ door' = [door EXCEPT ![k].todo = @ \ {q}]
          /\ UNCHANGED storeVars
  /\ UNCHANGED <<driveVars, told, kill_abandoned>>

\* Mutant of WithdrawMember: only the named park's delivery is withdrawn.
SkipMember(k) ==
  /\ door[k].pc = "withdraw_member"
  /\ door' = [door EXCEPT ![k].pc = "revoke", ![k].at = NoPark]
  /\ UNCHANGED <<storeVars, driveVars, told, kill_abandoned>>

WithdrawMember(k) ==
  /\ door[k].pc = "withdraw_member"
  /\ channel' = [channel EXCEPT ![door[k].at] = "released"]
  /\ door' = [door EXCEPT ![k].pc = "revoke", ![k].at = NoPark]
  /\ UNCHANGED <<storeVars, drive, started, minted, dispatching, outcomeVars,
                 moved, told, kill_abandoned>>

(***************************************************************************)
(* Mutant of FireParkKilled: a driver is told as soon as its own park is   *)
(* revoked.                                                                *)
(***************************************************************************)
FireParkKilledEarly(k, p) ==
  /\ door[k].pc \in {"revoke", "complete"}
  /\ p \in door[k].dues
  /\ told' = told \cup {p}
  /\ door' = [door EXCEPT ![k].pc = "deliver", ![k].at = p,
                          ![k].dues = @ \ {p}]
  /\ UNCHANGED <<storeVars, driveVars, kill_abandoned>>

(***************************************************************************)
(* _complete_kill of one record: the drivers of its nodes are told.        *)
(***************************************************************************)
FireParkKilled(k, p) ==
  /\ door[k].pc \in {"revoke", "complete"}
  /\ door[k].todo = {}
  /\ p \in door[k].dues
  /\ told' = told \cup {p}
  /\ door' = [door EXCEPT ![k].pc = "deliver", ![k].at = p,
                          ![k].dues = @ \ {p}]
  /\ UNCHANGED <<storeVars, driveVars, kill_abandoned>>

(***************************************************************************)
(* A driver is not ready, or raises: the record stands, the next goes on.  *)
(***************************************************************************)
ParkKillNotReady(k, p) ==
  /\ door[k].pc \in {"revoke", "complete"}
  /\ door[k].todo = {}
  /\ p \in door[k].dues
  /\ door' = [door EXCEPT ![k].pc = "complete", ![k].dues = @ \ {p}]
  /\ UNCHANGED <<storeVars, driveVars, told, kill_abandoned>>

(***************************************************************************)
(* Mutant of DeliverKillTerminal: the withdrawn status anchors a record    *)
(* like any other.                                                         *)
(***************************************************************************)
DeliverAnyKillTerminal(k) ==
  /\ door[k].pc = "deliver"
  /\ door' = [door EXCEPT ![k].pc =
       IF RunOf[door[k].park] \notin recorded THEN "record" ELSE "clear"]
  /\ UNCHANGED <<storeVars, driveVars, told, kill_abandoned>>

(***************************************************************************)
(* _complete_kill's delivery of the run's terminal: the read, the write.   *)
(***************************************************************************)
DeliverKillTerminal(k) ==
  /\ door[k].pc = "deliver"
  /\ door' = [door EXCEPT ![k].pc =
       IF Lands(RunOf[door[k].park], door[k].terminal) THEN "record" ELSE "clear"]
  /\ UNCHANGED <<storeVars, driveVars, told, kill_abandoned>>

RecordKillTerminal(k) ==
  /\ door[k].pc = "record"
  /\ Land(RunOf[door[k].park], door[k].terminal)
  /\ door' = [door EXCEPT ![k].pc = "clear"]
  /\ UNCHANGED <<storeVars, drive, started, minted, dispatching, channel,
                 moved, told, kill_abandoned>>

CompleteKill(k) ==
  /\ door[k].pc = "clear"
  /\ ClearKillDue(door[k].at)
  /\ door' = [door EXCEPT ![k].pc = "complete", ![k].at = NoPark]
  /\ UNCHANGED <<driveVars, told, kill_abandoned>>

(***************************************************************************)
(* The terminal's delivery or the record's clear raises: logged, the       *)
(* record stands, the next goes on.                                        *)
(***************************************************************************)
CompleteKillRaises(k) ==
  /\ door[k].pc \in {"deliver", "record", "clear"}
  /\ door' = [door EXCEPT ![k].pc = "complete", ![k].at = NoPark]
  /\ UNCHANGED <<storeVars, driveVars, told, kill_abandoned>>

KillDone(k) ==
  /\ door[k].pc = "complete"
  /\ door[k].dues = {}
  /\ Leave(k)
  /\ UNCHANGED <<storeVars, driveVars, told, kill_abandoned>>

(***************************************************************************)
(* The door ends where it stands: a crash, or a raise out of the revoke or *)
(* the withdrawal.  What it wrote stays.                                   *)
(***************************************************************************)
DoorDies(k) ==
  /\ door[k].pc # "idle"
  /\ Leave(k)
  /\ UNCHANGED <<storeVars, driveVars, told, kill_abandoned>>

-----------------------------------------------------------------------------
(* The reaper's kill-due outbox.                                           *)

(***************************************************************************)
(* redeliver_kill: withdraw again, re-read the run index, finish again.    *)
(***************************************************************************)
RedeliverKill(k, p) ==
  /\ door[k].pc = "idle"
  /\ p \in kill_due_index
  /\ kill_due[p] # "none"
  /\ door' = [door EXCEPT ![k] = [NoDoor EXCEPT !.pc = "withdraw",
                !.park = p, !.terminal = kill_due[p], !.dues = {p}]]
  /\ UNCHANGED <<storeVars, driveVars, told, kill_abandoned>>

(***************************************************************************)
(* The record is past its give-up deadline: the kill is abandoned.         *)
(***************************************************************************)
AbandonKill(p) ==
  /\ p \in kill_due_index
  /\ kill_due[p] # "none"
  /\ ClearKillDue(p)
  /\ kill_abandoned' = kill_abandoned \cup {p}
  /\ UNCHANGED <<driveVars, door, told>>

(***************************************************************************)
(* The retry claim found the record aged out: the kill is abandoned.       *)
(***************************************************************************)
DropKill(p) ==
  /\ DropOrphanKill(p)
  /\ kill_abandoned' = kill_abandoned \cup {p}
  /\ UNCHANGED <<driveVars, door, told>>
=============================================================================
