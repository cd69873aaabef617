-------------------------- MODULE WaitingOutcomes --------------------------
(***************************************************************************)
(* One waiting outcome (interactions/store/writes_outcomes.py): the        *)
(* terminal of a resumed run, parked for the next run on its subject.  It  *)
(* is written by the deliveries of the terminal, taken by an owner,        *)
(* removed by a kill, or dropped and reported by the retention sweep; the  *)
(* TTL of its row is a backstop, and its member of the retention index has *)
(* no TTL.                                                                 *)
(***************************************************************************)
EXTENDS Integers, FiniteSets

CONSTANTS
  Writer,             \* deliveries of the terminal: the first one, redeliveries
  Sweeper,            \* processes that run the retention sweep
  MaxTakes,           \* bound: takes by an owner
  MaxOutcomeFaults    \* bound: sweepers that die

ASSUME SweeperAssumption == IsFiniteSet(Sweeper)
ASSUME OutcomeBoundsAssumption == MaxTakes \in Nat /\ MaxOutcomeFaults \in Nat

VARIABLES
  waiting,      \* the row exists
  indexed,      \* its member of the retention index
  aged,         \* the retention horizon has passed
  writer,       \* [Writer -> "idle", "absent" or "done"]
  sweeper,      \* [Sweeper -> "idle", "listed", "orphan" or "reporting"]
  killing,      \* a kill has read the row
  exits,        \* history: [how -> the outcomes that left that way]
  written,      \* history: how many outcomes were written
  revived,      \* history: one was written where the sweep still owed a report
  outcomeFaults

outcomeVars == <<waiting, indexed, aged, writer, sweeper, killing, exits, written,
                 revived, outcomeFaults>>

Exit == {"taken", "killed", "reported", "unreported"}
Leaves(how) == exits' = [exits EXCEPT ![how] = @ + 1]

OutcomeInit ==
  /\ waiting = FALSE /\ indexed = FALSE /\ aged = FALSE /\ killing = FALSE
  /\ writer = [w \in Writer |-> "idle"]
  /\ sweeper = [s \in Sweeper |-> "idle"]
  /\ exits = [how \in Exit |-> 0]
  /\ written = 0
  /\ revived = FALSE
  /\ outcomeFaults = 0

OrphanSeen == \E s \in Sweeper : sweeper[s] = "orphan"

-----------------------------------------------------------------------------
(* add_outcome: it looks whether the row is there, then writes it.         *)

LookForRow(w) ==
  /\ writer[w] = "idle"
  /\ writer' = [writer EXCEPT ![w] = IF waiting THEN "done" ELSE "absent"]
  /\ UNCHANGED <<waiting, indexed, aged, sweeper, killing, exits, written, revived,
                 outcomeFaults>>

(***************************************************************************)
(* The write scores the member anew.  A delivery may come late, that of a  *)
(* give-up or of a kill the latest: it may find no row where the TTL took  *)
(* one and the sweep has not dealt with the member yet.                    *)
(***************************************************************************)
WriteRow(w) ==
  /\ writer[w] = "absent"
  /\ writer' = [writer EXCEPT ![w] = "done"]
  /\ waiting' = TRUE
  /\ indexed' = TRUE
  /\ aged' = FALSE
  /\ written' = IF waiting THEN written ELSE written + 1
  /\ revived' = (revived \/ (~waiting /\ (indexed \/ OrphanSeen)))
  /\ UNCHANGED <<sweeper, killing, exits, outcomeFaults>>

-----------------------------------------------------------------------------
(* claim_outcome by an owner, delete_outcome by a kill.                    *)

TakeOutcome ==
  /\ waiting
  /\ exits["taken"] < MaxTakes
  /\ waiting' = FALSE
  /\ indexed' = FALSE
  /\ Leaves("taken")
  /\ UNCHANGED <<aged, writer, sweeper, killing, written, revived, outcomeFaults>>

KillReads ==
  /\ waiting
  /\ ~killing
  /\ killing' = TRUE
  /\ UNCHANGED <<waiting, indexed, aged, writer, sweeper, exits, written, revived,
                 outcomeFaults>>

(***************************************************************************)
(* The removal is not conditional: it takes whatever is there by now.      *)
(***************************************************************************)
KillRemoves ==
  /\ killing
  /\ killing' = FALSE
  /\ waiting' = FALSE
  /\ indexed' = FALSE
  /\ IF waiting \/ indexed THEN Leaves("killed") ELSE UNCHANGED exits
  /\ UNCHANGED <<aged, writer, sweeper, written, revived, outcomeFaults>>

-----------------------------------------------------------------------------
(* Time, and sweep_untaken_outcomes_once.                                  *)

HorizonPasses ==
  /\ waiting
  /\ ~aged
  /\ aged' = TRUE
  /\ UNCHANGED <<waiting, indexed, writer, sweeper, killing, exits, written,
                 revived, outcomeFaults>>

BackstopLapses ==
  /\ waiting
  /\ aged
  /\ waiting' = FALSE
  /\ UNCHANGED <<indexed, aged, writer, sweeper, killing, exits, written, revived,
                 outcomeFaults>>

DueUntaken(s) ==
  /\ sweeper[s] = "idle"
  /\ indexed
  /\ aged
  /\ sweeper' = [sweeper EXCEPT ![s] = "listed"]
  /\ UNCHANGED <<waiting, indexed, aged, writer, killing, exits, written, revived,
                 outcomeFaults>>

\* Mutant of SweepClaims: the row is read, and removed unconditionally.
SweepDeletes(s) ==
  /\ sweeper[s] = "listed"
  /\ sweeper' = [sweeper EXCEPT ![s] = "reporting"]
  /\ waiting' = FALSE
  /\ indexed' = FALSE
  /\ UNCHANGED <<aged, writer, killing, exits, written, revived, outcomeFaults>>

SweepClaims(s) ==
  /\ sweeper[s] = "listed"
  /\ sweeper' = [sweeper EXCEPT ![s] = IF waiting THEN "reporting" ELSE "orphan"]
  /\ waiting' = FALSE
  /\ indexed' = (indexed /\ ~waiting)
  /\ UNCHANGED <<aged, writer, killing, exits, written, revived, outcomeFaults>>

(***************************************************************************)
(* reconcile_orphan_outcome: who removes the member reports the loss.      *)
(***************************************************************************)
ReconcileOrphan(s) ==
  /\ sweeper[s] = "orphan"
  /\ sweeper' = [sweeper EXCEPT ![s] = IF indexed THEN "reporting" ELSE "idle"]
  /\ indexed' = FALSE
  /\ UNCHANGED <<waiting, aged, writer, killing, exits, written, revived, outcomeFaults>>

ReportDropped(s) ==
  /\ sweeper[s] = "reporting"
  /\ sweeper' = [sweeper EXCEPT ![s] = "idle"]
  /\ Leaves("reported")
  /\ UNCHANGED <<waiting, indexed, aged, writer, killing, written, revived,
                 outcomeFaults>>

(***************************************************************************)
(* A sweeper that dies between its claim and its report loses the report.  *)
(***************************************************************************)
SweeperDies(s) ==
  /\ sweeper[s] # "idle"
  /\ outcomeFaults < MaxOutcomeFaults
  /\ outcomeFaults' = outcomeFaults + 1
  /\ sweeper' = [sweeper EXCEPT ![s] = "idle"]
  /\ IF sweeper[s] = "reporting" THEN Leaves("unreported") ELSE UNCHANGED exits
  /\ UNCHANGED <<waiting, indexed, aged, writer, killing, written, revived>>

OutcomeNext ==
  \/ \E w \in Writer : LookForRow(w) \/ WriteRow(w)
  \/ \E s \in Sweeper :
       \/ DueUntaken(s) \/ SweepClaims(s) \/ ReconcileOrphan(s)
       \/ ReportDropped(s) \/ SweeperDies(s)
  \/ TakeOutcome \/ KillReads \/ KillRemoves \/ HorizonPasses \/ BackstopLapses

OutcomeSpec == OutcomeInit /\ [][OutcomeNext]_outcomeVars

-----------------------------------------------------------------------------
(* Properties.                                                             *)

OutcomeTypeOK ==
  /\ {waiting, indexed, aged, killing, revived} \subseteq BOOLEAN
  /\ exits \in [Exit -> Nat]
  /\ written \in Nat
  /\ writer \in [Writer -> {"idle", "absent", "done"}]
  /\ sweeper \in [Sweeper -> {"idle", "listed", "orphan", "reporting"}]

(***************************************************************************)
(* Every outcome that was written still waits, or is a lapsed one that the *)
(* sweep still finds, or has left exactly once: taken, killed or reported  *)
(* as dropped, however takes, sweeps, kills, the backstop and late writes  *)
(* race.  The one exception is an outcome written anew where the TTL took  *)
(* the row before and the sweep has not repaired that yet: the repair      *)
(* takes the new member for the old one.                                   *)
(***************************************************************************)
OutcomeLeavesOnce ==
  revived \/
    written = exits["taken"] + exits["killed"] + exits["reported"] + exits["unreported"]
              + Cardinality({s \in Sweeper : sweeper[s] = "reporting"})
              + (IF waiting \/ indexed THEN 1 ELSE 0)

(***************************************************************************)
(* An outcome that waits is in the retention index, with that exception:   *)
(* none other can leave by its TTL unnoticed.                              *)
(***************************************************************************)
WaitingIsIndexed == waiting => indexed \/ revived
=============================================================================
