----------------------------- MODULE ResumeLedger -----------------------------
(***************************************************************************)
(* What the park lifecycle promises, with no store, drive or reaper in it: *)
(* a question is asked once and answered at most once; an answer that was  *)
(* claimed is owed to its run until the run has an outcome, waits on, or   *)
(* is taken down; a debt that cannot be paid lapses, and is not reopened.  *)
(***************************************************************************)
CONSTANTS Park, Run, RunOf

VARIABLES
  phase,    \* where each question stands
  outcome,  \* the outcome that stands for each run
  waits,    \* questions whose answer led the run to wait again
  dead      \* runs taken down

ledgerVars == <<phase, outcome, waits, dead>>

Phase == {"unasked", "open", "owed", "lapsed", "closed"}

LedgerInit ==
  /\ phase = [p \in Park |-> "unasked"]
  /\ outcome = [r \in Run |-> "none"]
  /\ waits = {}
  /\ dead = {}

Become(p, ph) == phase' = [phase EXCEPT ![p] = ph]

(***************************************************************************)
(* A question is put, or never comes to be put.                            *)
(***************************************************************************)
Ask(p) ==
  /\ phase[p] = "unasked"
  /\ Become(p, "open") \/ Become(p, "closed")
  /\ UNCHANGED <<outcome, waits, dead>>

Claim(p) ==
  /\ phase[p] = "open"
  /\ Become(p, "owed")
  /\ UNCHANGED <<outcome, waits, dead>>

Withdraw(p) ==
  /\ phase[p] = "open"
  /\ Become(p, "closed")
  /\ UNCHANGED <<outcome, waits, dead>>

TakeDown(p) ==
  /\ phase[p] # "unasked"
  /\ \/ Become(p, "closed")
     \/ phase[p] = "lapsed" /\ UNCHANGED phase
  /\ dead' = dead \cup {RunOf[p]}
  /\ UNCHANGED <<outcome, waits>>

Wait(p) ==
  /\ phase[p] \notin {"unasked", "open"}
  /\ waits' = waits \cup {p}
  /\ UNCHANGED <<phase, outcome, dead>>

(***************************************************************************)
(* A run has an outcome, of a question that was resolved.  It is never     *)
(* taken back, but a deliverer that raced the first may replace it.        *)
(***************************************************************************)
Settle(r, status) ==
  /\ \E p \in Park : RunOf[p] = r /\ phase[p] \notin {"unasked", "open"}
  /\ outcome' = [outcome EXCEPT ![r] = status]
  /\ UNCHANGED <<phase, waits, dead>>

Discharge(p) ==
  /\ phase[p] \in {"owed", "lapsed"}
  /\ outcome[RunOf[p]] # "none" \/ p \in waits \/ RunOf[p] \in dead
  /\ Become(p, "closed")
  /\ UNCHANGED <<outcome, waits, dead>>

Lapse(p) ==
  /\ phase[p] = "owed"
  /\ Become(p, "lapsed")
  /\ UNCHANGED <<outcome, waits, dead>>

LedgerNext ==
  \/ \E p \in Park : Ask(p) \/ Claim(p) \/ Withdraw(p) \/ TakeDown(p) \/ Wait(p)
                       \/ Discharge(p) \/ Lapse(p)
  \/ \E r \in Run, status \in {"succeeded", "failed"} : Settle(r, status)

LedgerSpec == LedgerInit /\ [][LedgerNext]_ledgerVars
=============================================================================
