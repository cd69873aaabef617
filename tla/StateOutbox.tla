----------------------------- MODULE StateOutbox -----------------------------
(***************************************************************************)
(* The outbox of pending state saves (states/outbox/): rows written before *)
(* a reply, whose records are applied in the order of the rows on each     *)
(* record, and whose deferred calls run in that order on each subject,     *)
(* under a leased claim.  A run waits for the saves of its subjects.  A    *)
(* save's number is its row's id.                                          *)
(***************************************************************************)
EXTENDS Integers, Sequences, SequencesExt

CONSTANTS
  Saves,        \* the numbers of the saves, 1 to the last one
  Subject,      \* keys: subjects, and the records of one state about them
  RecordKeys,   \* [Saves -> SUBSET Subject], empty for a save of calls only
  SubjectKeys,  \* [Saves -> SUBSET Subject]
  Calls,        \* [Saves -> Nat], how many deferred calls a save has
  Resumable,    \* saves whose calls may be run again after a crash
  CallDrains,   \* [Saves -> SUBSET Subject], whose runs a save's calls enter
  Applier,      \* tasks: fast paths, sweeps, readers that help along, retries
  RootRun,      \* runs that no deferred call entered
  RunSubject,   \* [RootRun -> SUBSET Subject]
  MaxAttempts,  \* outbox_max_attempts
  MaxFaults     \* bound: lapses under a live task, crashes and operator retries

ASSUME SavesAssumption == Saves \subseteq Nat \ {0}
ASSUME KeysAssumption ==
  /\ RecordKeys \in [Saves -> SUBSET Subject]
  /\ SubjectKeys \in [Saves -> SUBSET Subject]
  /\ Calls \in [Saves -> Nat]
  /\ CallDrains \in [Saves -> SUBSET Subject]
  /\ RunSubject \in [RootRun -> SUBSET Subject]
ASSUME BoundsAssumption == MaxAttempts \in Nat \ {0} /\ MaxFaults \in Nat

NoSave == 0
NoApplier == "nobody"
ASSUME ApplierAssumption == NoApplier \notin Applier

Gone == {"applied", "discarded", "refused"}
Outstanding == {"pending", "calls", "running", "failed"}
RowStatus == {"absent", "inserting"} \cup Outstanding \cup Gone

VARIABLES
  row,      \* [Saves -> status, done, attempts, claim, lapsed, recorded]
  task,     \* [Applier -> what the task is at]
  run,      \* [RootRun -> what the run is at]
  before,   \* history: [Saves -> the saves committed when this one took its id]
  starts,   \* history: [Saves -> [call -> times it was started]]
  leave,    \* history: [Saves -> [call -> reported failures and retries]]
  faults    \* how many of the bounded faults there were

outboxVars == <<row, task, run, before, starts, leave, faults>>

Idle == [pc |-> "idle", stack |-> <<>>, call |-> NoSave, index |-> 0, error |-> "none",
         scope |-> NoSave, left |-> {}, chain |-> <<>>]
At(pc) == [Idle EXCEPT !.pc = pc]
AtCall(pc, s, index) == [Idle EXCEPT !.pc = pc, !.call = s, !.index = index]

(***************************************************************************)
(* Some saves are never made, some processes are down, some runs never     *)
(* come, and some of the bounded faults lie in the past.                   *)
(***************************************************************************)
OutboxStart(never, down, away, spent) ==
  /\ row = [s \in Saves |-> [status |-> IF s \in never THEN "refused" ELSE "absent",
                             done |-> 0, attempts |-> 0, claim |-> NoApplier,
                             lapsed |-> FALSE, recorded |-> FALSE]]
  /\ task = [t \in Applier |-> IF t \in down THEN At("down") ELSE Idle]
  /\ run = [r \in RootRun |-> [pc |-> IF r \in away THEN "away" ELSE "idle",
                                left |-> {}, chain |-> <<>>, seen |-> {}]]
  /\ before = [s \in Saves |-> {}]
  /\ starts = [s \in Saves |-> [c \in 1..Calls[s] |-> 0]]
  /\ leave = [s \in Saves |-> [c \in 1..Calls[s] |-> 0]]
  /\ faults = spent

OutboxInit ==
  \E never \in SUBSET Saves, down \in SUBSET Applier, away \in SUBSET RootRun,
     spent \in 0..MaxFaults : OutboxStart(never, down, away, spent)

Status(s) == row[s].status
Committed == {s \in Saves : Status(s) \in Outstanding \cup {"applied", "discarded"}}
SameRecord(s, q) == RecordKeys[s] \cap RecordKeys[q] # {}
SameSubject(s, q) == SubjectKeys[s] \cap SubjectKeys[q] # {}
Oldest(S) == CHOOSE s \in S : \A q \in S : s <= q

(***************************************************************************)
(* _UNAPPLIED: a failed row holds its records until it is applied.         *)
(***************************************************************************)
Unapplied(s) == Status(s) = "pending" \/ (Status(s) = "failed" /\ ~row[s].recorded)
OlderUnapplied(s) == {q \in Saves : q < s /\ SameRecord(q, s) /\ Unapplied(q)}
Blockers(s) == {q \in Saves : q < s /\ SameSubject(q, s) /\ Status(q) \in Outstanding}

Turn(t, to) == task' = [task EXCEPT ![t] = to]
Fault == faults < MaxFaults /\ faults' = faults + 1
UnderClaim(t, s) == Status(s) = "running" /\ row[s].claim = t

-----------------------------------------------------------------------------
(* enqueue.py: the row's transaction takes the next id and commits.        *)

TakeId(s) ==
  /\ Status(s) = "absent"
  /\ \A q \in Saves : q < s => Status(q) # "absent"
  /\ row' = [row EXCEPT ![s].status = "inserting"]
  /\ before' = [before EXCEPT ![s] = Committed]
  /\ UNCHANGED <<task, run, starts, leave, faults>>

CommitInsert(s) ==
  /\ Status(s) = "inserting"
  /\ row' = [row EXCEPT ![s].status = IF RecordKeys[s] = {} THEN "calls" ELSE "pending",
                        ![s].recorded = RecordKeys[s] = {}]
  /\ UNCHANGED <<task, run, before, starts, leave, faults>>

(***************************************************************************)
(* A person the save stages is being erased, or the process is lost.       *)
(***************************************************************************)
AbortInsert(s) ==
  /\ Status(s) = "inserting"
  /\ row' = [row EXCEPT ![s].status = "refused"]
  /\ UNCHANGED <<task, run, before, starts, leave, faults>>

-----------------------------------------------------------------------------
(* apply_row: one transaction for a row, after every older row it is       *)
(* ordered behind.  The stack holds the rows; the last one is worked on.   *)

Locked(t) == IF task[t].pc = "writing" THEN RecordKeys[Last(task[t].stack)] ELSE {}

RowDone(t) ==
  IF Len(task[t].stack) = 1 THEN Idle
  ELSE [At("locking") EXCEPT !.stack = Front(task[t].stack)]

StartApply(t, s) ==
  /\ task[t].pc = "idle"
  /\ Status(s) = "pending"
  /\ Turn(t, [At("locking") EXCEPT !.stack = <<s>>])
  /\ UNCHANGED <<row, run, before, starts, leave, faults>>

\* Mutant of ApplyOnce: an older failed row is passed over.
ApplyOncePastFailed(t) ==
  LET s == Last(task[t].stack)
      older == {q \in OlderUnapplied(s) : Status(q) = "pending"}
  IN /\ task[t].pc = "locking"
     /\ \A u \in Applier \ {t} : Locked(u) \cap RecordKeys[s] = {}
     /\ Turn(t, IF older # {} THEN [task[t] EXCEPT !.stack = Append(@, Oldest(older))]
                ELSE IF Status(s) # "pending" THEN RowDone(t)
                ELSE [task[t] EXCEPT !.pc = "writing"])
     /\ UNCHANGED <<row, run, before, starts, leave, faults>>

(***************************************************************************)
(* _apply_once: the keys are locked; an older unapplied row on them is     *)
(* applied first, a failed one holds the whole chain; the row is locked    *)
(* and must still be pending.                                              *)
(***************************************************************************)
ApplyOnce(t) ==
  LET s == Last(task[t].stack)
      older == OlderUnapplied(s)
  IN /\ task[t].pc = "locking"
     /\ \A u \in Applier \ {t} : Locked(u) \cap RecordKeys[s] = {}
     /\ Turn(t, IF older # {}
                THEN IF Status(Oldest(older)) = "failed" THEN Idle
                     ELSE [task[t] EXCEPT !.stack = Append(@, Oldest(older))]
                ELSE IF Status(s) # "pending" THEN RowDone(t)
                ELSE [task[t] EXCEPT !.pc = "writing"])
     /\ UNCHANGED <<row, run, before, starts, leave, faults>>

(***************************************************************************)
(* LockNotAvailable: the rows stay pending.                                *)
(***************************************************************************)
LockTimesOut(t) ==
  /\ task[t].pc = "locking"
  /\ \E u \in Applier \ {t} : Locked(u) \cap RecordKeys[Last(task[t].stack)] # {}
  /\ Turn(t, Idle)
  /\ UNCHANGED <<row, run, before, starts, leave, faults>>

(***************************************************************************)
(* The records are written and the row goes, or goes on to its calls.      *)
(***************************************************************************)
CommitRecords(t) ==
  LET s == Last(task[t].stack)
  IN /\ task[t].pc = "writing"
     /\ row' = [row EXCEPT ![s].status = IF Calls[s] = 0 THEN "applied" ELSE "calls",
                           ![s].attempts = 0,
                           ![s].recorded = TRUE]
     /\ Turn(t, RowDone(t))
     /\ UNCHANGED <<run, before, starts, leave, faults>>

(***************************************************************************)
(* The locks, the look for older rows, the writes or the commit fail.      *)
(***************************************************************************)
RecordsRaise(t, error) ==
  /\ task[t].pc \in {"locking", "writing"}
  /\ Turn(t, [At("unrecorded") EXCEPT !.stack = <<Last(task[t].stack)>>, !.error = error])
  /\ UNCHANGED <<row, run, before, starts, leave, faults>>

(***************************************************************************)
(* outbox_record_failure in the records phase.  The transaction is rolled  *)
(* back, so another task may have moved the row on.                        *)
(***************************************************************************)
RecordApplyFailure(t) ==
  LET s == Last(task[t].stack)
      again == task[t].error = "transient" /\ row[s].attempts + 1 < MaxAttempts
  IN /\ task[t].pc = "unrecorded"
     /\ \A u \in Applier : task[u].pc = "writing" => Last(task[u].stack) # s
     /\ row' = IF Status(s) # "pending" THEN row
               ELSE [row EXCEPT ![s].status = IF again THEN "pending" ELSE "failed",
                                ![s].attempts = @ + 1]
     /\ Turn(t, Idle)
     /\ UNCHANGED <<run, before, starts, leave, faults>>

-----------------------------------------------------------------------------
(* run_calls.                                                              *)

\* Mutant of ClaimCalls: the older rows of the subjects are not looked at.
ClaimCallsAnyOrder(t, s) ==
  /\ task[t].pc = "idle"
  /\ Status(s) = "calls" \/ (Status(s) = "running" /\ row[s].lapsed)
  /\ row' = [row EXCEPT ![s].status = "running", ![s].claim = t, ![s].lapsed = FALSE,
                        ![s].attempts = @ + 1]
  /\ Turn(t, AtCall(IF /\ Status(s) = "running"
                       /\ row[s].done < Calls[s]
                       /\ s \notin Resumable
                    THEN "interrupted" ELSE "ready", s, row[s].done))
  /\ UNCHANGED <<run, before, starts, leave, faults>>

\* Mutant of ClaimCalls: a call that a lapsed claim interrupted just runs.
ClaimCallsRerunning(t, s) ==
  /\ task[t].pc = "idle"
  /\ Status(s) = "calls" \/ (Status(s) = "running" /\ row[s].lapsed)
  /\ Blockers(s) = {}
  /\ row' = [row EXCEPT ![s].status = "running", ![s].claim = t, ![s].lapsed = FALSE,
                        ![s].attempts = @ + 1]
  /\ Turn(t, AtCall("ready", s, row[s].done))
  /\ UNCHANGED <<run, before, starts, leave, faults>>

(***************************************************************************)
(* outbox_claim_calls: the calls are due, or their claim lapsed, and no    *)
(* older row of the subjects is outstanding.  A call that a lapsed claim   *)
(* interrupted is run again only when it is resumable.                     *)
(***************************************************************************)
ClaimCalls(t, s) ==
  /\ task[t].pc = "idle"
  /\ Status(s) = "calls" \/ (Status(s) = "running" /\ row[s].lapsed)
  /\ Blockers(s) = {}
  /\ row' = [row EXCEPT ![s].status = "running", ![s].claim = t, ![s].lapsed = FALSE,
                        ![s].attempts = @ + 1]
  /\ Turn(t, AtCall(IF /\ Status(s) = "running"
                       /\ row[s].done < Calls[s]
                       /\ s \notin Resumable
                    THEN "interrupted" ELSE "ready", s, row[s].done))
  /\ UNCHANGED <<run, before, starts, leave, faults>>

FailInterrupted(t) ==
  LET s == task[t].call
  IN /\ task[t].pc = "interrupted"
     /\ row' = IF UnderClaim(t, s)
               THEN [row EXCEPT ![s].status = "failed", ![s].claim = NoApplier,
                                ![s].lapsed = FALSE]
               ELSE row
     /\ Turn(t, Idle)
     /\ UNCHANGED <<run, before, starts, leave, faults>>

(***************************************************************************)
(* drain_subjects: the runs a call enters list the outstanding saves of    *)
(* their subjects, the save whose call it is left out while its claim      *)
(* holds.  A failed one refuses the run.                                   *)
(***************************************************************************)
Listed(keys) == {q \in Saves : SubjectKeys[q] \cap keys # {} /\ Status(q) \in Outstanding}

StartCall(t) ==
  LET s == task[t].call
      i == task[t].index
      scope == IF UnderClaim(t, s) THEN s ELSE NoSave
      listed == Listed(CallDrains[s]) \ {scope}
  IN /\ task[t].pc = "ready"
     /\ i < Calls[s]
     /\ starts' = [starts EXCEPT ![s][i + 1] = @ + 1]
     /\ IF \E q \in listed : Status(q) = "failed"
        THEN Turn(t, [AtCall("raised", s, i) EXCEPT !.error = "lasting"])
        ELSE Turn(t, [AtCall("calling", s, i) EXCEPT !.scope = scope, !.left = listed])
     /\ UNCHANGED <<row, run, before, leave, faults>>

FinishCall(t) ==
  /\ task[t].pc = "calling"
  /\ task[t].left = {}
  /\ Turn(t, AtCall("called", task[t].call, task[t].index))
  /\ UNCHANGED <<row, run, before, starts, leave, faults>>

(***************************************************************************)
(* The call fails, or what it waits for outlives the deadline of a drain,  *)
(* or it completed and outbox_call_done fails before the row says so.      *)
(***************************************************************************)
CallRaises(t, error) ==
  /\ task[t].pc \in {"calling", "called"}
  /\ Turn(t, [AtCall("raised", task[t].call, task[t].index) EXCEPT !.error = error])
  /\ UNCHANGED <<row, run, before, starts, leave, faults>>

\* Mutant of CallDone: the claim is not looked at.
CallDoneUnclaimed(t) ==
  LET s == task[t].call
  IN /\ task[t].pc = "called"
     /\ row' = [row EXCEPT ![s].done = @ + 1]
     /\ Turn(t, AtCall("ready", s, task[t].index + 1))
     /\ UNCHANGED <<run, before, starts, leave, faults>>

(***************************************************************************)
(* outbox_call_done, or the claim was taken over.                          *)
(***************************************************************************)
CallDone(t) ==
  LET s == task[t].call
  IN /\ task[t].pc = "called"
     /\ IF row[s].claim = t
        THEN /\ row' = [row EXCEPT ![s].done = @ + 1]
             /\ Turn(t, AtCall("ready", s, task[t].index + 1))
        ELSE Turn(t, Idle) /\ UNCHANGED row
     /\ UNCHANGED <<run, before, starts, leave, faults>>

(***************************************************************************)
(* outbox_delete_claimed after the last call.                              *)
(***************************************************************************)
DeleteClaimed(t) ==
  LET s == task[t].call
  IN /\ task[t].pc = "ready"
     /\ task[t].index = Calls[s]
     /\ row' = IF row[s].claim = t
               THEN [row EXCEPT ![s].status = "applied", ![s].claim = NoApplier,
                                ![s].lapsed = FALSE]
               ELSE row
     /\ Turn(t, Idle)
     /\ UNCHANGED <<run, before, starts, leave, faults>>

(***************************************************************************)
(* outbox_call_done lands and its reply is lost.                           *)
(***************************************************************************)
CallDoneUnheard(t, error) ==
  LET s == task[t].call
  IN /\ task[t].pc = "called"
     /\ row[s].claim = t
     /\ row' = [row EXCEPT ![s].done = @ + 1]
     /\ Turn(t, [AtCall("unheard", s, task[t].index + 1) EXCEPT !.error = error])
     /\ UNCHANGED <<run, before, starts, leave, faults>>

(***************************************************************************)
(* outbox_delete_claimed fails with every call done.  One that lands and   *)
(* is not heard of leaves no row for the failure to be recorded on.        *)
(***************************************************************************)
DeleteRaises(t, error) ==
  LET s == task[t].call
  IN /\ task[t].pc = "ready"
     /\ task[t].index = Calls[s]
     /\ Turn(t, [AtCall("unheard", s, task[t].index) EXCEPT !.error = error])
     /\ UNCHANGED <<row, run, before, starts, leave, faults>>

(***************************************************************************)
(* outbox_record_failure in the calls phase, under the claim: a failure of *)
(* a call, or of a write after one.  The row goes back to its calls though *)
(* the last one completed, or though all of them did.                      *)
(***************************************************************************)
RecordCallFailure(t) ==
  LET s == task[t].call
      again == task[t].error = "transient" /\ row[s].attempts < MaxAttempts
  IN /\ task[t].pc \in {"raised", "unheard"}
     /\ IF UnderClaim(t, s)
        THEN /\ row' = [row EXCEPT ![s].status = IF again THEN "calls" ELSE "failed",
                                   ![s].claim = NoApplier, ![s].lapsed = FALSE]
             /\ leave' = IF again /\ task[t].pc = "raised"
                         THEN [leave EXCEPT ![s][row[s].done + 1] = @ + 1]
                         ELSE leave
        ELSE UNCHANGED <<row, leave>>
     /\ Turn(t, Idle)
     /\ UNCHANGED <<run, before, starts, faults>>

-----------------------------------------------------------------------------
(* The lease of the claim.                                                 *)

Running == {"ready", "calling", "called", "raised", "unheard", "interrupted"}

(***************************************************************************)
(* The lease of a runner that is gone runs out; that of a runner that is   *)
(* there does when its heartbeats fail or come late.                       *)
(***************************************************************************)
Abandoned(s) ==
  ~\E t \in Applier : task[t].pc \in Running /\ task[t].call = s /\ row[s].claim = t

LeaseLapses(s) ==
  /\ Status(s) = "running"
  /\ ~row[s].lapsed
  /\ \/ Abandoned(s) /\ UNCHANGED faults
     \/ ~Abandoned(s) /\ Fault
  /\ row' = [row EXCEPT ![s].lapsed = TRUE]
  /\ UNCHANGED <<task, run, before, starts, leave>>

Heartbeat(t) ==
  LET s == task[t].call
  IN /\ task[t].pc \in {"ready", "calling", "called"}
     /\ UnderClaim(t, s)
     /\ row[s].lapsed
     /\ row' = [row EXCEPT ![s].lapsed = FALSE]
     /\ UNCHANGED <<task, run, before, starts, leave, faults>>

(***************************************************************************)
(* A heartbeat finds the claim taken over and cancels the call.            *)
(***************************************************************************)
HeartbeatLost(t) ==
  /\ task[t].pc \in {"ready", "calling", "called"}
  /\ ~UnderClaim(t, task[t].call)
  /\ Turn(t, Idle)
  /\ UNCHANGED <<row, run, before, starts, leave, faults>>

(***************************************************************************)
(* A crash or a shutdown: transactions roll back, claims stay on the rows. *)
(***************************************************************************)
TaskDies(t) ==
  /\ task[t].pc \notin {"idle", "down"}
  /\ Fault
  /\ Turn(t, Idle)
  /\ UNCHANGED <<row, run, before, starts, leave>>

-----------------------------------------------------------------------------
(* The operator's doors.                                                   *)

RetryPendingSave(s) ==
  /\ Status(s) = "failed"
  /\ Fault
  /\ row' = [row EXCEPT ![s].status = IF row[s].recorded THEN "calls" ELSE "pending",
                        ![s].attempts = 0]
  /\ leave' = IF row[s].recorded /\ row[s].done < Calls[s]
              THEN [leave EXCEPT ![s][row[s].done + 1] = @ + 1]
              ELSE leave
  /\ UNCHANGED <<task, run, before, starts>>

DiscardPendingSave(s) ==
  /\ Status(s) = "failed"
  /\ row' = [row EXCEPT ![s].status = "discarded"]
  /\ UNCHANGED <<task, run, before, starts, leave, faults>>

-----------------------------------------------------------------------------
(* The drain of a run's entry, row by row: the records of a pending row    *)
(* are applied (StartApply, by any task), its calls are waited for, and so *)
(* is each older row that holds its calls back, down the chain.            *)

WaitsOn(scope, s) == scope # NoSave /\ s > scope /\ SameSubject(s, scope)
\* Mutant of Skips: a call's drain waits for every save but its own.
SkipsItself(scope, s) == s = scope
\* Mutant of Skips: every newer save is taken for one that waits.
SkipsNewer(scope, s) == s > scope

Skips(scope, s) ==
  \/ WaitsOn(scope, s)
  \/ /\ Blockers(s) # {}
     /\ Status(Oldest(Blockers(s))) # "failed"
     /\ Oldest(Blockers(s)) = scope \/ WaitsOn(scope, Oldest(Blockers(s)))

(***************************************************************************)
(* An older failed row holds a pending one, whatever is in between.        *)
(***************************************************************************)
Held ==
  LET held[s \in Saves] ==
        \/ Status(s) = "failed"
        \/ /\ Status(s) = "pending"
           /\ \E q \in Saves : q < s /\ SameRecord(q, s) /\ Unapplied(q) /\ held[q]
  IN held

Top(left, chain) == IF chain = <<>> THEN Oldest(left) ELSE Last(chain)

DrainRefused(scope, left, chain) ==
  LET s == Top(left, chain)
      b == Oldest(Blockers(s))
  IN \/ Status(s) \in {"pending", "failed"} /\ Held[s]
     \/ /\ ~Skips(scope, s)
        /\ Blockers(s) # {}
        /\ Status(b) \in {"pending", "failed"}
        /\ Held[b]

DrainStep(scope, left, chain) ==
  LET s == Top(left, chain)
      skipped == [left |-> left \ {Oldest(left)}, chain |-> <<>>]
      popped == IF chain = <<>> THEN skipped ELSE [left |-> left, chain |-> Front(chain)]
      b == Oldest(Blockers(s))
  IN {d \in {skipped} : Status(s) # "pending" /\ Skips(scope, s)}
     \cup {d \in {popped} : Status(s) \in Gone /\ (chain = <<>> \/ Blockers(s) = {})}
     \cup (IF /\ Status(s) # "pending"
             /\ ~Skips(scope, s)
             /\ Blockers(s) # {}
             /\ Status(b) \in {"calls", "running"}
          THEN {[left |-> left, chain |-> Append(chain, b)]} ELSE {})

CallDrain(t) ==
  /\ task[t].pc = "calling"
  /\ task[t].left # {}
  /\ \E d \in DrainStep(task[t].scope, task[t].left, task[t].chain) :
       Turn(t, [task[t] EXCEPT !.left = d.left, !.chain = d.chain])
  /\ UNCHANGED <<row, run, before, starts, leave, faults>>

CallDrainRefused(t) ==
  /\ task[t].pc = "calling"
  /\ task[t].left # {}
  /\ DrainRefused(task[t].scope, task[t].left, task[t].chain)
  /\ CallRaises(t, "lasting")

(***************************************************************************)
(* run_entry_drain of a run that no deferred call entered.                 *)
(***************************************************************************)
EnterRun(r) ==
  LET listed == Listed(RunSubject[r])
  IN /\ run[r].pc = "idle"
     /\ run' = [run EXCEPT ![r] =
          IF \E q \in listed : Status(q) = "failed"
          THEN [@ EXCEPT !.pc = "refused"]
          ELSE [@ EXCEPT !.pc = "draining", !.left = listed, !.seen = listed]]
     /\ UNCHANGED <<row, task, before, starts, leave, faults>>

RunDrain(r) ==
  /\ run[r].pc = "draining"
  /\ run[r].left # {}
  /\ \E d \in DrainStep(NoSave, run[r].left, run[r].chain) :
       run' = [run EXCEPT ![r].left = d.left, ![r].chain = d.chain]
  /\ UNCHANGED <<row, task, before, starts, leave, faults>>

(***************************************************************************)
(* A failed save refuses the run, or the drain's deadline passes.          *)
(***************************************************************************)
RunRefused(r) ==
  /\ run[r].pc = "draining"
  /\ run[r].left # {}
  /\ run' = [run EXCEPT ![r] = [@ EXCEPT !.pc = "refused", !.left = {}, !.chain = <<>>]]
  /\ UNCHANGED <<row, task, before, starts, leave, faults>>

RunBegins(r) ==
  /\ run[r].pc = "draining"
  /\ run[r].left = {}
  /\ run' = [run EXCEPT ![r].pc = "in"]
  /\ UNCHANGED <<row, task, before, starts, leave, faults>>

-----------------------------------------------------------------------------

ApplyStep(t) ==
  ApplyOnce(t) \/ CommitRecords(t) \/ RecordApplyFailure(t)
CallStep(t) ==
  \/ FailInterrupted(t) \/ StartCall(t) \/ CallDrain(t) \/ CallDrainRefused(t)
  \/ FinishCall(t) \/ CallDone(t) \/ DeleteClaimed(t) \/ RecordCallFailure(t)
TaskFault(t) ==
  \/ LockTimesOut(t) \/ HeartbeatLost(t) \/ Heartbeat(t) \/ TaskDies(t)
  \/ \E error \in {"transient", "lasting"} :
       \/ RecordsRaise(t, error) \/ CallRaises(t, error)
       \/ CallDoneUnheard(t, error) \/ DeleteRaises(t, error)
SaveStep(s) ==
  \/ TakeId(s) \/ CommitInsert(s) \/ AbortInsert(s)
  \/ LeaseLapses(s) \/ RetryPendingSave(s) \/ DiscardPendingSave(s)
RunStep(r) == EnterRun(r) \/ RunDrain(r) \/ RunRefused(r) \/ RunBegins(r)

OutboxNext ==
  \/ \E t \in Applier : ApplyStep(t) \/ CallStep(t) \/ TaskFault(t)
  \/ \E t \in Applier, s \in Saves : StartApply(t, s) \/ ClaimCalls(t, s)
  \/ \E s \in Saves : SaveStep(s)
  \/ \E r \in RootRun : RunStep(r)

OutboxSpec == OutboxInit /\ [][OutboxNext]_outboxVars

-----------------------------------------------------------------------------
(* Properties.                                                             *)

OutboxTypeOK ==
  /\ row \in [Saves -> [status : RowStatus, done : Nat, attempts : Nat,
                        claim : Applier \cup {NoApplier}, lapsed : BOOLEAN,
                        recorded : BOOLEAN]]
  /\ \A s \in Saves : row[s].done <= Calls[s] /\ before[s] \subseteq Saves
  /\ \A t \in Applier : /\ task[t].left \subseteq Saves
                        /\ \A i \in DOMAIN task[t].stack : task[t].stack[i] \in Saves
  /\ \A s \in Saves : (row[s].claim # NoApplier) <=> (Status(s) = "running")

(***************************************************************************)
(* Records are applied in the order of the saves: a save whose records are *)
(* applied comes after every save of the same record that was committed    *)
(* before it took its number, unless an operator discarded that one.       *)
(***************************************************************************)
RecordsInOrder ==
  \A s \in Saves : row[s].recorded /\ RecordKeys[s] # {} =>
    \A q \in before[s] :
      SameRecord(q, s) => row[q].recorded \/ Status(q) = "discarded"

(***************************************************************************)
(* Deferred calls run in the order of the saves: when a call of a save has *)
(* started, every save of the same subject committed before it took its    *)
(* number is gone, its own calls with it.                                  *)
(***************************************************************************)
CallsInOrder ==
  \A s \in Saves : (\E c \in 1..Calls[s] : starts[s][c] > 0) =>
    \A q \in before[s] : SameSubject(q, s) => Status(q) \in Gone

(***************************************************************************)
(* A call that may not be run again starts once, and once more for each    *)
(* failure its runner recorded as passing, of the call or of the write     *)
(* that notes it done, and each retry of an operator: a crash, a lapsed    *)
(* claim or a failure of another call never runs it again.                 *)
(***************************************************************************)
InterruptedCallsStay ==
  \A s \in Saves \ Resumable : \A c \in 1..Calls[s] : starts[s][c] <= 1 + leave[s][c]

(***************************************************************************)
(* A run that began had every save of its subjects that it found finished, *)
(* the records and the deferred calls, or discarded by an operator.        *)
(***************************************************************************)
RunsWaitForSaves ==
  \A r \in RootRun : run[r].pc = "in" => \A s \in run[r].seen : Status(s) \in Gone

(***************************************************************************)
(* A deferred call never waits for its own save, not even through the      *)
(* saves that wait for it.                                                 *)
(***************************************************************************)
NoCallWaitsForItself ==
  \A t \in Applier : task[t].pc = "calling" /\ task[t].left # {} =>
    \A i \in DOMAIN task[t].chain :
      task[t].scope # NoSave => task[t].chain[i] # task[t].scope

(***************************************************************************)
(* The outbox implements the queue of saves.  A row is open while it is    *)
(* pending, due its calls, or claimed; claims, leases, tasks, attempts and *)
(* the order a drain goes by are steps the queue does not see.             *)
(***************************************************************************)
StageOf(s) == IF Status(s) \in {"pending", "calls", "running"} THEN "open" ELSE Status(s)
EntryOf(r) == IF run[r].pc = "idle" THEN "out" ELSE run[r].pc

Queue == INSTANCE SaveQueue WITH
  stage <- [s \in Saves |-> StageOf(s)],
  recorded <- {s \in Saves : row[s].recorded},
  progress <- [s \in Saves |-> row[s].done],
  made <- starts,
  grace <- leave,
  after <- before,
  entry <- [r \in RootRun |-> EntryOf(r)],
  found <- [r \in RootRun |-> run[r].seen]

ImplementsQueue == Queue!QueueSpec
=============================================================================
