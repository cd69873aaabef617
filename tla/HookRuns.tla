------------------------------ MODULE HookRuns ------------------------------
(***************************************************************************)
(* The runs of event hooks (hooks/runs/attempt.py over the scripts of      *)
(* hooks/managers/redis_hook_runs.py): a durable job, claimed by a process *)
(* under a lease, whose attempts visit the parked interactions: they       *)
(* cancel, claim an entry (a resume or a take) or start the hook's tool,   *)
(* and note on the job what they are about to do and what they did.        *)
(***************************************************************************)
EXTENDS Integers, FiniteSets

CONSTANTS
  HookJob, Process,
  Entry,           \* parked interactions and waiting outcomes a hook may claim
  CrashResume,     \* jobs whose tool declares crash-resume
  RunMaxAttempts,  \* run_max_attempts
  MaxHookFaults    \* bound: lapses under a live attempt, crashes, failed writes
                   \* and calls, interruptions and operator retries

ASSUME CrashResumeAssumption == CrashResume \subseteq HookJob
ASSUME HookBoundsAssumption == RunMaxAttempts \in Nat \ {0} /\ MaxHookFaults \in Nat
ASSUME EntryAssumption == Entry \cap {"none", "cancel", "start"} = {}

Nobody == "nobody"
ASSUME ProcessAssumption == IsFiniteSet(Process) /\ Process \cap {Nobody, "gone"} = {}

VARIABLES
  job,       \* [HookJob -> status, attempts, by, lapsed, acted, intent]
  attempt,   \* [Process -> [HookJob -> the live attempt, or Ended]]
  open,      \* the entries still open in the interactions store
  started,   \* history: [HookJob -> times its tool was started]
  actors,    \* history: [HookJob -> attempts that claimed or started something]
  recent,    \* history: [HookJob -> such attempts since the last operator retry]
  retried,   \* history: [HookJob -> times an operator retried it]
  stale,     \* history: jobs taken from an attempt that was still live
  hookFaults

hookVars == <<job, attempt, open, started, actors, recent, retried, stale, hookFaults>>

Ended == [pc |-> "ended", acted |-> "none", intent |-> "none", number |-> 0,
          origin |-> "pending", plan |-> "none", error |-> "none"]
Attempt(origin, j, number) ==
  [Ended EXCEPT !.pc = "begin", !.acted = job[j].acted, !.intent = job[j].intent,
                !.number = number, !.origin = origin]

HookInit ==
  /\ job = [j \in HookJob |-> [status |-> "absent", attempts |-> 0, by |-> Nobody,
                               lapsed |-> FALSE, acted |-> "none", intent |-> "none"]]
  /\ attempt = [p \in Process |-> [j \in HookJob |-> Ended]]
  /\ open = Entry
  /\ started = [j \in HookJob |-> 0]
  /\ actors = [j \in HookJob |-> 0]
  /\ recent = [j \in HookJob |-> 0]
  /\ retried = [j \in HookJob |-> 0]
  /\ stale = {}
  /\ hookFaults = 0

Live(p, j) == attempt[p][j].pc # "ended"
Become(p, j, a) == attempt' = [attempt EXCEPT ![p][j] = a]
GoTo(p, j, pc) == Become(p, j, [attempt[p][j] EXCEPT !.pc = pc])
End(p, j) == Become(p, j, Ended)
Fails(p, j, error) == Become(p, j, [attempt[p][j] EXCEPT !.pc = "failure", !.error = error])
HookFault == hookFaults < MaxHookFaults /\ hookFaults' = hookFaults + 1
Quiet == UNCHANGED <<open, started, actors, recent, retried, stale>>

(***************************************************************************)
(* The fence of every script: running, under the claimer id of the caller, *)
(* which is that of its process.                                           *)
(***************************************************************************)
Fenced(p, j) == job[j].status = "running" /\ job[j].by = p

-----------------------------------------------------------------------------
(* Accepting, claiming, and the doors of an operator.                      *)

(***************************************************************************)
(* on_event: kept claimed by this process with its first attempt spawned,  *)
(* or unclaimed and due, off the serving loop and while the process stops. *)
(***************************************************************************)
Accept(p, j) ==
  /\ job[j].status = "absent"
  /\ \/ /\ job' = [job EXCEPT ![j].status = "running", ![j].by = p, ![j].attempts = 1]
        /\ Become(p, j, Attempt("pending", j, 1))
     \/ job' = [job EXCEPT ![j].status = "pending"] /\ UNCHANGED attempt
  /\ Quiet /\ UNCHANGED hookFaults

(***************************************************************************)
(* CLAIM_DUE_LUA: a due job, or a running one whose lease lapsed, without  *)
(* the jobs this process has a live attempt of.                            *)
(***************************************************************************)
ClaimDue(p, j) ==
  /\ ~Live(p, j)
  /\ job[j].status = "pending" \/ (job[j].status = "running" /\ job[j].lapsed)
  /\ job' = [job EXCEPT ![j].status = "running", ![j].by = p, ![j].lapsed = FALSE,
                        ![j].attempts = @ + 1]
  /\ Become(p, j, Attempt(job[j].status, j, job[j].attempts + 1))
  /\ stale' = IF \E q \in Process : Live(q, j) THEN stale \cup {j} ELSE stale
  /\ UNCHANGED <<open, started, actors, recent, retried, hookFaults>>

(***************************************************************************)
(* RETRY_LUA: refused once a resume or a take is recorded; a recorded start *)
(* stays, to be replayed alone.  Claimed by this process at once, with an  *)
(* attempt unless one is live, or left due.                                *)
(***************************************************************************)
RetryRun(p, j) ==
  /\ job[j].status = "failed"
  /\ job[j].acted # "claim"
  /\ HookFault
  /\ LET kept == IF job[j].acted = "start" THEN "start" ELSE "none"
     IN \/ /\ job' = [job EXCEPT ![j] = [status |-> "running", attempts |-> 1, by |-> p,
                        lapsed |-> FALSE, acted |-> kept, intent |-> "none"]]
           /\ attempt' = [attempt EXCEPT ![p][j] =
                IF Live(p, j) THEN @
                ELSE [Ended EXCEPT !.pc = "begin", !.acted = kept, !.number = 1]]
        \/ /\ job' = [job EXCEPT ![j] = [status |-> "pending", attempts |-> 0, by |-> Nobody,
                        lapsed |-> FALSE, acted |-> kept, intent |-> "none"]]
           /\ UNCHANGED attempt
  /\ retried' = [retried EXCEPT ![j] = @ + 1]
  /\ recent' = [recent EXCEPT ![j] = 0]
  /\ stale' = IF \E q \in Process : Live(q, j) THEN stale \cup {j} ELSE stale
  /\ UNCHANGED <<open, started, actors>>

DiscardRun(j) ==
  /\ job[j].status = "failed"
  /\ job' = [job EXCEPT ![j].status = "discarded"]
  /\ UNCHANGED attempt /\ Quiet /\ UNCHANGED hookFaults

(***************************************************************************)
(* An answer, an expiry or another caller resolves an entry.               *)
(***************************************************************************)
OtherDoor(e) ==
  /\ e \in open
  /\ open' = open \ {e}
  /\ UNCHANGED <<job, attempt, started, actors, recent, retried, stale, hookFaults>>

-----------------------------------------------------------------------------
(* An attempt begins: an intent it finds is settled first, and a job whose *)
(* lease lapsed is disposed of by what its hook had done.                  *)

Disposed(p, j, used) ==
  LET a == attempt[p][j]
  IN IF /\ a.acted = "none" \/ (a.acted = "start" /\ j \in CrashResume)
        /\ used <= RunMaxAttempts
     THEN "goes on" ELSE "fail"

Begin(p, j) ==
  LET a == attempt[p][j]
  IN /\ a.pc = "begin"
     /\ GoTo(p, j, IF a.intent # "none" THEN "settle"
                   ELSE IF a.origin = "running" /\ Disposed(p, j, a.number) = "fail"
                   THEN "fail" ELSE "hook")
     /\ Quiet /\ UNCHANGED <<job, hookFaults>>

(***************************************************************************)
(* _interrupt: a shutdown's cancel or a drain frees the job, by the same   *)
(* rule, for an attempt more.                                              *)
(***************************************************************************)
Dispose(p, j) ==
  /\ attempt[p][j].pc = "dispose"
  /\ GoTo(p, j, IF Disposed(p, j, attempt[p][j].number + 1) = "fail" THEN "fail" ELSE "release")
  /\ Quiet /\ UNCHANGED <<job, hookFaults>>

(***************************************************************************)
(* _settle: with the entry open the intent is cleared and the attempt goes *)
(* on where it was; with the entry gone nobody can tell who resolved it    *)
(* and the job is held as failed, the intent kept.                         *)
(***************************************************************************)
Settle(p, j) ==
  LET a == attempt[p][j]
  IN /\ a.pc = "settle"
     /\ IF a.intent \notin open THEN GoTo(p, j, "fail") /\ UNCHANGED job
        ELSE IF ~Fenced(p, j) THEN End(p, j) /\ UNCHANGED job
        ELSE /\ job' = [job EXCEPT ![j].intent = "none"]
             /\ Become(p, j, [a EXCEPT !.intent = "none",
                  !.pc = CASE a.error = "none" -> "begin"
                           [] a.error = "interrupt" -> "dispose"
                           [] OTHER -> "classify"])
     /\ Quiet /\ UNCHANGED hookFaults

SettleRaises(p, j) ==
  /\ attempt[p][j].pc = "settle"
  /\ HookFault
  /\ Become(p, j, [attempt[p][j] EXCEPT !.pc = "classify", !.error = "transient"])
  /\ Quiet /\ UNCHANGED job

-----------------------------------------------------------------------------
(* The hook: _check_condition, the door contract, and the visit.           *)

(***************************************************************************)
(* A condition that is false finishes the run.  Otherwise the contract     *)
(* cancels something first or not, then claims an open entry, starts the   *)
(* tool, or does nothing.  A recorded start is replayed alone.             *)
(***************************************************************************)
Plan(p, j, plan) == Become(p, j, [attempt[p][j] EXCEPT !.pc = "mark", !.plan = plan])

Evaluate(p, j) ==
  /\ attempt[p][j].pc = "hook"
  /\ IF attempt[p][j].acted = "start" THEN Plan(p, j, "start")
     ELSE \/ GoTo(p, j, "finish")
          \/ \E plan \in {"cancel", "start"} \cup open : Plan(p, j, plan)
  /\ Quiet /\ UNCHANGED <<job, hookFaults>>

Marked(j, plan) ==
  [job EXCEPT ![j].intent = IF plan \in Entry THEN plan ELSE @,
              ![j].acted = IF plan \in Entry THEN @ ELSE plan]

\* Mutant of Mark: the note of an action is not a fenced write.
MarkUnfenced(p, j) ==
  LET a == attempt[p][j]
  IN /\ a.pc = "mark"
     /\ job' = IF Fenced(p, j) THEN Marked(j, a.plan) ELSE job
     /\ Become(p, j, [a EXCEPT !.pc = "act",
                               !.intent = IF a.plan \in Entry THEN a.plan ELSE @,
                               !.acted = IF a.plan \in Entry THEN @ ELSE a.plan])
     /\ Quiet /\ UNCHANGED hookFaults

(***************************************************************************)
(* The notice before an action: written on the job first, then held in     *)
(* memory.  A lost lease stops the attempt before the action.              *)
(***************************************************************************)
Mark(p, j) ==
  LET a == attempt[p][j]
  IN /\ a.pc = "mark"
     /\ IF Fenced(p, j)
        THEN /\ job' = Marked(j, a.plan)
             /\ Become(p, j, [a EXCEPT !.pc = "act",
                                       !.intent = IF a.plan \in Entry THEN a.plan ELSE @,
                                       !.acted = IF a.plan \in Entry THEN @ ELSE a.plan])
        ELSE End(p, j) /\ UNCHANGED job
     /\ Quiet /\ UNCHANGED hookFaults

(***************************************************************************)
(* The write of the notice raises, stored or not.                          *)
(***************************************************************************)
MarkRaises(p, j) ==
  /\ attempt[p][j].pc = "mark"
  /\ HookFault
  /\ \/ UNCHANGED job
     \/ Fenced(p, j) /\ job' = Marked(j, attempt[p][j].plan)
  /\ Fails(p, j, "transient")
  /\ Quiet

(***************************************************************************)
(* The first thing an attempt claims or starts counts as its act.          *)
(***************************************************************************)
CountAct(j, first) ==
  /\ actors' = [actors EXCEPT ![j] = IF first THEN @ + 1 ELSE @]
  /\ recent' = [recent EXCEPT ![j] = IF first THEN @ + 1 ELSE @]

CancelAll(p, j) ==
  /\ attempt[p][j].pc = "act"
  /\ attempt[p][j].plan = "cancel"
  /\ \/ GoTo(p, j, "finish")
     \/ \E plan \in {"start"} \cup open : Plan(p, j, plan)
  /\ Quiet /\ UNCHANGED <<job, hookFaults>>

RunStart(p, j) ==
  /\ attempt[p][j].pc = "act"
  /\ attempt[p][j].plan = "start"
  /\ started' = [started EXCEPT ![j] = @ + 1]
  /\ CountAct(j, TRUE)
  /\ GoTo(p, j, "tool")
  /\ UNCHANGED <<job, open, retried, stale, hookFaults>>

(***************************************************************************)
(* record_answer or claim_outcome: it wins the entry or finds it gone.     *)
(***************************************************************************)
ClaimEntry(p, j) ==
  LET a == attempt[p][j]
  IN /\ a.pc = "act"
     /\ a.plan \in Entry
     /\ IF a.plan \in open
        THEN /\ open' = open \ {a.plan}
             /\ CountAct(j, a.acted # "claim")
             /\ GoTo(p, j, "commit")
        ELSE Fails(p, j, "gone") /\ UNCHANGED <<open, actors, recent>>
     /\ UNCHANGED <<job, started, retried, stale, hookFaults>>

(***************************************************************************)
(* The claim's call raises although the claim was made.                    *)
(***************************************************************************)
ClaimRaises(p, j) ==
  LET a == attempt[p][j]
  IN /\ a.pc = "act"
     /\ a.plan \in open
     /\ HookFault
     /\ open' = open \ {a.plan}
     /\ CountAct(j, a.acted # "claim")
     /\ Fails(p, j, "transient")
     /\ UNCHANGED <<job, started, retried, stale>>

(***************************************************************************)
(* The notice after a claim: held in memory first, then written.           *)
(***************************************************************************)
Commit(p, j) ==
  LET a == [attempt[p][j] EXCEPT !.acted = "claim", !.intent = "none"]
  IN /\ a.pc = "commit"
     /\ IF Fenced(p, j)
        THEN /\ job' = [job EXCEPT ![j].acted = "claim", ![j].intent = "none"]
             /\ Become(p, j, [a EXCEPT !.pc = "tool"])
        ELSE End(p, j) /\ UNCHANGED job
     /\ Quiet /\ UNCHANGED hookFaults

CommitRaises(p, j) ==
  LET a == [attempt[p][j] EXCEPT !.acted = "claim", !.intent = "none"]
  IN /\ a.pc = "commit"
     /\ HookFault
     /\ Become(p, j, [a EXCEPT !.pc = "failure", !.error = "transient"])
     /\ Quiet /\ UNCHANGED job

(***************************************************************************)
(* The started tool or the resumed run returns; a visit goes on to its     *)
(* next resume or take.                                                    *)
(***************************************************************************)
ToolReturns(p, j) ==
  LET a == attempt[p][j]
  IN /\ a.pc = "tool"
     /\ \/ GoTo(p, j, "finish")
        \/ a.plan \in Entry /\ \E e \in open : Plan(p, j, e)
     /\ Quiet /\ UNCHANGED <<job, hookFaults>>

HookRaises(p, j) ==
  /\ attempt[p][j].pc \in {"hook", "tool"}
  /\ \E error \in {"transient", "terminal"} : Fails(p, j, error)
  /\ Quiet /\ UNCHANGED <<job, hookFaults>>

-----------------------------------------------------------------------------
(* _on_failure, _classify and the verdicts.                                *)

(***************************************************************************)
(* A definite no of the claim clears its intent; any other failure with an *)
(* intent settles it first.                                                *)
(***************************************************************************)
OnFailure(p, j) ==
  LET a == attempt[p][j]
  IN /\ a.pc = "failure"
     /\ IF a.intent = "none" THEN GoTo(p, j, "classify") /\ UNCHANGED job
        ELSE IF a.error # "gone" THEN GoTo(p, j, "settle") /\ UNCHANGED job
        ELSE IF ~Fenced(p, j) THEN End(p, j) /\ UNCHANGED job
        ELSE /\ Become(p, j, [a EXCEPT !.pc = "classify", !.intent = "none"])
             /\ job' = [job EXCEPT ![j].intent = "none"]
     /\ Quiet /\ UNCHANGED hookFaults

\* Mutant of Classify: a hook that acted is retried as well.
ClassifyByKind(p, j) ==
  LET a == attempt[p][j]
  IN /\ a.pc = "classify"
     /\ GoTo(p, j, IF a.error # "transient" \/ a.number >= RunMaxAttempts
                   THEN "fail" ELSE "reschedule")
     /\ Quiet /\ UNCHANGED <<job, hookFaults>>

Classify(p, j) ==
  LET a == attempt[p][j]
  IN /\ a.pc = "classify"
     /\ GoTo(p, j, IF a.acted # "none" \/ a.error # "transient" \/ a.number >= RunMaxAttempts
                   THEN "fail" ELSE "reschedule")
     /\ Quiet /\ UNCHANGED <<job, hookFaults>>

Verdict == {"finish", "fail", "reschedule", "release"}

\* Mutant of Record: a failure is held without what the attempt did.
RecordBlank(p, j) ==
  LET a == attempt[p][j]
      free == [job[j] EXCEPT !.by = Nobody, !.lapsed = FALSE]
  IN /\ a.pc \in Verdict
     /\ job' = IF ~Fenced(p, j) THEN job
               ELSE [job EXCEPT ![j] =
                 CASE a.pc = "finish" -> [free EXCEPT !.status = "done"]
                   [] a.pc = "fail" -> [free EXCEPT !.status = "failed", !.acted = a.acted,
                                                    !.intent = "none"]
                   [] OTHER -> [free EXCEPT !.status = "pending"]]
     /\ End(p, j)
     /\ Quiet /\ UNCHANGED hookFaults

(***************************************************************************)
(* FINISH_LUA, FAIL_LUA with the attempt's own account of what it did,     *)
(* RESCHEDULE_LUA and RELEASE_LUA: nothing is recorded without the lease.  *)
(***************************************************************************)
Record(p, j) ==
  LET a == attempt[p][j]
      free == [job[j] EXCEPT !.by = Nobody, !.lapsed = FALSE]
  IN /\ a.pc \in Verdict
     /\ job' = IF ~Fenced(p, j) THEN job
               ELSE [job EXCEPT ![j] =
                 CASE a.pc = "finish" -> [free EXCEPT !.status = "done"]
                   [] a.pc = "fail" -> [free EXCEPT !.status = "failed", !.acted = a.acted,
                                                    !.intent = a.intent]
                   [] OTHER -> [free EXCEPT !.status = "pending"]]
     /\ End(p, j)
     /\ Quiet /\ UNCHANGED hookFaults

(***************************************************************************)
(* The verdict cannot be written: the lease reclaims the job.              *)
(***************************************************************************)
RecordRaises(p, j) ==
  /\ attempt[p][j].pc \in Verdict
  /\ HookFault
  /\ End(p, j)
  /\ Quiet /\ UNCHANGED job

-----------------------------------------------------------------------------
(* Shutdowns, drains, crashes and leases.                                  *)

Interrupt(p, j) ==
  /\ attempt[p][j].pc \in {"begin", "hook", "mark", "act", "commit", "tool"}
  /\ HookFault
  /\ Become(p, j, [attempt[p][j] EXCEPT !.error = "interrupt",
                     !.pc = IF attempt[p][j].intent # "none" THEN "settle" ELSE "dispose"])
  /\ Quiet /\ UNCHANGED job

(***************************************************************************)
(* A process that starts again has a claimer id of its own.                *)
(***************************************************************************)
ProcessDies(p) ==
  /\ \E j \in HookJob : Live(p, j)
  /\ HookFault
  /\ attempt' = [attempt EXCEPT ![p] = [j \in HookJob |-> Ended]]
  /\ job' = [j \in HookJob |-> IF job[j].by = p THEN [job[j] EXCEPT !.by = "gone"] ELSE job[j]]
  /\ Quiet

HookLeaseLapses(j) ==
  /\ job[j].status = "running"
  /\ ~job[j].lapsed
  /\ job' = [job EXCEPT ![j].lapsed = TRUE]
  /\ IF \E p \in Process : Fenced(p, j) /\ Live(p, j) THEN HookFault ELSE UNCHANGED hookFaults
  /\ UNCHANGED attempt /\ Quiet

Renew(p, j) ==
  /\ Live(p, j)
  /\ Fenced(p, j)
  /\ job[j].lapsed
  /\ job' = [job EXCEPT ![j].lapsed = FALSE]
  /\ UNCHANGED attempt /\ Quiet /\ UNCHANGED hookFaults

AttemptStep(p, j) ==
  \/ Begin(p, j) \/ Dispose(p, j) \/ Settle(p, j) \/ SettleRaises(p, j)
  \/ Evaluate(p, j) \/ Mark(p, j) \/ MarkRaises(p, j) \/ CancelAll(p, j) \/ RunStart(p, j)
  \/ ClaimEntry(p, j) \/ ClaimRaises(p, j) \/ Commit(p, j) \/ CommitRaises(p, j)
  \/ ToolReturns(p, j) \/ HookRaises(p, j) \/ OnFailure(p, j) \/ Classify(p, j)
  \/ Record(p, j) \/ RecordRaises(p, j) \/ Interrupt(p, j)

HookNext ==
  \/ \E p \in Process, j \in HookJob :
       \/ Accept(p, j) \/ ClaimDue(p, j) \/ RetryRun(p, j)
       \/ AttemptStep(p, j) \/ Renew(p, j)
  \/ \E j \in HookJob : DiscardRun(j) \/ HookLeaseLapses(j)
  \/ \E e \in Entry : OtherDoor(e)
  \/ \E p \in Process : ProcessDies(p)

HookSpec == HookInit /\ [][HookNext]_hookVars

-----------------------------------------------------------------------------
(* Properties.                                                             *)

Acts == {"none", "cancel", "claim", "start"}
Jobs == [status : {"absent", "pending", "running", "failed", "done", "discarded"},
         attempts : Nat, by : Process \cup {Nobody, "gone"}, lapsed : BOOLEAN,
         acted : Acts, intent : Entry \cup {"none"}]
Attempts ==
  [pc : Verdict \cup {"ended", "begin", "settle", "dispose", "hook", "mark", "act", "commit",
                      "tool", "failure", "classify"},
   acted : Acts, intent : Entry \cup {"none"}, number : Nat, origin : {"pending", "running"},
   plan : Entry \cup {"none", "cancel", "start"},
   error : {"none", "transient", "terminal", "gone", "interrupt"}]

HookTypeOK ==
  /\ job \in [HookJob -> Jobs]
  /\ attempt \in [Process -> [HookJob -> Attempts]]
  /\ open \subseteq Entry /\ stale \subseteq HookJob
  /\ started \in [HookJob -> Nat] /\ actors \in [HookJob -> Nat]
  /\ recent \in [HookJob -> Nat] /\ retried \in [HookJob -> Nat]

(***************************************************************************)
(* A tool that does not declare crash-resume is started once, and once     *)
(* more for each retry of an operator, whatever crashes, lapsed leases and *)
(* lost writes there are and whoever still runs a stale attempt.           *)
(***************************************************************************)
StartsOnce ==
  \A j \in HookJob \ CrashResume : started[j] <= 1 + retried[j]

(***************************************************************************)
(* While no live attempt lost its lease, only one attempt of a job acts on *)
(* the world between two retries of an operator: a claim that a crash left *)
(* unconfirmed is never followed by another act.                           *)
(***************************************************************************)
OneAttemptActs ==
  \A j \in HookJob \ (CrashResume \cup stale) : actors[j] <= 1 + retried[j]

(***************************************************************************)
(* A failed job that says its hook did nothing, which an operator may run  *)
(* afresh, did nothing: no entry claimed, no tool started.                 *)
(***************************************************************************)
HeldJobsTellTheTruth ==
  \A j \in HookJob \ stale :
    job[j].status = "failed" /\ job[j].acted = "none" /\ job[j].intent = "none" =>
      recent[j] = 0
=============================================================================
