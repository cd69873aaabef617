--------------------------- MODULE HookRunsProofs ---------------------------
(***************************************************************************)
(* A hook's tool starts once, one attempt of a job acts, and a held job    *)
(* says what its hook did: proofs about HookRuns.                          *)
(***************************************************************************)
EXTENDS HookRuns, FiniteSetTheorems, TLAPS

(***************************************************************************)
(* The starts of a tool.                                                   *)
(***************************************************************************)
Starting(j) == {p \in Process : attempt[p][j].pc = "act" /\ attempt[p][j].plan = "start"}
Spent(j) == started[j] + Cardinality(Starting(j)) > retried[j]

CannotStart(a) ==
  a.pc # "ended" =>
    /\ a.acted = "start"
    /\ a.pc \notin {"hook", "mark", "commit", "reschedule", "release"}
    /\ a.pc \in {"act", "tool"} => a.plan = "start"
    /\ a.pc = "begin" \/ (a.pc = "settle" /\ a.error = "none") => a.origin = "running"
    /\ a.pc = "failure" => a.error # "none"

(***************************************************************************)
(* A job of which no further start is due is not free for a new attempt,   *)
(* carries the note of its start, and the attempt under its lease starts   *)
(* nothing any more.                                                       *)
(***************************************************************************)
Closed(j) ==
  /\ job[j].status \notin {"absent", "pending"}
  /\ job[j].status = "running" => job[j].acted = "start"
  /\ \A p \in Process : Fenced(p, j) => CannotStart(attempt[p][j])

StartInv ==
  \A j \in HookJob \ CrashResume :
    /\ started[j] + Cardinality(Starting(j)) <= 1 + retried[j]
    /\ Spent(j) => Closed(j)

(***************************************************************************)
(* The acts of an attempt that is alone, with the record k of its job and  *)
(* the entries R already resolved: what it notes on the job before it      *)
(* acts, and, once an attempt since the last retry acted, what the job     *)
(* tells and where the attempt can still be.                               *)
(***************************************************************************)
Act == {"claim", "start"}
Resolved == Entry \ open
Repeats(j, r) == j \in CrashResume /\ r.acted = "start"

Marks(k, a) ==
  /\ \/ a.pc \in {"begin", "settle", "dispose", "hook", "mark", "act", "commit", "tool",
                  "release"}
     \/ a.intent # "none"
     => k.acted = a.acted
  /\ a.pc \in {"hook", "mark", "tool", "dispose", "release"} => a.intent = "none"
  /\ a.pc \in {"mark", "act", "commit", "tool"} /\ a.acted = "start" => a.plan = "start"
  /\ a.pc = "act" /\ a.plan \notin Entry => a.acted = a.plan /\ a.intent = "none"
  /\ a.pc = "act" /\ a.plan \in Entry => a.intent = a.plan /\ k.intent = a.plan
  /\ a.pc = "commit" => a.plan \in Entry

Noted(j, k, R) ==
  /\ k.status \in {"pending", "running"} => k.acted \in Act \/ k.intent \in R
  /\ k.status = "pending" => k.intent \in R \/ Repeats(j, k)
  /\ k.status = "failed" => k.acted # "none" \/ k.intent # "none"
  /\ k.status # "absent"

Knows(j, k, a, R) ==
  /\ a.acted \in Act \/ a.intent \in R
  /\ k.acted \in Act => a.acted \in Act
  /\ a.pc \in {"hook", "release"} => Repeats(j, a)
  /\ a.pc \in {"mark", "act"} =>
       \/ a.acted = "claim" /\ a.plan \in Entry
       \/ Repeats(j, a) /\ a.plan = "start"
  /\ a.pc = "tool" => a.acted = "claim" \/ (a.acted = "start" /\ a.plan = "start")
  /\ (a.pc = "begin" \/ (a.pc = "settle" /\ a.error = "none")) /\ a.origin = "pending" =>
       a.intent \in R \/ Repeats(j, a)
  /\ a.pc = "failure" /\ a.error = "gone" => a.acted \in Act
  /\ a.pc = "failure" => a.error # "none"
  /\ a.pc = "dispose" => a.acted \in Act
  /\ a.pc = "reschedule" => a.acted \notin Act

ActsAlone(j) ==
  /\ \A p \in Process : Live(p, j) => Fenced(p, j) /\ Marks(job[j], attempt[p][j])
  /\ j \notin CrashResume => actors[j] <= retried[j] + recent[j] /\ recent[j] <= 1
  /\ recent[j] # 0 =>
       /\ Noted(j, job[j], Resolved)
       /\ \A p \in Process : Live(p, j) => Knows(j, job[j], attempt[p][j], Resolved)

ActInv == \A j \in HookJob \ stale : ActsAlone(j)

-----------------------------------------------------------------------------
(***************************************************************************)
(* A step of an attempt moves that attempt alone, writes its job alone and *)
(* only under the lease, and opens no entry.                               *)
(***************************************************************************)
Shape(p, j) ==
  /\ attempt'[p][j] \in Attempts
  /\ attempt' = [attempt EXCEPT ![p][j] = attempt'[p][j]]
  /\ job'[j] \in Jobs
  /\ job' = [job EXCEPT ![j] = job'[j]]
  /\ job'[j] # job[j] => Fenced(p, j)
  /\ job'[j].by \in {job[j].by, Nobody}
  /\ open' \subseteq open /\ retried' = retried /\ stale' = stale
  /\ \A i \in HookJob \ {j} :
       started'[i] = started[i] /\ actors'[i] = actors[i] /\ recent'[i] = recent[i]
  /\ started' \in [HookJob -> Nat] /\ actors' \in [HookJob -> Nat] /\ recent' \in [HookJob -> Nat]

LEMMA AttemptShape ==
  ASSUME HookTypeOK, NEW p \in Process, NEW j \in HookJob, AttemptStep(p, j)
  PROVE  Shape(p, j)
<1> DEFINE a == attempt[p][j]
<1>1. a \in Attempts /\ attempt \in [Process -> [HookJob -> Attempts]]
  BY DEF HookTypeOK
<1>2. job[j] \in Jobs /\ job \in [HookJob -> Jobs] /\ open \subseteq Entry
  BY DEF HookTypeOK
<1>3. /\ started \in [HookJob -> Nat] /\ actors \in [HookJob -> Nat]
      /\ recent \in [HookJob -> Nat]
  BY DEF HookTypeOK
<1>4. ASSUME NEW b \in Attempts, NEW k \in Jobs, Become(p, j, b), job' = [job EXCEPT ![j] = k],
             k # job[j] => Fenced(p, j), k.by \in {job[j].by, Nobody},
             open' \subseteq open, UNCHANGED <<started, actors, recent, retried, stale>>
      PROVE  Shape(p, j)
  BY <1>1, <1>2, <1>3, <1>4 DEF Shape, Become
<1>5. job = [job EXCEPT ![j] = job[j]]
  BY <1>2
<1>6. ASSUME NEW b \in Attempts, Become(p, j, b), job' = job, open' \subseteq open,
             UNCHANGED <<started, actors, recent, retried, stale>>
      PROVE  Shape(p, j)
  BY <1>2, <1>4, <1>5, <1>6 DEF Jobs
<1>7. Ended \in Attempts
  BY DEF Ended, Attempts, Acts
<1>8. \A pc : pc \in Verdict \cup {"begin", "settle", "dispose", "hook", "classify", "tool",
                                  "commit", "mark"}
         => [a EXCEPT !.pc = pc] \in Attempts
  BY <1>1 DEF Attempts
<1>9. \A error \in {"transient", "terminal", "gone"} :
         [a EXCEPT !.pc = "failure", !.error = error] \in Attempts
  BY <1>1 DEF Attempts
<1>10. \A plan \in {"cancel", "start"} \cup open :
         [a EXCEPT !.pc = "mark", !.plan = plan] \in Attempts
  BY <1>1, <1>2 DEF Attempts
<1>11. ASSUME NEW pc \in Verdict \cup {"begin", "settle", "dispose", "hook", "classify", "tool",
                                      "commit", "mark"},
              GoTo(p, j, pc), job' = job, open' \subseteq open,
              UNCHANGED <<started, actors, recent, retried, stale>>
       PROVE  Shape(p, j)
  BY <1>6, <1>8, <1>11 DEF GoTo
<1>12. CASE Begin(p, j)
  BY <1>11, <1>12 DEF Begin, Quiet, Verdict
<1>13. CASE Dispose(p, j)
  BY <1>11, <1>13 DEF Dispose, Quiet, Verdict
<1>14. CASE Settle(p, j)
  <2>1. CASE a.intent \notin open
    BY <1>11, <1>14, <2>1 DEF Settle, Quiet, Verdict
  <2>2. CASE a.intent \in open /\ ~Fenced(p, j)
    BY <1>6, <1>7, <1>14, <2>2 DEF Settle, Quiet, End
  <2>3. CASE a.intent \in open /\ Fenced(p, j)
    <3> DEFINE pc == CASE a.error = "none" -> "begin"
                       [] a.error = "interrupt" -> "dispose"
                       [] OTHER -> "classify"
               b == [a EXCEPT !.intent = "none", !.pc = pc]
               k == [job[j] EXCEPT !.intent = "none"]
    <3>1. pc \in {"begin", "dispose", "classify"}
      OBVIOUS
    <3>2. b \in Attempts
      <4> HIDE DEF pc
      <4> QED
        BY <1>1, <3>1 DEF Attempts
    <3>3. k \in Jobs /\ k.by = job[j].by
      BY <1>2 DEF Jobs
    <3>4. job' = [job EXCEPT ![j] = k] /\ Become(p, j, b)
      BY <1>14, <2>3 DEF Settle
    <3> HIDE DEF b, k
    <3> QED
      BY <1>4, <1>14, <2>3, <3>2, <3>3, <3>4 DEF Settle, Quiet
  <2> QED
    BY <2>1, <2>2, <2>3
<1>15. CASE SettleRaises(p, j)
  <2>1. [a EXCEPT !.pc = "classify", !.error = "transient"] \in Attempts
    BY <1>1 DEF Attempts
  <2> QED
    BY <1>6, <1>15, <2>1 DEF SettleRaises, Quiet
<1>16. CASE Evaluate(p, j)
  <2>1. job' = job /\ open' = open /\ UNCHANGED <<started, actors, recent, retried, stale>>
    BY <1>16 DEF Evaluate, Quiet
  <2>2. CASE GoTo(p, j, "finish")
    BY <1>11, <2>1, <2>2 DEF Verdict
  <2>3. ASSUME NEW plan \in {"cancel", "start"} \cup open, Plan(p, j, plan) PROVE Shape(p, j)
    BY <1>6, <1>10, <2>1, <2>3 DEF Plan
  <2> QED
    BY <1>16, <2>2, <2>3 DEF Evaluate
<1>17. /\ Marked(j, a.plan) = [job EXCEPT ![j] = Marked(j, a.plan)[j]]
      /\ Marked(j, a.plan)[j] \in Jobs /\ Marked(j, a.plan)[j].by = job[j].by
  BY <1>1, <1>2 DEF Marked, Jobs, Attempts, Acts
<1>18. CASE Mark(p, j)
  <2>1. CASE Fenced(p, j)
    <3> DEFINE b == [a EXCEPT !.pc = "act",
                              !.intent = IF a.plan \in Entry THEN a.plan ELSE @,
                              !.acted = IF a.plan \in Entry THEN @ ELSE a.plan]
    <3>1. b \in Attempts
      BY <1>1 DEF Attempts, Acts
    <3>2. job' = Marked(j, a.plan) /\ Become(p, j, b)
      BY <1>18, <2>1 DEF Mark
    <3> HIDE DEF b
    <3> QED
      BY <1>4, <1>17, <1>18, <2>1, <3>1, <3>2 DEF Mark, Quiet
  <2>2. CASE ~Fenced(p, j)
    BY <1>6, <1>7, <1>18, <2>2 DEF Mark, Quiet, End
  <2> QED
    BY <2>1, <2>2
<1>19. CASE MarkRaises(p, j)
  <2>1. \E b \in Attempts : Become(p, j, b)
    BY <1>9, <1>19 DEF MarkRaises, Fails
  <2>2. CASE job' = job
    BY <1>6, <1>19, <2>1, <2>2 DEF MarkRaises, Quiet
  <2>3. CASE Fenced(p, j) /\ job' = Marked(j, a.plan)
    BY <1>4, <1>17, <1>19, <2>1, <2>3 DEF MarkRaises, Quiet
  <2> QED
    BY <1>19, <2>2, <2>3 DEF MarkRaises
<1>20. CASE CancelAll(p, j)
  <2>1. job' = job /\ open' = open /\ UNCHANGED <<started, actors, recent, retried, stale>>
    BY <1>20 DEF CancelAll, Quiet
  <2>2. CASE GoTo(p, j, "finish")
    BY <1>11, <2>1, <2>2 DEF Verdict
  <2>3. ASSUME NEW plan \in {"cancel", "start"} \cup open, Plan(p, j, plan) PROVE Shape(p, j)
    BY <1>6, <1>10, <2>1, <2>3 DEF Plan
  <2> QED
    BY <1>20, <2>2, <2>3 DEF CancelAll
<1>21. ASSUME NEW b \in Attempts, Become(p, j, b), job' = job, open' \subseteq open,
              UNCHANGED <<retried, stale>>,
              started' = started \/ started' = [started EXCEPT ![j] = @ + 1],
              \E first \in BOOLEAN : CountAct(j, first)
       PROVE  Shape(p, j)
  <2>1. started' \in [HookJob -> Nat] /\ \A i \in HookJob \ {j} : started'[i] = started[i]
    BY <1>3, <1>21
  <2>2. /\ actors' \in [HookJob -> Nat] /\ recent' \in [HookJob -> Nat]
        /\ \A i \in HookJob \ {j} : actors'[i] = actors[i] /\ recent'[i] = recent[i]
    <3>1. PICK first \in BOOLEAN : CountAct(j, first)
      BY <1>21
    <3>2. CASE first
      BY <1>3, <3>1, <3>2 DEF CountAct
    <3>3. CASE ~first
      BY <1>3, <3>1, <3>3 DEF CountAct
    <3> QED
      BY <3>2, <3>3
  <2>3. attempt'[p][j] = b /\ attempt' = [attempt EXCEPT ![p][j] = b]
    BY <1>1, <1>21 DEF Become
  <2> QED
    BY <1>2, <1>5, <1>21, <2>1, <2>2, <2>3 DEF Shape, Jobs
<1>22. CASE RunStart(p, j)
  BY <1>8, <1>21, <1>22 DEF RunStart, GoTo
<1>23. CASE ClaimEntry(p, j)
  <2>1. CASE a.plan \in open
    BY <1>8, <1>21, <1>23, <2>1 DEF ClaimEntry, GoTo
  <2>2. CASE a.plan \notin open
    BY <1>6, <1>9, <1>23, <2>2 DEF ClaimEntry, Fails
  <2> QED
    BY <2>1, <2>2
<1>24. CASE ClaimRaises(p, j)
  BY <1>9, <1>21, <1>24 DEF ClaimRaises, Fails
<1>25. CASE Commit(p, j)
  <2> DEFINE b == [[a EXCEPT !.acted = "claim", !.intent = "none"] EXCEPT !.pc = "tool"]
             k == [job[j] EXCEPT !.acted = "claim", !.intent = "none"]
  <2>1. b \in Attempts
    <3> DEFINE c == [a EXCEPT !.acted = "claim", !.intent = "none"]
    <3>1. c \in Attempts
      BY <1>1 DEF Attempts, Acts
    <3> HIDE DEF c
    <3>2. [c EXCEPT !.pc = "tool"] \in Attempts
      BY <3>1 DEF Attempts
    <3> QED
      BY <3>2 DEF c
  <2>2. k \in Jobs /\ k.by = job[j].by
    BY <1>2 DEF Jobs, Acts
  <2>3. CASE Fenced(p, j)
    <3>1. job' = [job EXCEPT ![j] = k] /\ Become(p, j, b)
      BY <1>25, <2>3 DEF Commit
    <3> HIDE DEF b, k
    <3> QED
      BY <1>4, <1>25, <2>1, <2>2, <2>3, <3>1 DEF Commit, Quiet
  <2>4. CASE ~Fenced(p, j)
    BY <1>6, <1>7, <1>25, <2>4 DEF Commit, Quiet, End
  <2> QED
    BY <2>3, <2>4
<1>26. CASE CommitRaises(p, j)
  <2> DEFINE b == [[a EXCEPT !.acted = "claim", !.intent = "none"]
                     EXCEPT !.pc = "failure", !.error = "transient"]
  <2>1. b \in Attempts
    BY <1>1 DEF Attempts, Acts
  <2>2. Become(p, j, b)
    BY <1>26 DEF CommitRaises
  <2> HIDE DEF b
  <2> QED
    BY <1>6, <1>26, <2>1, <2>2 DEF CommitRaises, Quiet
<1>27. CASE ToolReturns(p, j)
  <2>1. job' = job /\ open' = open /\ UNCHANGED <<started, actors, recent, retried, stale>>
    BY <1>27 DEF ToolReturns, Quiet
  <2>2. CASE GoTo(p, j, "finish")
    BY <1>11, <2>1, <2>2 DEF Verdict
  <2>3. ASSUME NEW plan \in open, Plan(p, j, plan) PROVE Shape(p, j)
    BY <1>6, <1>10, <2>1, <2>3 DEF Plan
  <2> QED
    BY <1>27, <2>2, <2>3 DEF ToolReturns
<1>28. CASE HookRaises(p, j)
  BY <1>6, <1>9, <1>28 DEF HookRaises, Quiet, Fails
<1>29. CASE OnFailure(p, j)
  <2>1. CASE a.intent = "none" \/ a.error # "gone"
    BY <1>11, <1>29, <2>1 DEF OnFailure, Quiet
  <2>2. CASE a.intent # "none" /\ a.error = "gone" /\ ~Fenced(p, j)
    BY <1>6, <1>7, <1>29, <2>2 DEF OnFailure, Quiet, End
  <2>3. CASE a.intent # "none" /\ a.error = "gone" /\ Fenced(p, j)
    <3> DEFINE b == [a EXCEPT !.pc = "classify", !.intent = "none"]
               k == [job[j] EXCEPT !.intent = "none"]
    <3>1. b \in Attempts /\ k \in Jobs /\ k.by = job[j].by
      BY <1>1, <1>2 DEF Attempts, Jobs
    <3>2. job' = [job EXCEPT ![j] = k] /\ Become(p, j, b)
      BY <1>29, <2>3 DEF OnFailure
    <3> HIDE DEF b, k
    <3> QED
      BY <1>4, <1>29, <2>3, <3>1, <3>2 DEF OnFailure, Quiet
  <2> QED
    BY <2>1, <2>2, <2>3
<1>30. CASE Classify(p, j)
  BY <1>11, <1>30 DEF Classify, Quiet, Verdict
<1>31. CASE Record(p, j)
  <2>1. CASE ~Fenced(p, j)
    BY <1>6, <1>7, <1>31, <2>1 DEF Record, Quiet, End
  <2>2. CASE Fenced(p, j)
    <3> DEFINE free == [job[j] EXCEPT !.by = Nobody, !.lapsed = FALSE]
               k == CASE a.pc = "finish" -> [free EXCEPT !.status = "done"]
                      [] a.pc = "fail" -> [free EXCEPT !.status = "failed", !.acted = a.acted,
                                                       !.intent = a.intent]
                      [] OTHER -> [free EXCEPT !.status = "pending"]
    <3>1. k \in Jobs /\ k.by = Nobody
      BY <1>1, <1>2 DEF Attempts, Jobs, Acts
    <3>2. job' = [job EXCEPT ![j] = k] /\ Become(p, j, Ended)
      BY <1>31, <2>2 DEF Record, End
    <3> HIDE DEF k
    <3> QED
      BY <1>4, <1>7, <1>31, <2>2, <3>1, <3>2 DEF Record, Quiet
  <2> QED
    BY <2>1, <2>2
<1>32. CASE RecordRaises(p, j)
  BY <1>6, <1>7, <1>32 DEF RecordRaises, Quiet, End
<1>33. CASE Interrupt(p, j)
  <2>1. [a EXCEPT !.error = "interrupt", !.pc = IF a.intent # "none" THEN "settle" ELSE "dispose"]
          \in Attempts
    BY <1>1 DEF Attempts
  <2> QED
    BY <1>6, <1>33, <2>1 DEF Interrupt, Quiet
<1> QED
  BY <1>12, <1>13, <1>14, <1>15, <1>16, <1>18, <1>19, <1>20, <1>22, <1>23, <1>24, <1>25, <1>26,
     <1>27, <1>28, <1>29, <1>30, <1>31, <1>32, <1>33 DEF AttemptStep

LEMMA ShapeTypes ==
  ASSUME HookTypeOK, NEW p \in Process, NEW j \in HookJob, Shape(p, j)
  PROVE  HookTypeOK'
<1>1. attempt' \in [Process -> [HookJob -> Attempts]]
  BY DEF HookTypeOK, Shape
<1>2. job' \in [HookJob -> Jobs]
  BY DEF HookTypeOK, Shape
<1> QED
  BY <1>1, <1>2 DEF HookTypeOK, Shape

(***************************************************************************)
(* What the step leaves alone.                                             *)
(***************************************************************************)
LEMMA ShapeOthers ==
  ASSUME HookTypeOK, NEW p \in Process, NEW j \in HookJob, Shape(p, j)
  PROVE  /\ \A i \in HookJob \ {j} : job'[i] = job[i] /\ \A q \in Process :
              attempt'[q][i] = attempt[q][i]
         /\ \A q \in Process \ {p} : attempt'[q][j] = attempt[q][j]
         /\ \A q \in Process \ {p} : Fenced(q, j)' => Fenced(q, j) /\ job'[j] = job[j]
<1>1. \A i \in HookJob \ {j} : job'[i] = job[i] /\ \A q \in Process : attempt'[q][i] = attempt[q][i]
  BY DEF HookTypeOK, Shape
<1>2. \A q \in Process \ {p} : attempt'[q][j] = attempt[q][j]
  BY DEF HookTypeOK, Shape
<1>3. ASSUME NEW q \in Process \ {p}, Fenced(q, j)' PROVE Fenced(q, j) /\ job'[j] = job[j]
  BY <1>3, ProcessAssumption DEF Shape, Fenced
<1> QED
  BY <1>1, <1>2, <1>3

-----------------------------------------------------------------------------
(***************************************************************************)
(* The starts.                                                             *)
(***************************************************************************)
LEMMA StartingFinite ==
  ASSUME NEW j \in HookJob
  PROVE  /\ IsFiniteSet(Starting(j)) /\ Cardinality(Starting(j)) \in Nat
         /\ IsFiniteSet(Starting(j)') /\ Cardinality(Starting(j)') \in Nat
<1>1. Starting(j) \subseteq Process /\ Starting(j)' \subseteq Process
  BY DEF Starting
<1> QED
  BY <1>1, ProcessAssumption, FS_Subset, FS_CardinalityType

LEMMA OtherJobsStart ==
  ASSUME HookTypeOK, StartInv, NEW i \in HookJob \ CrashResume,
         job'[i] = job[i], \A q \in Process : attempt'[q][i] = attempt[q][i],
         started'[i] = started[i], retried'[i] = retried[i]
  PROVE  /\ started'[i] + Cardinality(Starting(i)') <= 1 + retried'[i]
         /\ Spent(i)' => Closed(i)'
<1>1. Starting(i)' = Starting(i)
  BY DEF Starting
<1>2. Spent(i)' = Spent(i)
  BY <1>1 DEF Spent
<1>3. Closed(i) => Closed(i)'
  BY DEF Closed, Fenced
<1> QED
  BY <1>1, <1>2, <1>3 DEF StartInv

(***************************************************************************)
(* A step that starts nothing and marks no start keeps the invariant if    *)
(* under the lease of a closed job it leaves the job closed.               *)
(***************************************************************************)
LEMMA NoStartKeeps ==
  ASSUME HookTypeOK, StartInv, NEW p \in Process, NEW j \in HookJob, Shape(p, j),
         started' = started,
         attempt'[p][j].pc = "act" => attempt'[p][j].plan # "start",
         /\ j \notin CrashResume
         /\ job[j].acted = "start" /\ Fenced(p, j) /\ CannotStart(attempt[p][j])
         => /\ job'[j].status \notin {"absent", "pending"}
            /\ job'[j].status = "running" => job'[j].acted = "start"
            /\ Fenced(p, j)' => CannotStart(attempt'[p][j])
  PROVE  StartInv'
<1>1. ASSUME NEW i \in HookJob \ CrashResume, i # j
      PROVE  /\ started'[i] + Cardinality(Starting(i)') <= 1 + retried'[i]
             /\ Spent(i)' => Closed(i)'
  BY <1>1, ShapeOthers, OtherJobsStart DEF Shape
<1>2. ASSUME j \notin CrashResume
      PROVE  /\ started'[j] + Cardinality(Starting(j)') <= 1 + retried'[j]
             /\ Spent(j)' => Closed(j)'
  <2>1. Starting(j)' \subseteq Starting(j)
    BY ShapeOthers DEF Starting
  <2>2. Cardinality(Starting(j)') <= Cardinality(Starting(j))
    BY <2>1, StartingFinite, FS_Subset
  <2>3. started[j] \in Nat /\ retried[j] \in Nat /\ started'[j] = started[j] /\ retried'[j] = retried[j]
    BY DEF HookTypeOK, Shape
  <2>4. started'[j] + Cardinality(Starting(j)') <= 1 + retried'[j]
    BY <1>2, <2>2, <2>3, StartingFinite DEF StartInv
  <2>5. Spent(j)' => Spent(j)
    BY <2>2, <2>3, StartingFinite DEF Spent
  <2>6. ASSUME Spent(j)' PROVE Closed(j)'
    <3>1. Closed(j)
      BY <1>2, <2>5, <2>6 DEF StartInv
    <3>2. CASE Fenced(p, j)
      <4>1. job[j].acted = "start" /\ CannotStart(attempt[p][j])
        BY <3>1, <3>2 DEF Closed, Fenced
      <4>2. ASSUME NEW q \in Process, q # p PROVE ~Fenced(q, j)'
        BY <3>2, <4>2, ProcessAssumption DEF Fenced, Shape
      <4> QED
        BY <1>2, <3>2, <4>1, <4>2 DEF Closed
    <3>3. CASE ~Fenced(p, j)
      <4>1. job'[j] = job[j]
        BY <3>3 DEF Shape
      <4> QED
        BY <3>1, <3>3, <4>1, ShapeOthers DEF Closed, Fenced
    <3> QED
      BY <3>2, <3>3
  <2> QED
    BY <2>4, <2>6
<1> QED
  BY <1>1, <1>2 DEF StartInv

LEMMA RunStartStarts ==
  ASSUME HookTypeOK, StartInv, NEW p \in Process, NEW j \in HookJob, Shape(p, j), RunStart(p, j)
  PROVE  StartInv'
<1>1. ASSUME NEW i \in HookJob \ CrashResume, i # j
      PROVE  /\ started'[i] + Cardinality(Starting(i)') <= 1 + retried'[i]
             /\ Spent(i)' => Closed(i)'
  BY <1>1, ShapeOthers, OtherJobsStart DEF Shape
<1>2. ASSUME j \notin CrashResume
      PROVE  /\ started'[j] + Cardinality(Starting(j)') <= 1 + retried'[j]
             /\ Spent(j)' => Closed(j)'
  <2>1. attempt'[p][j] = [attempt[p][j] EXCEPT !.pc = "tool"] /\ attempt[p][j] \in Attempts
    BY DEF RunStart, GoTo, Become, HookTypeOK
  <2>2. p \in Starting(j) /\ Starting(j)' = Starting(j) \ {p}
    BY <2>1, ShapeOthers DEF RunStart, Starting, Attempts
  <2>3. Cardinality(Starting(j)') = Cardinality(Starting(j)) - 1
    BY <2>2, StartingFinite, FS_RemoveElement
  <2>4. /\ started[j] \in Nat /\ retried[j] \in Nat
        /\ started'[j] = started[j] + 1 /\ retried'[j] = retried[j]
    BY DEF HookTypeOK, RunStart
  <2>5. started'[j] + Cardinality(Starting(j)') = started[j] + Cardinality(Starting(j))
    BY <2>3, <2>4, StartingFinite
  <2>6. Closed(j) => Closed(j)'
    <3>1. job' = job
      BY DEF RunStart
    <3>2. CannotStart(attempt[p][j]) => CannotStart(attempt'[p][j])
      BY <2>1 DEF CannotStart, RunStart, Attempts
    <3> QED
      BY <3>1, <3>2, ShapeOthers DEF Closed, Fenced
  <2> QED
    BY <1>2, <2>4, <2>5, <2>6 DEF StartInv, Spent
<1> QED
  BY <1>1, <1>2 DEF StartInv

(***************************************************************************)
(* Under the lease of a closed job no start is marked; the one that is     *)
(* closes the job.                                                         *)
(***************************************************************************)
LEMMA MarkStartStarts ==
  ASSUME HookTypeOK, StartInv, NEW p \in Process, NEW j \in HookJob, Shape(p, j), Mark(p, j),
         Fenced(p, j), attempt[p][j].plan = "start"
  PROVE  StartInv'
<1>1. ASSUME NEW i \in HookJob \ CrashResume, i # j
      PROVE  /\ started'[i] + Cardinality(Starting(i)') <= 1 + retried'[i]
             /\ Spent(i)' => Closed(i)'
  BY <1>1, ShapeOthers, OtherJobsStart DEF Shape, Mark, Quiet
<1>2. ASSUME j \notin CrashResume
      PROVE  /\ started'[j] + Cardinality(Starting(j)') <= 1 + retried'[j]
             /\ Spent(j)' => Closed(j)'
  <2>1. /\ attempt'[p][j].pc = "act" /\ attempt'[p][j].plan = "start"
        /\ attempt'[p][j].acted = "start"
        /\ job'[j].status = "running" /\ job'[j].acted = "start" /\ job'[j].by = p
    <3> DEFINE a == attempt[p][j]
               b == [a EXCEPT !.pc = "act",
                              !.intent = IF a.plan \in Entry THEN a.plan ELSE @,
                              !.acted = IF a.plan \in Entry THEN @ ELSE a.plan]
    <3>1. attempt'[p][j] = b
      BY DEF Mark, Become, HookTypeOK
    <3>2. "start" \notin Entry /\ a \in Attempts /\ job[j] \in Jobs
      BY EntryAssumption DEF HookTypeOK
    <3>3. b.pc = "act" /\ b.plan = "start" /\ b.acted = "start"
      BY <3>2 DEF Attempts
    <3>4. job'[j] = Marked(j, "start")[j]
      BY DEF Mark
    <3>5. job'[j].status = job[j].status /\ job'[j].acted = "start" /\ job'[j].by = job[j].by
      BY <3>2, <3>4 DEF Marked, HookTypeOK, Jobs
    <3> QED
      BY <3>1, <3>3, <3>5 DEF Fenced
  <2>2. p \notin Starting(j) /\ Starting(j)' = Starting(j) \cup {p}
    <3>1. attempt[p][j].pc = "mark"
      BY DEF Mark
    <3> QED
      BY <2>1, <3>1, ShapeOthers DEF Starting
  <2>3. Cardinality(Starting(j)') = Cardinality(Starting(j)) + 1
    BY <2>2, StartingFinite, FS_AddElement
  <2>4. started[j] \in Nat /\ retried[j] \in Nat /\ started'[j] = started[j] /\ retried'[j] = retried[j]
    BY DEF HookTypeOK, Mark, Quiet
  <2>5. ~Spent(j)
    BY <1>2 DEF StartInv, Closed, CannotStart, Mark
  <2>6. started'[j] + Cardinality(Starting(j)') <= 1 + retried'[j]
    BY <2>3, <2>4, <2>5, StartingFinite DEF Spent
  <2>7. Closed(j)'
    <3>1. CannotStart(attempt'[p][j])
      BY <2>1 DEF CannotStart
    <3> QED
      BY <2>1, <3>1 DEF Closed, Fenced
  <2> QED
    BY <2>6, <2>7
<1> QED
  BY <1>1, <1>2 DEF StartInv

LEMMA AttemptStarts ==
  ASSUME HookTypeOK, StartInv, NEW p \in Process, NEW j \in HookJob, AttemptStep(p, j)
  PROVE  StartInv'
<1> DEFINE a == attempt[p][j]
<1>1. Shape(p, j)
  BY AttemptShape
<1>2. a \in Attempts /\ job[j] \in Jobs /\ CannotStart(Ended) /\ Ended.pc = "ended"
  BY DEF HookTypeOK, Ended, CannotStart
<1>3. \A b : Become(p, j, b) => attempt'[p][j] = b
  BY DEF Become, HookTypeOK
<1>4. ASSUME started' = started, job' = job, NEW b, Become(p, j, b),
             b.pc = "act" => b.plan # "start",
             j \notin CrashResume => (CannotStart(a) => CannotStart(b))
      PROVE  StartInv'
  BY <1>1, <1>3, <1>4, NoStartKeeps DEF Fenced
<1>5. ASSUME started' = started, job' = job, Become(p, j, Ended) PROVE StartInv'
  BY <1>2, <1>4, <1>5
<1>6. ASSUME started' = started, job' = job,
             NEW pc \in {"fail", "finish", "settle", "classify", "dispose"}, GoTo(p, j, pc),
             a.pc # "ended", pc = "settle" => a.pc = "failure" \/ a.pc = "begin"
      PROVE  StartInv'
  <2>1. [a EXCEPT !.pc = pc].pc # "act"
    BY <1>2, <1>6 DEF Attempts
  <2>2. CannotStart(a) => CannotStart([a EXCEPT !.pc = pc])
    BY <1>2, <1>6 DEF CannotStart, Attempts
  <2> QED
    BY <1>4, <1>6, <2>1, <2>2 DEF GoTo
<1>7. ASSUME started' = started, job' = job, ~CannotStart(a), NEW b, Become(p, j, b),
             b.pc = "act" => b.plan # "start"
      PROVE  StartInv'
  BY <1>4, <1>7
<1>8. ASSUME started' = started, job' = job, a.pc # "ended",
             NEW error \in {"transient", "terminal", "gone"}, Fails(p, j, error)
      PROVE  StartInv'
  <2>1. [a EXCEPT !.pc = "failure", !.error = error].pc # "act"
    BY <1>2 DEF Attempts
  <2>2. CannotStart(a) => CannotStart([a EXCEPT !.pc = "failure", !.error = error])
    BY <1>2, <1>8 DEF CannotStart, Attempts
  <2> QED
    BY <1>4, <1>8, <2>1, <2>2 DEF Fails
<1>9. ASSUME started' = started, NEW b, Become(p, j, b), b.pc = "act" => b.plan # "start",
             ~(Fenced(p, j) /\ CannotStart(a))
      PROVE  StartInv'
  BY <1>1, <1>3, <1>9, NoStartKeeps
<1>10. ASSUME j \notin CrashResume, NEW used, CannotStart(a), a.pc # "ended"
       PROVE  Disposed(p, j, used) = "fail"
  BY <1>10 DEF Disposed, CannotStart
<1>11. CASE Begin(p, j)
  <2>1. started' = started /\ job' = job /\ a.pc = "begin"
    BY <1>11 DEF Begin, Quiet
  <2>2. CASE a.intent # "none"
    BY <1>6, <1>11, <2>1, <2>2 DEF Begin
  <2>3. CASE a.intent = "none" /\ a.origin = "running" /\ Disposed(p, j, a.number) = "fail"
    BY <1>6, <1>11, <2>1, <2>3 DEF Begin
  <2>4. CASE a.intent = "none" /\ ~(a.origin = "running" /\ Disposed(p, j, a.number) = "fail")
    <3>1. GoTo(p, j, "hook")
      BY <1>11, <2>4 DEF Begin
    <3>2. j \notin CrashResume => ~CannotStart(a)
      BY <1>10, <2>1, <2>4 DEF CannotStart
    <3>3. [a EXCEPT !.pc = "hook"].pc # "act"
      BY <1>2 DEF Attempts
    <3> QED
      BY <1>4, <2>1, <3>1, <3>2, <3>3 DEF GoTo
  <2> QED
    BY <2>2, <2>3, <2>4
<1>12. CASE Dispose(p, j)
  <2>1. started' = started /\ job' = job /\ a.pc = "dispose"
    BY <1>12 DEF Dispose, Quiet
  <2>2. CASE Disposed(p, j, a.number + 1) = "fail"
    BY <1>6, <1>12, <2>1, <2>2 DEF Dispose
  <2>3. CASE Disposed(p, j, a.number + 1) # "fail"
    <3>1. GoTo(p, j, "release")
      BY <1>12, <2>3 DEF Dispose
    <3>2. j \notin CrashResume => ~CannotStart(a)
      BY <1>10, <2>1, <2>3
    <3>3. [a EXCEPT !.pc = "release"].pc # "act"
      BY <1>2 DEF Attempts
    <3> QED
      BY <1>4, <2>1, <3>1, <3>2, <3>3 DEF GoTo
  <2> QED
    BY <2>2, <2>3
<1>13. CASE Settle(p, j)
  <2>1. started' = started /\ a.pc = "settle"
    BY <1>13 DEF Settle, Quiet
  <2>2. CASE a.intent \notin open
    BY <1>6, <1>13, <2>1, <2>2 DEF Settle
  <2>3. CASE a.intent \in open /\ ~Fenced(p, j)
    BY <1>5, <1>13, <2>1, <2>3 DEF Settle, End
  <2>4. CASE a.intent \in open /\ Fenced(p, j)
    <3> DEFINE b == [a EXCEPT !.intent = "none",
                              !.pc = CASE a.error = "none" -> "begin"
                                       [] a.error = "interrupt" -> "dispose"
                                       [] OTHER -> "classify"]
    <3>1. attempt'[p][j] = b /\ job'[j] = [job[j] EXCEPT !.intent = "none"]
      BY <1>3, <1>13, <2>4 DEF Settle, HookTypeOK
    <3>2. b.pc # "act" /\ (CannotStart(a) => CannotStart(b))
      BY <1>2, <2>1 DEF Attempts, CannotStart
    <3>3. job'[j].status = job[j].status /\ job'[j].acted = job[j].acted
      BY <1>2, <3>1 DEF Jobs
    <3> HIDE DEF b
    <3> QED
      BY <1>1, <2>1, <3>1, <3>2, <3>3, NoStartKeeps DEF Fenced
  <2> QED
    BY <2>2, <2>3, <2>4
<1>14. CASE SettleRaises(p, j)
  <2> DEFINE b == [a EXCEPT !.pc = "classify", !.error = "transient"]
  <2>1. started' = started /\ job' = job /\ Become(p, j, b)
    BY <1>14 DEF SettleRaises, Quiet
  <2>2. b.pc # "act" /\ (CannotStart(a) => CannotStart(b))
    BY <1>2, <1>14 DEF Attempts, CannotStart, SettleRaises
  <2> QED
    BY <1>4, <2>1, <2>2
<1>15. CASE Evaluate(p, j)
  <2>1. started' = started /\ job' = job /\ ~CannotStart(a)
    BY <1>15 DEF Evaluate, Quiet, CannotStart
  <2>2. ASSUME NEW plan, Plan(p, j, plan) PROVE StartInv'
    <3>1. [a EXCEPT !.pc = "mark", !.plan = plan].pc # "act"
      BY <1>2 DEF Attempts
    <3> QED
      BY <1>7, <2>1, <2>2, <3>1 DEF Plan
  <2>3. CASE GoTo(p, j, "finish")
    BY <1>6, <1>15, <2>1, <2>3 DEF Evaluate
  <2> QED
    BY <1>15, <2>2, <2>3 DEF Evaluate
<1>16. CASE Mark(p, j)
  <2>1. started' = started /\ a.pc = "mark"
    BY <1>16 DEF Mark, Quiet
  <2>2. CASE ~Fenced(p, j)
    BY <1>5, <1>16, <2>1, <2>2 DEF Mark, End
  <2>3. CASE Fenced(p, j) /\ a.plan = "start"
    BY <1>1, <1>16, <2>3, MarkStartStarts
  <2>4. CASE Fenced(p, j) /\ a.plan # "start"
    <3> DEFINE b == [a EXCEPT !.pc = "act",
                              !.intent = IF a.plan \in Entry THEN a.plan ELSE @,
                              !.acted = IF a.plan \in Entry THEN @ ELSE a.plan]
    <3>1. Become(p, j, b)
      BY <1>16, <2>4 DEF Mark
    <3>2. b.plan # "start"
      BY <1>2, <2>4 DEF Attempts
    <3>3. ~CannotStart(a)
      BY <2>1 DEF CannotStart
    <3> HIDE DEF b
    <3> QED
      BY <1>9, <2>1, <3>1, <3>2, <3>3
  <2> QED
    BY <2>2, <2>3, <2>4
<1>17. CASE MarkRaises(p, j)
  <2>1. started' = started /\ ~CannotStart(a) /\ Fails(p, j, "transient")
    BY <1>17 DEF MarkRaises, Quiet, CannotStart
  <2>2. [a EXCEPT !.pc = "failure", !.error = "transient"].pc # "act"
    BY <1>2 DEF Attempts
  <2> QED
    BY <1>9, <2>1, <2>2 DEF Fails
<1>18. CASE CancelAll(p, j)
  <2>1. started' = started /\ job' = job /\ ~CannotStart(a)
    BY <1>18 DEF CancelAll, Quiet, CannotStart
  <2>2. ASSUME NEW plan, Plan(p, j, plan) PROVE StartInv'
    <3>1. [a EXCEPT !.pc = "mark", !.plan = plan].pc # "act"
      BY <1>2 DEF Attempts
    <3> QED
      BY <1>7, <2>1, <2>2, <3>1 DEF Plan
  <2>3. CASE GoTo(p, j, "finish")
    BY <1>6, <1>18, <2>1, <2>3 DEF CancelAll
  <2> QED
    BY <1>18, <2>2, <2>3 DEF CancelAll
<1>19. CASE RunStart(p, j)
  BY <1>1, <1>19, RunStartStarts
<1>20. ASSUME a.pc = "act", a.plan \in Entry PROVE ~CannotStart(a)
  BY <1>20, EntryAssumption DEF CannotStart
<1>21. CASE ClaimEntry(p, j)
  <2>1. started' = started /\ job' = job /\ a.pc = "act" /\ ~CannotStart(a)
    BY <1>20, <1>21 DEF ClaimEntry
  <2>2. CASE a.plan \in open
    <3>1. GoTo(p, j, "commit") /\ [a EXCEPT !.pc = "commit"].pc # "act"
      BY <1>2, <1>21, <2>2 DEF ClaimEntry, Attempts
    <3> QED
      BY <1>7, <2>1, <3>1 DEF GoTo
  <2>3. CASE a.plan \notin open
    BY <1>8, <1>21, <2>1, <2>3 DEF ClaimEntry
  <2> QED
    BY <2>2, <2>3
<1>22. CASE ClaimRaises(p, j)
  BY <1>8, <1>22 DEF ClaimRaises
<1>23. CASE Commit(p, j)
  <2>1. started' = started /\ ~CannotStart(a)
    BY <1>23 DEF Commit, Quiet, CannotStart
  <2>2. CASE ~Fenced(p, j)
    BY <1>5, <1>23, <2>1, <2>2 DEF Commit, End
  <2>3. CASE Fenced(p, j)
    <3> DEFINE c == [a EXCEPT !.acted = "claim", !.intent = "none"]
    <3>1. Become(p, j, [c EXCEPT !.pc = "tool"])
      BY <1>23, <2>3 DEF Commit
    <3>2. c \in Attempts
      BY <1>2 DEF Attempts, Acts
    <3> HIDE DEF c
    <3>3. [c EXCEPT !.pc = "tool"].pc # "act"
      BY <3>2 DEF Attempts
    <3> QED
      BY <1>9, <2>1, <3>1, <3>3
  <2> QED
    BY <2>2, <2>3
<1>24. CASE CommitRaises(p, j)
  <2>1. started' = started /\ job' = job /\ ~CannotStart(a)
    BY <1>24 DEF CommitRaises, Quiet, CannotStart
  <2> DEFINE c == [a EXCEPT !.acted = "claim", !.intent = "none"]
  <2>2. Become(p, j, [c EXCEPT !.pc = "failure", !.error = "transient"])
    BY <1>24 DEF CommitRaises
  <2>3. c \in Attempts
    BY <1>2 DEF Attempts, Acts
  <2> HIDE DEF c
  <2>4. [c EXCEPT !.pc = "failure", !.error = "transient"].pc # "act"
    BY <2>3 DEF Attempts
  <2> QED
    BY <1>7, <2>1, <2>2, <2>4
<1>25. CASE ToolReturns(p, j)
  <2>1. started' = started /\ job' = job /\ a.pc = "tool"
    BY <1>25 DEF ToolReturns, Quiet
  <2>2. CASE GoTo(p, j, "finish")
    BY <1>6, <2>1, <2>2
  <2>3. ASSUME a.plan \in Entry, NEW plan, Plan(p, j, plan) PROVE StartInv'
    <3>1. [a EXCEPT !.pc = "mark", !.plan = plan].pc # "act"
      BY <1>2 DEF Attempts
    <3>2. ~CannotStart(a)
      BY <2>1, <2>3, EntryAssumption DEF CannotStart
    <3> QED
      BY <1>7, <2>1, <2>3, <3>1, <3>2 DEF Plan
  <2> QED
    BY <1>25, <2>2, <2>3 DEF ToolReturns
<1>26. CASE HookRaises(p, j)
  BY <1>8, <1>26 DEF HookRaises, Quiet
<1>27. CASE OnFailure(p, j)
  <2>1. started' = started /\ a.pc = "failure"
    BY <1>27 DEF OnFailure, Quiet
  <2>2. CASE a.intent = "none" \/ a.error # "gone"
    BY <1>6, <1>27, <2>1, <2>2 DEF OnFailure
  <2>3. CASE a.intent # "none" /\ a.error = "gone" /\ ~Fenced(p, j)
    BY <1>5, <1>27, <2>1, <2>3 DEF OnFailure, End
  <2>4. CASE a.intent # "none" /\ a.error = "gone" /\ Fenced(p, j)
    <3> DEFINE b == [a EXCEPT !.pc = "classify", !.intent = "none"]
    <3>1. attempt'[p][j] = b /\ job'[j] = [job[j] EXCEPT !.intent = "none"]
      BY <1>3, <1>27, <2>4 DEF OnFailure, HookTypeOK
    <3>2. b.pc # "act" /\ (CannotStart(a) => CannotStart(b))
      BY <1>2, <2>1 DEF Attempts, CannotStart
    <3>3. job'[j].status = job[j].status /\ job'[j].acted = job[j].acted
      BY <1>2, <3>1 DEF Jobs
    <3> HIDE DEF b
    <3> QED
      BY <1>1, <2>1, <3>1, <3>2, <3>3, NoStartKeeps DEF Fenced
  <2> QED
    BY <2>2, <2>3, <2>4
<1>28. CASE Classify(p, j)
  <2>1. started' = started /\ job' = job /\ a.pc = "classify"
    BY <1>28 DEF Classify, Quiet
  <2>2. CASE GoTo(p, j, "fail")
    BY <1>6, <2>1, <2>2
  <2>3. CASE GoTo(p, j, "reschedule") /\ a.acted = "none"
    <3>1. ~CannotStart(a) /\ [a EXCEPT !.pc = "reschedule"].pc # "act"
      BY <1>2, <2>1, <2>3 DEF CannotStart, Attempts
    <3> QED
      BY <1>7, <2>1, <2>3, <3>1 DEF GoTo
  <2> QED
    BY <1>28, <2>2, <2>3 DEF Classify
<1>29. CASE Record(p, j)
  <2>1. started' = started /\ a.pc \in Verdict
    BY <1>29 DEF Record, Quiet
  <2>2. attempt'[p][j] = Ended
    BY <1>3, <1>29 DEF Record, End
  <2>3. CASE ~Fenced(p, j)
    BY <1>5, <1>29, <2>1, <2>3 DEF Record, End
  <2>4. CASE Fenced(p, j)
    <3>1. CannotStart(a) => a.pc \in {"finish", "fail"}
      BY <2>1 DEF CannotStart, Verdict
    <3>2. a.pc \in {"finish", "fail"} => job'[j].status \in {"done", "failed"}
      BY <1>2, <1>29, <2>4 DEF Record, HookTypeOK, Jobs
    <3> QED
      BY <1>1, <1>2, <2>1, <2>2, <3>1, <3>2, NoStartKeeps
  <2> QED
    BY <2>3, <2>4
<1>30. CASE RecordRaises(p, j)
  BY <1>5, <1>30 DEF RecordRaises, Quiet, End
<1>31. CASE Interrupt(p, j)
  <2> DEFINE b == [a EXCEPT !.error = "interrupt",
                            !.pc = IF a.intent # "none" THEN "settle" ELSE "dispose"]
  <2>1. started' = started /\ job' = job /\ Become(p, j, b)
    BY <1>31 DEF Interrupt, Quiet
  <2>2. b.pc # "act" /\ (CannotStart(a) => CannotStart(b))
    BY <1>2, <1>31 DEF Attempts, CannotStart, Interrupt
  <2> HIDE DEF b
  <2> QED
    BY <1>4, <2>1, <2>2
<1> QED
  BY <1>11, <1>12, <1>13, <1>14, <1>15, <1>16, <1>17, <1>18, <1>19, <1>21, <1>22, <1>23, <1>24,
     <1>25, <1>26, <1>27, <1>28, <1>29, <1>30, <1>31 DEF AttemptStep

(***************************************************************************)
(* A step that is no attempt's own: a job of which no start is lost or     *)
(* gained stays closed if it was.                                          *)
(***************************************************************************)
LEMMA JobStarts ==
  ASSUME HookTypeOK, StartInv, NEW i \in HookJob \ CrashResume,
         Starting(i)' \subseteq Starting(i), started'[i] = started[i], retried'[i] = retried[i],
         Closed(i) => Closed(i)'
  PROVE  /\ started'[i] + Cardinality(Starting(i)') <= 1 + retried'[i]
         /\ Spent(i)' => Closed(i)'
<1>1. Cardinality(Starting(i)') <= Cardinality(Starting(i))
  BY StartingFinite, FS_Subset
<1>2. started[i] \in Nat /\ retried[i] \in Nat
  BY DEF HookTypeOK
<1>3. Spent(i)' => Spent(i)
  BY <1>1, <1>2, StartingFinite DEF Spent
<1> QED
  BY <1>1, <1>2, <1>3, StartingFinite DEF StartInv

LEMMA AcceptStarts ==
  ASSUME HookTypeOK, StartInv, NEW p \in Process, NEW j \in HookJob, Accept(p, j)
  PROVE  StartInv'
<1>1. started' = started /\ retried' = retried
  BY DEF Accept, Quiet
<1>2. \A i \in HookJob \ {j} : job'[i] = job[i] /\ \A q \in Process : attempt'[q][i] = attempt[q][i]
  BY DEF Accept, Become, HookTypeOK
<1>3. ASSUME NEW q \in Process, attempt'[q][j].pc = "act" PROVE attempt'[q][j] = attempt[q][j]
  <2>1. attempt' = attempt \/ Become(p, j, Attempt("pending", j, 1))
    BY DEF Accept
  <2>2. Attempt("pending", j, 1).pc = "begin"
    BY DEF Attempt, Ended
  <2> QED
    BY <1>3, <2>1, <2>2 DEF Become, HookTypeOK
<1>4. Starting(j)' \subseteq Starting(j)
  BY <1>3 DEF Starting
<1>5. ~Closed(j)
  BY DEF Accept, Closed
<1>6. ASSUME NEW i \in HookJob \ CrashResume
      PROVE  /\ started'[i] + Cardinality(Starting(i)') <= 1 + retried'[i]
             /\ Spent(i)' => Closed(i)'
  <2>1. CASE i = j
    BY <1>1, <1>4, <1>5, <1>6, <2>1, JobStarts
  <2>2. CASE i # j
    BY <1>1, <1>2, <1>6, <2>2, OtherJobsStart
  <2> QED
    BY <2>1, <2>2
<1> QED
  BY <1>6 DEF StartInv

LEMMA ClaimDueStarts ==
  ASSUME HookTypeOK, StartInv, NEW p \in Process, NEW j \in HookJob, ClaimDue(p, j)
  PROVE  StartInv'
<1> DEFINE a == Attempt(job[j].status, j, job[j].attempts + 1)
<1>1. started' = started /\ retried' = retried
  BY DEF ClaimDue
<1>2. \A i \in HookJob \ {j} : job'[i] = job[i] /\ \A q \in Process : attempt'[q][i] = attempt[q][i]
  BY DEF ClaimDue, Become, HookTypeOK
<1>3. attempt'[p][j] = a /\ \A q \in Process \ {p} : attempt'[q][j] = attempt[q][j]
  BY DEF ClaimDue, Become, HookTypeOK
<1>4. a.pc = "begin" /\ a.acted = job[j].acted /\ a.origin = job[j].status
  BY DEF Attempt, Ended
<1>5. Starting(j)' \subseteq Starting(j)
  BY <1>3, <1>4 DEF Starting
<1>6. /\ job'[j].status = "running" /\ job'[j].by = p /\ job'[j].acted = job[j].acted
  BY DEF ClaimDue, HookTypeOK, Jobs
<1>7. Closed(j) => Closed(j)'
  <2> SUFFICES ASSUME Closed(j) PROVE Closed(j)'
    OBVIOUS
  <2>1. job[j].status = "running" /\ job[j].acted = "start"
    BY DEF Closed, ClaimDue
  <2>2. CannotStart(a)
    BY <1>4, <2>1 DEF CannotStart
  <2>3. \A q \in Process : Fenced(q, j)' => q = p
    BY <1>6 DEF Fenced
  <2> QED
    BY <1>3, <1>6, <2>1, <2>2, <2>3 DEF Closed
<1>8. ASSUME NEW i \in HookJob \ CrashResume
      PROVE  /\ started'[i] + Cardinality(Starting(i)') <= 1 + retried'[i]
             /\ Spent(i)' => Closed(i)'
  <2>1. CASE i = j
    BY <1>1, <1>5, <1>7, <1>8, <2>1, JobStarts
  <2>2. CASE i # j
    BY <1>1, <1>2, <1>8, <2>2, OtherJobsStart
  <2> QED
    BY <2>1, <2>2
<1> QED
  BY <1>8 DEF StartInv

LEMMA RetryBegins ==
  ASSUME HookTypeOK, NEW p \in Process, NEW j \in HookJob, RetryRun(p, j)
  PROVE  \/ attempt' = attempt
         \/ \E b \in Attempts : /\ b.pc = "begin" /\ b.origin = "pending" /\ b.intent = "none"
                               /\ b.acted = (IF job[j].acted = "start" THEN "start" ELSE "none")
                               /\ ~Live(p, j) /\ Become(p, j, b)
<1> DEFINE kept == IF job[j].acted = "start" THEN "start" ELSE "none"
           b == [Ended EXCEPT !.pc = "begin", !.acted = kept, !.number = 1]
<1>1. /\ b \in Attempts /\ b.pc = "begin" /\ b.origin = "pending" /\ b.intent = "none"
      /\ b.acted = kept
  BY DEF Ended, Attempts, Acts
<1>2. \/ attempt' = attempt
      \/ attempt' = [attempt EXCEPT ![p][j] = IF Live(p, j) THEN @ ELSE b]
  BY DEF RetryRun
<1>3. [attempt EXCEPT ![p][j] = @] = attempt
  BY DEF HookTypeOK
<1> HIDE DEF b
<1> QED
  BY <1>1, <1>2, <1>3 DEF Become

LEMMA RetryStarts ==
  ASSUME HookTypeOK, StartInv, NEW p \in Process, NEW j \in HookJob, RetryRun(p, j)
  PROVE  StartInv'
<1>1. /\ started' = started
      /\ \A i \in HookJob \ {j} : retried'[i] = retried[i]
      /\ retried'[j] = retried[j] + 1
  BY DEF RetryRun, HookTypeOK
<1>2. \A i \in HookJob \ {j} : job'[i] = job[i] /\ \A q \in Process : attempt'[q][i] = attempt[q][i]
  BY DEF RetryRun, HookTypeOK
<1>3. ASSUME NEW q \in Process, attempt'[q][j].pc = "act" PROVE attempt'[q][j] = attempt[q][j]
  BY <1>3, RetryBegins DEF HookTypeOK, Become
<1>4. Starting(j)' \subseteq Starting(j)
  BY <1>3 DEF Starting
<1>5. Cardinality(Starting(j)') <= Cardinality(Starting(j))
  BY <1>4, StartingFinite, FS_Subset
<1>6. started[j] \in Nat /\ retried[j] \in Nat
  BY DEF HookTypeOK
<1>7. ASSUME NEW i \in HookJob \ CrashResume
      PROVE  /\ started'[i] + Cardinality(Starting(i)') <= 1 + retried'[i]
             /\ Spent(i)' => Closed(i)'
  <2>1. CASE i = j
    <3>1. started[j] + Cardinality(Starting(j)) <= 1 + retried[j]
      BY <1>7, <2>1 DEF StartInv
    <3> QED
      BY <1>1, <1>5, <1>6, <2>1, <3>1, StartingFinite DEF Spent
  <2>2. CASE i # j
    BY <1>1, <1>2, <1>7, <2>2, OtherJobsStart
  <2> QED
    BY <2>1, <2>2
<1> QED
  BY <1>7 DEF StartInv

(***************************************************************************)
(* The steps that touch no attempt, and neither the holder of a job under  *)
(* way nor what it acted.                                                  *)
(***************************************************************************)
LEMMA DoorStarts ==
  ASSUME HookTypeOK, StartInv, attempt' = attempt, started' = started, retried' = retried,
         \A i \in HookJob : /\ job'[i].by = job[i].by /\ job'[i].acted = job[i].acted
                            /\ \/ job'[i].status = job[i].status
                               \/ job'[i].status = "discarded"
  PROVE  StartInv'
<1>1. ASSUME NEW i \in HookJob \ CrashResume
      PROVE  /\ started'[i] + Cardinality(Starting(i)') <= 1 + retried'[i]
             /\ Spent(i)' => Closed(i)'
  <2>1. Starting(i)' = Starting(i)
    BY DEF Starting
  <2>2. Closed(i) => Closed(i)'
    BY <1>1 DEF Closed, Fenced
  <2> QED
    BY <1>1, <2>1, <2>2, JobStarts
<1> QED
  BY <1>1 DEF StartInv

LEMMA CrashStarts ==
  ASSUME HookTypeOK, StartInv, NEW p \in Process, ProcessDies(p)
  PROVE  StartInv'
<1>1. started' = started /\ retried' = retried
  BY DEF ProcessDies, Quiet
<1>2. /\ \A i \in HookJob : attempt'[p][i] = Ended
      /\ \A q \in Process \ {p} : attempt'[q] = attempt[q]
  BY DEF ProcessDies, HookTypeOK
<1>3. \A i \in HookJob : job'[i] = IF job[i].by = p THEN [job[i] EXCEPT !.by = "gone"] ELSE job[i]
  BY DEF ProcessDies
<1>4. ASSUME NEW i \in HookJob
      PROVE  /\ job'[i].status = job[i].status /\ job'[i].acted = job[i].acted
             /\ job'[i].by = IF job[i].by = p THEN "gone" ELSE job[i].by
  BY <1>3, <1>4 DEF HookTypeOK, Jobs
<1>5. ASSUME NEW i \in HookJob \ CrashResume
      PROVE  /\ started'[i] + Cardinality(Starting(i)') <= 1 + retried'[i]
             /\ Spent(i)' => Closed(i)'
  <2>1. Starting(i)' \subseteq Starting(i)
    BY <1>2, <1>5 DEF Starting, Ended
  <2>2. Closed(i) => Closed(i)'
    <3>1. \A q \in Process : Fenced(q, i)' => q # p /\ Fenced(q, i)
      BY <1>4, <1>5, ProcessAssumption DEF Fenced
    <3> QED
      BY <1>2, <1>4, <1>5, <3>1 DEF Closed
  <2> QED
    BY <1>1, <1>5, <2>1, <2>2, JobStarts
<1> QED
  BY <1>5 DEF StartInv

-----------------------------------------------------------------------------
(***************************************************************************)
(* The acts: a step of the one live attempt of a job.                      *)
(***************************************************************************)
Alone(j, k, a, R, n) ==
  /\ k.status = "running" /\ Marks(k, a)
  /\ n # 0 => Noted(j, k, R) /\ Knows(j, k, a, R)

LEMMA MoreResolved ==
  ASSUME NEW j, NEW k, NEW a, NEW R, NEW Q, R \subseteq Q
  PROVE  /\ Noted(j, k, R) => Noted(j, k, Q)
         /\ Knows(j, k, a, R) => Knows(j, k, a, Q)
BY DEF Noted, Knows

(***************************************************************************)
(* A job that the step leaves as it is.                                    *)
(***************************************************************************)
LEMMA OtherJobsAct ==
  ASSUME NEW i \in HookJob, ActsAlone(i), job'[i] = job[i],
         \A q \in Process : attempt'[q][i] = attempt[q][i], open' \subseteq open,
         actors'[i] = actors[i], recent'[i] = recent[i], retried'[i] = retried[i]
  PROVE  ActsAlone(i)'
<1>1. Resolved \subseteq Resolved'
  BY DEF Resolved
<1> QED
  BY <1>1, MoreResolved DEF ActsAlone, Live, Fenced

LEMMA AloneKeeps ==
  ASSUME HookTypeOK, ActInv, NEW p \in Process, NEW j \in HookJob, Shape(p, j), Live(p, j),
         j \notin stale /\ Fenced(p, j)
           /\ Alone(j, job[j], attempt[p][j], Resolved, recent[j]) =>
         /\ attempt'[p][j].pc # "ended" =>
              job'[j].by = p /\ Alone(j, job'[j], attempt'[p][j], Resolved', recent'[j])
         /\ attempt'[p][j].pc = "ended" /\ recent'[j] # 0 => Noted(j, job'[j], Resolved')
         /\ j \notin CrashResume =>
              \/ actors'[j] = actors[j] /\ recent'[j] = recent[j]
              \/ recent[j] = 0 /\ actors'[j] = actors[j] + 1 /\ recent'[j] = 1
  PROVE  ActInv'
<1>1. ASSUME NEW i \in HookJob \ stale, i # j PROVE ActsAlone(i)'
  <2>1. ActsAlone(i)
    BY <1>1 DEF ActInv
  <2> QED
    BY <1>1, <2>1, ShapeOthers, OtherJobsAct DEF Shape
<1>2. ASSUME j \notin stale PROVE ActsAlone(j)'
  <2>1. ActsAlone(j)
    BY <1>2 DEF ActInv
  <2>2. Fenced(p, j) /\ Alone(j, job[j], attempt[p][j], Resolved, recent[j])
    BY <2>1 DEF ActsAlone, Alone, Fenced
  <2>3. ASSUME NEW q \in Process, q # p PROVE ~Live(q, j)'
    <3>1. ~Live(q, j)
      BY <2>1, <2>2, <2>3 DEF ActsAlone, Fenced
    <3> QED
      BY <2>3, <3>1, ShapeOthers DEF Live
  <2>4. actors[j] \in Nat /\ recent[j] \in Nat /\ retried[j] \in Nat /\ retried'[j] = retried[j]
    BY DEF HookTypeOK, Shape
  <2>5. j \notin CrashResume => actors'[j] <= retried'[j] + recent'[j] /\ recent'[j] <= 1
    BY <1>2, <2>1, <2>2, <2>4 DEF ActsAlone
  <2>6. CASE attempt'[p][j].pc = "ended"
    BY <1>2, <2>2, <2>3, <2>5, <2>6 DEF ActsAlone, Live
  <2>7. CASE attempt'[p][j].pc # "ended"
    BY <1>2, <2>2, <2>3, <2>5, <2>7 DEF ActsAlone, Live, Fenced, Alone
  <2> QED
    BY <2>6, <2>7
<1> QED
  BY <1>1, <1>2 DEF ActInv, Shape

(***************************************************************************)
(* Every step of an attempt.                                               *)
(***************************************************************************)
LEMMA AttemptActs ==
  ASSUME HookTypeOK, ActInv, NEW p \in Process, NEW j \in HookJob, AttemptStep(p, j)
  PROVE  ActInv'
<1> DEFINE a == attempt[p][j]
           k == job[j]
           R == Resolved
           n == recent[j]
<1>1. Shape(p, j)
  BY AttemptShape
<1>2. a \in Attempts /\ k \in Jobs /\ Ended.pc = "ended"
  BY DEF HookTypeOK, Ended
<1>3. \A b : Become(p, j, b) => attempt'[p][j] = b
  BY DEF Become, HookTypeOK
<1>4. /\ "none" \notin R /\ "none" \notin Entry /\ "start" \notin Entry /\ "cancel" \notin Entry
      /\ R \subseteq Entry /\ \A e \in open : e \in Entry /\ e \notin R
  BY EntryAssumption DEF Resolved, HookTypeOK
<1>5. ASSUME a.pc # "ended", open' = open, actors' = actors, recent' = recent,
             NEW b, NEW h, Become(p, j, b), job'[j] = h,
             Fenced(p, j) /\ Alone(j, k, a, R, n) =>
               /\ b.pc # "ended" => h.by = p /\ Alone(j, h, b, R, n)
               /\ b.pc = "ended" /\ n # 0 => Noted(j, h, R)
      PROVE  ActInv'
  <2>1. Resolved' = Resolved /\ recent'[j] = recent[j] /\ actors'[j] = actors[j]
    BY <1>5 DEF Resolved
  <2>2. attempt'[p][j] = b
    BY <1>3, <1>5
  <2> QED
    BY <1>1, <1>5, <2>1, <2>2, AloneKeeps DEF Live
<1>6. ASSUME a.pc # "ended", Quiet, job' = job, NEW b, Become(p, j, b), b.pc # "ended",
             Alone(j, k, a, R, n) => Alone(j, k, b, R, n)
      PROVE  ActInv'
  BY <1>5, <1>6 DEF Quiet, Fenced
<1>7. ASSUME a.pc # "ended", Quiet, job' = job, Become(p, j, Ended)
      PROVE  ActInv'
  BY <1>2, <1>5, <1>7 DEF Quiet, Alone
<1>8. ASSUME a.pc # "ended", ~Fenced(p, j) PROVE ActInv'
  BY <1>1, <1>8, AloneKeeps DEF Live
<1>9. ASSUME a.pc # "ended", Quiet, job' = job,
             NEW pc \in {"begin", "settle", "dispose", "hook", "classify"} \cup Verdict,
             GoTo(p, j, pc),
             Alone(j, k, a, R, n) => Alone(j, k, [a EXCEPT !.pc = pc], R, n)
      PROVE  ActInv'
  <2>1. [a EXCEPT !.pc = pc].pc # "ended"
    BY <1>2, <1>9 DEF Attempts, Verdict
  <2> QED
    BY <1>6, <1>9, <2>1 DEF GoTo
<1>10. CASE Begin(p, j)
  <2>1. a.pc = "begin" /\ Quiet /\ job' = job
    BY <1>10 DEF Begin
  <2>2. CASE a.intent # "none"
    <3>1. Alone(j, k, a, R, n) => Alone(j, k, [a EXCEPT !.pc = "settle"], R, n)
      BY <1>2, <2>1, <2>2 DEF Attempts, Alone, Marks, Knows, Repeats
    <3> QED
      BY <1>9, <1>10, <2>1, <2>2, <3>1 DEF Begin
  <2>3. CASE a.intent = "none" /\ a.origin = "running" /\ Disposed(p, j, a.number) = "fail"
    <3>1. Alone(j, k, a, R, n) => Alone(j, k, [a EXCEPT !.pc = "fail"], R, n)
      BY <1>2, <2>1, <2>3 DEF Attempts, Alone, Marks, Knows, Repeats
    <3> QED
      BY <1>9, <1>10, <2>1, <2>3, <3>1 DEF Begin, Verdict
  <2>4. CASE a.intent = "none" /\ ~(a.origin = "running" /\ Disposed(p, j, a.number) = "fail")
    <3>1. a.origin = "running" => a.acted = "none" \/ Repeats(j, a)
      BY <2>4 DEF Disposed, Repeats
    <3>2. a.origin \in {"pending", "running"}
      BY <1>2 DEF Attempts
    <3>3. Alone(j, k, a, R, n) => Alone(j, k, [a EXCEPT !.pc = "hook"], R, n)
      BY <1>2, <1>4, <2>1, <2>4, <3>1, <3>2 DEF Attempts, Alone, Marks, Knows, Repeats, Act
    <3> QED
      BY <1>9, <1>10, <2>1, <2>4, <3>3 DEF Begin
  <2> QED
    BY <2>2, <2>3, <2>4
<1>11. CASE Dispose(p, j)
  <2>1. a.pc = "dispose" /\ Quiet /\ job' = job
    BY <1>11 DEF Dispose
  <2>2. CASE Disposed(p, j, a.number + 1) = "fail"
    <3>1. Alone(j, k, a, R, n) => Alone(j, k, [a EXCEPT !.pc = "fail"], R, n)
      BY <1>2, <2>1 DEF Attempts, Alone, Marks, Knows, Repeats
    <3> QED
      BY <1>9, <1>11, <2>1, <2>2, <3>1 DEF Dispose, Verdict
  <2>3. CASE Disposed(p, j, a.number + 1) # "fail"
    <3>1. a.acted = "none" \/ Repeats(j, a)
      BY <2>3 DEF Disposed, Repeats
    <3>2. Alone(j, k, a, R, n) => Alone(j, k, [a EXCEPT !.pc = "release"], R, n)
      BY <1>2, <2>1, <3>1 DEF Attempts, Alone, Marks, Knows, Repeats, Act
    <3> QED
      BY <1>9, <1>11, <2>1, <2>3, <3>2 DEF Dispose, Verdict
  <2> QED
    BY <2>2, <2>3
<1>12. CASE Settle(p, j)
  <2>1. a.pc = "settle" /\ Quiet
    BY <1>12 DEF Settle
  <2>2. CASE a.intent \notin open
    <3>1. Alone(j, k, a, R, n) => Alone(j, k, [a EXCEPT !.pc = "fail"], R, n)
      BY <1>2, <2>1 DEF Attempts, Alone, Marks, Knows, Repeats
    <3> QED
      BY <1>9, <1>12, <2>1, <2>2, <3>1 DEF Settle, Verdict
  <2>3. CASE ~Fenced(p, j)
    BY <1>8, <2>1, <2>3
  <2>4. CASE a.intent \in open /\ Fenced(p, j)
    <3> DEFINE pc == CASE a.error = "none" -> "begin"
                       [] a.error = "interrupt" -> "dispose"
                       [] OTHER -> "classify"
               b == [a EXCEPT !.intent = "none", !.pc = pc]
               h == [k EXCEPT !.intent = "none"]
    <3>1. pc \in {"begin", "dispose", "classify"} /\ (pc = "begin" => a.error = "none")
      OBVIOUS
    <3>2. job' = [job EXCEPT ![j] = h] /\ Become(p, j, b)
      BY <1>12, <2>4 DEF Settle
    <3>3. /\ b.pc = pc /\ b.intent = "none" /\ b.acted = a.acted
          /\ b.origin = a.origin /\ b.error = a.error
      <4> HIDE DEF pc
      <4> QED
        BY <1>2 DEF Attempts
    <3>4. h.status = k.status /\ h.by = k.by /\ h.acted = k.acted /\ h.intent = "none"
      BY <1>2 DEF Jobs
    <3>5. job'[j] = h
      BY <3>2 DEF HookTypeOK
    <3> HIDE DEF b, h, pc
    <3>6. Fenced(p, j) => h.by = p
      BY <3>4 DEF Fenced
    <3>7. Alone(j, k, a, R, n) => Marks(h, b)
      BY <2>1, <3>1, <3>3, <3>4 DEF Alone, Marks
    <3>8. Alone(j, k, a, R, n) /\ n # 0 => a.acted \in Act /\ k.acted \in Act
      BY <1>4, <2>1, <2>4 DEF Alone, Marks, Knows
    <3>9. Alone(j, k, a, R, n) /\ n # 0 => Noted(j, h, R)
      BY <3>4, <3>8 DEF Alone, Noted
    <3>10. Alone(j, k, a, R, n) /\ n # 0 => Knows(j, h, b, R)
      BY <1>4, <2>1, <2>4, <3>1, <3>3, <3>4, <3>8 DEF Alone, Knows, Repeats
    <3> QED
      BY <1>5, <2>1, <3>1, <3>2, <3>3, <3>4, <3>5, <3>6, <3>7, <3>9, <3>10 DEF Quiet, Alone
  <2> QED
    BY <2>2, <2>3, <2>4
<1>13. CASE SettleRaises(p, j)
  <2> DEFINE b == [a EXCEPT !.pc = "classify", !.error = "transient"]
  <2>1. a.pc = "settle" /\ Quiet /\ job' = job /\ Become(p, j, b)
    BY <1>13 DEF SettleRaises
  <2>2. b.pc = "classify" /\ (Alone(j, k, a, R, n) => Alone(j, k, b, R, n))
    BY <1>2, <2>1 DEF Attempts, Alone, Marks, Knows, Repeats
  <2> HIDE DEF b
  <2> QED
    BY <1>6, <2>1, <2>2
<1>14. ASSUME NEW plan \in {"cancel", "start"} \cup open, Plan(p, j, plan), Quiet, job' = job,
              a.pc \in {"hook", "act", "tool"},
              a.acted = "start" => plan = "start",
              a.pc = "act" => a.plan = "cancel",
              a.pc = "tool" => a.plan \in Entry /\ plan \in Entry
       PROVE  ActInv'
  <2> DEFINE b == [a EXCEPT !.pc = "mark", !.plan = plan]
  <2>1. /\ b.pc = "mark" /\ b.plan = plan /\ b.acted = a.acted /\ b.intent = a.intent
        /\ b.error = a.error /\ b.origin = a.origin
    BY <1>2 DEF Attempts
  <2>2. Become(p, j, b)
    BY <1>14 DEF Plan
  <2> HIDE DEF b
  <2>3. Alone(j, k, a, R, n) => Marks(k, b)
    BY <1>4, <1>14, <2>1 DEF Alone, Marks
  <2>4. Alone(j, k, a, R, n) /\ n # 0 => Knows(j, k, b, R)
    BY <1>4, <1>14, <2>1 DEF Alone, Knows, Repeats
  <2> QED
    BY <1>6, <1>14, <2>1, <2>2, <2>3, <2>4 DEF Alone
<1>15. ASSUME GoTo(p, j, "finish"), Quiet, job' = job, a.pc \in {"hook", "act", "tool"},
              a.pc = "act" => a.plan \notin Entry
       PROVE  ActInv'
  <2>1. Alone(j, k, a, R, n) => Alone(j, k, [a EXCEPT !.pc = "finish"], R, n)
    BY <1>2, <1>15 DEF Attempts, Alone, Marks, Knows, Repeats
  <2> QED
    BY <1>9, <1>15, <2>1 DEF Verdict
<1>16. CASE Evaluate(p, j)
  <2>1. a.pc = "hook" /\ Quiet /\ job' = job
    BY <1>16 DEF Evaluate
  <2>2. CASE a.acted = "start"
    BY <1>14, <1>16, <2>1, <2>2 DEF Evaluate
  <2>3. CASE a.acted # "start" /\ GoTo(p, j, "finish")
    BY <1>15, <2>1, <2>3
  <2>4. ASSUME a.acted # "start", NEW plan \in {"cancel", "start"} \cup open, Plan(p, j, plan)
        PROVE  ActInv'
    BY <1>14, <2>1, <2>4
  <2> QED
    BY <1>16, <2>2, <2>3, <2>4 DEF Evaluate
<1>17. /\ Marked(j, a.plan)[j].status = k.status /\ Marked(j, a.plan)[j].by = k.by
       /\ Marked(j, a.plan)[j].acted = (IF a.plan \in Entry THEN k.acted ELSE a.plan)
       /\ Marked(j, a.plan)[j].intent = (IF a.plan \in Entry THEN a.plan ELSE k.intent)
  BY <1>2 DEF Marked, Jobs, HookTypeOK
<1>18. CASE Mark(p, j)
  <2>1. a.pc = "mark" /\ Quiet
    BY <1>18 DEF Mark
  <2>2. CASE ~Fenced(p, j)
    BY <1>8, <2>1, <2>2
  <2>3. CASE Fenced(p, j)
    <3> DEFINE b == [a EXCEPT !.pc = "act",
                              !.intent = IF a.plan \in Entry THEN a.plan ELSE @,
                              !.acted = IF a.plan \in Entry THEN @ ELSE a.plan]
               h == Marked(j, a.plan)[j]
    <3>1. /\ b.pc = "act" /\ b.plan = a.plan /\ b.origin = a.origin /\ b.error = a.error
          /\ b.intent = (IF a.plan \in Entry THEN a.plan ELSE a.intent)
          /\ b.acted = (IF a.plan \in Entry THEN a.acted ELSE a.plan)
      BY <1>2 DEF Attempts
    <3>2. job'[j] = h /\ Become(p, j, b)
      BY <1>18, <2>3 DEF Mark
    <3>3. /\ h.status = k.status /\ h.by = k.by
          /\ h.acted = (IF a.plan \in Entry THEN k.acted ELSE a.plan)
          /\ h.intent = (IF a.plan \in Entry THEN a.plan ELSE k.intent)
      BY <1>17
    <3> HIDE DEF b, h
    <3>4. Alone(j, k, a, R, n) => Marks(h, b)
      BY <1>4, <2>1, <3>1, <3>3 DEF Alone, Marks
    <3>5. Alone(j, k, a, R, n) /\ n # 0 => b.acted = h.acted /\ b.acted \in Act
      BY <1>4, <2>1, <3>1, <3>3 DEF Alone, Marks, Knows, Repeats, Act
    <3>6. Alone(j, k, a, R, n) /\ n # 0 => Noted(j, h, R)
      BY <3>3, <3>5 DEF Alone, Noted
    <3>7. Alone(j, k, a, R, n) /\ n # 0 => Knows(j, h, b, R)
      BY <1>4, <2>1, <3>1, <3>3, <3>5 DEF Alone, Knows, Repeats
    <3> QED
      BY <1>5, <2>1, <2>3, <3>1, <3>2, <3>3, <3>4, <3>6, <3>7 DEF Quiet, Alone, Fenced
  <2> QED
    BY <2>2, <2>3
<1>19. ASSUME NEW error \in {"transient", "terminal"}, Fails(p, j, error), Quiet,
              a.pc \in {"mark", "hook", "tool"}, NEW h, job'[j] = h, h.by = k.by,
              h = k \/ (a.pc = "mark" /\ h = Marked(j, a.plan)[j])
       PROVE  ActInv'
  <2> DEFINE b == [a EXCEPT !.pc = "failure", !.error = error]
  <2>1. /\ b.pc = "failure" /\ b.error = error /\ b.acted = a.acted /\ b.intent = a.intent
        /\ b.plan = a.plan /\ b.origin = a.origin
    BY <1>2 DEF Attempts
  <2>2. Become(p, j, b)
    BY <1>19 DEF Fails
  <2> HIDE DEF b
  <2>3. h.status = k.status
    BY <1>17, <1>19
  <2>4. Alone(j, k, a, R, n) => Marks(h, b)
    BY <1>19, <2>1 DEF Alone, Marks
  <2>5. Alone(j, k, a, R, n) /\ n # 0 => a.acted \in Act
    BY <1>4, <1>19 DEF Alone, Marks, Knows
  <2>6. Alone(j, k, a, R, n) /\ n # 0 /\ a.pc = "mark" => Marked(j, a.plan)[j].acted \in Act
    BY <1>4, <1>17, <2>5 DEF Alone, Marks, Knows, Act
  <2>7. Alone(j, k, a, R, n) /\ n # 0 => Noted(j, h, R)
    BY <1>19, <2>3, <2>6 DEF Alone, Noted
  <2>8. Alone(j, k, a, R, n) /\ n # 0 => Knows(j, h, b, R)
    BY <1>19, <2>1, <2>5 DEF Knows
  <2> QED
    BY <1>5, <1>19, <2>1, <2>2, <2>3, <2>4, <2>7, <2>8 DEF Quiet, Alone, Fenced
<1>20. CASE MarkRaises(p, j)
  <2>1. job'[j] = k \/ job'[j] = Marked(j, a.plan)[j]
    BY <1>20 DEF MarkRaises
  <2> QED
    BY <1>17, <1>19, <1>20, <2>1 DEF MarkRaises
<1>21. CASE CancelAll(p, j)
  <2>1. /\ a.pc = "act" /\ a.plan = "cancel" /\ Quiet /\ job' = job
    BY <1>21 DEF CancelAll
  <2>2. CASE GoTo(p, j, "finish")
    BY <1>4, <1>15, <2>1, <2>2
  <2>3. ASSUME NEW plan \in {"start"} \cup open, Plan(p, j, plan) PROVE ActInv'
    <3> DEFINE b == [a EXCEPT !.pc = "mark", !.plan = plan]
    <3>1. /\ b.pc = "mark" /\ b.plan = plan /\ b.acted = a.acted /\ b.intent = a.intent
      BY <1>2 DEF Attempts
    <3>2. Become(p, j, b)
      BY <2>3 DEF Plan
    <3> HIDE DEF b
    <3>3. Alone(j, k, a, R, n) => Marks(k, b)
      BY <1>4, <2>1, <3>1 DEF Alone, Marks
    <3>4. Alone(j, k, a, R, n) => n = 0
      BY <1>4, <2>1 DEF Alone, Knows
    <3> QED
      BY <1>6, <2>1, <3>1, <3>2, <3>3, <3>4 DEF Alone
  <2> QED
    BY <1>21, <2>2, <2>3 DEF CancelAll
<1>22. ASSUME a.pc # "ended", job' = job, NEW b, Become(p, j, b), b.pc # "ended",
              open' \subseteq open,
              Alone(j, k, a, R, n) =>
                Marks(k, b) /\ Noted(j, k, Resolved') /\ Knows(j, k, b, Resolved'),
              Alone(j, k, a, R, n) /\ j \notin CrashResume => n = 0,
              CountAct(j, TRUE)
       PROVE  ActInv'
  <2>1. attempt'[p][j] = b
    BY <1>3, <1>22
  <2>2. /\ actors[j] \in Nat /\ recent[j] \in Nat
        /\ actors'[j] = actors[j] + 1 /\ recent'[j] = recent[j] + 1
    BY <1>22 DEF CountAct, HookTypeOK
  <2> QED
    BY <1>1, <1>22, <2>1, <2>2, AloneKeeps DEF Live, Alone, Fenced
<1>23. ASSUME a.pc # "ended", job' = job, NEW b, Become(p, j, b), b.pc # "ended",
              open' \subseteq open,
              Alone(j, k, a, R, n) => Marks(k, b) /\ (Knows(j, k, a, R) => Knows(j, k, b, Resolved')),
              actors'[j] = actors[j] /\ recent'[j] = recent[j]
       PROVE  ActInv'
  <2>1. attempt'[p][j] = b
    BY <1>3, <1>23
  <2>2. Noted(j, k, R) => Noted(j, k, Resolved')
    <3>1. R \subseteq Resolved'
      BY <1>23 DEF Resolved
    <3> QED
      BY <3>1, MoreResolved
  <2> QED
    BY <1>1, <1>23, <2>1, <2>2, AloneKeeps DEF Live, Alone, Fenced
<1>24. CASE RunStart(p, j)
  <2> DEFINE b == [a EXCEPT !.pc = "tool"]
  <2>1. /\ a.pc = "act" /\ a.plan = "start" /\ job' = job /\ open' = open
        /\ CountAct(j, TRUE) /\ Become(p, j, b)
    BY <1>24 DEF RunStart, GoTo
  <2>2. /\ b.pc = "tool" /\ b.acted = a.acted /\ b.intent = a.intent /\ b.plan = a.plan
    BY <1>2 DEF Attempts
  <2> HIDE DEF b
  <2>3. Resolved' = R
    BY <2>1 DEF Resolved
  <2>4. Alone(j, k, a, R, n) => a.acted = "start" /\ a.intent = "none" /\ k.acted = "start"
    BY <1>4, <2>1 DEF Alone, Marks
  <2>5. Alone(j, k, a, R, n) => Marks(k, b) /\ Noted(j, k, R) /\ Knows(j, k, b, R)
    BY <2>1, <2>2, <2>4 DEF Alone, Marks, Noted, Knows, Act
  <2>6. Alone(j, k, a, R, n) /\ j \notin CrashResume => n = 0
    BY <1>4, <2>1 DEF Alone, Knows, Repeats
  <2> QED
    BY <1>22, <2>1, <2>2, <2>3, <2>5, <2>6
<1>25. CASE ClaimEntry(p, j) \/ ClaimRaises(p, j)
  <2>1. a.pc = "act" /\ a.plan \in Entry /\ job' = job
    BY <1>4, <1>25 DEF ClaimEntry, ClaimRaises
  <2>2. Alone(j, k, a, R, n) =>
          /\ k.acted = a.acted /\ a.intent = a.plan /\ k.intent = a.plan /\ a.acted # "start"
          /\ n # 0 => a.acted = "claim"
    BY <1>4, <2>1 DEF Alone, Marks, Knows
  <2>3. CASE a.plan \notin open
    <3> DEFINE b == [a EXCEPT !.pc = "failure", !.error = "gone"]
    <3>1. /\ b.pc = "failure" /\ b.error = "gone" /\ b.acted = a.acted /\ b.intent = a.intent
      BY <1>2 DEF Attempts
    <3>2. Become(p, j, b) /\ Quiet
      BY <1>25, <2>3 DEF ClaimEntry, ClaimRaises, Fails, Quiet
    <3> HIDE DEF b
    <3>3. Alone(j, k, a, R, n) => Marks(k, b)
      BY <2>2, <3>1 DEF Marks
    <3>4. Alone(j, k, a, R, n) /\ n # 0 => Knows(j, k, b, R)
      BY <2>2, <3>1 DEF Knows, Act
    <3> QED
      BY <1>6, <2>1, <3>1, <3>2, <3>3, <3>4 DEF Alone
  <2>4. CASE a.plan \in open
    <3>1. /\ open' = open \ {a.plan} /\ CountAct(j, a.acted # "claim")
          /\ GoTo(p, j, "commit") \/ Fails(p, j, "transient")
      BY <1>25, <2>4 DEF ClaimEntry, ClaimRaises
    <3>2. PICK b : /\ Become(p, j, b) /\ b.acted = a.acted /\ b.intent = a.intent
                   /\ b.plan = a.plan
                   /\ b.pc = "commit" \/ (b.pc = "failure" /\ b.error = "transient")
      <4>1. LET b == [a EXCEPT !.pc = "commit"]
            IN  b.acted = a.acted /\ b.intent = a.intent /\ b.plan = a.plan /\ b.pc = "commit"
        BY <1>2 DEF Attempts
      <4>2. LET b == [a EXCEPT !.pc = "failure", !.error = "transient"]
            IN  /\ b.acted = a.acted /\ b.intent = a.intent /\ b.plan = a.plan
                /\ b.pc = "failure" /\ b.error = "transient"
        BY <1>2 DEF Attempts
      <4> QED
        BY <3>1, <4>1, <4>2 DEF GoTo, Fails
    <3>3. a.plan \in Resolved' /\ open' \subseteq open
      BY <2>1, <3>1 DEF Resolved
    <3>4. Alone(j, k, a, R, n) => Marks(k, b)
      BY <2>1, <2>2, <3>2 DEF Marks
    <3>5. Alone(j, k, a, R, n) => Knows(j, k, b, Resolved')
      BY <2>1, <2>2, <3>2, <3>3 DEF Knows
    <3>6. Alone(j, k, a, R, n) => Noted(j, k, Resolved')
      BY <2>2, <3>3 DEF Alone, Noted
    <3>7. CASE a.acted = "claim"
      <4>1. actors'[j] = actors[j] /\ recent'[j] = recent[j]
        BY <3>1, <3>7 DEF CountAct, HookTypeOK
      <4> QED
        BY <1>23, <2>1, <3>2, <3>3, <3>4, <3>5, <4>1
    <3>8. CASE a.acted # "claim"
      BY <1>22, <2>1, <2>2, <3>1, <3>2, <3>3, <3>4, <3>5, <3>6, <3>8
    <3> QED
      BY <3>7, <3>8
  <2> QED
    BY <2>3, <2>4
<1>26. CASE Commit(p, j)
  <2> DEFINE c == [a EXCEPT !.acted = "claim", !.intent = "none"]
             b == [c EXCEPT !.pc = "tool"]
             h == [k EXCEPT !.acted = "claim", !.intent = "none"]
  <2>1. a.pc = "commit" /\ Quiet
    <3>1. c.pc = a.pc
      BY <1>2 DEF Attempts
    <3> QED
      BY <1>26, <3>1 DEF Commit
  <2>2. CASE ~Fenced(p, j)
    BY <1>8, <2>1, <2>2
  <2>3. CASE Fenced(p, j)
    <3>1. job'[j] = h /\ Become(p, j, b)
      BY <1>26, <2>3 DEF Commit, HookTypeOK
    <3>2. b.pc = "tool" /\ b.acted = "claim" /\ b.intent = "none"
      BY <1>2 DEF Attempts
    <3>3. h.status = k.status /\ h.by = k.by /\ h.acted = "claim" /\ h.intent = "none"
      BY <1>2 DEF Jobs
    <3> HIDE DEF b, h
    <3>4. Marks(h, b) /\ Knows(j, h, b, R) /\ (k.status = "running" => Noted(j, h, R))
      BY <3>2, <3>3 DEF Marks, Knows, Noted, Act
    <3> QED
      BY <1>5, <2>1, <2>3, <3>1, <3>2, <3>3, <3>4 DEF Quiet, Alone, Fenced
  <2> QED
    BY <2>2, <2>3
<1>27. CASE CommitRaises(p, j)
  <2> DEFINE c == [a EXCEPT !.acted = "claim", !.intent = "none"]
             b == [c EXCEPT !.pc = "failure", !.error = "transient"]
  <2>1. a.pc = "commit" /\ Quiet /\ job' = job /\ Become(p, j, b)
    <3>1. c.pc = a.pc
      BY <1>2 DEF Attempts
    <3> QED
      BY <1>27, <3>1 DEF CommitRaises
  <2>2. b.pc = "failure" /\ b.error = "transient" /\ b.acted = "claim" /\ b.intent = "none"
    BY <1>2 DEF Attempts
  <2> HIDE DEF b
  <2>3. Marks(k, b) /\ Knows(j, k, b, R)
    BY <2>2 DEF Marks, Knows, Act
  <2> QED
    BY <1>6, <2>1, <2>2, <2>3 DEF Alone
<1>28. CASE ToolReturns(p, j)
  <2>1. a.pc = "tool" /\ Quiet /\ job' = job
    BY <1>28 DEF ToolReturns
  <2>2. CASE GoTo(p, j, "finish")
    BY <1>15, <2>1, <2>2
  <2>3. ASSUME a.plan \in Entry, NEW e \in open, Plan(p, j, e) PROVE ActInv'
    <3> DEFINE b == [a EXCEPT !.pc = "mark", !.plan = e]
    <3>1. /\ b.pc = "mark" /\ b.plan = e /\ b.acted = a.acted /\ b.intent = a.intent
      BY <1>2 DEF Attempts
    <3>2. Become(p, j, b)
      BY <2>3 DEF Plan
    <3> HIDE DEF b
    <3>3. Alone(j, k, a, R, n) => a.acted # "start"
      BY <1>4, <2>1, <2>3 DEF Alone, Marks
    <3>4. Alone(j, k, a, R, n) => Marks(k, b)
      BY <2>1, <3>1, <3>3 DEF Alone, Marks
    <3>5. Alone(j, k, a, R, n) /\ n # 0 => Knows(j, k, b, R)
      BY <1>4, <2>1, <3>1, <3>3 DEF Alone, Knows, Repeats
    <3> QED
      BY <1>6, <2>1, <3>1, <3>2, <3>4, <3>5 DEF Alone
  <2> QED
    BY <1>28, <2>2, <2>3 DEF ToolReturns
<1>29. CASE HookRaises(p, j)
  BY <1>19, <1>29 DEF HookRaises
<1>30. CASE OnFailure(p, j)
  <2>1. a.pc = "failure" /\ Quiet
    BY <1>30 DEF OnFailure
  <2>2. CASE a.intent = "none"
    <3>1. Alone(j, k, a, R, n) => Alone(j, k, [a EXCEPT !.pc = "classify"], R, n)
      BY <1>2, <2>1, <2>2 DEF Attempts, Alone, Marks, Knows, Repeats
    <3> QED
      BY <1>9, <1>30, <2>1, <2>2, <3>1 DEF OnFailure
  <2>3. CASE a.intent # "none" /\ a.error # "gone"
    <3>1. Alone(j, k, a, R, n) => Alone(j, k, [a EXCEPT !.pc = "settle"], R, n)
      BY <1>2, <2>1, <2>3 DEF Attempts, Alone, Marks, Knows, Repeats
    <3> QED
      BY <1>9, <1>30, <2>1, <2>3, <3>1 DEF OnFailure
  <2>4. CASE ~Fenced(p, j)
    BY <1>8, <2>1, <2>4
  <2>5. CASE a.intent # "none" /\ a.error = "gone" /\ Fenced(p, j)
    <3> DEFINE b == [a EXCEPT !.pc = "classify", !.intent = "none"]
               h == [k EXCEPT !.intent = "none"]
    <3>1. Become(p, j, b) /\ job'[j] = h
      BY <1>30, <2>5 DEF OnFailure, HookTypeOK
    <3>2. b.pc = "classify" /\ b.intent = "none" /\ b.acted = a.acted
      BY <1>2 DEF Attempts
    <3>3. h.status = k.status /\ h.by = k.by /\ h.acted = k.acted /\ h.intent = "none"
      BY <1>2 DEF Jobs
    <3> HIDE DEF b, h
    <3>4. Marks(h, b)
      BY <3>2 DEF Marks
    <3>5. Alone(j, k, a, R, n) /\ n # 0 => k.acted \in Act /\ a.acted \in Act
      BY <2>1, <2>5 DEF Alone, Marks, Knows
    <3>6. Alone(j, k, a, R, n) /\ n # 0 => Noted(j, h, R) /\ Knows(j, h, b, R)
      BY <3>2, <3>3, <3>5 DEF Alone, Noted, Knows
    <3> QED
      BY <1>5, <2>1, <2>5, <3>1, <3>2, <3>3, <3>4, <3>6 DEF Quiet, Alone, Fenced
  <2> QED
    BY <2>2, <2>3, <2>4, <2>5
<1>31. CASE Classify(p, j)
  <2>1. a.pc = "classify" /\ Quiet /\ job' = job
    BY <1>31 DEF Classify
  <2>2. CASE GoTo(p, j, "fail")
    <3>1. Alone(j, k, a, R, n) => Alone(j, k, [a EXCEPT !.pc = "fail"], R, n)
      BY <1>2, <2>1 DEF Attempts, Alone, Marks, Knows, Repeats
    <3> QED
      BY <1>9, <2>1, <2>2, <3>1 DEF Verdict
  <2>3. CASE a.acted = "none" /\ GoTo(p, j, "reschedule")
    <3>1. Alone(j, k, a, R, n) => Alone(j, k, [a EXCEPT !.pc = "reschedule"], R, n)
      BY <1>2, <2>1, <2>3 DEF Attempts, Alone, Marks, Knows, Repeats, Act
    <3> QED
      BY <1>9, <2>1, <2>3, <3>1 DEF Verdict
  <2> QED
    BY <1>31, <2>2, <2>3 DEF Classify
<1>32. CASE Record(p, j)
  <2>1. a.pc \in Verdict /\ a.pc # "ended" /\ Quiet /\ Become(p, j, Ended)
    BY <1>32 DEF Record, Verdict, End
  <2>2. CASE ~Fenced(p, j)
    BY <1>8, <2>1, <2>2
  <2>3. CASE Fenced(p, j)
    <3> DEFINE free == [k EXCEPT !.by = Nobody, !.lapsed = FALSE]
               h == CASE a.pc = "finish" -> [free EXCEPT !.status = "done"]
                      [] a.pc = "fail" -> [free EXCEPT !.status = "failed", !.acted = a.acted,
                                                       !.intent = a.intent]
                      [] OTHER -> [free EXCEPT !.status = "pending"]
    <3>1. job'[j] = h
      BY <1>32, <2>3 DEF Record, HookTypeOK
    <3>2. free.acted = k.acted /\ free.intent = k.intent
      BY <1>2 DEF Jobs
    <3>3. /\ a.pc = "finish" => h.status = "done"
          /\ a.pc = "fail" => h.status = "failed" /\ h.acted = a.acted /\ h.intent = a.intent
          /\ a.pc \notin {"finish", "fail"} =>
               h.status = "pending" /\ h.acted = k.acted /\ h.intent = k.intent
      BY <1>2 DEF Jobs
    <3> HIDE DEF h
    <3>4. CASE a.pc = "finish"
      BY <1>2, <1>5, <2>1, <3>1, <3>3, <3>4 DEF Quiet, Noted
    <3>5. CASE a.pc = "fail"
      <4>1. Alone(j, k, a, R, n) /\ n # 0 => Noted(j, h, R)
        BY <1>4, <3>3, <3>5 DEF Alone, Noted, Knows, Act
      <4> QED
        BY <1>2, <1>5, <2>1, <3>1, <4>1 DEF Quiet
    <3>6. CASE a.pc \in {"reschedule", "release"}
      <4>1. Alone(j, k, a, R, n) /\ n # 0 => Noted(j, h, R)
        BY <3>3, <3>6 DEF Alone, Noted, Knows, Marks, Repeats
      <4> QED
        BY <1>2, <1>5, <2>1, <3>1, <4>1 DEF Quiet
    <3> QED
      BY <2>1, <3>4, <3>5, <3>6 DEF Verdict
  <2> QED
    BY <2>2, <2>3
<1>33. CASE RecordRaises(p, j)
  BY <1>7, <1>33 DEF RecordRaises, Verdict, End
<1>34. CASE Interrupt(p, j)
  <2> DEFINE b == [a EXCEPT !.error = "interrupt",
                            !.pc = IF a.intent # "none" THEN "settle" ELSE "dispose"]
  <2>1. /\ a.pc \in {"begin", "hook", "mark", "act", "commit", "tool"}
        /\ Quiet /\ job' = job /\ Become(p, j, b)
    BY <1>34 DEF Interrupt
  <2>2. /\ b.pc = (IF a.intent # "none" THEN "settle" ELSE "dispose") /\ b.error = "interrupt"
        /\ b.acted = a.acted /\ b.intent = a.intent /\ b.plan = a.plan
    BY <1>2 DEF Attempts
  <2> HIDE DEF b
  <2>3. Alone(j, k, a, R, n) => Marks(k, b)
    BY <2>1, <2>2 DEF Alone, Marks
  <2>4. Alone(j, k, a, R, n) /\ n # 0 => Knows(j, k, b, R)
    BY <1>4, <2>1, <2>2 DEF Alone, Knows
  <2> QED
    BY <1>6, <2>1, <2>2, <2>3, <2>4 DEF Alone
<1> QED
  BY <1>10, <1>11, <1>12, <1>13, <1>16, <1>18, <1>20, <1>21, <1>24, <1>25, <1>26, <1>27, <1>28,
     <1>29, <1>30, <1>31, <1>32, <1>33, <1>34 DEF AttemptStep

(***************************************************************************)
(* A job none of whose attempts is live begins one more, or none.          *)
(***************************************************************************)
LEMMA AcceptActs ==
  ASSUME HookTypeOK, ActInv, NEW p \in Process, NEW j \in HookJob, Accept(p, j)
  PROVE  ActInv'
<1>1. /\ stale' = stale /\ open' = open /\ actors' = actors /\ recent' = recent
      /\ retried' = retried
  BY DEF Accept, Quiet
<1>2. \A i \in HookJob \ {j} : job'[i] = job[i] /\ \A q \in Process : attempt'[q][i] = attempt[q][i]
  BY DEF Accept, Become, HookTypeOK
<1>3. ASSUME NEW i \in HookJob \ stale, i # j PROVE ActsAlone(i)'
  BY <1>1, <1>2, <1>3, OtherJobsAct DEF ActInv
<1>4. ASSUME j \notin stale PROVE ActsAlone(j)'
  <2>1. ActsAlone(j) /\ job[j].status = "absent"
    BY <1>4 DEF ActInv, Accept
  <2>2. recent[j] = 0 /\ \A q \in Process : ~Live(q, j)
    BY <2>1 DEF ActsAlone, Noted, Fenced
  <2>3. CASE attempt' = attempt
    BY <1>1, <2>1, <2>2, <2>3 DEF ActsAlone, Live
  <2>4. CASE /\ job' = [job EXCEPT ![j].status = "running", ![j].by = p, ![j].attempts = 1]
             /\ Become(p, j, Attempt("pending", j, 1))
    <3> DEFINE h == [job[j] EXCEPT !.status = "running", !.by = p, !.attempts = 1]
    <3>1. job'[j] = h
      BY <2>4 DEF HookTypeOK
    <3>2. h.status = "running" /\ h.by = p /\ h.acted = job[j].acted
      BY DEF HookTypeOK, Jobs
    <3> HIDE DEF h
    <3>3. /\ attempt'[p][j] = Attempt("pending", j, 1)
          /\ \A q \in Process \ {p} : attempt'[q][j] = attempt[q][j]
      BY <2>4 DEF Become, HookTypeOK
    <3>4. Attempt("pending", j, 1).pc = "begin" /\ Attempt("pending", j, 1).acted = job[j].acted
      BY DEF Attempt, Ended
    <3>5. Attempt("pending", j, 1).intent = job[j].intent
      BY DEF Attempt, Ended
    <3>6. Marks(h, Attempt("pending", j, 1))
      BY <3>2, <3>4 DEF Marks
    <3> QED
      BY <1>1, <2>1, <2>2, <3>1, <3>2, <3>3, <3>6 DEF ActsAlone, Live, Fenced
  <2> QED
    BY <2>3, <2>4 DEF Accept
<1> QED
  BY <1>1, <1>3, <1>4 DEF ActInv

LEMMA ClaimDueActs ==
  ASSUME HookTypeOK, ActInv, NEW p \in Process, NEW j \in HookJob, ClaimDue(p, j)
  PROVE  ActInv'
<1> DEFINE a == Attempt(job[j].status, j, job[j].attempts + 1)
           h == [job[j] EXCEPT !.status = "running", !.by = p, !.lapsed = FALSE,
                               !.attempts = @ + 1]
<1>1. /\ open' = open /\ actors' = actors /\ recent' = recent /\ retried' = retried
  BY DEF ClaimDue
<1>2. stale \subseteq stale' /\ (j \notin stale' => \A q \in Process : ~Live(q, j))
  BY DEF ClaimDue
<1>3. \A i \in HookJob \ {j} : job'[i] = job[i] /\ \A q \in Process : attempt'[q][i] = attempt[q][i]
  BY DEF ClaimDue, Become, HookTypeOK
<1>4. ASSUME NEW i \in HookJob \ stale', i # j PROVE ActsAlone(i)'
  BY <1>1, <1>2, <1>3, <1>4, OtherJobsAct DEF ActInv
<1>5. ASSUME j \notin stale' PROVE ActsAlone(j)'
  <2>1. ActsAlone(j) /\ \A q \in Process : ~Live(q, j)
    BY <1>2, <1>5 DEF ActInv
  <2>2. job'[j] = h
    BY DEF ClaimDue, HookTypeOK
  <2>3. h.status = "running" /\ h.by = p /\ h.acted = job[j].acted /\ h.intent = job[j].intent
    BY DEF HookTypeOK, Jobs
  <2>4. attempt'[p][j] = a /\ \A q \in Process \ {p} : attempt'[q][j] = attempt[q][j]
    BY DEF ClaimDue, Become, HookTypeOK
  <2>5. /\ a.pc = "begin" /\ a.acted = job[j].acted /\ a.intent = job[j].intent
        /\ a.origin = job[j].status
    BY DEF Attempt, Ended
  <2> HIDE DEF a, h
  <2>6. job[j].status \in {"pending", "running"}
    BY DEF ClaimDue
  <2>7. Marks(h, a)
    BY <2>3, <2>5 DEF Marks
  <2>8. Noted(j, job[j], Resolved) => Noted(j, h, Resolved)
    BY <2>3, <2>6 DEF Noted
  <2>9. Noted(j, job[j], Resolved) => Knows(j, h, a, Resolved)
    BY <2>3, <2>5, <2>6 DEF Noted, Knows, Repeats
  <2>10. Resolved' = Resolved
    BY <1>1 DEF Resolved
  <2>11. \A q \in Process : Live(q, j)' => q = p
    BY <2>1, <2>4 DEF Live
  <2> QED
    BY <1>1, <2>1, <2>2, <2>3, <2>4, <2>7, <2>8, <2>9, <2>10, <2>11 DEF ActsAlone, Fenced
<1> QED
  BY <1>4, <1>5 DEF ActInv

LEMMA RetryActs ==
  ASSUME HookTypeOK, ActInv, NEW p \in Process, NEW j \in HookJob, RetryRun(p, j)
  PROVE  ActInv'
<1> DEFINE kept == IF job[j].acted = "start" THEN "start" ELSE "none"
<1>1. /\ open' = open /\ actors' = actors
      /\ \A i \in HookJob \ {j} : recent'[i] = recent[i] /\ retried'[i] = retried[i]
      /\ recent'[j] = 0 /\ retried'[j] = retried[j] + 1
  BY DEF RetryRun, HookTypeOK
<1>2. stale \subseteq stale' /\ (j \notin stale' => \A q \in Process : ~Live(q, j))
  BY DEF RetryRun
<1>3. \A i \in HookJob \ {j} : job'[i] = job[i] /\ \A q \in Process : attempt'[q][i] = attempt[q][i]
  BY DEF RetryRun, HookTypeOK
<1>4. ASSUME NEW i \in HookJob \ stale', i # j PROVE ActsAlone(i)'
  BY <1>1, <1>2, <1>3, <1>4, OtherJobsAct DEF ActInv
<1>5. ASSUME j \notin stale' PROVE ActsAlone(j)'
  <2>1. ActsAlone(j) /\ \A q \in Process : ~Live(q, j)
    BY <1>2, <1>5 DEF ActInv
  <2>2. actors[j] \in Nat /\ recent[j] \in Nat /\ retried[j] \in Nat
    BY DEF HookTypeOK
  <2>3. j \notin CrashResume => actors'[j] <= retried'[j] + recent'[j] /\ recent'[j] <= 1
    BY <1>1, <2>1, <2>2 DEF ActsAlone
  <2>4. CASE attempt' = attempt
    BY <1>1, <2>1, <2>3, <2>4 DEF ActsAlone, Live
  <2>5. CASE attempt' # attempt
    <3> DEFINE h == [status |-> "running", attempts |-> 1, by |-> p, lapsed |-> FALSE,
                     acted |-> kept, intent |-> "none"]
    <3>1. PICK b \in Attempts : /\ b.pc = "begin" /\ b.intent = "none" /\ b.acted = kept
                                /\ Become(p, j, b)
      BY <2>5, RetryBegins
    <3>2. job'[j] = h
      BY <2>5 DEF RetryRun, HookTypeOK
    <3>3. Marks(h, b)
      BY <3>1 DEF Marks
    <3>4. attempt'[p][j] = b /\ \A q \in Process \ {p} : attempt'[q][j] = attempt[q][j]
      BY <3>1 DEF Become, HookTypeOK
    <3>5. \A q \in Process : Live(q, j)' => q = p
      BY <2>1, <3>4 DEF Live
    <3> QED
      BY <1>1, <2>3, <3>2, <3>3, <3>4, <3>5 DEF ActsAlone, Fenced
  <2> QED
    BY <2>4, <2>5
<1> QED
  BY <1>4, <1>5 DEF ActInv

(***************************************************************************)
(* The steps that touch no attempt, and neither the holder of a job under  *)
(* way nor what it notes.                                                  *)
(***************************************************************************)
LEMMA DoorActs ==
  ASSUME HookTypeOK, ActInv, attempt' = attempt, stale' = stale, open' \subseteq open,
         actors' = actors, recent' = recent, retried' = retried,
         \A i \in HookJob :
           /\ job'[i].by = job[i].by
           /\ job'[i].acted = job[i].acted /\ job'[i].intent = job[i].intent
           /\ \/ job'[i].status = job[i].status
              \/ job[i].status = "failed" /\ job'[i].status = "discarded"
  PROVE  ActInv'
<1>1. ASSUME NEW i \in HookJob \ stale PROVE ActsAlone(i)'
  <2>1. ActsAlone(i)
    BY <1>1 DEF ActInv
  <2>2. Resolved \subseteq Resolved'
    BY DEF Resolved
  <2>3. Noted(i, job[i], Resolved) => Noted(i, job'[i], Resolved')
    BY <1>1, <2>2 DEF Noted, Repeats
  <2>4. ASSUME NEW q \in Process, Live(q, i)'
        PROVE  /\ Fenced(q, i)' /\ Marks(job'[i], attempt[q][i])
               /\ Knows(i, job[i], attempt[q][i], Resolved) =>
                    Knows(i, job'[i], attempt[q][i], Resolved')
    <3>1. Fenced(q, i) /\ Marks(job[i], attempt[q][i])
      BY <1>1, <2>1, <2>4 DEF ActsAlone, Live
    <3>2. Fenced(q, i)'
      BY <1>1, <3>1 DEF Fenced
    <3>3. Marks(job'[i], attempt[q][i])
      BY <1>1, <3>1 DEF Marks
    <3>4. Knows(i, job[i], attempt[q][i], Resolved) => Knows(i, job'[i], attempt[q][i], Resolved')
      BY <1>1, <2>2 DEF Knows
    <3> QED
      BY <3>2, <3>3, <3>4
  <2> QED
    BY <2>1, <2>3, <2>4 DEF ActsAlone, Live
<1> QED
  BY <1>1 DEF ActInv

LEMMA CrashActs ==
  ASSUME HookTypeOK, ActInv, NEW p \in Process, ProcessDies(p)
  PROVE  ActInv'
<1>1. /\ stale' = stale /\ open' = open /\ actors' = actors /\ recent' = recent
      /\ retried' = retried
  BY DEF ProcessDies, Quiet
<1>2. /\ \A i \in HookJob : attempt'[p][i] = Ended
      /\ \A q \in Process \ {p} : attempt'[q] = attempt[q]
  BY DEF ProcessDies, HookTypeOK
<1>3. \A i \in HookJob : job'[i] = IF job[i].by = p THEN [job[i] EXCEPT !.by = "gone"] ELSE job[i]
  BY DEF ProcessDies
<1>4. ASSUME NEW i \in HookJob
      PROVE  /\ job'[i].status = job[i].status /\ job'[i].acted = job[i].acted
             /\ job'[i].intent = job[i].intent
             /\ job'[i].by = IF job[i].by = p THEN "gone" ELSE job[i].by
  BY <1>3, <1>4 DEF HookTypeOK, Jobs
<1>5. ASSUME NEW i \in HookJob \ stale PROVE ActsAlone(i)'
  <2>1. ActsAlone(i)
    BY <1>5 DEF ActInv
  <2>2. Resolved' = Resolved
    BY <1>1 DEF Resolved
  <2>3. Noted(i, job[i], Resolved) => Noted(i, job'[i], Resolved)
    BY <1>4, <1>5 DEF Noted, Repeats
  <2>4. ASSUME NEW q \in Process, Live(q, i)'
        PROVE  /\ Live(q, i) /\ Fenced(q, i)' /\ attempt'[q][i] = attempt[q][i]
               /\ Marks(job'[i], attempt[q][i])
               /\ Knows(i, job[i], attempt[q][i], Resolved) =>
                    Knows(i, job'[i], attempt[q][i], Resolved)
    <3>1. q # p
      BY <1>2, <1>5, <2>4 DEF Live, Ended
    <3>2. attempt'[q][i] = attempt[q][i] /\ Live(q, i)
      BY <1>2, <2>4, <3>1 DEF Live
    <3>3. Fenced(q, i) /\ Marks(job[i], attempt[q][i])
      BY <2>1, <3>2 DEF ActsAlone
    <3>4. Fenced(q, i)'
      BY <1>4, <1>5, <3>1, <3>3 DEF Fenced
    <3>5. Marks(job'[i], attempt[q][i])
      BY <1>4, <1>5, <3>3 DEF Marks
    <3>6. Knows(i, job[i], attempt[q][i], Resolved) => Knows(i, job'[i], attempt[q][i], Resolved)
      BY <1>4, <1>5 DEF Knows
    <3> QED
      BY <3>2, <3>4, <3>5, <3>6
  <2> QED
    BY <1>1, <2>1, <2>2, <2>3, <2>4 DEF ActsAlone
<1> QED
  BY <1>1, <1>5 DEF ActInv

-----------------------------------------------------------------------------
(***************************************************************************)
(* The steps together.                                                     *)
(***************************************************************************)
LEMMA InitTypes ==
  HookInit => HookTypeOK
<1> SUFFICES ASSUME HookInit PROVE HookTypeOK
  OBVIOUS
<1>1. Ended \in Attempts
  BY DEF Ended, Attempts, Acts
<1>2. [status |-> "absent", attempts |-> 0, by |-> Nobody, lapsed |-> FALSE,
       acted |-> "none", intent |-> "none"] \in Jobs
  BY DEF Jobs, Acts
<1>3. job \in [HookJob -> Jobs] /\ attempt \in [Process -> [HookJob -> Attempts]]
  BY <1>1, <1>2 DEF HookInit
<1> QED
  BY <1>3 DEF HookInit, HookTypeOK

LEMMA InitStarts ==
  HookInit => StartInv
<1> SUFFICES ASSUME HookInit PROVE StartInv
  OBVIOUS
<1>1. ASSUME NEW j \in HookJob PROVE Starting(j) = {}
  BY <1>1 DEF HookInit, Starting, Ended
<1>2. ASSUME NEW j \in HookJob
      PROVE  started[j] = 0 /\ retried[j] = 0 /\ Cardinality(Starting(j)) = 0
  BY <1>1, <1>2, FS_EmptySet DEF HookInit
<1> QED
  BY <1>2 DEF StartInv, Spent

LEMMA StepTypes ==
  ASSUME HookTypeOK, [HookNext]_hookVars
  PROVE  HookTypeOK'
<1>1. /\ job \in [HookJob -> Jobs] /\ attempt \in [Process -> [HookJob -> Attempts]]
      /\ open \subseteq Entry /\ stale \subseteq HookJob
      /\ started \in [HookJob -> Nat] /\ actors \in [HookJob -> Nat]
      /\ recent \in [HookJob -> Nat] /\ retried \in [HookJob -> Nat]
  BY DEF HookTypeOK
<1>2. Ended \in Attempts
  BY DEF Ended, Attempts, Acts
<1>3. ASSUME NEW j \in HookJob, NEW n \in Nat, NEW origin \in {"pending", "running"}
      PROVE  Attempt(origin, j, n) \in Attempts
  <2>1. job[j].acted \in Acts /\ job[j].intent \in Entry \cup {"none"}
    BY <1>1 DEF Jobs
  <2> QED
    BY <1>2, <2>1 DEF Attempt, Attempts
<1>4. ASSUME NEW p \in Process, NEW j \in HookJob, Accept(p, j) PROVE HookTypeOK'
  <2>1. job' \in [HookJob -> Jobs]
    <3>1. CASE job' = [job EXCEPT ![j].status = "running", ![j].by = p, ![j].attempts = 1]
      <4> DEFINE k == [job[j] EXCEPT !.status = "running", !.by = p, !.attempts = 1]
      <4>1. k \in Jobs
        BY <1>1 DEF Jobs
      <4>2. job' = [job EXCEPT ![j] = k]
        BY <1>1, <3>1
      <4> QED
        BY <1>1, <4>1, <4>2
    <3>2. CASE job' = [job EXCEPT ![j].status = "pending"]
      BY <1>1, <3>2 DEF Jobs
    <3> QED
      BY <1>4, <3>1, <3>2 DEF Accept
  <2>2. attempt' \in [Process -> [HookJob -> Attempts]]
    BY <1>1, <1>3, <1>4 DEF Accept, Become
  <2> QED
    BY <1>1, <1>4, <2>1, <2>2 DEF Accept, Quiet, HookTypeOK
<1>5. ASSUME NEW p \in Process, NEW j \in HookJob, ClaimDue(p, j) PROVE HookTypeOK'
  <2>1. job' \in [HookJob -> Jobs]
    BY <1>1, <1>5 DEF ClaimDue, Jobs
  <2>2. job[j].attempts + 1 \in Nat
    BY <1>1 DEF Jobs
  <2>3. attempt' \in [Process -> [HookJob -> Attempts]]
    <3>1. Attempt(job[j].status, j, job[j].attempts + 1) \in Attempts
      BY <1>3, <1>5, <2>2 DEF ClaimDue
    <3> QED
      BY <1>1, <1>5, <3>1 DEF ClaimDue, Become
  <2> QED
    BY <1>1, <1>5, <2>1, <2>3 DEF ClaimDue, HookTypeOK
<1>6. ASSUME NEW p \in Process, NEW j \in HookJob, RetryRun(p, j) PROVE HookTypeOK'
  <2> DEFINE kept == IF job[j].acted = "start" THEN "start" ELSE "none"
  <2>1. job' \in [HookJob -> Jobs]
    <3>1. \A n \in Nat, status \in {"pending", "running"}, by \in Process \cup {Nobody} :
            [status |-> status, attempts |-> n, by |-> by, lapsed |-> FALSE,
             acted |-> kept, intent |-> "none"] \in Jobs
      BY DEF Jobs, Acts
    <3> HIDE DEF kept
    <3>2. \E k \in Jobs : job' = [job EXCEPT ![j] = k]
      BY <1>6, <3>1 DEF RetryRun, kept
    <3> QED
      BY <1>1, <3>2
  <2>2. attempt' \in [Process -> [HookJob -> Attempts]]
    BY <1>1, <1>6, RetryBegins DEF Become
  <2> QED
    BY <1>1, <1>6, <2>1, <2>2 DEF RetryRun, HookTypeOK
<1>7. ASSUME NEW p \in Process, NEW j \in HookJob, AttemptStep(p, j) PROVE HookTypeOK'
  BY <1>7, AttemptShape, ShapeTypes
<1>8. ASSUME NEW p \in Process, NEW j \in HookJob, Renew(p, j) PROVE HookTypeOK'
  BY <1>1, <1>8 DEF Renew, Quiet, HookTypeOK, Jobs
<1>9. ASSUME NEW j \in HookJob, DiscardRun(j) PROVE HookTypeOK'
  BY <1>1, <1>9 DEF DiscardRun, Quiet, HookTypeOK, Jobs
<1>10. ASSUME NEW j \in HookJob, HookLeaseLapses(j) PROVE HookTypeOK'
  BY <1>1, <1>10 DEF HookLeaseLapses, Quiet, HookTypeOK, Jobs
<1>11. ASSUME NEW e \in Entry, OtherDoor(e) PROVE HookTypeOK'
  BY <1>1, <1>11 DEF OtherDoor, HookTypeOK
<1>12. ASSUME NEW p \in Process, ProcessDies(p) PROVE HookTypeOK'
  <2>1. job' \in [HookJob -> Jobs]
    <3>1. \A k \in Jobs : [k EXCEPT !.by = "gone"] \in Jobs
      BY DEF Jobs
    <3> QED
      BY <1>1, <1>12, <3>1 DEF ProcessDies
  <2>2. attempt' \in [Process -> [HookJob -> Attempts]]
    BY <1>1, <1>2, <1>12 DEF ProcessDies
  <2> QED
    BY <1>1, <1>12, <2>1, <2>2 DEF ProcessDies, Quiet, HookTypeOK
<1>13. CASE UNCHANGED hookVars
  BY <1>13 DEF hookVars, HookTypeOK
<1> QED
  BY <1>4, <1>5, <1>6, <1>7, <1>8, <1>9, <1>10, <1>11, <1>12, <1>13 DEF HookNext

LEMMA StepStarts ==
  ASSUME HookTypeOK, StartInv, [HookNext]_hookVars
  PROVE  StartInv'
<1>1. ASSUME NEW p \in Process, NEW j \in HookJob, Renew(p, j) PROVE StartInv'
  BY <1>1, DoorStarts DEF Renew, Quiet, HookTypeOK, Jobs
<1>2. ASSUME NEW j \in HookJob, DiscardRun(j) PROVE StartInv'
  BY <1>2, DoorStarts DEF DiscardRun, Quiet, HookTypeOK, Jobs
<1>3. ASSUME NEW j \in HookJob, HookLeaseLapses(j) PROVE StartInv'
  BY <1>3, DoorStarts DEF HookLeaseLapses, Quiet, HookTypeOK, Jobs
<1>4. ASSUME NEW e \in Entry, OtherDoor(e) PROVE StartInv'
  BY <1>4, DoorStarts DEF OtherDoor
<1>5. CASE UNCHANGED hookVars
  BY <1>5, DoorStarts DEF hookVars
<1> QED
  BY <1>1, <1>2, <1>3, <1>4, <1>5, AcceptStarts, ClaimDueStarts, RetryStarts, AttemptStarts,
     CrashStarts DEF HookNext

LEMMA InitActs ==
  HookInit => ActInv
<1> SUFFICES ASSUME HookInit, NEW j \in HookJob PROVE ActsAlone(j)
  BY DEF ActInv
<1>1. \A p \in Process : ~Live(p, j)
  BY DEF HookInit, Live, Ended
<1>2. actors[j] = 0 /\ retried[j] = 0 /\ recent[j] = 0
  BY DEF HookInit
<1> QED
  BY <1>1, <1>2 DEF ActsAlone

LEMMA StepActs ==
  ASSUME HookTypeOK, ActInv, [HookNext]_hookVars
  PROVE  ActInv'
<1>1. ASSUME NEW p \in Process, NEW j \in HookJob, Renew(p, j) PROVE ActInv'
  BY <1>1, DoorActs DEF Renew, Quiet, HookTypeOK, Jobs
<1>2. ASSUME NEW j \in HookJob, DiscardRun(j) PROVE ActInv'
  BY <1>2, DoorActs DEF DiscardRun, Quiet, HookTypeOK, Jobs
<1>3. ASSUME NEW j \in HookJob, HookLeaseLapses(j) PROVE ActInv'
  BY <1>3, DoorActs DEF HookLeaseLapses, Quiet, HookTypeOK, Jobs
<1>4. ASSUME NEW e \in Entry, OtherDoor(e) PROVE ActInv'
  BY <1>4, DoorActs DEF OtherDoor
<1>5. CASE UNCHANGED hookVars
  BY <1>5, DoorActs DEF hookVars
<1> QED
  BY <1>1, <1>2, <1>3, <1>4, <1>5, AcceptActs, ClaimDueActs, RetryActs, AttemptActs, CrashActs
     DEF HookNext

-----------------------------------------------------------------------------
(***************************************************************************)
(* The records of jobs and attempts keep their shape.                      *)
(***************************************************************************)
THEOREM HookTypeCorrect == HookSpec => []HookTypeOK
<1>1. HookTypeOK /\ [HookNext]_hookVars => HookTypeOK'
  BY StepTypes
<1> QED
  BY <1>1, InitTypes, PTL DEF HookSpec

(***************************************************************************)
(* The tool of a hook that does not declare crash-resume is started once,  *)
(* and once more for each retry of an operator, for any number of          *)
(* processes, jobs, entries, attempts and faults.                          *)
(***************************************************************************)
THEOREM HookToolStartsOnce == HookSpec => []StartsOnce
<1>1. HookTypeOK /\ StartInv /\ [HookNext]_hookVars => StartInv'
  BY StepStarts
<1>2. HookTypeOK /\ StartInv => StartsOnce
  <2> SUFFICES ASSUME HookTypeOK, StartInv, NEW j \in HookJob \ CrashResume
               PROVE  started[j] <= 1 + retried[j]
    BY DEF StartsOnce
  <2>1. started[j] \in Nat /\ retried[j] \in Nat
    BY DEF HookTypeOK
  <2> QED
    BY <2>1, StartingFinite DEF StartInv
<1> QED
  BY <1>1, <1>2, InitStarts, HookTypeCorrect, PTL DEF HookSpec

LEMMA ActsInvariant == HookSpec => []ActInv
<1>1. HookTypeOK /\ ActInv /\ [HookNext]_hookVars => ActInv'
  BY StepActs
<1> QED
  BY <1>1, InitActs, HookTypeCorrect, PTL DEF HookSpec

(***************************************************************************)
(* Between two retries of an operator one attempt of a job claims or       *)
(* starts something, unless a live attempt lost its lease.                 *)
(***************************************************************************)
THEOREM HookOneAttemptActs == HookSpec => []OneAttemptActs
<1>1. HookTypeOK /\ ActInv => OneAttemptActs
  <2> SUFFICES ASSUME HookTypeOK, ActInv, NEW j \in HookJob \ (CrashResume \cup stale)
               PROVE  actors[j] <= 1 + retried[j]
    BY DEF OneAttemptActs
  <2>1. actors[j] \in Nat /\ recent[j] \in Nat /\ retried[j] \in Nat
    BY DEF HookTypeOK
  <2> QED
    BY <2>1 DEF ActInv, ActsAlone
<1> QED
  BY <1>1, ActsInvariant, HookTypeCorrect, PTL

(***************************************************************************)
(* A failed job with neither an act nor an intent on it did nothing since  *)
(* it was last retried: what the operator's retry goes by.                 *)
(***************************************************************************)
THEOREM HookHeldJobsTellTheTruth == HookSpec => []HeldJobsTellTheTruth
<1>1. ActInv => HeldJobsTellTheTruth
  BY DEF ActInv, ActsAlone, Noted, HeldJobsTellTheTruth
<1> QED
  BY <1>1, ActsInvariant, PTL
=============================================================================
