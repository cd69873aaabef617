------------------------------ MODULE ToolRuns ------------------------------
(***************************************************************************)
(* Background tool runs (operations/tool_runs/): a durable record with a   *)
(* liveness key, a supervisor task in some worker that drives the tool and *)
(* writes the terminal record, readers that mark a dead run lost and       *)
(* replay it when it declares crash-resume, and the drains of a retire.    *)
(***************************************************************************)
EXTENDS Integers, FiniteSets

CONSTANTS
  Run,             \* the run ids, in the order they are minted
  Worker, Reader,
  Flagged,         \* runs whose record carries the crash-resume flag
  ConcurrentRuns,  \* max_concurrent_runs
  MaxEpoch,        \* bound: how often a worker's serving epoch is replaced
  MaxRunFaults     \* bound: crashes, failed writes, lapses under a live run

ASSUME RunAssumption == Run \subseteq Nat \ {0} /\ IsFiniteSet(Run) /\ Flagged \subseteq Run
ASSUME RunBoundsAssumption ==
  ConcurrentRuns \in Nat \ {0} /\ MaxEpoch \in Nat /\ MaxRunFaults \in Nat

NoRun == 0

VARIABLES
  record,     \* [Run -> [status, live]]: the record hash and the liveness key
  driver,     \* [Run -> [pc, by, epoch, door]]: the run's task
  active,     \* [Worker -> Nat], _ACTIVE_RUNS
  epoch,      \* [Worker -> Nat], the serving generation
  reader,     \* [Reader -> [pc, run]]
  origin,     \* history: [Run -> the run it replays, or NoRun]
  unattended, \* history: runs whose liveness lapsed under a live task
  runFaults

toolVars == <<record, driver, active, epoch, reader, origin, unattended, runFaults>>

Terminal == {"ended", "failed", "lost"}
NoDriver == [pc |-> "none", by |-> "nobody", epoch |-> 0, door |-> "none"]
NoRead == [pc |-> "idle", run |-> NoRun]

(***************************************************************************)
(* Some runs are never made.                                               *)
(***************************************************************************)
ToolStart(never) ==
  /\ record = [n \in Run |-> [status |-> "absent", live |-> FALSE]]
  /\ driver = [n \in Run |-> IF n \in never THEN [NoDriver EXCEPT !.pc = "gone"] ELSE NoDriver]
  /\ active = [w \in Worker |-> 0]
  /\ epoch = [w \in Worker |-> 0]
  /\ reader = [q \in Reader |-> NoRead]
  /\ origin = [n \in Run |-> NoRun]
  /\ unattended = {}
  /\ runFaults = 0

ToolInit == \E never \in SUBSET Run : ToolStart(never)

RunFault == runFaults < MaxRunFaults /\ runFaults' = runFaults + 1
InFlight(n) == driver[n].pc \notin {"none", "cut", "gone"}
Over(n) == driver[n].pc \in {"none", "gone"}
HoldsSlot(n) == ~Over(n) /\ driver[n].door = "submit"
Supervised(n) == driver[n].pc \in {"driving", "ending", "cancelled"}
SameFlag(n, m) == n \in Flagged <=> m \in Flagged
Unused(n) ==
  /\ driver[n].pc = "none"
  /\ \A m \in Run : m < n /\ SameFlag(m, n) => driver[m].pc # "none"
Drive(n, pc) == driver' = [driver EXCEPT ![n].pc = pc]
Stay == UNCHANGED <<epoch, reader, origin>>

(***************************************************************************)
(* release_active_slot: only a submit reserved one.                        *)
(***************************************************************************)
Release(n) ==
  active' = IF driver[n].door = "submit"
            THEN [active EXCEPT ![driver[n].by] = @ - 1] ELSE active

-----------------------------------------------------------------------------
(* The doors.                                                              *)

(***************************************************************************)
(* submit_run reserves a slot before it writes the record.                 *)
(***************************************************************************)
ReserveSlot(w, n) ==
  /\ Unused(n)
  /\ active[w] < ConcurrentRuns
  /\ active' = [active EXCEPT ![w] = @ + 1]
  /\ driver' = [driver EXCEPT ![n] = [pc |-> "writing", by |-> w, epoch |-> 0,
                                      door |-> "submit"]]
  /\ Stay /\ UNCHANGED <<record, unattended, runFaults>>

(***************************************************************************)
(* run_recorded of a hook's start: no slot, and never the flag.            *)
(***************************************************************************)
RunRecorded(w, n) ==
  /\ Unused(n)
  /\ n \notin Flagged
  /\ driver' = [driver EXCEPT ![n] = [pc |-> "writing", by |-> w, epoch |-> 0,
                                      door |-> "inline"]]
  /\ Stay /\ UNCHANGED <<record, active, unattended, runFaults>>

(***************************************************************************)
(* create_run: the record and its liveness key in one pipeline.            *)
(***************************************************************************)
CreateRun(n) ==
  /\ driver[n].pc = "writing"
  /\ record[n].status = "absent"
  /\ record' = [record EXCEPT ![n] = [status |-> "running", live |-> TRUE]]
  /\ UNCHANGED driver
  /\ Stay /\ UNCHANGED <<active, unattended, runFaults>>

(***************************************************************************)
(* The supervisor is spawned and tagged with the epoch that serves now.    *)
(***************************************************************************)
SpawnSupervisor(n) ==
  /\ driver[n].pc = "writing"
  /\ record[n].status # "absent"
  /\ driver' = [driver EXCEPT ![n].pc = "driving", ![n].epoch = epoch[driver[n].by]]
  /\ Stay /\ UNCHANGED <<record, active, unattended, runFaults>>

\* Mutant of CreateRaises: the slot is left to a supervisor that never comes.
CreateRaisesKeepsSlot(n) ==
  /\ driver[n].pc = "writing"
  /\ RunFault
  /\ Drive(n, "gone")
  /\ Stay /\ UNCHANGED <<record, active, unattended>>

(***************************************************************************)
(* The write of the record raises, stored or not: the slot is given back.  *)
(***************************************************************************)
CreateRaises(n) ==
  /\ driver[n].pc = "writing"
  /\ RunFault
  /\ Drive(n, "gone")
  /\ Release(n)
  /\ Stay /\ UNCHANGED <<record, unattended>>

(***************************************************************************)
(* Before its supervisor is spawned the request is cancelled, or the       *)
(* identity of its caller cannot be bound: neither is an error of the      *)
(* record's write, and nobody gives the slot back.                         *)
(***************************************************************************)
SubmitCut(n) ==
  /\ driver[n].pc = "writing"
  /\ driver[n].door = "submit"
  /\ RunFault
  /\ Drive(n, "cut")
  /\ Stay /\ UNCHANGED <<record, active, unattended>>

-----------------------------------------------------------------------------
(* _supervise.                                                             *)

ToolEnds(n) ==
  /\ driver[n].pc = "driving"
  /\ Drive(n, "ending")
  /\ Stay /\ UNCHANGED <<record, active, unattended, runFaults>>

Outcome(n) == IF driver[n].pc = "cancelled" THEN "failed" ELSE "ended"

\* Mutant of WriteTerminal: a plain write of the outcome, no compare-and-set.
WriteTerminalPlain(n) ==
  /\ driver[n].pc \in {"ending", "cancelled"}
  /\ record' = [record EXCEPT ![n].status = Outcome(n)]
  /\ Drive(n, "gone")
  /\ Release(n)
  /\ Stay /\ UNCHANGED <<unattended, runFaults>>

(***************************************************************************)
(* mark_terminal_if_running with the outcome, succeeded, parked or failed; *)
(* a record that was marked lost stays lost.                               *)
(***************************************************************************)
WriteTerminal(n) ==
  /\ driver[n].pc \in {"ending", "cancelled"}
  /\ record' = IF record[n].status = "running"
               THEN [record EXCEPT ![n].status = Outcome(n)] ELSE record
  /\ Drive(n, "gone")
  /\ Release(n)
  /\ Stay /\ UNCHANGED <<unattended, runFaults>>

(***************************************************************************)
(* The store fails the supervisor before its terminal record is written.   *)
(***************************************************************************)
SuperviseRaises(n) ==
  /\ Supervised(n)
  /\ RunFault
  /\ Drive(n, "gone")
  /\ Release(n)
  /\ Stay /\ UNCHANGED <<record, unattended>>

(***************************************************************************)
(* _refresh_liveness_loop.                                                 *)
(***************************************************************************)
RefreshLiveness(n) ==
  /\ Supervised(n)
  /\ ~record[n].live
  /\ record' = [record EXCEPT ![n].live = TRUE]
  /\ UNCHANGED driver
  /\ Stay /\ UNCHANGED <<active, unattended, runFaults>>

(***************************************************************************)
(* The liveness key expires; while the task lives, only after the TTL      *)
(* passed without one refresh that got through.                            *)
(***************************************************************************)
LivenessLapses(n) ==
  /\ record[n].live
  /\ record' = [record EXCEPT ![n].live = FALSE]
  /\ IF InFlight(n) THEN RunFault /\ unattended' = unattended \cup {n}
     ELSE UNCHANGED <<unattended, runFaults>>
  /\ UNCHANGED driver
  /\ Stay /\ UNCHANGED active

-----------------------------------------------------------------------------
(* drain_supervisors of a retired generation, and crashes.                 *)

RetireEpoch(w) ==
  /\ epoch[w] < MaxEpoch
  /\ epoch' = [epoch EXCEPT ![w] = @ + 1]
  /\ UNCHANGED <<record, driver, active, reader, origin, unattended, runFaults>>

(***************************************************************************)
(* The cancel reaches the tool, and the record will name the drain; or it  *)
(* reaches the terminal write and cuts it off.                             *)
(***************************************************************************)
DrainSupervisor(n) ==
  /\ Supervised(n)
  /\ driver[n].epoch < epoch[driver[n].by]
  /\ \/ driver[n].pc = "driving" /\ Drive(n, "cancelled") /\ UNCHANGED active
     \/ driver[n].pc = "ending" /\ Drive(n, "gone") /\ Release(n)
  /\ Stay /\ UNCHANGED <<record, unattended, runFaults>>

WorkerDies(w) ==
  /\ \E n \in Run : ~Over(n) /\ driver[n].by = w
  /\ RunFault
  /\ driver' = [n \in Run |-> IF ~Over(n) /\ driver[n].by = w
                              THEN [driver[n] EXCEPT !.pc = "gone"] ELSE driver[n]]
  /\ active' = [active EXCEPT ![w] = 0]
  /\ UNCHANGED <<record, epoch, reader, origin, unattended>>

-----------------------------------------------------------------------------
(* reconcile.py: a reader has the record, then the liveness, then decides. *)

ReadRecord(q, n) ==
  /\ reader[q].pc = "idle"
  /\ record[n].status = "running"
  /\ reader' = [reader EXCEPT ![q] = [pc |-> "looking", run |-> n]]
  /\ UNCHANGED <<record, driver, active, epoch, origin, unattended, runFaults>>

\* Mutant of ReadLiveness: the liveness key is not looked at.
ReadLivenessBlind(q) ==
  /\ reader[q].pc = "looking"
  /\ reader' = [reader EXCEPT ![q].pc = "marking"]
  /\ UNCHANGED <<record, driver, active, epoch, origin, unattended, runFaults>>

ReadLiveness(q) ==
  /\ reader[q].pc = "looking"
  /\ reader' = [reader EXCEPT ![q] =
       IF record[reader[q].run].live THEN NoRead ELSE [@ EXCEPT !.pc = "marking"]]
  /\ UNCHANGED <<record, driver, active, epoch, origin, unattended, runFaults>>

AfterMark(n) == IF n \in Flagged THEN [pc |-> "replaying", run |-> n] ELSE NoRead

\* Mutant of MarkLost: every reader that finds the run dead replays it.
MarkLostUnraced(q) ==
  LET n == reader[q].run
  IN /\ reader[q].pc = "marking"
     /\ record' = IF record[n].status = "running"
                  THEN [record EXCEPT ![n].status = "lost"] ELSE record
     /\ reader' = [reader EXCEPT ![q] = AfterMark(n)]
     /\ UNCHANGED <<driver, active, epoch, origin, unattended, runFaults>>

(***************************************************************************)
(* Of the readers and the supervisor only one moves the record on.         *)
(***************************************************************************)
MarkLost(q) ==
  LET n == reader[q].run
  IN /\ reader[q].pc = "marking"
     /\ IF record[n].status = "running"
        THEN /\ record' = [record EXCEPT ![n].status = "lost"]
             /\ reader' = [reader EXCEPT ![q] = AfterMark(n)]
        ELSE UNCHANGED record /\ reader' = [reader EXCEPT ![q] = NoRead]
     /\ UNCHANGED <<driver, active, epoch, origin, unattended, runFaults>>

(***************************************************************************)
(* _spawn_crash_resume: the run again from scratch, under a record of its  *)
(* own that carries the flag again.                                        *)
(***************************************************************************)
SpawnCrashResume(q, w, n) ==
  /\ reader[q].pc = "replaying"
  /\ Unused(n)
  /\ n \in Flagged
  /\ driver' = [driver EXCEPT ![n] = [pc |-> "writing", by |-> w, epoch |-> 0,
                                      door |-> "replay"]]
  /\ origin' = [origin EXCEPT ![n] = reader[q].run]
  /\ reader' = [reader EXCEPT ![q] = NoRead]
  /\ UNCHANGED <<record, active, epoch, unattended, runFaults>>

(***************************************************************************)
(* A reader that is lost loses the replay it was about to spawn.           *)
(***************************************************************************)
ReaderDies(q) ==
  /\ reader[q].pc # "idle"
  /\ RunFault
  /\ reader' = [reader EXCEPT ![q] = NoRead]
  /\ UNCHANGED <<record, driver, active, epoch, origin, unattended>>

ToolNext ==
  \/ \E n \in Run :
       \/ CreateRun(n) \/ SpawnSupervisor(n) \/ CreateRaises(n) \/ SubmitCut(n)
       \/ ToolEnds(n) \/ WriteTerminal(n) \/ SuperviseRaises(n)
       \/ RefreshLiveness(n) \/ LivenessLapses(n) \/ DrainSupervisor(n)
  \/ \E w \in Worker, n \in Run : ReserveSlot(w, n) \/ RunRecorded(w, n)
  \/ \E w \in Worker : RetireEpoch(w) \/ WorkerDies(w)
  \/ \E q \in Reader, n \in Run : ReadRecord(q, n)
  \/ \E q \in Reader : ReadLiveness(q) \/ MarkLost(q) \/ ReaderDies(q)
  \/ \E q \in Reader, w \in Worker, n \in Run : SpawnCrashResume(q, w, n)

ToolSpec == ToolInit /\ [][ToolNext]_toolVars

-----------------------------------------------------------------------------
(* Properties.                                                             *)

ToolTypeOK ==
  /\ record \in [Run -> [status : {"absent", "running"} \cup Terminal, live : BOOLEAN]]
  /\ active \in [Worker -> Nat]
  /\ epoch \in [Worker -> 0..MaxEpoch]
  /\ \A n \in Run : origin[n] \in Run \cup {NoRun}
  /\ \A q \in Reader : reader[q].run \in Run \cup {NoRun}

(***************************************************************************)
(* What a requester read of a finished run stays true: no record leaves a  *)
(* terminal status, whichever of its supervisor, a drain and the readers   *)
(* comes late.                                                             *)
(***************************************************************************)
TerminalStays ==
  [][\A n \in Run : record[n].status \in Terminal =>
       record'[n].status = record[n].status]_toolVars

(***************************************************************************)
(* A lost run is replayed once, however many readers find it dead.         *)
(***************************************************************************)
ReplayedOnce ==
  \A n, m \in Run : n # m /\ origin[n] = origin[m] => origin[n] = NoRun

(***************************************************************************)
(* A run and its replay never drive the tool side by side, unless the      *)
(* run's liveness lapsed under its live task.                              *)
(***************************************************************************)
NoRunBesideItsReplay ==
  \A n \in Run : origin[n] \in Run \ unattended => ~InFlight(origin[n])

(***************************************************************************)
(* The slots taken of a worker are within the cap, and each is that of a   *)
(* submit in flight, or of one that was cut before its supervisor was      *)
(* spawned: no failed write, drain, lost record or crash leaves one.       *)
(***************************************************************************)
SlotsFollowRuns ==
  \A w \in Worker :
    /\ active[w] <= ConcurrentRuns
    /\ active[w] = Cardinality({n \in Run : HoldsSlot(n) /\ driver[n].by = w})

(***************************************************************************)
(* The slot of a submit is released by its supervisor, or where the write  *)
(* of its record fails (doors.py:73-76): a worker holds no more slots than *)
(* it has submits in flight.                                               *)
(***************************************************************************)
SlotsComeBack ==
  \A w \in Worker :
    active[w] <= Cardinality({n \in Run : InFlight(n) /\ driver[n].by = w})
=============================================================================
