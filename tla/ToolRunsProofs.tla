--------------------------- MODULE ToolRunsProofs ---------------------------
(***************************************************************************)
(* Theorems about background tool runs, for every set of runs, workers and *)
(* readers, every cap and any number of epochs and faults.                 *)
(***************************************************************************)
EXTENDS ToolRuns, FiniteSetTheorems, TLAPS

-----------------------------------------------------------------------------
(* The inductive invariant.                                                *)

RunRecord == [status : {"absent", "running"} \cup Terminal, live : BOOLEAN]
DriverPc == {"none", "writing", "driving", "ending", "cancelled", "cut", "gone"}
DriverRecord == [pc : DriverPc, by : Worker \cup {"nobody"}, epoch : Nat,
                 door : {"none", "submit", "inline", "replay"}]
ReadRun == [pc : {"idle", "looking", "marking", "replaying"}, run : Run \cup {NoRun}]

ToolTyped ==
  /\ record \in [Run -> RunRecord]
  /\ driver \in [Run -> DriverRecord]
  /\ active \in [Worker -> Nat]
  /\ epoch \in [Worker -> 0..MaxEpoch]
  /\ reader \in [Reader -> ReadRun]
  /\ origin \in [Run -> Run \cup {NoRun}]
  /\ unattended \subseteq Run

(***************************************************************************)
(* A reader that is at something has a run that was recorded, and a run    *)
(* that a door took up and that is not over belongs to a worker.           *)
(***************************************************************************)
ReadersHaveRuns ==
  \A q \in Reader : reader[q].pc # "idle" =>
    reader[q].run \in Run /\ record[reader[q].run].status # "absent"
DriversHaveWorkers == \A n \in Run : ~Over(n) => driver[n].by \in Worker

(***************************************************************************)
(* A replay, made or about to be made, is of a lost run, and there is one. *)
(***************************************************************************)
ReplaysAreOfLost ==
  /\ \A q \in Reader : reader[q].pc = "replaying" => record[reader[q].run].status = "lost"
  /\ \A n \in Run : origin[n] # NoRun => record[origin[n]].status = "lost"
ReplaysAreOne ==
  /\ \A q, p \in Reader :
       /\ q # p
       /\ reader[q].pc = "replaying"
       /\ reader[p].pc = "replaying"
       => reader[q].run # reader[p].run
  /\ \A q \in Reader, n \in Run : reader[q].pc = "replaying" => origin[n] # reader[q].run
  /\ ReplayedOnce

(***************************************************************************)
(* A recorded run in flight is live unless its liveness lapsed under it;   *)
(* what a reader found dead is over.                                       *)
(***************************************************************************)
RecordedWasDriven ==
  \A n \in Run : record[n].status # "absent" => driver[n].pc # "none"
AttendedIsLive ==
  \A n \in Run \ unattended :
    InFlight(n) /\ record[n].status # "absent" => record[n].live
Ended(n) == driver[n].pc \in {"cut", "gone"}
FoundDeadIsOver ==
  /\ \A q \in Reader :
       /\ reader[q].pc \in {"marking", "replaying"}
       /\ reader[q].run \notin unattended
       => Ended(reader[q].run)
  /\ \A n \in Run : origin[n] \in Run \ unattended => Ended(origin[n])

Holds(n, w) == HoldsSlot(n) /\ driver[n].by = w
Taken(w) == {n \in Run : Holds(n, w)}

Attended == RecordedWasDriven /\ AttendedIsLive /\ FoundDeadIsOver
Replays == ReplaysAreOfLost /\ ReplaysAreOne
ToolInv == ToolTyped /\ ReadersHaveRuns /\ DriversHaveWorkers /\ Replays /\ Attended
           /\ SlotsFollowRuns

-----------------------------------------------------------------------------
(* Facts about the state.                                                  *)

LEMMA NoRunIsNone == NoRun \notin Run
  BY RunAssumption DEF NoRun

LEMMA RecordFields ==
  ASSUME ToolTyped, NEW n \in Run
  PROVE  /\ record[n].status \in {"absent", "running"} \cup Terminal
         /\ driver[n].pc \in DriverPc
         /\ driver[n].by \in Worker \cup {"nobody"}
         /\ driver[n].epoch \in Nat
         /\ driver[n].door \in {"none", "submit", "inline", "replay"}
  BY DEF ToolTyped, RunRecord, DriverRecord

LEMMA LiveIsBoolean ==
  ASSUME ToolTyped, NEW n \in Run
  PROVE  record[n].live \in BOOLEAN
  BY Zenon DEF ToolTyped, RunRecord

(***************************************************************************)
(* Setting one field of one run's record.                                  *)
(***************************************************************************)
LEMMA StatusSet ==
  ASSUME ToolTyped, NEW n \in Run, NEW st \in {"absent", "running"} \cup Terminal,
         record' = [record EXCEPT ![n].status = st]
  PROVE  /\ record' \in [Run -> RunRecord]
         /\ record'[n].status = st
         /\ \A m \in Run : m # n => record'[m].status = record[m].status
         /\ \A m \in Run : record'[m].live = record[m].live
<1>1. record \in [Run -> RunRecord]
  BY DEF ToolTyped
<1>2. record'[n] = [record[n] EXCEPT !.status = st]
  BY <1>1
<1>3. record[n] \in RunRecord
  BY <1>1
<1>4. [record[n] EXCEPT !.status = st] \in RunRecord
  BY <1>3, Zenon DEF RunRecord
<1>5. record'[n].status = st
  BY <1>2, <1>3 DEF RunRecord
<1>6. record'[n].live = record[n].live
  BY <1>2, <1>3 DEF RunRecord
<1>7. \A m \in Run : m # n => record'[m] = record[m]
  BY <1>1
<1>8. record' \in [Run -> RunRecord]
  BY <1>1, <1>2, <1>4
<1> QED
  BY <1>5, <1>6, <1>7, <1>8

LEMMA LiveSet ==
  ASSUME ToolTyped, NEW n \in Run, NEW b \in BOOLEAN,
         record' = [record EXCEPT ![n].live = b]
  PROVE  /\ record' \in [Run -> RunRecord]
         /\ record'[n].live = b
         /\ \A m \in Run : m # n => record'[m].live = record[m].live
         /\ \A m \in Run : record'[m].status = record[m].status
<1>1. record \in [Run -> RunRecord]
  BY DEF ToolTyped
<1>2. record'[n] = [record[n] EXCEPT !.live = b]
  BY <1>1
<1>3. record[n] \in RunRecord
  BY <1>1
<1>4. [record[n] EXCEPT !.live = b] \in RunRecord
  BY <1>3, Zenon DEF RunRecord
<1>5. record'[n].live = b
  BY <1>2, <1>3, Zenon DEF RunRecord
<1>6. record'[n].status = record[n].status
  BY <1>2, <1>3 DEF RunRecord
<1>7. \A m \in Run : m # n => record'[m] = record[m]
  BY <1>1
<1>8. record' \in [Run -> RunRecord]
  BY <1>1, <1>2, <1>4
<1> QED
  BY <1>5, <1>6, <1>7, <1>8

(***************************************************************************)
(* A driver goes to another pc.                                            *)
(***************************************************************************)
LEMMA DriveTo ==
  ASSUME ToolTyped, NEW n \in Run, NEW pc \in DriverPc, Drive(n, pc)
  PROVE  /\ driver' \in [Run -> DriverRecord]
         /\ driver'[n].pc = pc
         /\ driver'[n].by = driver[n].by /\ driver'[n].door = driver[n].door
         /\ \A m \in Run : m # n => driver'[m] = driver[m]
  BY DEF Drive, ToolTyped, DriverRecord

-----------------------------------------------------------------------------
(* The slots.                                                              *)

LEMMA TakenFinite ==
  ASSUME NEW w
  PROVE  IsFiniteSet(Taken(w)) /\ Cardinality(Taken(w)) \in Nat
<1>1. Taken(w) \in SUBSET Run
  BY DEF Taken
<1>2. IsFiniteSet(Taken(w))
  BY <1>1, RunAssumption, FS_Subset
<1> QED
  BY <1>2, FS_CardinalityType

LEMMA SlotsAre ==
  SlotsFollowRuns <=> \A w \in Worker : /\ active[w] <= ConcurrentRuns
                                        /\ active[w] = Cardinality(Taken(w))
  BY DEF SlotsFollowRuns, Taken, Holds

LEMMA SlotsAreNext ==
  SlotsFollowRuns' <=> \A w \in Worker : /\ active'[w] <= ConcurrentRuns
                                         /\ active'[w] = Cardinality(Taken(w)')
  BY DEF SlotsFollowRuns, Taken, Holds

(***************************************************************************)
(* One run moves the number of a worker's slots by what it held and holds. *)
(***************************************************************************)
LEMMA OneRunMoves ==
  ASSUME NEW n \in Run, NEW w \in Worker,
         \A m \in Run : m # n => driver'[m] = driver[m]
  PROVE  Cardinality(Taken(w)') =
           Cardinality(Taken(w)) - (IF Holds(n, w) THEN 1 ELSE 0)
                                 + (IF Holds(n, w)' THEN 1 ELSE 0)
<1>1. n \in Taken(w) <=> Holds(n, w)
  BY DEF Taken
<1>2. \A m \in Run : m # n => (Holds(m, w)' <=> Holds(m, w))
  BY DEF Holds, InFlight, Over, HoldsSlot
<1>3. CASE Holds(n, w)'
  <2>1. Taken(w)' = Taken(w) \cup {n}
    BY <1>2, <1>3 DEF Taken
  <2>2. Cardinality(Taken(w) \cup {n}) =
          IF n \in Taken(w) THEN Cardinality(Taken(w)) ELSE Cardinality(Taken(w)) + 1
    BY TakenFinite, FS_AddElement
  <2> QED
    BY <1>1, <1>3, <2>1, <2>2, TakenFinite
<1>4. CASE ~Holds(n, w)'
  <2>1. Taken(w)' = Taken(w) \ {n}
    BY <1>2, <1>4 DEF Taken
  <2>2. Cardinality(Taken(w) \ {n}) =
          IF n \in Taken(w) THEN Cardinality(Taken(w)) - 1 ELSE Cardinality(Taken(w))
    BY TakenFinite, FS_RemoveElement
  <2> QED
    BY <1>1, <1>4, <2>1, <2>2, TakenFinite
<1> QED
  BY <1>3, <1>4

(***************************************************************************)
(* A run that ends gives its slot back, if it has one.                     *)
(***************************************************************************)
LEMMA RunEndsKeepsSlots ==
  ASSUME ToolInv, NEW n \in Run, InFlight(n), Drive(n, "gone"), Release(n)
  PROVE  active' \in [Worker -> Nat] /\ SlotsFollowRuns'
<1>1. "gone" \in DriverPc
  BY DEF DriverPc
<1>2. ToolTyped /\ driver[n].by \in Worker
  BY DEF ToolInv, DriversHaveWorkers, Over, InFlight
<1>3. /\ \A m \in Run : m # n => driver'[m] = driver[m]
      /\ driver'[n].pc = "gone"
  BY <1>1, <1>2, DriveTo
<1>4. \A w \in Worker : ~Holds(n, w)'
  BY <1>3 DEF Holds, InFlight, Over, HoldsSlot
<1>5. \A w \in Worker : active[w] <= ConcurrentRuns /\ active[w] = Cardinality(Taken(w))
  BY SlotsAre DEF ToolInv
<1>6. \A w \in Worker : Cardinality(Taken(w)') =
        Cardinality(Taken(w)) - (IF Holds(n, w) THEN 1 ELSE 0)
  BY <1>3, <1>4, OneRunMoves, TakenFinite
<1>7. active \in [Worker -> Nat] /\ ConcurrentRuns \in Nat
  BY <1>2, RunBoundsAssumption DEF ToolTyped
<1>8. CASE driver[n].door = "submit"
  <2>1. \A w \in Worker : Holds(n, w) <=> w = driver[n].by
    BY <1>8 DEF Holds, HoldsSlot, Over, InFlight
  <2>2. active' = [active EXCEPT ![driver[n].by] = @ - 1]
    BY <1>8 DEF Release
  <2>3. \A w \in Worker : active'[w] = Cardinality(Taken(w)')
    BY <1>2, <1>5, <1>6, <1>7, <2>1, <2>2
  <2>4. \A w \in Worker : Cardinality(Taken(w)') \in Nat
    <3> TAKE w \in Worker
    <3>1. Taken(w)' \in SUBSET Run
      BY DEF Taken
    <3>2. IsFiniteSet(Taken(w)')
      BY <3>1, RunAssumption, FS_Subset
    <3> QED
      BY <3>2, FS_CardinalityType
  <2>5. active' \in [Worker -> Nat]
    BY <1>7, <2>2, <2>3, <2>4
  <2>6. \A w \in Worker : active'[w] <= ConcurrentRuns
    BY <1>5, <1>7, <2>2
  <2> QED
    BY <2>3, <2>5, <2>6, SlotsAreNext
<1>9. CASE driver[n].door # "submit"
  <2>1. \A w \in Worker : ~Holds(n, w)
    BY <1>9 DEF Holds, HoldsSlot, Over
  <2>2. active' = active
    BY <1>9 DEF Release
  <2>3. \A w \in Worker : Cardinality(Taken(w)') = Cardinality(Taken(w))
    BY <1>6, <2>1, TakenFinite
  <2> QED
    BY <1>5, <1>7, <2>2, <2>3, SlotsAreNext
<1> QED
  BY <1>8, <1>9

(***************************************************************************)
(* A run that stays as it was in flight, or not, keeps the slots.          *)
(***************************************************************************)
LEMMA SlotsKept ==
  ASSUME ToolInv, UNCHANGED active,
         \A m \in Run, w \in Worker : Holds(m, w)' <=> Holds(m, w)
  PROVE  SlotsFollowRuns'
<1>1. \A w \in Worker : Taken(w)' = Taken(w)
  BY DEF Taken
<1> QED
  BY <1>1, SlotsAre, SlotsAreNext DEF ToolInv

-----------------------------------------------------------------------------
(* What a step of the drivers and of the records leaves.                   *)

(***************************************************************************)
(* A recorded run is not taken up again once it is gone.                   *)
(***************************************************************************)
OnlyOnwards ==
  \A n \in Run :
    /\ Ended(n) => Ended(n)'
    /\ driver[n].pc # "none" => driver'[n].pc # "none"
    /\ InFlight(n)' /\ record[n].status # "absent" => InFlight(n)

LEMMA AttendedKept ==
  ASSUME ToolInv, OnlyOnwards, UNCHANGED <<reader, origin, unattended>>,
         \A n \in Run : /\ record'[n].live = record[n].live
                        /\ record'[n].status = "absent" <=> record[n].status = "absent"
  PROVE  Attended'
<1>1. RecordedWasDriven'
  BY DEF OnlyOnwards, RecordedWasDriven, ToolInv, Attended, Ended
<1>2. AttendedIsLive'
  BY DEF OnlyOnwards, AttendedIsLive, ToolInv, Attended, Ended
<1>3. \A q \in Reader : reader[q].pc # "idle" => reader[q].run \in Run
  BY DEF ToolInv, ReadersHaveRuns
<1>4. FoundDeadIsOver'
  BY <1>3 DEF OnlyOnwards, FoundDeadIsOver, ToolInv, Attended, Ended
<1> QED
  BY <1>1, <1>2, <1>4 DEF Attended

LEMMA ReplaysKept ==
  ASSUME ToolInv, UNCHANGED <<reader, origin>>,
         \A n \in Run : record[n].status = "lost" => record'[n].status = "lost"
  PROVE  Replays'
<1>1. \A q \in Reader : reader[q].pc # "idle" => reader[q].run \in Run
  BY DEF ToolInv, ReadersHaveRuns
<1>2. \A n \in Run : origin[n] \in Run \cup {NoRun}
  BY DEF ToolInv, ToolTyped
<1>3. ReplaysAreOfLost'
  BY <1>1, <1>2 DEF ReplaysAreOfLost, ToolInv, Replays
<1>4. ReplaysAreOne'
  BY DEF ReplaysAreOne, ReplayedOnce, ToolInv, Replays
<1> QED
  BY <1>3, <1>4 DEF Replays

LEMMA ReadersKept ==
  ASSUME ToolInv, UNCHANGED reader,
         \A n \in Run : record[n].status # "absent" => record'[n].status # "absent"
  PROVE  ReadersHaveRuns'
  BY DEF ToolInv, ReadersHaveRuns

-----------------------------------------------------------------------------
(* The steps of the drivers.                                               *)

LEMMA ReserveSlotKeeps ==
  ASSUME ToolInv, NEW w \in Worker, NEW n \in Run, ReserveSlot(w, n)
  PROVE  ToolInv'
<1> DEFINE new == [pc |-> "writing", by |-> w, epoch |-> 0, door |-> "submit"]
<1>1. /\ driver[n].pc = "none" /\ active[w] < ConcurrentRuns
      /\ active' = [active EXCEPT ![w] = @ + 1]
      /\ driver' = [driver EXCEPT ![n] = new]
      /\ UNCHANGED <<record, epoch, reader, origin, unattended>>
  BY DEF ReserveSlot, Unused, Stay
<1>2. ToolTyped /\ RecordedWasDriven
  BY DEF ToolInv, Attended
<1>3. record[n].status = "absent"
  BY <1>1, <1>2 DEF RecordedWasDriven
<1>4. new \in DriverRecord
  BY DEF DriverRecord, DriverPc
<1>5. driver' \in [Run -> DriverRecord] /\ driver'[n] = new
  BY <1>1, <1>2, <1>4 DEF ToolTyped
<1>6. \A m \in Run : m # n => driver'[m] = driver[m]
  BY <1>1, <1>2 DEF ToolTyped
<1>7. OnlyOnwards
  BY <1>1, <1>3, <1>5, <1>6 DEF OnlyOnwards, InFlight, Over, Ended
<1>8. Attended' /\ Replays' /\ ReadersHaveRuns'
  BY <1>1, <1>7, AttendedKept, ReplaysKept, ReadersKept
<1>9. DriversHaveWorkers'
  BY <1>5, <1>6 DEF ToolInv, DriversHaveWorkers, InFlight, Over
<1>10. active \in [Worker -> Nat] /\ ConcurrentRuns \in Nat
  BY <1>2, RunBoundsAssumption DEF ToolTyped
<1>11. SlotsFollowRuns'
  <2>1. \A v \in Worker : active[v] <= ConcurrentRuns /\ active[v] = Cardinality(Taken(v))
    BY SlotsAre DEF ToolInv
  <2>2. \A v \in Worker : ~Holds(n, v) /\ (Holds(n, v)' <=> v = w)
    BY <1>1, <1>5 DEF Holds, InFlight, Over, HoldsSlot
  <2>3. \A v \in Worker : Cardinality(Taken(v)') =
          Cardinality(Taken(v)) + (IF v = w THEN 1 ELSE 0)
    BY <1>6, <2>2, OneRunMoves, TakenFinite
  <2> QED
    BY <1>1, <1>10, <2>1, <2>3, SlotsAreNext
<1>12. ToolTyped'
  BY <1>1, <1>2, <1>5, <1>10 DEF ToolTyped
<1> QED
  BY <1>8, <1>9, <1>11, <1>12 DEF ToolInv

(***************************************************************************)
(* A run without a slot begins: inline, or as the replay of a lost one.    *)
(***************************************************************************)
LEMMA RunRecordedKeeps ==
  ASSUME ToolInv, NEW w \in Worker, NEW n \in Run, RunRecorded(w, n)
  PROVE  ToolInv'
<1> DEFINE new == [pc |-> "writing", by |-> w, epoch |-> 0, door |-> "inline"]
<1>1. /\ driver[n].pc = "none"
      /\ driver' = [driver EXCEPT ![n] = new]
      /\ UNCHANGED <<record, active, epoch, reader, origin, unattended>>
  BY DEF RunRecorded, Unused, Stay
<1>2. ToolTyped /\ RecordedWasDriven
  BY DEF ToolInv, Attended
<1>3. record[n].status = "absent"
  BY <1>1, <1>2 DEF RecordedWasDriven
<1>4. new \in DriverRecord
  BY DEF DriverRecord, DriverPc
<1>5. driver' \in [Run -> DriverRecord] /\ driver'[n] = new
  BY <1>1, <1>2, <1>4 DEF ToolTyped
<1>6. \A m \in Run : m # n => driver'[m] = driver[m]
  BY <1>1, <1>2 DEF ToolTyped
<1>7. OnlyOnwards
  BY <1>1, <1>3, <1>5, <1>6 DEF OnlyOnwards, InFlight, Over, Ended
<1>8. Attended' /\ Replays' /\ ReadersHaveRuns'
  BY <1>1, <1>7, AttendedKept, ReplaysKept, ReadersKept
<1>9. DriversHaveWorkers'
  BY <1>5, <1>6 DEF ToolInv, DriversHaveWorkers, InFlight, Over
<1>10. \A m \in Run, v \in Worker : Holds(m, v)' <=> Holds(m, v)
  BY <1>1, <1>5, <1>6 DEF Holds, InFlight, Over, HoldsSlot
<1>11. SlotsFollowRuns'
  BY <1>1, <1>10, SlotsKept
<1>12. ToolTyped'
  BY <1>1, <1>2, <1>5 DEF ToolTyped
<1> QED
  BY <1>8, <1>9, <1>11, <1>12 DEF ToolInv

LEMMA SpawnCrashResumeKeeps ==
  ASSUME ToolInv, NEW q \in Reader, NEW w \in Worker, NEW n \in Run,
         SpawnCrashResume(q, w, n)
  PROVE  ToolInv'
<1> DEFINE new == [pc |-> "writing", by |-> w, epoch |-> 0, door |-> "replay"]
           lost == reader[q].run
<1>1. /\ reader[q].pc = "replaying" /\ driver[n].pc = "none"
      /\ driver' = [driver EXCEPT ![n] = new]
      /\ origin' = [origin EXCEPT ![n] = lost]
      /\ reader' = [reader EXCEPT ![q] = NoRead]
      /\ UNCHANGED <<record, active, epoch, unattended>>
  BY DEF SpawnCrashResume, Unused
<1>2. ToolTyped /\ RecordedWasDriven /\ AttendedIsLive /\ FoundDeadIsOver
  BY DEF ToolInv, Attended
<1>3. record[n].status = "absent"
  BY <1>1, <1>2 DEF RecordedWasDriven
<1>4. new \in DriverRecord
  BY DEF DriverRecord, DriverPc
<1>5. driver' \in [Run -> DriverRecord] /\ driver'[n] = new
  BY <1>1, <1>2, <1>4 DEF ToolTyped
<1>6. \A m \in Run : m # n => driver'[m] = driver[m]
  BY <1>1, <1>2 DEF ToolTyped
<1>7. lost \in Run
  BY <1>1 DEF ToolInv, ReadersHaveRuns
<1>8. origin' \in [Run -> Run \cup {NoRun}] /\ origin'[n] = lost
  BY <1>1, <1>2, <1>7 DEF ToolTyped
<1>9. \A m \in Run : m # n => origin'[m] = origin[m]
  BY <1>1, <1>2 DEF ToolTyped
<1>10. reader' \in [Reader -> ReadRun] /\ reader'[q].pc = "idle"
  BY <1>1, <1>2 DEF ToolTyped, NoRead, ReadRun
<1>11. \A p \in Reader : p # q => reader'[p] = reader[p]
  BY <1>1, <1>2 DEF ToolTyped
<1>12. \A p \in Reader : reader'[p].pc # "idle" => p # q /\ reader'[p] = reader[p]
  BY <1>10, <1>11
<1>13. ReadersHaveRuns'
  BY <1>1, <1>12 DEF ToolInv, ReadersHaveRuns
<1>14. Replays'
  <2>1. record[lost].status = "lost"
    BY <1>1 DEF ToolInv, Replays, ReplaysAreOfLost
  <2>2. ReplaysAreOfLost'
    BY <1>1, <1>8, <1>9, <1>12, <2>1 DEF ToolInv, Replays, ReplaysAreOfLost
  <2>3. \A m \in Run : m # n => origin'[m] # lost
    BY <1>1, <1>9 DEF ToolInv, Replays, ReplaysAreOne
  <2>4. ReplayedOnce'
    BY <1>8, <1>9, <2>3 DEF ToolInv, Replays, ReplaysAreOne, ReplayedOnce
  <2>5. \A p \in Reader : p # q /\ reader[p].pc = "replaying" => reader[p].run # lost
    BY <1>1 DEF ToolInv, Replays, ReplaysAreOne
  <2>6. \A p \in Reader, m \in Run : reader'[p].pc = "replaying" => origin'[m] # reader'[p].run
    BY <1>8, <1>9, <1>12, <2>5 DEF ToolInv, Replays, ReplaysAreOne
  <2>7. \A p, o \in Reader :
          p # o /\ reader'[p].pc = "replaying" /\ reader'[o].pc = "replaying"
          => reader'[p].run # reader'[o].run
    BY <1>12 DEF ToolInv, Replays, ReplaysAreOne
  <2> QED
    BY <2>2, <2>4, <2>6, <2>7 DEF Replays, ReplaysAreOne
<1>15. Attended'
  <2>1. RecordedWasDriven' /\ AttendedIsLive'
    BY <1>1, <1>2, <1>3, <1>5, <1>6 DEF RecordedWasDriven, AttendedIsLive, InFlight, Over
  <2>2. lost \notin unattended => Ended(lost)
    BY <1>1, <1>2, <1>7 DEF FoundDeadIsOver, Ended
  <2>3. \A m \in Run : Ended(m) => driver'[m].pc \in {"cut", "gone"}
    BY <1>1, <1>6 DEF Ended
  <2>4. \A m \in Run : origin'[m] \in Run \ unattended =>
          driver'[origin'[m]].pc \in {"cut", "gone"}
    BY <1>2, <1>8, <1>9, <2>2, <2>3 DEF FoundDeadIsOver, Ended
  <2>5. \A p \in Reader :
          reader'[p].pc \in {"marking", "replaying"} /\ reader'[p].run \notin unattended
          => driver'[reader'[p].run].pc \in {"cut", "gone"}
    BY <1>2, <1>12, <2>3 DEF FoundDeadIsOver, ToolInv, ReadersHaveRuns, Ended
  <2>6. FoundDeadIsOver'
    BY <1>1, <2>4, <2>5 DEF FoundDeadIsOver, Ended
  <2> QED
    BY <2>1, <2>6 DEF Attended
<1>16. DriversHaveWorkers'
  BY <1>5, <1>6 DEF ToolInv, DriversHaveWorkers, InFlight, Over
<1>17. \A m \in Run, v \in Worker : Holds(m, v)' <=> Holds(m, v)
  BY <1>1, <1>5, <1>6 DEF Holds, InFlight, Over, HoldsSlot
<1>18. SlotsFollowRuns'
  BY <1>1, <1>17, SlotsKept
<1>19. ToolTyped'
  BY <1>1, <1>2, <1>5, <1>8, <1>10 DEF ToolTyped
<1> QED
  BY <1>13, <1>14, <1>15, <1>16, <1>18, <1>19 DEF ToolInv

(***************************************************************************)
(* A run in flight goes on to another step of its task.                    *)
(***************************************************************************)
LEMMA GoesOnKeeps ==
  ASSUME ToolInv, NEW n \in Run, InFlight(n),
         driver' \in [Run -> DriverRecord],
         driver'[n].by = driver[n].by, driver'[n].door = driver[n].door,
         driver'[n].pc \notin {"none", "gone"},
         \A m \in Run : m # n => driver'[m] = driver[m],
         UNCHANGED <<record, active, epoch, reader, origin, unattended>>
  PROVE  ToolInv'
<1>1. OnlyOnwards
  BY DEF OnlyOnwards, InFlight, Over, Ended
<1>2. Attended' /\ Replays' /\ ReadersHaveRuns'
  BY <1>1, AttendedKept, ReplaysKept, ReadersKept
<1>3. DriversHaveWorkers'
  BY DEF ToolInv, DriversHaveWorkers, InFlight, Over
<1>4. \A m \in Run, v \in Worker : Holds(m, v)' <=> Holds(m, v)
  BY DEF Holds, InFlight, Over, HoldsSlot
<1>5. SlotsFollowRuns'
  BY <1>4, SlotsKept
<1>6. ToolTyped'
  BY DEF ToolInv, ToolTyped
<1> QED
  BY <1>2, <1>3, <1>5, <1>6 DEF ToolInv

(***************************************************************************)
(* A run in flight ends and gives back the slot it has; its record may     *)
(* leave the status running.                                               *)
(***************************************************************************)
LEMMA EndsKeeps ==
  ASSUME ToolInv, NEW n \in Run, InFlight(n), Drive(n, "gone"), Release(n),
         record' \in [Run -> RunRecord],
         \A m \in Run : record'[m].live = record[m].live,
         \A m \in Run : record'[m].status # record[m].status =>
           record[m].status = "running" /\ record'[m].status # "absent",
         UNCHANGED <<epoch, reader, origin, unattended>>
  PROVE  ToolInv'
<1>1. ToolTyped /\ "gone" \in DriverPc
  BY DEF ToolInv, DriverPc
<1>2. /\ driver' \in [Run -> DriverRecord] /\ driver'[n].pc = "gone"
      /\ \A m \in Run : m # n => driver'[m] = driver[m]
  BY <1>1, DriveTo
<1>3. OnlyOnwards
  BY <1>2 DEF OnlyOnwards, InFlight, Over, Ended
<1>4. Attended' /\ Replays' /\ ReadersHaveRuns'
  BY <1>3, AttendedKept, ReplaysKept, ReadersKept
<1>5. DriversHaveWorkers'
  BY <1>2 DEF ToolInv, DriversHaveWorkers, InFlight, Over
<1>6. active' \in [Worker -> Nat] /\ SlotsFollowRuns'
  BY RunEndsKeepsSlots
<1>7. ToolTyped'
  BY <1>1, <1>2, <1>6 DEF ToolTyped
<1> QED
  BY <1>4, <1>5, <1>6, <1>7 DEF ToolInv

LEMMA SpawnSupervisorKeeps ==
  ASSUME ToolInv, NEW n \in Run, SpawnSupervisor(n)
  PROVE  ToolInv'
<1>1. /\ driver[n].pc = "writing"
      /\ driver' = [driver EXCEPT ![n].pc = "driving",
                                  ![n].epoch = epoch[driver[n].by]]
      /\ UNCHANGED <<record, active, epoch, reader, origin, unattended>>
  BY DEF SpawnSupervisor, Stay
<1>2. ToolTyped /\ InFlight(n) /\ driver[n].by \in Worker
  BY <1>1 DEF ToolInv, InFlight, DriversHaveWorkers, Over
<1>3. epoch[driver[n].by] \in Nat
  BY <1>2, RunBoundsAssumption DEF ToolTyped
<1>4. /\ driver' \in [Run -> DriverRecord] /\ driver'[n].pc = "driving"
      /\ driver'[n].by = driver[n].by /\ driver'[n].door = driver[n].door
      /\ \A m \in Run : m # n => driver'[m] = driver[m]
  BY <1>1, <1>2, <1>3 DEF ToolTyped, DriverRecord, DriverPc
<1> QED
  BY <1>1, <1>2, <1>4, GoesOnKeeps

LEMMA RunGoesOn ==
  ASSUME ToolInv, NEW n \in Run, NEW pc \in DriverPc \ {"none", "gone"}, InFlight(n),
         Drive(n, pc), UNCHANGED <<record, active, epoch, reader, origin, unattended>>
  PROVE  ToolInv'
<1>1. ToolTyped /\ pc \in DriverPc
  BY DEF ToolInv
<1> QED
  BY <1>1, DriveTo, GoesOnKeeps

LEMMA ToolEndsKeeps ==
  ASSUME ToolInv, NEW n \in Run, ToolEnds(n)
  PROVE  ToolInv'
<1>1. InFlight(n) /\ "ending" \in DriverPc \ {"none", "gone"}
  BY DEF ToolEnds, InFlight, DriverPc, Over
<1> QED
  BY <1>1, RunGoesOn DEF ToolEnds, Stay

LEMMA SubmitCutKeeps ==
  ASSUME ToolInv, NEW n \in Run, SubmitCut(n)
  PROVE  ToolInv'
<1>1. InFlight(n) /\ "cut" \in DriverPc \ {"none", "gone"}
  BY DEF SubmitCut, InFlight, DriverPc
<1> QED
  BY <1>1, RunGoesOn DEF SubmitCut, Stay

(***************************************************************************)
(* The ends of a run that leave its record as it is.                       *)
(***************************************************************************)
LEMMA EndsUnrecorded ==
  ASSUME ToolInv, NEW n \in Run, InFlight(n), Drive(n, "gone"), Release(n),
         UNCHANGED <<record, epoch, reader, origin, unattended>>
  PROVE  ToolInv'
<1>1. record' \in [Run -> RunRecord]
  BY DEF ToolInv, ToolTyped
<1> QED
  BY <1>1, EndsKeeps

LEMMA RaisesKeep ==
  ASSUME ToolInv, NEW n \in Run, CreateRaises(n) \/ SuperviseRaises(n)
  PROVE  ToolInv'
<1>1. InFlight(n)
  BY DEF CreateRaises, SuperviseRaises, Supervised, InFlight, Over
<1> QED
  BY <1>1, EndsUnrecorded DEF CreateRaises, SuperviseRaises, Stay

LEMMA DrainSupervisorKeeps ==
  ASSUME ToolInv, NEW n \in Run, DrainSupervisor(n)
  PROVE  ToolInv'
<1>1. InFlight(n) /\ "cancelled" \in DriverPc \ {"none", "gone"}
  BY DEF DrainSupervisor, Supervised, InFlight, DriverPc, Over
<1>2. UNCHANGED <<record, epoch, reader, origin, unattended>>
  BY DEF DrainSupervisor, Stay
<1>3. CASE Drive(n, "cancelled") /\ UNCHANGED active
  BY <1>1, <1>2, <1>3, RunGoesOn
<1>4. CASE Drive(n, "gone") /\ Release(n)
  BY <1>1, <1>2, <1>4, EndsUnrecorded
<1> QED
  BY <1>3, <1>4 DEF DrainSupervisor

LEMMA WriteTerminalKeeps ==
  ASSUME ToolInv, NEW n \in Run, WriteTerminal(n)
  PROVE  ToolInv'
<1>1. ToolTyped /\ InFlight(n)
  BY DEF ToolInv, WriteTerminal, InFlight, Over
<1>2. /\ Drive(n, "gone") /\ Release(n)
      /\ UNCHANGED <<epoch, reader, origin, unattended>>
      /\ record' = IF record[n].status = "running"
                   THEN [record EXCEPT ![n].status = Outcome(n)] ELSE record
  BY DEF WriteTerminal, Stay
<1>3. CASE record[n].status = "running"
  <2>1. Outcome(n) \in {"absent", "running"} \cup Terminal /\ Outcome(n) # "absent"
    BY DEF Outcome, Terminal
  <2>2. record' = [record EXCEPT ![n].status = Outcome(n)]
    BY <1>2, <1>3
  <2>3. /\ record' \in [Run -> RunRecord]
        /\ record'[n].status = Outcome(n)
        /\ \A m \in Run : m # n => record'[m].status = record[m].status
        /\ \A m \in Run : record'[m].live = record[m].live
    BY <1>1, <2>1, <2>2, StatusSet
  <2>4. \A m \in Run : record'[m].status # record[m].status =>
          record[m].status = "running" /\ record'[m].status # "absent"
    BY <1>3, <2>1, <2>3
  <2> QED
    BY <1>1, <1>2, <2>3, <2>4, EndsKeeps
<1>4. CASE record[n].status # "running"
  BY <1>1, <1>2, <1>4, EndsUnrecorded
<1> QED
  BY <1>3, <1>4

LEMMA WorkerDiesKeeps ==
  ASSUME ToolInv, NEW w \in Worker, WorkerDies(w)
  PROVE  ToolInv'
<1> DEFINE mine(m) == ~Over(m) /\ driver[m].by = w
<1>1. /\ driver' = [m \in Run |-> IF mine(m) THEN [driver[m] EXCEPT !.pc = "gone"]
                                  ELSE driver[m]]
      /\ active' = [active EXCEPT ![w] = 0]
      /\ UNCHANGED <<record, epoch, reader, origin, unattended>>
  BY DEF WorkerDies
<1>2. ToolTyped
  BY DEF ToolInv
<1>3. \A m \in Run : driver[m] \in DriverRecord
  BY <1>2 DEF ToolTyped
<1>4. \A m \in Run : /\ mine(m) => /\ driver'[m] \in DriverRecord
                                   /\ driver'[m].pc = "gone"
                     /\ ~mine(m) => driver'[m] = driver[m]
  BY <1>1, <1>3 DEF DriverRecord, DriverPc
<1>5. driver' \in [Run -> DriverRecord]
  BY <1>1, <1>3, <1>4
<1>6. OnlyOnwards
  BY <1>4 DEF OnlyOnwards, InFlight, Over, Ended
<1>7. Attended' /\ Replays' /\ ReadersHaveRuns'
  BY <1>1, <1>6, AttendedKept, ReplaysKept, ReadersKept
<1>8. DriversHaveWorkers'
  BY <1>4 DEF ToolInv, DriversHaveWorkers, InFlight, Over
<1>9. active' \in [Worker -> Nat]
  BY <1>1, <1>2 DEF ToolTyped
<1>10. SlotsFollowRuns'
  <2>1. Taken(w)' = {}
    BY <1>4 DEF Taken, Holds, InFlight, Over, HoldsSlot
  <2>2. \A v \in Worker : v # w => Taken(v)' = Taken(v)
    BY <1>4 DEF Taken, Holds, InFlight, Over, HoldsSlot
  <2>3. active'[w] = 0 /\ \A v \in Worker : v # w => active'[v] = active[v]
    BY <1>1, <1>2 DEF ToolTyped
  <2>4. Cardinality(Taken(w)') = 0
    BY <2>1, FS_EmptySet
  <2>5. \A v \in Worker : active[v] <= ConcurrentRuns /\ active[v] = Cardinality(Taken(v))
    BY SlotsAre DEF ToolInv
  <2> QED
    BY <2>2, <2>3, <2>4, <2>5, SlotsAreNext, RunBoundsAssumption
<1>11. ToolTyped'
  BY <1>1, <1>2, <1>5, <1>9 DEF ToolTyped
<1> QED
  BY <1>7, <1>8, <1>10, <1>11 DEF ToolInv

-----------------------------------------------------------------------------
(* The steps of the records.                                               *)

LEMMA CreateRunKeeps ==
  ASSUME ToolInv, NEW n \in Run, CreateRun(n)
  PROVE  ToolInv'
<1> DEFINE new == [status |-> "running", live |-> TRUE]
<1>1. /\ driver[n].pc = "writing" /\ record[n].status = "absent"
      /\ record' = [record EXCEPT ![n] = new]
      /\ UNCHANGED <<driver, active, epoch, reader, origin, unattended>>
  BY DEF CreateRun, Stay
<1>2. ToolTyped
  BY DEF ToolInv
<1>3. new \in RunRecord
  BY Zenon DEF RunRecord, Terminal
<1>4. record' \in [Run -> RunRecord] /\ record'[n] = new
  BY <1>1, <1>2, <1>3 DEF ToolTyped
<1>5. record'[n].status = "running" /\ record'[n].live
  BY <1>4
<1>6. \A m \in Run : m # n => record'[m] = record[m]
  BY <1>1, <1>2 DEF ToolTyped
<1>7. ReadersHaveRuns' /\ Replays'
  <2>1. \A m \in Run : record[m].status # "absent" => record'[m] = record[m]
    BY <1>1, <1>6
  <2>2. \A m \in Run : record[m].status # "absent" => record'[m].status # "absent"
    BY <2>1
  <2>3. \A m \in Run : record[m].status = "lost" => record'[m].status = "lost"
    BY <2>1
  <2> QED
    BY <1>1, <2>2, <2>3, ReadersKept, ReplaysKept
<1>8. Attended'
  <2>1. RecordedWasDriven'
    BY <1>1, <1>6 DEF ToolInv, Attended, RecordedWasDriven
  <2>2. AttendedIsLive'
    BY <1>1, <1>5, <1>6 DEF ToolInv, Attended, AttendedIsLive, InFlight, Over
  <2>3. FoundDeadIsOver'
    BY <1>1 DEF ToolInv, Attended, FoundDeadIsOver, Ended
  <2> QED
    BY <2>1, <2>2, <2>3 DEF Attended
<1>9. DriversHaveWorkers'
  BY <1>1 DEF ToolInv, DriversHaveWorkers, InFlight, Over
<1>10. \A m \in Run, v \in Worker : Holds(m, v)' <=> Holds(m, v)
  BY <1>1 DEF Holds, InFlight, Over, HoldsSlot
<1>11. SlotsFollowRuns'
  BY <1>1, <1>10, SlotsKept
<1>12. ToolTyped'
  BY <1>1, <1>2, <1>4 DEF ToolTyped
<1> QED
  BY <1>7, <1>8, <1>9, <1>11, <1>12 DEF ToolInv

(***************************************************************************)
(* The liveness key changes alone; one that lapses under a live task makes *)
(* the run unattended.                                                     *)
(***************************************************************************)
LEMMA LivenessKeeps ==
  ASSUME ToolInv, NEW n \in Run, NEW b \in BOOLEAN,
         record' = [record EXCEPT ![n].live = b],
         unattended \subseteq unattended', unattended' \subseteq Run,
         InFlight(n) /\ n \notin unattended' => b,
         UNCHANGED <<driver, active, epoch, reader, origin>>
  PROVE  ToolInv'
<1>1. ToolTyped
  BY DEF ToolInv
<1>2. /\ record' \in [Run -> RunRecord]
      /\ record'[n].live = b
      /\ \A m \in Run : m # n => record'[m].live = record[m].live
      /\ \A m \in Run : record'[m].status = record[m].status
  BY <1>1, LiveSet
<1>3. ReadersHaveRuns' /\ Replays'
  BY <1>2, ReadersKept, ReplaysKept
<1>4. RecordedWasDriven'
  BY <1>2 DEF ToolInv, Attended, RecordedWasDriven
<1>5. AttendedIsLive'
  BY <1>2 DEF ToolInv, Attended, AttendedIsLive, InFlight, Over
<1>6. FoundDeadIsOver'
  BY DEF ToolInv, Attended, FoundDeadIsOver, Ended
<1>7. DriversHaveWorkers'
  BY DEF ToolInv, DriversHaveWorkers, InFlight, Over
<1>8. \A m \in Run, v \in Worker : Holds(m, v)' <=> Holds(m, v)
  BY DEF Holds, InFlight, Over, HoldsSlot
<1>9. SlotsFollowRuns'
  BY <1>8, SlotsKept
<1>10. ToolTyped'
  BY <1>1, <1>2 DEF ToolTyped
<1> QED
  BY <1>3, <1>4, <1>5, <1>6, <1>7, <1>9, <1>10 DEF ToolInv, Attended

LEMMA RefreshLivenessKeeps ==
  ASSUME ToolInv, NEW n \in Run, RefreshLiveness(n)
  PROVE  ToolInv'
<1>1. record' = [record EXCEPT ![n].live = TRUE]
  BY DEF RefreshLiveness
<1>2. UNCHANGED <<driver, active, epoch, reader, origin, unattended>> /\ unattended \subseteq Run
  BY DEF RefreshLiveness, Stay, ToolInv, ToolTyped
<1> QED
  BY <1>1, <1>2, LivenessKeeps

LEMMA LivenessLapsesKeeps ==
  ASSUME ToolInv, NEW n \in Run, LivenessLapses(n)
  PROVE  ToolInv'
<1>1. /\ record' = [record EXCEPT ![n].live = FALSE]
      /\ UNCHANGED <<driver, active, epoch, reader, origin>>
      /\ IF InFlight(n) THEN unattended' = unattended \cup {n}
         ELSE unattended' = unattended
  BY DEF LivenessLapses, Stay
<1>2. unattended \subseteq Run
  BY DEF ToolInv, ToolTyped
<1>3. /\ unattended \subseteq unattended' /\ unattended' \subseteq Run
      /\ ~(InFlight(n) /\ n \notin unattended')
  BY <1>1, <1>2
<1> QED
  BY <1>1, <1>3, LivenessKeeps

LEMMA RetireEpochKeeps ==
  ASSUME ToolInv, NEW w \in Worker, RetireEpoch(w)
  PROVE  ToolInv'
<1>1. UNCHANGED <<record, driver, active, reader, origin, unattended>>
  BY DEF RetireEpoch
<1>2. epoch' \in [Worker -> 0..MaxEpoch]
  BY RunBoundsAssumption DEF RetireEpoch, ToolInv, ToolTyped
<1>3. OnlyOnwards
  BY <1>1 DEF OnlyOnwards, InFlight, Over, Ended
<1>4. Attended' /\ Replays' /\ ReadersHaveRuns'
  BY <1>1, <1>3, AttendedKept, ReplaysKept, ReadersKept
<1>5. DriversHaveWorkers'
  BY <1>1 DEF ToolInv, DriversHaveWorkers, InFlight, Over
<1>6. \A m \in Run, v \in Worker : Holds(m, v)' <=> Holds(m, v)
  BY <1>1 DEF Holds, InFlight, Over, HoldsSlot
<1>7. SlotsFollowRuns'
  BY <1>1, <1>6, SlotsKept
<1>8. ToolTyped'
  BY <1>1, <1>2 DEF ToolInv, ToolTyped
<1> QED
  BY <1>4, <1>5, <1>7, <1>8 DEF ToolInv

-----------------------------------------------------------------------------
(* The steps of the readers.                                               *)

(***************************************************************************)
(* A reader that finds a run to look at, finds it dead, or leaves it.      *)
(***************************************************************************)
LEMMA ReaderMoves ==
  ASSUME ToolInv, NEW q \in Reader, NEW to \in ReadRun,
         reader' = [reader EXCEPT ![q] = to],
         to.pc # "idle" => to.run \in Run /\ record[to.run].status # "absent",
         to.pc # "replaying",
         to.pc = "marking" /\ to.run \notin unattended => Ended(to.run),
         UNCHANGED <<record, driver, active, epoch, origin, unattended>>
  PROVE  ToolInv'
<1>1. reader' \in [Reader -> ReadRun] /\ reader'[q] = to
  BY DEF ToolInv, ToolTyped
<1>2. \A p \in Reader : p # q => reader'[p] = reader[p]
  BY DEF ToolInv, ToolTyped
<1>3. ReadersHaveRuns'
  BY <1>1, <1>2 DEF ToolInv, ReadersHaveRuns
<1>4. \A p \in Reader : reader'[p].pc = "replaying" => reader'[p] = reader[p]
  BY <1>1, <1>2
<1>5. ReplaysAreOfLost'
  BY <1>4 DEF ToolInv, Replays, ReplaysAreOfLost
<1>6. ReplaysAreOne'
  BY <1>4 DEF ToolInv, Replays, ReplaysAreOne, ReplayedOnce
<1>7. RecordedWasDriven' /\ AttendedIsLive'
  BY DEF ToolInv, Attended, RecordedWasDriven, AttendedIsLive, InFlight, Over
<1>8. FoundDeadIsOver'
  BY <1>1, <1>2 DEF ToolInv, Attended, FoundDeadIsOver, Ended
<1>9. DriversHaveWorkers'
  BY DEF ToolInv, DriversHaveWorkers, InFlight, Over
<1>10. \A m \in Run, v \in Worker : Holds(m, v)' <=> Holds(m, v)
  BY DEF Holds, InFlight, Over, HoldsSlot
<1>11. SlotsFollowRuns'
  BY <1>10, SlotsKept
<1>12. ToolTyped'
  BY <1>1 DEF ToolInv, ToolTyped
<1> QED
  BY <1>3, <1>5, <1>6, <1>7, <1>8, <1>9, <1>11, <1>12 DEF ToolInv, Replays, Attended

LEMMA NoReadType == NoRead \in ReadRun /\ NoRead.pc = "idle"
  BY DEF NoRead, ReadRun

LEMMA ReadRecordKeeps ==
  ASSUME ToolInv, NEW q \in Reader, NEW n \in Run, ReadRecord(q, n)
  PROVE  ToolInv'
<1> DEFINE to == [pc |-> "looking", run |-> n]
<1>1. /\ record[n].status = "running"
      /\ reader' = [reader EXCEPT ![q] = to]
      /\ UNCHANGED <<record, driver, active, epoch, origin, unattended>>
  BY DEF ReadRecord
<1>2. to \in ReadRun /\ to.pc = "looking" /\ to.run = n
  BY DEF ReadRun
<1> HIDE DEF to
<1> QED
  BY <1>1, <1>2, ReaderMoves

LEMMA ReaderStops ==
  ASSUME ToolInv, NEW q \in Reader, reader' = [reader EXCEPT ![q] = NoRead],
         UNCHANGED <<record, driver, active, epoch, origin, unattended>>
  PROVE  ToolInv'
  BY NoReadType, ReaderMoves

LEMMA ReadLivenessKeeps ==
  ASSUME ToolInv, NEW q \in Reader, ReadLiveness(q)
  PROVE  ToolInv'
<1> DEFINE n == reader[q].run
           to == [reader[q] EXCEPT !.pc = "marking"]
<1>1. /\ reader[q].pc = "looking"
      /\ reader' = [reader EXCEPT ![q] = IF record[n].live THEN NoRead ELSE to]
      /\ UNCHANGED <<record, driver, active, epoch, origin, unattended>>
  BY DEF ReadLiveness
<1>2. n \in Run /\ record[n].status # "absent"
  BY <1>1 DEF ToolInv, ReadersHaveRuns
<1>3. reader[q] \in ReadRun
  BY DEF ToolInv, ToolTyped
<1>4. to \in ReadRun /\ to.pc = "marking" /\ to.run = n
  BY <1>3 DEF ReadRun
<1>5. CASE record[n].live
  BY <1>1, <1>5, ReaderStops
<1>6. CASE ~record[n].live
  <2>1. n \notin unattended => ~InFlight(n)
    BY <1>2, <1>6 DEF ToolInv, Attended, AttendedIsLive
  <2>2. driver[n].pc # "none"
    BY <1>2 DEF ToolInv, Attended, RecordedWasDriven
  <2>3. n \notin unattended => Ended(n)
    BY <2>1, <2>2 DEF InFlight, Ended
  <2>4. reader' = [reader EXCEPT ![q] = to]
    BY <1>1, <1>6
  <2> HIDE DEF to, n
  <2> QED
    BY <1>1, <1>2, <1>4, <2>3, <2>4, ReaderMoves
<1> QED
  BY <1>5, <1>6

(***************************************************************************)
(* The reader that marks the run lost is the one that may replay it.       *)
(***************************************************************************)
LEMMA MarkLostKeeps ==
  ASSUME ToolInv, NEW q \in Reader, MarkLost(q)
  PROVE  ToolInv'
<1> DEFINE n == reader[q].run
           to == AfterMark(n)
<1>1. /\ reader[q].pc = "marking"
      /\ UNCHANGED <<driver, active, epoch, origin, unattended>>
      /\ IF record[n].status = "running"
         THEN /\ record' = [record EXCEPT ![n].status = "lost"]
              /\ reader' = [reader EXCEPT ![q] = to]
         ELSE UNCHANGED record /\ reader' = [reader EXCEPT ![q] = NoRead]
  BY DEF MarkLost
<1>2. ToolTyped /\ n \in Run
  BY <1>1 DEF ToolInv, ReadersHaveRuns
<1>3. CASE record[n].status # "running"
  BY <1>1, <1>3, ReaderStops
<1>4. CASE record[n].status = "running"
  <2>1. record' = [record EXCEPT ![n].status = "lost"]
        /\ reader' = [reader EXCEPT ![q] = to]
    BY <1>1, <1>4
  <2>2. "lost" \in {"absent", "running"} \cup Terminal
    BY DEF Terminal
  <2>3. /\ record' \in [Run -> RunRecord]
        /\ record'[n].status = "lost"
        /\ \A m \in Run : m # n => record'[m].status = record[m].status
        /\ \A m \in Run : record'[m].live = record[m].live
    BY <1>2, <2>1, <2>2, StatusSet
  <2>4. /\ to \in ReadRun
        /\ to.pc \in {"idle", "replaying"}
        /\ to.pc = "replaying" => to.run = n
    BY <1>2 DEF AfterMark, NoRead, ReadRun
  <2>5. /\ reader' \in [Reader -> ReadRun] /\ reader'[q] = to
        /\ \A p \in Reader : p # q => reader'[p] = reader[p]
    BY <1>2, <2>1, <2>4 DEF ToolTyped
  <2> HIDE DEF to
  <2>6. \A p \in Reader : reader[p].pc # "idle" => reader[p].run \in Run
    BY DEF ToolInv, ReadersHaveRuns
  <2>7. \A m \in Run : record'[m].status = "absent" <=> record[m].status = "absent"
    BY <1>4, <2>3
  <2>8. ReadersHaveRuns'
    BY <1>2, <2>3, <2>4, <2>5, <2>7 DEF ToolInv, ReadersHaveRuns
  <2>9. \A p \in Reader : reader[p].pc = "replaying" => reader[p].run # n
    BY <1>4 DEF ToolInv, Replays, ReplaysAreOfLost
  <2>10. \A m \in Run : origin[m] # n
    BY <1>2, <1>4, NoRunIsNone DEF ToolInv, Replays, ReplaysAreOfLost
  <2>11. \A m \in Run : record[m].status = "lost" => record'[m].status = "lost"
    BY <2>3
  <2>12. ReplaysAreOfLost'
    <3>1. \A p \in Reader : reader'[p].pc = "replaying" =>
            record'[reader'[p].run].status = "lost"
      BY <2>3, <2>4, <2>5, <2>6, <2>11 DEF ToolInv, Replays, ReplaysAreOfLost
    <3>2. \A m \in Run : origin[m] \in Run \cup {NoRun}
      BY <1>2 DEF ToolTyped
    <3>3. \A m \in Run : origin'[m] # NoRun => record'[origin'[m]].status = "lost"
      BY <1>1, <2>11, <3>2 DEF ToolInv, Replays, ReplaysAreOfLost
    <3> QED
      BY <3>1, <3>3 DEF ReplaysAreOfLost
  <2>13. ReplaysAreOne'
    <3>1. \A p, o \in Reader :
            p # o /\ reader'[p].pc = "replaying" /\ reader'[o].pc = "replaying"
            => reader'[p].run # reader'[o].run
      BY <2>4, <2>5, <2>9 DEF ToolInv, Replays, ReplaysAreOne
    <3>2. \A p \in Reader, m \in Run :
            reader'[p].pc = "replaying" => origin'[m] # reader'[p].run
      BY <1>1, <2>4, <2>5, <2>10 DEF ToolInv, Replays, ReplaysAreOne
    <3>3. ReplayedOnce'
      BY <1>1 DEF ToolInv, Replays, ReplaysAreOne, ReplayedOnce
    <3> QED
      BY <3>1, <3>2, <3>3 DEF ReplaysAreOne
  <2>14. Attended'
    <3>1. RecordedWasDriven' /\ AttendedIsLive'
      BY <1>1, <2>3, <2>7 DEF ToolInv, Attended, RecordedWasDriven, AttendedIsLive, InFlight
    <3>2. n \notin unattended => Ended(n)
      BY <1>1 DEF ToolInv, Attended, FoundDeadIsOver, Ended
    <3>3. FoundDeadIsOver'
      BY <1>1, <2>4, <2>5, <3>2 DEF ToolInv, Attended, FoundDeadIsOver, Ended
    <3> QED
      BY <3>1, <3>3 DEF Attended
  <2>15. DriversHaveWorkers'
    BY <1>1 DEF ToolInv, DriversHaveWorkers, InFlight, Over
  <2>16. \A m \in Run, v \in Worker : Holds(m, v)' <=> Holds(m, v)
    BY <1>1 DEF Holds, InFlight, Over, HoldsSlot
  <2>17. SlotsFollowRuns'
    BY <1>1, <2>16, SlotsKept
  <2>18. ToolTyped'
    BY <1>1, <1>2, <2>3, <2>5 DEF ToolTyped
  <2> QED
    BY <2>8, <2>12, <2>13, <2>14, <2>15, <2>17, <2>18 DEF ToolInv, Replays
<1> QED
  BY <1>3, <1>4

-----------------------------------------------------------------------------
(* The invariant.                                                          *)

LEMMA ToolInitHolds ==
  ASSUME ToolInit
  PROVE  ToolInv
<1>1. PICK never \in SUBSET Run : ToolStart(never)
  BY DEF ToolInit
<1>2. \A n \in Run : /\ record[n].status = "absent" /\ ~record[n].live
                     /\ driver[n].pc \in {"none", "gone"}
                     /\ origin[n] = NoRun
  BY <1>1 DEF ToolStart, NoDriver
<1>3. ToolTyped
  <2>1. [status |-> "absent", live |-> FALSE] \in RunRecord
    BY Zenon DEF RunRecord
  <2>2. NoDriver \in DriverRecord /\ [NoDriver EXCEPT !.pc = "gone"] \in DriverRecord
    BY DEF NoDriver, DriverRecord, DriverPc
  <2> QED
    BY <1>1, <2>1, <2>2, NoReadType, RunBoundsAssumption DEF ToolStart, ToolTyped
<1>4. \A q \in Reader : reader[q].pc = "idle"
  BY <1>1, NoReadType DEF ToolStart
<1>5. ReadersHaveRuns /\ DriversHaveWorkers
  BY <1>2, <1>4 DEF ReadersHaveRuns, DriversHaveWorkers, InFlight, Over
<1>6. Replays
  BY <1>2, <1>4 DEF Replays, ReplaysAreOfLost, ReplaysAreOne, ReplayedOnce
<1>7. Attended
  BY <1>2, <1>4, NoRunIsNone
  DEF Attended, RecordedWasDriven, AttendedIsLive, FoundDeadIsOver, Ended
<1>8. SlotsFollowRuns
  <2>1. \A w \in Worker : Taken(w) = {}
    BY <1>2 DEF Taken, Holds, InFlight, Over, HoldsSlot
  <2>2. \A w \in Worker : Cardinality(Taken(w)) = 0 /\ active[w] = 0
    BY <1>1, <2>1, FS_EmptySet DEF ToolStart
  <2> QED
    BY <2>2, SlotsAre, RunBoundsAssumption
<1> QED
  BY <1>3, <1>5, <1>6, <1>7, <1>8 DEF ToolInv

LEMMA ToolNextKeeps ==
  ASSUME ToolInv, ToolNext
  PROVE  ToolInv'
<1>1. CASE \E n \in Run :
             \/ CreateRun(n) \/ SpawnSupervisor(n) \/ CreateRaises(n) \/ SubmitCut(n)
             \/ ToolEnds(n) \/ WriteTerminal(n) \/ SuperviseRaises(n)
             \/ RefreshLiveness(n) \/ LivenessLapses(n) \/ DrainSupervisor(n)
  BY <1>1, CreateRunKeeps, SpawnSupervisorKeeps, RaisesKeep, SubmitCutKeeps, ToolEndsKeeps,
     WriteTerminalKeeps, RefreshLivenessKeeps, LivenessLapsesKeeps, DrainSupervisorKeeps
<1>2. CASE \E w \in Worker, n \in Run : ReserveSlot(w, n) \/ RunRecorded(w, n)
  BY <1>2, ReserveSlotKeeps, RunRecordedKeeps
<1>3. CASE \E w \in Worker : RetireEpoch(w) \/ WorkerDies(w)
  BY <1>3, RetireEpochKeeps, WorkerDiesKeeps
<1>4. CASE \E q \in Reader, n \in Run : ReadRecord(q, n)
  BY <1>4, ReadRecordKeeps
<1>5. CASE \E q \in Reader : ReadLiveness(q) \/ MarkLost(q) \/ ReaderDies(q)
  <2>1. ASSUME NEW q \in Reader, ReaderDies(q) PROVE ToolInv'
    BY <2>1, ReaderStops DEF ReaderDies
  <2> QED
    BY <1>5, <2>1, ReadLivenessKeeps, MarkLostKeeps
<1>6. CASE \E q \in Reader, w \in Worker, n \in Run : SpawnCrashResume(q, w, n)
  BY <1>6, SpawnCrashResumeKeeps
<1> QED
  BY <1>1, <1>2, <1>3, <1>4, <1>5, <1>6 DEF ToolNext

LEMMA ToolStutters ==
  ASSUME ToolInv, UNCHANGED toolVars
  PROVE  ToolInv'
<1>1. UNCHANGED <<record, driver, active, epoch, reader, origin, unattended>>
  BY DEF toolVars
<1> QED
  BY <1>1 DEF ToolInv, ToolTyped, ReadersHaveRuns, DriversHaveWorkers, Replays,
     ReplaysAreOfLost, ReplaysAreOne, ReplayedOnce, Attended, RecordedWasDriven,
     AttendedIsLive, FoundDeadIsOver, SlotsFollowRuns, HoldsSlot, InFlight, Over, Ended

LEMMA ToolStep ==
  ASSUME ToolInv, [ToolNext]_toolVars
  PROVE  ToolInv'
  BY ToolNextKeeps, ToolStutters

LEMMA ToolInvariant == ToolSpec => []ToolInv
<1>1. ToolInit => ToolInv
  BY ToolInitHolds
<1>2. ToolInv /\ [ToolNext]_toolVars => ToolInv'
  BY ToolStep
<1> QED
  BY <1>1, <1>2, PTL DEF ToolSpec

-----------------------------------------------------------------------------
(* The theorems.                                                           *)

(***************************************************************************)
(* Records, drivers, slots and readers keep their types.                   *)
(***************************************************************************)
THEOREM ToolRunsTypeCorrect == ToolSpec => []ToolTypeOK
<1>1. ToolInv => ToolTypeOK
  <2>1. ToolTyped => /\ record \in [Run -> RunRecord]
                     /\ active \in [Worker -> Nat] /\ epoch \in [Worker -> 0..MaxEpoch]
                     /\ \A n \in Run : origin[n] \in Run \cup {NoRun}
                     /\ \A q \in Reader : reader[q].run \in Run \cup {NoRun}
    BY DEF ToolTyped, ReadRun
  <2> QED
    BY <2>1, Zenon DEF ToolInv, ToolTypeOK, RunRecord
<1> QED
  BY <1>1, ToolInvariant, PTL

(***************************************************************************)
(* A lost run is replayed once (_reconcile_lost_with_liveness over the     *)
(* compare-and-set of mark_terminal_if_running), whatever number of        *)
(* readers find it dead.                                                   *)
(***************************************************************************)
THEOREM LostRunsReplayOnce == ToolSpec => []ReplayedOnce
<1>1. ToolInv => ReplayedOnce
  BY DEF ToolInv, Replays, ReplaysAreOne
<1> QED
  BY <1>1, ToolInvariant, PTL

(***************************************************************************)
(* A run and its replay never drive the tool side by side, but for a run   *)
(* whose liveness lapsed under its live task (_refresh_liveness_loop).     *)
(***************************************************************************)
THEOREM ReplaysRunAlone == ToolSpec => []NoRunBesideItsReplay
<1>1. ToolInv => NoRunBesideItsReplay
  BY DEF ToolInv, Attended, FoundDeadIsOver, NoRunBesideItsReplay, InFlight, Ended
<1> QED
  BY <1>1, ToolInvariant, PTL

(***************************************************************************)
(* A worker's slots are within the cap, and each is that of a submit in    *)
(* flight or was left behind by one that was cut between the reservation   *)
(* and its supervisor (reserve_active_slot, release_active_slot): there is *)
(* no other leak, and no slot is given back twice.                         *)
(***************************************************************************)
THEOREM SlotsAreHeldByRuns == ToolSpec => []SlotsFollowRuns
<1>1. ToolInv => SlotsFollowRuns
  BY DEF ToolInv
<1> QED
  BY <1>1, ToolInvariant, PTL

(***************************************************************************)
(* The only writes to a settled record are to its liveness.                *)
(***************************************************************************)
LEMMA TerminalStep ==
  ASSUME ToolInv, [ToolNext]_toolVars
  PROVE  \A n \in Run : record[n].status \in Terminal => record'[n].status = record[n].status
<1>1. ToolTyped
  BY DEF ToolInv
<1>2. CASE UNCHANGED record
  BY <1>2
<1>3. ASSUME NEW n \in Run, CreateRun(n)
      PROVE  \A m \in Run : record[m].status \in Terminal => record'[m].status = record[m].status
  BY <1>1, <1>3 DEF CreateRun, ToolTyped, Terminal
<1>4. ASSUME NEW n \in Run, RefreshLiveness(n) \/ LivenessLapses(n)
      PROVE  \A m \in Run : record'[m].status = record[m].status
  <2>1. \/ record' = [record EXCEPT ![n].live = TRUE]
        \/ record' = [record EXCEPT ![n].live = FALSE]
    BY <1>4 DEF RefreshLiveness, LivenessLapses
  <2> QED
    BY <1>1, <2>1, LiveSet
<1>5. ASSUME NEW n \in Run, WriteTerminal(n)
      PROVE  \A m \in Run : record[m].status \in Terminal => record'[m].status = record[m].status
  <2>1. CASE record[n].status = "running"
    <3>1. record' = [record EXCEPT ![n].status = Outcome(n)]
      BY <1>5, <2>1 DEF WriteTerminal
    <3>2. Outcome(n) \in {"absent", "running"} \cup Terminal
      BY DEF Outcome, Terminal
    <3>3. \A m \in Run : m # n => record'[m].status = record[m].status
      BY <1>1, <3>1, <3>2, StatusSet
    <3> QED
      BY <2>1, <3>3 DEF Terminal
  <2>2. CASE record[n].status # "running"
    BY <1>5, <2>2 DEF WriteTerminal
  <2> QED
    BY <2>1, <2>2
<1>6. ASSUME NEW q \in Reader, MarkLost(q)
      PROVE  \A m \in Run : record[m].status \in Terminal => record'[m].status = record[m].status
  <2> DEFINE n == reader[q].run
  <2>1. n \in Run
    BY <1>6 DEF MarkLost, ToolInv, ReadersHaveRuns
  <2>2. CASE record[n].status = "running"
    <3>1. record' = [record EXCEPT ![n].status = "lost"]
      BY <1>6, <2>2 DEF MarkLost
    <3>2. "lost" \in {"absent", "running"} \cup Terminal
      BY DEF Terminal
    <3>3. \A m \in Run : m # n => record'[m].status = record[m].status
      BY <1>1, <2>1, <3>1, <3>2, StatusSet
    <3> QED
      BY <2>2, <3>3 DEF Terminal
  <2>3. CASE record[n].status # "running"
    BY <1>6, <2>3 DEF MarkLost
  <2> QED
    BY <2>2, <2>3
<1>7. \/ UNCHANGED record
      \/ \E n \in Run : CreateRun(n) \/ RefreshLiveness(n) \/ LivenessLapses(n)
                        \/ WriteTerminal(n)
      \/ \E q \in Reader : MarkLost(q)
  <2>1. CASE ToolNext
    BY <2>1 DEF ToolNext, SpawnSupervisor, CreateRaises, SubmitCut, ToolEnds, SuperviseRaises,
       DrainSupervisor, ReserveSlot, RunRecorded, RetireEpoch, WorkerDies, ReadRecord,
       ReadLiveness, ReaderDies, SpawnCrashResume
  <2> QED
    BY <2>1 DEF toolVars
<1> QED
  BY <1>2, <1>3, <1>4, <1>5, <1>6, <1>7

(***************************************************************************)
(* No record leaves a terminal status (_TERMINAL_CAS_LUA), whoever comes   *)
(* late.                                                                   *)
(***************************************************************************)
THEOREM TerminalRecordsStay == ToolSpec => TerminalStays
<1>1. ToolInv /\ [ToolNext]_toolVars =>
        [\A n \in Run : record[n].status \in Terminal =>
           record'[n].status = record[n].status]_toolVars
  BY TerminalStep
<1> QED
  BY <1>1, ToolInvariant, PTL DEF ToolSpec, TerminalStays
=============================================================================
