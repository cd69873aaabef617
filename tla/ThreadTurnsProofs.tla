-------------------------- MODULE ThreadTurnsProofs --------------------------
(***************************************************************************)
(* Theorems about the turns of conversation threads, for every set of      *)
(* turns, threads and workers, every lease and refresh interval the        *)
(* settings accept, every queue depth and every ceiling.                   *)
(***************************************************************************)
EXTENDS ThreadTurns, FiniteSetTheorems, TLAPS

-----------------------------------------------------------------------------
(* Records and steps.                                                      *)

LEMMA NumberFacts ==
  /\ LeaseTicks \in Nat /\ RefreshTicks \in Nat
  /\ 0 < RefreshTicks /\ RefreshTicks < LeaseTicks
  /\ QueueDepth \in Nat /\ 0 < QueueDepth
  BY LeaseAssumption, LimitsAssumption

LEMMA NewTurnType == NewTurn \in TurnRecord
  BY NumberFacts DEF NewTurn, TurnRecord, TurnPc

(***************************************************************************)
(* Setting a field of a turn's record keeps its type.                      *)
(***************************************************************************)
LEMMA FieldTypes ==
  ASSUME NEW r \in TurnRecord
  PROVE  /\ \A pc \in TurnPc : [r EXCEPT !.pc = pc] \in TurnRecord
         /\ \A n \in 0..RefreshTicks : [r EXCEPT !.beat = n] \in TurnRecord
         /\ \A n \in 0..RefreshTicks, m \in 0..(LeaseTicks + RefreshTicks) :
              [r EXCEPT !.beat = n, !.since = m] \in TurnRecord
         /\ \A n \in 0..LeaseTicks : [r EXCEPT !.bound = n] \in TurnRecord
         /\ \A n \in 0..LeaseTicks :
              [r EXCEPT !.pc = "wait", !.bound = n] \in TurnRecord
         /\ [r EXCEPT !.woken = TRUE] \in TurnRecord
  BY DEF TurnRecord, TurnPc

LEMMA RefreshedType ==
  ASSUME NEW r \in TurnRecord
  PROVE  /\ [r EXCEPT !.beat = RefreshTicks, !.since = 0] \in TurnRecord
         /\ [r EXCEPT !.beat = RefreshTicks] \in TurnRecord
<1>1. RefreshTicks \in 0..RefreshTicks /\ 0 \in 0..(LeaseTicks + RefreshTicks)
  BY NumberFacts
<1> QED
  BY <1>1, FieldTypes

LEMMA RecordFields ==
  ASSUME NEW r \in TurnRecord
  PROVE  /\ r.pc \in TurnPc /\ r.beat \in 0..RefreshTicks
         /\ r.since \in 0..(LeaseTicks + RefreshTicks)
         /\ r.bound \in 0..LeaseTicks
  BY DEF TurnRecord

LEMMA AtType == ASSUME NEW pc \in TurnPc PROVE At(pc) \in TurnRecord
  BY FieldTypes, NewTurnType DEF At

LEMMA AtFields ==
  ASSUME NEW pc \in TurnPc
  PROVE  At(pc).pc = pc
  BY DEF At, NewTurn

LEMMA HoldingType == Holding("gate") \in TurnRecord
<1>1. "gate" \in TurnPc
  BY DEF TurnPc
<1>2. At("gate") \in TurnRecord
  BY <1>1, AtType
<1>3. RefreshTicks \in 0..RefreshTicks
  BY NumberFacts
<1> QED
  BY <1>2, <1>3, FieldTypes DEF Holding

LEMMA HoldingFields ==
  /\ Holding("gate").pc = "gate"
  /\ Holding("gate").since = 0
  /\ Holding("gate").beat = RefreshTicks
  BY DEF Holding, At, NewTurn

LEMMA LessFacts ==
  ASSUME NEW n \in Nat
  PROVE  /\ Less(n) \in Nat /\ Less(n) <= n
         /\ n > 0 => Less(n) = n - 1
         /\ n = 0 => Less(n) = 0
  BY DEF Less

(***************************************************************************)
(* The steps of Next, each on its own.                                     *)
(***************************************************************************)
LEMMA NextCases ==
  ASSUME Next
  PROVE  \/ \E t \in Turn : Refresh(t) /\ UNCHANGED capsVars
         \/ \E t \in Turn : RefreshFindsItLost(t) /\ UNCHANGED capsVars
         \/ \E t \in Turn : RefreshRaises(t) /\ UNCHANGED capsVars
         \/ \E t \in Turn : ScheduleTurn(t)
         \/ \E t \in Turn : LockThread(t)
         \/ \E t \in Turn : TryFirst(t) /\ UNCHANGED capsVars
         \/ \E t \in Turn : Retry(t) /\ UNCHANGED capsVars
         \/ \E t \in Turn : WaitEnds(t) /\ UNCHANGED capsVars
         \/ \E t \in Turn : EnterGate(t)
         \/ \E t \in Turn : LeaveThread(t)
         \/ \E t \in Turn : FinishBody(t)
         \/ \E t \in Turn : Accept(t)
         \/ \E t \in Turn : AcceptFails(t)
         \/ \E t \in Turn : ScheduleRaises(t)
         \/ \E t \in Turn : AcquireRaises(t) /\ UNCHANGED capsVars
         \/ \E t \in Turn : AcquireTimesOut(t)
         \/ \E w \in Worker : Subscribed(w) /\ UNCHANGED capsVars
         \/ \E w \in Worker : SubscribeFails(w) /\ UNCHANGED capsVars
         \/ \E w \in Worker, th \in Thread : Wake(w, th) /\ UNCHANGED capsVars
         \/ \E w \in Worker : ListenerLost(w) /\ UNCHANGED capsVars
         \/ \E w \in Worker : Resubscribed(w) /\ UNCHANGED capsVars
         \/ \E w \in Worker : Crash(w)
         \/ Tick /\ UNCHANGED capsVars
  BY DEF Next, Heartbeat, Proceed, Listen, Outside, Clock

(***************************************************************************)
(* The pc's a turn may be sent to.                                         *)
(***************************************************************************)
LEMMA PcNames ==
  /\ {"accepted", "lock", "first", "subscribing", "retry", "wait", "gate",
      "body", "release", "done", "dead"} \subseteq TurnPc
  /\ \A pc \in {"accepted", "lock", "first", "subscribing", "retry", "wait",
                "release", "done", "dead"} : pc \notin Held
  BY DEF TurnPc, Held

(***************************************************************************)
(* One turn goes to a new pc with its other fields reset.                  *)
(***************************************************************************)
LEMMA BecomeAt ==
  ASSUME turn \in [Turn -> TurnRecord], NEW t \in Turn, NEW pc \in TurnPc,
         Become(t, At(pc))
  PROVE  /\ turn' \in [Turn -> TurnRecord]
         /\ turn'[t].pc = pc
         /\ \A u \in Turn : u # t => turn'[u] = turn[u]
  BY AtType, AtFields DEF Become

(***************************************************************************)
(* The lease of a thread is free, taken by a turn, or lapses: the key      *)
(* keeps its type.                                                         *)
(***************************************************************************)
KeyOK == /\ holder \in [Thread -> Turn \cup {NoTurn}]
         /\ ttl \in [Thread -> 0..LeaseTicks]

LEMMA TakeType ==
  ASSUME KeyOK, NEW t \in Turn, Take(t)
  PROVE  /\ KeyOK'
         /\ holder'[ThreadOf[t]] = t /\ ttl'[ThreadOf[t]] = LeaseTicks
         /\ \A th \in Thread : th # ThreadOf[t] =>
              holder'[th] = holder[th] /\ ttl'[th] = ttl[th]
<1>1. ThreadOf[t] \in Thread
  BY ThreadOfAssumption
<1> QED
  BY <1>1, NumberFacts DEF Take, KeyOK

LEMMA ReleaseType ==
  ASSUME KeyOK, inbox \in [Worker -> SUBSET Thread],
         listener \in [Worker -> {"off", "starting", "on", "down"}],
         NEW t \in Turn, Release(t)
  PROVE  KeyOK' /\ inbox' \in [Worker -> SUBSET Thread] /\ listener' = listener
<1>1. ThreadOf[t] \in Thread
  BY ThreadOfAssumption
<1>2. CASE holder[ThreadOf[t]] = t
  BY <1>1, <1>2, NumberFacts DEF Release, KeyOK
<1>3. CASE holder[ThreadOf[t]] # t
  BY <1>3 DEF Release, KeyOK, leaseVars, listenerVars
<1> QED
  BY <1>2, <1>3

ListenerOK == /\ listener \in [Worker -> {"off", "starting", "on", "down"}]
              /\ inbox \in [Worker -> SUBSET Thread]

LEMMA QuitType ==
  ASSUME ListenerOK, NEW t \in Turn, Quit(t)
  PROVE  ListenerOK'
  BY WorkerOfAssumption DEF Quit, ListenerOK, listenerVars

LEMMA PerhapsTakeType ==
  ASSUME KeyOK, NEW t \in Turn, PerhapsTake(t)
  PROVE  KeyOK'
  BY TakeType DEF PerhapsTake, KeyOK, leaseVars

SlotsOK == reserved \in [Worker -> [Thread -> 0..QueueDepth]]

LEMMA SlotType ==
  ASSUME SlotsOK, NEW t \in Turn, GiveSlotBack(t)
  PROVE  SlotsOK'
<1>1. ThreadOf[t] \in Thread /\ WorkerOf[t] \in Worker
  BY ThreadOfAssumption, WorkerOfAssumption
<1>2. \A n \in 0..QueueDepth : Less(n) \in 0..QueueDepth
  BY NumberFacts DEF Less
<1> QED
  BY <1>1, <1>2 DEF GiveSlotBack, SlotsOK

TurnsOK == turn \in [Turn -> TurnRecord]

(***************************************************************************)
(* A tick ages a turn's record within its type.                            *)
(***************************************************************************)
LEMMA AgedType ==
  ASSUME NEW r \in TurnRecord
  PROVE  Aged(r) \in TurnRecord
<1>1. /\ r.beat \in 0..RefreshTicks /\ r.bound \in 0..LeaseTicks
      /\ r.since \in 0..(LeaseTicks + RefreshTicks)
  BY RecordFields
<1>2. /\ Less(r.beat) \in 0..RefreshTicks
      /\ Less(r.bound) \in 0..LeaseTicks
      /\ More(r.since) \in 0..(LeaseTicks + RefreshTicks)
  BY <1>1, NumberFacts DEF Less, More
<1>3. CASE r.pc \in Held
  <2>1. Aged(r) = [r EXCEPT !.beat = Less(r.beat), !.since = More(r.since)]
    BY <1>3, Zenon DEF Aged, Held
  <2>2. \A n \in 0..RefreshTicks, m \in 0..(LeaseTicks + RefreshTicks) :
          [r EXCEPT !.beat = n, !.since = m] \in TurnRecord
    BY FieldTypes
  <2>3. [r EXCEPT !.beat = Less(r.beat), !.since = More(r.since)] \in TurnRecord
    BY <1>2, <2>2, Zenon
  <2> QED
    BY <2>1, <2>3, Zenon
<1>4. CASE r.pc = "wait"
  <2>1. Aged(r) = [r EXCEPT !.bound = Less(r.bound)]
    BY <1>4 DEF Aged, Held
  <2> QED
    BY <1>2, <2>1, FieldTypes
<1>5. CASE r.pc \notin Held /\ r.pc # "wait"
  BY <1>5 DEF Aged
<1> QED
  BY <1>3, <1>4, <1>5

-----------------------------------------------------------------------------
(***************************************************************************)
(* Type correctness.                                                       *)
(***************************************************************************)
LEMMA TypeParts ==
  TypeOK <=> KeyOK /\ TurnsOK /\ ListenerOK /\ SlotsOK /\ crashed \subseteq Worker
  BY DEF TypeOK, LeaseTypeOK, KeyOK, TurnsOK, ListenerOK, SlotsOK

LEMMA TypePartsNext ==
  TypeOK' <=> KeyOK' /\ TurnsOK' /\ ListenerOK' /\ SlotsOK' /\ crashed' \subseteq Worker
  BY DEF TypeOK, LeaseTypeOK, KeyOK, TurnsOK, ListenerOK, SlotsOK

LEMMA TypeInit == Init => TypeOK
<1> SUFFICES ASSUME Init PROVE TypeOK
  OBVIOUS
<1>1. KeyOK
  BY NumberFacts DEF Init, LeaseInit, KeyOK
<1>2. TurnsOK
  BY NewTurnType DEF Init, LeaseInit, TurnsOK
<1>3. ListenerOK
  BY DEF Init, LeaseInit, ListenerOK
<1>4. SlotsOK /\ crashed \subseteq Worker
  BY NumberFacts DEF Init, SlotsOK
<1> QED
  BY <1>1, <1>2, <1>3, <1>4, TypeParts

LEMMA TypeStep == TypeOK /\ [Next]_vars => TypeOK'
<1> SUFFICES ASSUME TypeOK, [Next]_vars PROVE TypeOK'
  OBVIOUS
<1>0. KeyOK /\ TurnsOK /\ ListenerOK /\ SlotsOK /\ crashed \subseteq Worker
  BY TypeParts
<1> SUFFICES KeyOK' /\ TurnsOK' /\ ListenerOK' /\ SlotsOK' /\ crashed' \subseteq Worker
  BY TypePartsNext
<1> USE DEF capsVars, leaseVars, listenerVars
<1>1. CASE \E t \in Turn : Refresh(t) /\ UNCHANGED capsVars
  <2> PICK t \in Turn : Refresh(t) /\ UNCHANGED capsVars
    BY <1>1
  <2>1. Take(t)
    BY DEF Refresh
  <2>2. [turn[t] EXCEPT !.beat = RefreshTicks, !.since = 0] \in TurnRecord
    BY <1>0, RefreshedType DEF TurnsOK
  <2>3. turn' = [turn EXCEPT ![t] = [turn[t] EXCEPT !.beat = RefreshTicks, !.since = 0]]
    BY DEF Refresh
  <2>4. TurnsOK'
    BY <1>0, <2>2, <2>3 DEF TurnsOK
  <2> QED
    BY <1>0, <2>1, <2>4, TakeType DEF Refresh, ListenerOK, SlotsOK
<1>2. CASE \E t \in Turn : RefreshFindsItLost(t) /\ UNCHANGED capsVars
  BY <1>0, <1>2, PcNames, BecomeAt
     DEF RefreshFindsItLost, KeyOK, TurnsOK, ListenerOK, SlotsOK
<1>3. CASE \E t \in Turn : RefreshRaises(t) /\ UNCHANGED capsVars
  <2> PICK t \in Turn : RefreshRaises(t) /\ UNCHANGED capsVars
    BY <1>3
  <2>1. KeyOK'
    BY <1>0, TakeType DEF RefreshRaises, KeyOK
  <2>2. At("release") \in TurnRecord /\ [turn[t] EXCEPT !.beat = RefreshTicks] \in TurnRecord
    BY <1>0, PcNames, AtType, RefreshedType DEF TurnsOK
  <2>3. turn' = [turn EXCEPT ![t] = IF turn[t].since >= LeaseTicks
                   THEN At("release") ELSE [turn[t] EXCEPT !.beat = RefreshTicks]]
    BY DEF RefreshRaises
  <2>4. TurnsOK'
    BY <1>0, <2>2, <2>3 DEF TurnsOK
  <2> QED
    BY <1>0, <2>1, <2>4 DEF RefreshRaises, ListenerOK, SlotsOK
<1>4. CASE \E t \in Turn : ScheduleTurn(t)
  BY <1>0, <1>4, PcNames, BecomeAt DEF ScheduleTurn, KeyOK, TurnsOK, ListenerOK, SlotsOK
<1>5. CASE \E t \in Turn : LockThread(t)
  BY <1>0, <1>5, PcNames, BecomeAt DEF LockThread, KeyOK, TurnsOK, ListenerOK, SlotsOK
<1>6. CASE \E t \in Turn : TryFirst(t) /\ UNCHANGED capsVars
  <2> PICK t \in Turn : TryFirst(t) /\ UNCHANGED capsVars
    BY <1>6
  <2>1. CASE Take(t) /\ Become(t, Holding("gate")) /\ UNCHANGED listenerVars
    <3>1. TurnsOK'
      BY <1>0, <2>1, HoldingType DEF Become, TurnsOK
    <3> QED
      BY <1>0, <2>1, <3>1, TakeType DEF ListenerOK, SlotsOK
  <2>2. CASE Join(t) /\ UNCHANGED leaseVars
    <3>1. TurnsOK'
      BY <1>0, <2>2, PcNames, BecomeAt DEF Join, TurnsOK
    <3>2. ListenerOK'
      BY <1>0, <2>2, WorkerOfAssumption DEF Join, ListenerOK
    <3> QED
      BY <1>0, <2>2, <3>1, <3>2 DEF KeyOK, SlotsOK
  <2> QED
    BY <2>1, <2>2 DEF TryFirst
<1>7. CASE \E t \in Turn : Retry(t) /\ UNCHANGED capsVars
  <2> PICK t \in Turn : Retry(t) /\ UNCHANGED capsVars
    BY <1>7
  <2>1. CASE Take(t) /\ Become(t, Holding("gate")) /\ Quit(t)
    <3>1. TurnsOK'
      BY <1>0, <2>1, HoldingType DEF Become, TurnsOK
    <3> QED
      BY <1>0, <2>1, <3>1, TakeType, QuitType DEF SlotsOK
  <2>2. CASE /\ turn' = [turn EXCEPT ![t].pc = "wait", ![t].bound = ttl[ThreadOf[t]]]
             /\ UNCHANGED <<leaseVars, listenerVars>>
    <3>1. ttl[ThreadOf[t]] \in 0..LeaseTicks
      BY <1>0, ThreadOfAssumption DEF KeyOK
    <3>2. [turn[t] EXCEPT !.pc = "wait", !.bound = ttl[ThreadOf[t]]] \in TurnRecord
      BY <1>0, <3>1, FieldTypes DEF TurnsOK
    <3>3. turn' = [turn EXCEPT ![t] =
                     [turn[t] EXCEPT !.pc = "wait", !.bound = ttl[ThreadOf[t]]]]
      BY <2>2
    <3>4. TurnsOK'
      BY <1>0, <3>2, <3>3 DEF TurnsOK
    <3> QED
      BY <1>0, <2>2, <3>4 DEF KeyOK, ListenerOK, SlotsOK
  <2> QED
    BY <2>1, <2>2 DEF Retry
<1>8. CASE \E t \in Turn : WaitEnds(t) /\ UNCHANGED capsVars
  BY <1>0, <1>8, PcNames, BecomeAt DEF WaitEnds, KeyOK, TurnsOK, ListenerOK, SlotsOK
<1>9. CASE \E t \in Turn : EnterGate(t)
  <2> PICK t \in Turn : EnterGate(t)
    BY <1>9
  <2>1. [turn[t] EXCEPT !.pc = "body"] \in TurnRecord
    BY <1>0, PcNames, FieldTypes DEF TurnsOK
  <2>2. turn' = [turn EXCEPT ![t] = [turn[t] EXCEPT !.pc = "body"]]
    BY DEF EnterGate
  <2>3. TurnsOK'
    BY <1>0, <2>1, <2>2 DEF TurnsOK
  <2> QED
    BY <1>0, <2>3 DEF EnterGate, KeyOK, ListenerOK, SlotsOK
<1>10. CASE \E t \in Turn : LeaveThread(t)
  <2> PICK t \in Turn : LeaveThread(t)
    BY <1>10
  <2>1. TurnsOK'
    BY <1>0, PcNames, BecomeAt DEF LeaveThread, TurnsOK
  <2>2. SlotsOK'
    BY <1>0, SlotType DEF LeaveThread
  <2>3. KeyOK' /\ ListenerOK'
    BY <1>0, ReleaseType DEF LeaveThread, KeyOK, ListenerOK
  <2> QED
    BY <1>0, <2>1, <2>2, <2>3 DEF LeaveThread
<1>11. CASE \E t \in Turn : FinishBody(t)
  BY <1>0, <1>11, PcNames, BecomeAt DEF FinishBody, KeyOK, TurnsOK, ListenerOK, SlotsOK
<1>12. CASE \E t \in Turn : Accept(t)
  <2> PICK t \in Turn : Accept(t)
    BY <1>12
  <2>0. ThreadOf[t] \in Thread /\ WorkerOf[t] \in Worker
    BY ThreadOfAssumption, WorkerOfAssumption
  <2>1. TurnsOK'
    BY <1>0, PcNames, BecomeAt DEF Accept, TurnsOK
  <2>2. SlotsOK'
    BY <1>0, <2>0, NumberFacts DEF Accept, SlotsOK
  <2> QED
    BY <1>0, <2>1, <2>2 DEF Accept, KeyOK, ListenerOK
<1>13. CASE \E t \in Turn : AcceptFails(t)
  BY <1>0, <1>13, PcNames, BecomeAt, SlotType DEF AcceptFails, KeyOK, TurnsOK, ListenerOK
<1>14. CASE \E t \in Turn : ScheduleRaises(t)
  BY <1>0, <1>14, PcNames, BecomeAt DEF ScheduleRaises, KeyOK, TurnsOK, ListenerOK, SlotsOK
<1>15. CASE \E t \in Turn : AcquireRaises(t) /\ UNCHANGED capsVars
  BY <1>0, <1>15, PcNames, BecomeAt, PerhapsTakeType, QuitType
     DEF AcquireRaises, TurnsOK, SlotsOK
<1>16. CASE \E t \in Turn : AcquireTimesOut(t)
  <2> PICK t \in Turn : AcquireTimesOut(t)
    BY <1>16
  <2>1. TurnsOK'
    BY <1>0, PcNames, BecomeAt DEF AcquireTimesOut, TurnsOK
  <2>2. SlotsOK'
    BY <1>0, SlotType DEF AcquireTimesOut, SlotsOK
  <2>3. KeyOK' /\ ListenerOK'
    BY <1>0, PerhapsTakeType, QuitType DEF AcquireTimesOut, KeyOK, ListenerOK
  <2> QED
    BY <1>0, <2>1, <2>2, <2>3 DEF AcquireTimesOut
<1>17. CASE \E w \in Worker : Subscribed(w) /\ UNCHANGED capsVars
  <2> PICK w \in Worker : Subscribed(w) /\ UNCHANGED capsVars
    BY <1>17
  <2>1. TurnsOK'
    BY <1>0, PcNames, AtType DEF Subscribed, TurnsOK
  <2> QED
    BY <1>0, <2>1 DEF Subscribed, KeyOK, ListenerOK, SlotsOK
<1>18. CASE \E w \in Worker : SubscribeFails(w) /\ UNCHANGED capsVars
  <2> PICK w \in Worker : SubscribeFails(w) /\ UNCHANGED capsVars
    BY <1>18
  <2>1. TurnsOK'
    BY <1>0, PcNames, AtType DEF SubscribeFails, TurnsOK
  <2> QED
    BY <1>0, <2>1 DEF SubscribeFails, KeyOK, ListenerOK, SlotsOK
<1>19. CASE \E w \in Worker, th \in Thread : Wake(w, th) /\ UNCHANGED capsVars
  <2> PICK w \in Worker, th \in Thread : Wake(w, th) /\ UNCHANGED capsVars
    BY <1>19
  <2>1. TurnsOK'
    BY <1>0, FieldTypes DEF Wake, TurnsOK
  <2> QED
    BY <1>0, <2>1 DEF Wake, KeyOK, ListenerOK, SlotsOK
<1>20. CASE \E w \in Worker : ListenerLost(w) /\ UNCHANGED capsVars
  <2> PICK w \in Worker : ListenerLost(w) /\ UNCHANGED capsVars
    BY <1>20
  <2>1. TurnsOK'
    BY <1>0, FieldTypes DEF ListenerLost, WakeAll, TurnsOK
  <2> QED
    BY <1>0, <2>1 DEF ListenerLost, KeyOK, ListenerOK, SlotsOK
<1>21. CASE \E w \in Worker : Resubscribed(w) /\ UNCHANGED capsVars
  <2> PICK w \in Worker : Resubscribed(w) /\ UNCHANGED capsVars
    BY <1>21
  <2>1. TurnsOK'
    BY <1>0, FieldTypes DEF Resubscribed, WakeAll, TurnsOK
  <2> QED
    BY <1>0, <2>1 DEF Resubscribed, KeyOK, ListenerOK, SlotsOK
<1>22. CASE \E w \in Worker : Crash(w)
  <2> PICK w \in Worker : Crash(w)
    BY <1>22
  <2>1. TurnsOK'
    BY <1>0, PcNames, AtType DEF Crash, TurnsOK
  <2>2. SlotsOK'
    BY <1>0, NumberFacts DEF Crash, SlotsOK
  <2> QED
    BY <1>0, <2>1, <2>2 DEF Crash, KeyOK, ListenerOK
<1>23. CASE Tick /\ UNCHANGED capsVars
  <2>1. \A n \in 0..LeaseTicks : Less(n) \in 0..LeaseTicks
    BY NumberFacts DEF Less
  <2>2. KeyOK'
    BY <1>0, <1>23, <2>1 DEF Tick, KeyOK
  <2>3. \A r \in TurnRecord : Aged(r) \in TurnRecord
    BY AgedType
  <2>4. TurnsOK'
    BY <1>0, <1>23, <2>3 DEF Tick, TurnsOK
  <2> QED
    BY <1>0, <1>23, <2>2, <2>4 DEF Tick, ListenerOK, SlotsOK
<1>24. CASE UNCHANGED vars
  BY <1>0, <1>24 DEF vars, KeyOK, TurnsOK, ListenerOK, SlotsOK
<1> QED
  BY <1>1, <1>2, <1>3, <1>4, <1>5, <1>6, <1>7, <1>8, <1>9, <1>10, <1>11, <1>12,
     <1>13, <1>14, <1>15, <1>16, <1>17, <1>18, <1>19, <1>20, <1>21, <1>22,
     <1>23, <1>24, NextCases

(***************************************************************************)
(* TypeOK: the keys, the turns, the listeners and the reservations are of  *)
(* their types in every reachable state.                                   *)
(***************************************************************************)
THEOREM TurnsTypeCorrect == Spec => []TypeOK
  BY TypeInit, TypeStep, PTL DEF Spec
-----------------------------------------------------------------------------
(***************************************************************************)
(* Turns overlap only when stale, and a stale turn stops.                  *)
(***************************************************************************)

(***************************************************************************)
(* What a turn inside held knows of its lease.  Its next heartbeat comes   *)
(* before a lease and a refresh interval have passed, and as long as less  *)
(* than a lease has passed the key is its own for at least the difference. *)
(***************************************************************************)
HoldOK(u) ==
  turn[u].pc \in Held =>
    /\ turn[u].since + turn[u].beat < LeaseTicks + RefreshTicks
    /\ turn[u].since < LeaseTicks =>
         /\ holder[ThreadOf[u]] = u
         /\ ttl[ThreadOf[u]] + turn[u].since >= LeaseTicks

HoldInv == \A u \in Turn : HoldOK(u)

LEMMA HeldNames ==
  /\ "gate" \in Held /\ "body" \in Held
  /\ Held \cap Waiting = {}
  BY DEF Held, Waiting

(***************************************************************************)
(* A turn that did not move keeps HoldOK if its own lease did not move.    *)
(***************************************************************************)
LEMMA HoldKept ==
  ASSUME NEW u \in Turn, HoldOK(u), turn'[u] = turn[u],
         holder[ThreadOf[u]] = u =>
           /\ holder'[ThreadOf[u]] = holder[ThreadOf[u]]
           /\ ttl'[ThreadOf[u]] = ttl[ThreadOf[u]]
  PROVE  HoldOK(u)'
  BY DEF HoldOK

LEMMA HoldLeft ==
  ASSUME NEW u \in Turn, turn'[u].pc \notin Held
  PROVE  HoldOK(u)'
  BY DEF HoldOK

(***************************************************************************)
(* Nobody else takes or releases a lease that is a turn's own.             *)
(***************************************************************************)
LEMMA OwnLeaseKept ==
  ASSUME KeyOK, NEW t \in Turn, NEW u \in Turn, u # t,
         \/ UNCHANGED leaseVars
         \/ Take(t) /\ (Free(ThreadOf[t]) \/ holder[ThreadOf[t]] = t)
         \/ PerhapsTake(t)
         \/ Release(t),
         holder[ThreadOf[u]] = u
  PROVE  /\ holder'[ThreadOf[u]] = holder[ThreadOf[u]]
         /\ ttl'[ThreadOf[u]] = ttl[ThreadOf[u]]
<1>0. ThreadOf[u] \in Thread /\ ThreadOf[t] \in Thread /\ u # NoTurn
  BY ThreadOfAssumption, NoTurnAssumption
<1>1. CASE UNCHANGED leaseVars
  BY <1>1 DEF leaseVars
<1>2. CASE Take(t) /\ (Free(ThreadOf[t]) \/ holder[ThreadOf[t]] = t)
  <2>1. ThreadOf[u] # ThreadOf[t]
    BY <1>0, <1>2 DEF Free
  <2> QED
    BY <1>0, <1>2, <2>1, TakeType
<1>3. CASE PerhapsTake(t)
  BY <1>1, <1>2, <1>3 DEF PerhapsTake
<1>4. CASE Release(t)
  <2>1. CASE holder[ThreadOf[t]] = t
    <3>1. ThreadOf[u] # ThreadOf[t]
      BY <2>1
    <3> QED
      BY <1>0, <1>4, <2>1, <3>1 DEF Release, KeyOK
  <2>2. CASE holder[ThreadOf[t]] # t
    BY <1>4, <2>2 DEF Release, leaseVars
  <2> QED
    BY <2>1, <2>2
<1> QED
  BY <1>1, <1>2, <1>3, <1>4

(***************************************************************************)
(* One turn leaves for a pc outside held: HoldInv stays.                   *)
(***************************************************************************)
LEMMA HoldLeaver ==
  ASSUME KeyOK, TurnsOK, HoldInv, NEW t \in Turn, NEW pc \in TurnPc,
         pc \notin Held, Become(t, At(pc)),
         \/ UNCHANGED leaseVars
         \/ PerhapsTake(t)
         \/ Release(t)
  PROVE  HoldInv'
<1> SUFFICES ASSUME NEW u \in Turn PROVE HoldOK(u)'
  BY DEF HoldInv
<1>1. CASE u = t
  BY <1>1, BecomeAt, HoldLeft DEF TurnsOK
<1>2. CASE u # t
  <2>1. turn'[u] = turn[u]
    BY <1>2, BecomeAt DEF TurnsOK
  <2> QED
    BY <1>2, <2>1, HoldKept, OwnLeaseKept DEF HoldInv
<1> QED
  BY <1>1, <1>2

(***************************************************************************)
(* A turn takes a free lease, or its own: HoldInv stays.                   *)
(***************************************************************************)
LEMMA HoldTaker ==
  ASSUME KeyOK, TurnsOK, HoldInv, NEW t \in Turn, Take(t),
         Free(ThreadOf[t]) \/ holder[ThreadOf[t]] = t,
         turn'[t].since = 0, turn'[t].beat = RefreshTicks,
         \A u \in Turn : u # t => turn'[u] = turn[u]
  PROVE  HoldInv'
<1> SUFFICES ASSUME NEW u \in Turn PROVE HoldOK(u)'
  BY DEF HoldInv
<1>1. CASE u = t
  <2>1. holder'[ThreadOf[t]] = t /\ ttl'[ThreadOf[t]] = LeaseTicks
    BY TakeType
  <2> QED
    BY <1>1, <2>1, NumberFacts DEF HoldOK
<1>2. CASE u # t
  BY <1>2, HoldKept, OwnLeaseKept DEF HoldInv
<1> QED
  BY <1>1, <1>2

(***************************************************************************)
(* The listener moves, and with it only turns outside held: HoldInv stays. *)
(***************************************************************************)
LEMMA HoldListener ==
  ASSUME HoldInv, UNCHANGED leaseVars,
         \A u \in Turn : \/ turn'[u] = turn[u]
                         \/ turn'[u].pc \notin Held
  PROVE  HoldInv'
<1> SUFFICES ASSUME NEW u \in Turn PROVE HoldOK(u)'
  BY DEF HoldInv
<1>1. CASE turn'[u] = turn[u]
  BY <1>1, HoldKept DEF HoldInv, leaseVars
<1>2. CASE turn'[u].pc \notin Held
  BY <1>2, HoldLeft
<1> QED
  BY <1>1, <1>2

(***************************************************************************)
(* Waking a turn that waits leaves it outside held.                        *)
(***************************************************************************)
LEMMA WokenOutside ==
  ASSUME TurnsOK, NEW t \in Turn, turn[t].pc \in Waiting
  PROVE  [turn[t] EXCEPT !.woken = TRUE].pc \notin Held
<1>1. [turn[t] EXCEPT !.woken = TRUE].pc = turn[t].pc
  BY DEF TurnsOK, TurnRecord
<1> QED
  BY <1>1, HeldNames

(***************************************************************************)
(* A tick: the heartbeat that is not due, and the lease, count down        *)
(* together.                                                               *)
(***************************************************************************)
LEMMA HoldTick ==
  ASSUME KeyOK, TurnsOK, HoldInv, Tick
  PROVE  HoldInv'
<1> SUFFICES ASSUME NEW u \in Turn, turn'[u].pc \in Held PROVE HoldOK(u)'
  BY DEF HoldInv, HoldOK
<1> DEFINE r == turn[u]
           th == ThreadOf[u]
<1>0. th \in Thread /\ r \in TurnRecord
  BY ThreadOfAssumption DEF TurnsOK
<1>1. /\ r.beat \in Nat /\ r.since \in Nat /\ ttl[th] \in Nat
      /\ r.since <= LeaseTicks + RefreshTicks
  BY <1>0, RecordFields, NumberFacts DEF KeyOK
<1>2. turn'[u] = Aged(r)
  BY DEF Tick
<1>3. r.pc \in Held
  <2>1. CASE r.pc = "wait"
    <3>1. Aged(r) = [r EXCEPT !.bound = Less(@)]
      BY <2>1 DEF Aged, Held
    <3>2. Aged(r).pc = r.pc
      BY <1>0, <3>1 DEF TurnRecord
    <3> QED
      BY <1>2, <3>2
  <2>2. CASE r.pc \notin Held /\ r.pc # "wait"
    BY <1>2, <2>2 DEF Aged
  <2> QED
    BY <2>1, <2>2
<1>4. Aged(r) = [r EXCEPT !.beat = Less(r.beat), !.since = More(r.since)]
  BY <1>3, Zenon DEF Aged, Held
<1>5. turn'[u].beat = Less(r.beat) /\ turn'[u].since = More(r.since)
  BY <1>0, <1>2, <1>4 DEF TurnRecord
<1>6. r.beat > 0
  BY <1>1, <1>3 DEF Tick, Due
<1>7. r.since + r.beat < LeaseTicks + RefreshTicks
  BY <1>3 DEF HoldInv, HoldOK
<1>8. turn'[u].beat = r.beat - 1 /\ turn'[u].since = r.since + 1
  BY <1>1, <1>5, <1>6, <1>7, NumberFacts DEF Less, More
<1>9. ASSUME r.since + 1 < LeaseTicks
      PROVE  holder'[th] = u /\ ttl'[th] + r.since + 1 >= LeaseTicks
  <2>1. holder[th] = u /\ ttl[th] + r.since >= LeaseTicks
    BY <1>1, <1>3, <1>9, NumberFacts DEF HoldInv, HoldOK
  <2>2. ttl[th] > 1
    BY <1>1, <1>9, <2>1, NumberFacts
  <2>3. holder'[th] = holder[th] /\ ttl'[th] = ttl[th] - 1
    BY <1>0, <1>1, <2>2, NumberFacts DEF Tick, Less
  <2> QED
    BY <1>1, <2>1, <2>3, NumberFacts
<1>10. turn'[u].since + turn'[u].beat < LeaseTicks + RefreshTicks
  BY <1>1, <1>7, <1>8, NumberFacts
<1>11. ASSUME turn'[u].since < LeaseTicks
       PROVE  holder'[th] = u /\ ttl'[th] + turn'[u].since >= LeaseTicks
  <2>1. r.since + 1 < LeaseTicks
    BY <1>8, <1>11
  <2>2. holder'[th] = u /\ ttl'[th] + r.since + 1 >= LeaseTicks
    BY <1>9, <2>1
  <2>3. ttl'[th] \in Nat
    BY <1>0, <1>1 DEF Tick, Less
  <2> QED
    BY <1>1, <1>8, <2>2, <2>3
<1> QED
  BY <1>10, <1>11 DEF HoldOK

LEMMA HoldInit == Init => HoldInv
  BY DEF Init, LeaseInit, NewTurn, HoldInv, HoldOK, Held

(***************************************************************************)
(* A refresh that raises: the turn is cancelled, or tries again within a   *)
(* refresh interval of a hold that was not a lease old; the server may     *)
(* have renewed the lease.                                                 *)
(***************************************************************************)
LEMMA HoldRefreshRaises ==
  ASSUME KeyOK, TurnsOK, HoldInv, NEW t \in Turn, RefreshRaises(t)
  PROVE  HoldInv'
<1> SUFFICES ASSUME NEW u \in Turn PROVE HoldOK(u)'
  BY DEF HoldInv
<1>0. ThreadOf[t] \in Thread /\ turn[t] \in TurnRecord
  BY ThreadOfAssumption DEF TurnsOK
<1>1. turn[t].pc \in Held /\ turn[t].since \in Nat
  BY <1>0, RecordFields, NumberFacts DEF RefreshRaises, Due
<1>2. UNCHANGED leaseVars \/ (Take(t) /\ holder[ThreadOf[t]] = t)
  BY DEF RefreshRaises
<1>3. CASE u # t
  <2>1. turn'[u] = turn[u]
    BY <1>3 DEF RefreshRaises, TurnsOK
  <2> QED
    BY <1>2, <1>3, <2>1, HoldKept, OwnLeaseKept DEF HoldInv
<1>4. CASE u = t /\ turn[t].since >= LeaseTicks
  <2>1. turn'[t] = At("release")
    BY <1>4 DEF RefreshRaises, TurnsOK
  <2> QED
    BY <1>4, <2>1, PcNames, AtFields, HoldLeft
<1>5. CASE u = t /\ ~(turn[t].since >= LeaseTicks)
  <2>1. turn'[t] = [turn[t] EXCEPT !.beat = RefreshTicks]
    BY <1>5 DEF RefreshRaises, TurnsOK
  <2>2. turn'[t].since = turn[t].since /\ turn'[t].beat = RefreshTicks
    BY <1>0, <2>1 DEF TurnRecord
  <2>3. turn'[t].since < LeaseTicks
    BY <1>1, <1>5, <2>2, NumberFacts
  <2>4. turn'[t].since + turn'[t].beat < LeaseTicks + RefreshTicks
    BY <1>1, <2>2, <2>3, NumberFacts
  <2>5. holder[ThreadOf[t]] = t /\ ttl[ThreadOf[t]] + turn[t].since >= LeaseTicks
    BY <1>1, <2>2, <2>3 DEF HoldInv, HoldOK
  <2>6. holder'[ThreadOf[t]] = t /\ ttl'[ThreadOf[t]] + turn'[t].since >= LeaseTicks
    <3>1. CASE UNCHANGED leaseVars
      BY <2>2, <2>5, <3>1 DEF leaseVars
    <3>2. CASE Take(t)
      <4>1. holder'[ThreadOf[t]] = t /\ ttl'[ThreadOf[t]] = LeaseTicks
        BY <3>2, TakeType
      <4> QED
        BY <1>1, <2>2, <4>1, NumberFacts
    <3> QED
      BY <1>2, <3>1, <3>2
  <2> QED
    BY <1>5, <2>4, <2>6 DEF HoldOK
<1> QED
  BY <1>3, <1>4, <1>5

(***************************************************************************)
(* A turn goes from the gate into its body with its lease as it was.       *)
(***************************************************************************)
LEMMA HoldEnterGate ==
  ASSUME TurnsOK, HoldInv, NEW t \in Turn, EnterGate(t)
  PROVE  HoldInv'
<1> SUFFICES ASSUME NEW u \in Turn PROVE HoldOK(u)'
  BY DEF HoldInv
<1>1. UNCHANGED leaseVars
  BY DEF EnterGate
<1>2. CASE u # t
  <2>1. turn'[u] = turn[u]
    BY <1>2 DEF EnterGate, TurnsOK
  <2> QED
    BY <1>1, <2>1, HoldKept DEF HoldInv, leaseVars
<1>3. CASE u = t
  <2>1. turn'[t] = [turn[t] EXCEPT !.pc = "body"]
    BY DEF EnterGate, TurnsOK
  <2>2. turn'[t].since = turn[t].since /\ turn'[t].beat = turn[t].beat
    BY <2>1 DEF TurnsOK, TurnRecord
  <2>3. turn[t].pc \in Held
    BY HeldNames DEF EnterGate
  <2> QED
    BY <1>1, <1>3, <2>2, <2>3 DEF HoldInv, HoldOK, leaseVars
<1> QED
  BY <1>2, <1>3

LEMMA HoldStep == TypeOK /\ HoldInv /\ [Next]_vars => HoldInv'
<1> SUFFICES ASSUME TypeOK, HoldInv, [Next]_vars PROVE HoldInv'
  OBVIOUS
<1>0. KeyOK /\ TurnsOK /\ ListenerOK
  BY TypeParts
<1>n. /\ "lock" \in TurnPc \ Held /\ "first" \in TurnPc \ Held
      /\ "retry" \in TurnPc \ Held /\ "subscribing" \in TurnPc \ Held
      /\ "accepted" \in TurnPc \ Held /\ "done" \in TurnPc \ Held
      /\ "release" \in TurnPc \ Held /\ "dead" \in TurnPc \ Held
  BY PcNames
<1>1. CASE \E t \in Turn : Refresh(t) /\ UNCHANGED capsVars
  <2> PICK t \in Turn : Refresh(t)
    BY <1>1
  <2>1. turn' = [turn EXCEPT ![t] = [turn[t] EXCEPT !.beat = RefreshTicks, !.since = 0]]
    BY DEF Refresh
  <2>2. turn'[t] = [turn[t] EXCEPT !.beat = RefreshTicks, !.since = 0]
    BY <1>0, <2>1 DEF TurnsOK
  <2>3. turn'[t].since = 0 /\ turn'[t].beat = RefreshTicks
    BY <1>0, <2>2 DEF TurnsOK, TurnRecord
  <2>4. \A u \in Turn : u # t => turn'[u] = turn[u]
    BY <1>0, <2>1 DEF TurnsOK
  <2> QED
    BY <1>0, <2>3, <2>4, HoldTaker DEF Refresh
<1>2. CASE \E t \in Turn : RefreshFindsItLost(t) /\ UNCHANGED capsVars
  BY <1>0, <1>2, <1>n, HoldLeaver DEF RefreshFindsItLost
<1>3. CASE \E t \in Turn : RefreshRaises(t) /\ UNCHANGED capsVars
  BY <1>0, <1>3, HoldRefreshRaises
<1>4. CASE \E t \in Turn : ScheduleTurn(t)
  BY <1>0, <1>4, <1>n, HoldLeaver DEF ScheduleTurn
<1>5. CASE \E t \in Turn : LockThread(t)
  BY <1>0, <1>5, <1>n, HoldLeaver DEF LockThread
<1>6. CASE \E t \in Turn : TryFirst(t) /\ UNCHANGED capsVars
  <2> PICK t \in Turn : TryFirst(t)
    BY <1>6
  <2>1. CASE Free(ThreadOf[t]) /\ Take(t) /\ Become(t, Holding("gate"))
    <3>1. turn'[t] = Holding("gate") /\ \A u \in Turn : u # t => turn'[u] = turn[u]
      BY <1>0, <2>1 DEF Become, TurnsOK
    <3> QED
      BY <1>0, <2>1, <3>1, HoldingFields, HoldTaker
  <2>2. CASE Join(t) /\ UNCHANGED leaseVars
    BY <1>0, <1>n, <2>2, HoldLeaver DEF Join
  <2> QED
    BY <2>1, <2>2 DEF TryFirst
<1>7. CASE \E t \in Turn : Retry(t) /\ UNCHANGED capsVars
  <2> PICK t \in Turn : Retry(t)
    BY <1>7
  <2>1. CASE Free(ThreadOf[t]) /\ Take(t) /\ Become(t, Holding("gate"))
    <3>1. turn'[t] = Holding("gate") /\ \A u \in Turn : u # t => turn'[u] = turn[u]
      BY <1>0, <2>1 DEF Become, TurnsOK
    <3> QED
      BY <1>0, <2>1, <3>1, HoldingFields, HoldTaker
  <2>2. CASE /\ turn' = [turn EXCEPT ![t].pc = "wait", ![t].bound = ttl[ThreadOf[t]]]
             /\ UNCHANGED <<leaseVars, listenerVars>>
    <3>1. turn' = [turn EXCEPT ![t] =
                     [turn[t] EXCEPT !.pc = "wait", !.bound = ttl[ThreadOf[t]]]]
      BY <2>2
    <3>2. turn'[t] = [turn[t] EXCEPT !.pc = "wait", !.bound = ttl[ThreadOf[t]]]
      BY <1>0, <3>1 DEF TurnsOK
    <3>3. turn'[t].pc = "wait"
      BY <1>0, <3>2 DEF TurnsOK, TurnRecord
    <3>4. \A u \in Turn : u # t => turn'[u] = turn[u]
      BY <1>0, <3>1 DEF TurnsOK
    <3> QED
      BY <2>2, <3>3, <3>4, PcNames, HoldListener
  <2> QED
    BY <2>1, <2>2 DEF Retry
<1>8. CASE \E t \in Turn : WaitEnds(t) /\ UNCHANGED capsVars
  BY <1>0, <1>8, <1>n, HoldLeaver DEF WaitEnds
<1>9. CASE \E t \in Turn : EnterGate(t)
  BY <1>0, <1>9, HoldEnterGate
<1>10. CASE \E t \in Turn : LeaveThread(t)
  BY <1>0, <1>10, <1>n, HoldLeaver DEF LeaveThread
<1>11. CASE \E t \in Turn : FinishBody(t)
  BY <1>0, <1>11, <1>n, HoldLeaver DEF FinishBody
<1>12. CASE \E t \in Turn : Accept(t)
  <2> PICK t \in Turn : Accept(t)
    BY <1>12
  <2>1. \E pc \in TurnPc \ Held : Become(t, At(pc))
    BY <1>n DEF Accept
  <2> QED
    BY <1>0, <2>1, HoldLeaver DEF Accept
<1>13. CASE \E t \in Turn : AcceptFails(t)
  BY <1>0, <1>13, <1>n, HoldLeaver DEF AcceptFails
<1>14. CASE \E t \in Turn : ScheduleRaises(t)
  BY <1>0, <1>14, <1>n, HoldLeaver DEF ScheduleRaises
<1>15. CASE \E t \in Turn : AcquireRaises(t) /\ UNCHANGED capsVars
  BY <1>0, <1>15, <1>n, HoldLeaver DEF AcquireRaises
<1>16. CASE \E t \in Turn : AcquireTimesOut(t)
  <2> PICK t \in Turn : AcquireTimesOut(t)
    BY <1>16
  <2>1. CASE Become(t, At("done")) /\ UNCHANGED <<leaseVars, listenerVars>>
    BY <1>0, <1>n, <2>1, HoldLeaver
  <2>2. CASE Become(t, At("release")) /\ PerhapsTake(t)
    BY <1>0, <1>n, <2>2, HoldLeaver
  <2> QED
    BY <2>1, <2>2 DEF AcquireTimesOut
<1>17. CASE \E w \in Worker : Subscribed(w) /\ UNCHANGED capsVars
  <2> PICK w \in Worker : Subscribed(w)
    BY <1>17
  <2>1. \A u \in Turn : turn'[u] = turn[u] \/ turn'[u].pc \notin Held
    BY <1>n, AtFields DEF Subscribed
  <2> QED
    BY <2>1, HoldListener DEF Subscribed
<1>18. CASE \E w \in Worker : SubscribeFails(w) /\ UNCHANGED capsVars
  <2> PICK w \in Worker : SubscribeFails(w)
    BY <1>18
  <2>1. \A u \in Turn : turn'[u] = turn[u] \/ turn'[u].pc \notin Held
    BY <1>n, AtFields DEF SubscribeFails
  <2> QED
    BY <2>1, HoldListener DEF SubscribeFails
<1>19. CASE \E w \in Worker, th \in Thread : Wake(w, th) /\ UNCHANGED capsVars
  <2> PICK w \in Worker, th \in Thread : Wake(w, th)
    BY <1>19
  <2>1. \A u \in Turn : turn'[u] = turn[u] \/ turn'[u].pc \notin Held
    BY <1>0, WokenOutside DEF Wake
  <2> QED
    BY <2>1, HoldListener DEF Wake
<1>20. CASE \E w \in Worker : ListenerLost(w) /\ UNCHANGED capsVars
  <2> PICK w \in Worker : ListenerLost(w)
    BY <1>20
  <2>1. \A u \in Turn : turn'[u] = turn[u] \/ turn'[u].pc \notin Held
    BY <1>0, WokenOutside DEF ListenerLost, WakeAll
  <2> QED
    BY <2>1, HoldListener DEF ListenerLost
<1>21. CASE \E w \in Worker : Resubscribed(w) /\ UNCHANGED capsVars
  <2> PICK w \in Worker : Resubscribed(w)
    BY <1>21
  <2>1. \A u \in Turn : turn'[u] = turn[u] \/ turn'[u].pc \notin Held
    BY <1>0, WokenOutside DEF Resubscribed, WakeAll
  <2> QED
    BY <2>1, HoldListener DEF Resubscribed
<1>22. CASE \E w \in Worker : Crash(w)
  <2> PICK w \in Worker : Crash(w)
    BY <1>22
  <2>1. \A u \in Turn : turn'[u] = turn[u] \/ turn'[u].pc \notin Held
    BY <1>n, AtFields DEF Crash
  <2> QED
    BY <2>1, HoldListener DEF Crash
<1>23. CASE Tick /\ UNCHANGED capsVars
  BY <1>0, <1>23, HoldTick
<1>24. CASE UNCHANGED vars
  BY <1>24, HoldListener DEF vars
<1> QED
  BY <1>1, <1>2, <1>3, <1>4, <1>5, <1>6, <1>7, <1>8, <1>9, <1>10, <1>11, <1>12,
     <1>13, <1>14, <1>15, <1>16, <1>17, <1>18, <1>19, <1>20, <1>21, <1>22,
     <1>23, <1>24, NextCases

LEMMA HoldAlways == Spec => []HoldInv
  BY HoldInit, HoldStep, TypeInit, TypeStep, PTL DEF Spec

LEMMA HoldNoOverlap == TypeOK /\ HoldInv => OverlapOnlyWhenStale
<1> SUFFICES ASSUME TypeOK, HoldInv, NEW t \in Turn, NEW u \in Turn,
                    t # u, ThreadOf[t] = ThreadOf[u],
                    turn[t].pc = "body", turn[u].pc = "body"
             PROVE  turn[t].since >= LeaseTicks \/ turn[u].since >= LeaseTicks
  BY DEF OverlapOnlyWhenStale
<1>1. turn[t].since \in Nat /\ turn[u].since \in Nat
  BY RecordFields, NumberFacts, TypeParts DEF TurnsOK
<1>2. turn[t].since < LeaseTicks => holder[ThreadOf[t]] = t
  BY HeldNames DEF HoldInv, HoldOK
<1>3. turn[u].since < LeaseTicks => holder[ThreadOf[u]] = u
  BY HeldNames DEF HoldInv, HoldOK
<1> QED
  BY <1>1, <1>2, <1>3, NumberFacts

LEMMA HoldStops == TypeOK /\ HoldInv => StaleTurnStops
<1> SUFFICES ASSUME TypeOK, HoldInv, NEW t \in Turn, turn[t].pc \in Held
             PROVE  turn[t].since < LeaseTicks + RefreshTicks
  BY DEF StaleTurnStops
<1>1. turn[t].since \in Nat /\ turn[t].beat \in Nat
  BY RecordFields, NumberFacts, TypeParts DEF TurnsOK
<1>2. turn[t].since + turn[t].beat < LeaseTicks + RefreshTicks
  BY DEF HoldInv, HoldOK
<1> QED
  BY <1>1, <1>2, NumberFacts

(***************************************************************************)
(* Two turns of a thread run their bodies at once only when one of them    *)
(* went a whole lease without a refresh that succeeded (held).             *)
(***************************************************************************)
THEOREM TurnsOverlapOnlyWhenStale == Spec => []OverlapOnlyWhenStale
  BY TurnsTypeCorrect, HoldAlways, HoldNoOverlap, PTL

(***************************************************************************)
(* A turn whose hold cannot be proven is cancelled within a refresh        *)
(* interval of its lease running out (_heartbeat).                         *)
(***************************************************************************)
THEOREM StaleTurnsStop == Spec => []StaleTurnStops
  BY TurnsTypeCorrect, HoldAlways, HoldStops, PTL

-----------------------------------------------------------------------------
(***************************************************************************)
(* No wake-up is lost.                                                     *)
(***************************************************************************)

(***************************************************************************)
(* What protects a turn that waits for a lease.  From its first retry on   *)
(* its worker's subscription is up, or down and to be re-established; while *)
(* it sleeps, a free lease has a wake-up on its way, and a taken one lasts *)
(* at least as long as the wait does.                                      *)
(***************************************************************************)
Sleepers == {"retry", "wait"}

WaitOK(u) ==
  LET th == ThreadOf[u]
      w == WorkerOf[u]
  IN
  /\ turn[u].pc \in Sleepers => listener[w] \in {"on", "down"}
  /\ turn[u].pc = "wait" =>
       /\ Free(th) => \/ turn[u].woken
                      \/ th \in inbox[w]
                      \/ listener[w] = "down"
                      \/ turn[u].bound = 0
       /\ ~Free(th) => turn[u].bound <= ttl[th]

WaitInv == \A u \in Turn : WaitOK(u)

LEMMA SleeperNames ==
  /\ "wait" \in Sleepers /\ "retry" \in Sleepers
  /\ Sleepers \subseteq Waiting /\ Sleepers \subseteq Reserving
  /\ Sleepers \cap Held = {}
  /\ \A pc \in {"accepted", "lock", "first", "subscribing", "gate", "body",
                "release", "done", "dead"} : pc \notin Sleepers
  BY DEF Sleepers, Waiting, Held, Reserving, LockHeld

(***************************************************************************)
(* A lease that is taken lasts longer than any wait.                       *)
(***************************************************************************)
KeyStays(th) ==
  \/ holder'[th] = holder[th] /\ ttl'[th] = ttl[th]
  \/ holder'[th] \in Turn /\ ttl'[th] = LeaseTicks

LEMMA WaitKept ==
  ASSUME TurnsOK, NEW u \in Turn, WaitOK(u), turn'[u] = turn[u],
         KeyStays(ThreadOf[u]),
         turn[u].pc \in Sleepers =>
           /\ listener'[WorkerOf[u]] = listener[WorkerOf[u]]
           /\ ThreadOf[u] \in inbox[WorkerOf[u]] =>
                ThreadOf[u] \in inbox'[WorkerOf[u]]
  PROVE  WaitOK(u)'
<1>1. turn[u].bound <= LeaseTicks /\ turn[u].bound \in Nat
  BY RecordFields, NumberFacts DEF TurnsOK
<1>2. CASE holder'[ThreadOf[u]] = holder[ThreadOf[u]] /\ ttl'[ThreadOf[u]] = ttl[ThreadOf[u]]
  BY <1>2, SleeperNames DEF WaitOK, Free
<1>3. CASE holder'[ThreadOf[u]] \in Turn /\ ttl'[ThreadOf[u]] = LeaseTicks
  <2>1. holder'[ThreadOf[u]] # NoTurn
    BY <1>3, NoTurnAssumption
  <2> QED
    BY <1>1, <1>3, <2>1, SleeperNames DEF WaitOK, Free
<1> QED
  BY <1>2, <1>3 DEF KeyStays

LEMMA WaitLeft ==
  ASSUME NEW u \in Turn, turn'[u].pc \notin Sleepers
  PROVE  WaitOK(u)'
  BY SleeperNames DEF WaitOK

LEMMA WaitRetry ==
  ASSUME NEW u \in Turn, turn'[u].pc = "retry",
         listener'[WorkerOf[u]] \in {"on", "down"}
  PROVE  WaitOK(u)'
  BY DEF WaitOK

LEMMA WaitWoken ==
  ASSUME TurnsOK, NEW u \in Turn, WaitOK(u), UNCHANGED leaseVars,
         turn'[u] = [turn[u] EXCEPT !.woken = TRUE],
         turn[u].pc \in Sleepers => listener'[WorkerOf[u]] \in {"on", "down"}
  PROVE  WaitOK(u)'
<1>1. turn[u] \in TurnRecord
  BY DEF TurnsOK
<1>2. /\ turn'[u].pc = turn[u].pc /\ turn'[u].bound = turn[u].bound
      /\ turn'[u].woken = TRUE
  BY <1>1 DEF TurnRecord
<1> QED
  BY <1>2 DEF WaitOK, Free, leaseVars

(***************************************************************************)
(* What one turn does to the keys.                                         *)
(***************************************************************************)
LEMMA KeysStay ==
  ASSUME KeyOK, NEW t \in Turn,
         UNCHANGED leaseVars \/ Take(t) \/ PerhapsTake(t)
  PROVE  \A th \in Thread : KeyStays(th)
<1>1. CASE UNCHANGED leaseVars
  BY <1>1 DEF KeyStays, leaseVars
<1>2. CASE Take(t)
  <2> SUFFICES ASSUME NEW th \in Thread PROVE KeyStays(th)
    OBVIOUS
  <2>1. CASE th = ThreadOf[t]
    BY <1>2, <2>1, TakeType DEF KeyStays
  <2>2. CASE th # ThreadOf[t]
    BY <1>2, <2>2, TakeType DEF KeyStays
  <2> QED
    BY <2>1, <2>2
<1> QED
  BY <1>1, <1>2 DEF PerhapsTake

(***************************************************************************)
(* The last waiter alone stops the subscriber.                             *)
(***************************************************************************)
LEMMA QuitOthers ==
  ASSUME ListenerOK, NEW t \in Turn, NEW u \in Turn, u # t,
         turn[u].pc \in Waiting, UNCHANGED listenerVars \/ Quit(t)
  PROVE  /\ listener'[WorkerOf[u]] = listener[WorkerOf[u]]
         /\ inbox'[WorkerOf[u]] = inbox[WorkerOf[u]]
<1>0. WorkerOf[u] \in Worker /\ WorkerOf[t] \in Worker
  BY WorkerOfAssumption
<1>1. CASE UNCHANGED listenerVars
  BY <1>1 DEF listenerVars
<1>2. CASE Quit(t) /\ WorkerOf[u] = WorkerOf[t]
  <2>1. u \in {v \in Turn \ {t} : WorkerOf[v] = WorkerOf[t] /\ turn[v].pc \in Waiting}
    BY <1>2
  <2>2. UNCHANGED listenerVars
    BY <1>2, <2>1 DEF Quit
  <2> QED
    BY <2>2 DEF listenerVars
<1>3. CASE Quit(t) /\ WorkerOf[u] # WorkerOf[t]
  BY <1>0, <1>3 DEF Quit, ListenerOK, listenerVars
<1> QED
  BY <1>1, <1>2, <1>3

(***************************************************************************)
(* One turn goes to a pc that is no sleeper's: WaitInv stays.              *)
(***************************************************************************)
LEMMA WaitLeaver ==
  ASSUME KeyOK, TurnsOK, ListenerOK, WaitInv, NEW t \in Turn,
         turn'[t].pc \notin Sleepers,
         \A u \in Turn : u # t => turn'[u] = turn[u],
         UNCHANGED leaseVars \/ Take(t) \/ PerhapsTake(t),
         UNCHANGED listenerVars \/ Quit(t)
  PROVE  WaitInv'
<1> SUFFICES ASSUME NEW u \in Turn PROVE WaitOK(u)'
  BY DEF WaitInv
<1>1. CASE u = t
  BY <1>1, WaitLeft
<1>2. CASE u # t
  <2>1. KeyStays(ThreadOf[u])
    BY KeysStay, ThreadOfAssumption
  <2>2. turn[u].pc \in Sleepers =>
          /\ listener'[WorkerOf[u]] = listener[WorkerOf[u]]
          /\ inbox'[WorkerOf[u]] = inbox[WorkerOf[u]]
    BY <1>2, QuitOthers, SleeperNames
  <2> QED
    BY <1>2, <2>1, <2>2, WaitKept DEF WaitInv
<1> QED
  BY <1>1, <1>2

LEMMA WaitLeaverAt ==
  ASSUME KeyOK, TurnsOK, ListenerOK, WaitInv, NEW t \in Turn,
         NEW pc \in TurnPc \ Sleepers, Become(t, At(pc)),
         UNCHANGED leaseVars \/ Take(t) \/ PerhapsTake(t),
         UNCHANGED listenerVars \/ Quit(t)
  PROVE  WaitInv'
  BY BecomeAt, WaitLeaver DEF TurnsOK

(***************************************************************************)
(* A turn that registers goes to its first retry only on a subscription    *)
(* that was up.                                                            *)
(***************************************************************************)
LEMMA WaitJoin ==
  ASSUME TurnsOK, ListenerOK, WaitInv, NEW t \in Turn,
         Join(t), UNCHANGED leaseVars
  PROVE  WaitInv'
<1> SUFFICES ASSUME NEW u \in Turn PROVE WaitOK(u)'
  BY DEF WaitInv
<1>0. WorkerOf[u] \in Worker /\ WorkerOf[t] \in Worker
  BY WorkerOfAssumption
<1>1. listener[WorkerOf[u]] \in {"on", "down"} =>
        listener'[WorkerOf[u]] = listener[WorkerOf[u]]
  BY <1>0 DEF Join, ListenerOK
<1>2. CASE u = t /\ listener[WorkerOf[t]] \in {"on", "down"}
  <2>1. turn'[t].pc = "retry"
    BY <1>2, PcNames, BecomeAt DEF Join, TurnsOK
  <2> QED
    BY <1>1, <1>2, <2>1, WaitRetry
<1>3. CASE u = t /\ listener[WorkerOf[t]] \notin {"on", "down"}
  <2>1. turn'[t].pc = "subscribing"
    BY <1>3, PcNames, BecomeAt DEF Join, TurnsOK
  <2> QED
    BY <1>3, <2>1, SleeperNames, WaitLeft
<1>4. CASE u # t
  <2>1. turn'[u] = turn[u]
    BY <1>4, PcNames, BecomeAt DEF Join, TurnsOK
  <2>2. KeyStays(ThreadOf[u])
    BY DEF KeyStays, leaseVars
  <2>3. turn[u].pc \in Sleepers => listener[WorkerOf[u]] \in {"on", "down"}
    BY DEF WaitInv, WaitOK
  <2> QED
    BY <1>1, <2>1, <2>2, <2>3, WaitKept DEF WaitInv, Join
<1> QED
  BY <1>2, <1>3, <1>4

(***************************************************************************)
(* A release is announced to every subscription that is up.                *)
(***************************************************************************)
LEMMA WaitRelease ==
  ASSUME KeyOK, TurnsOK, ListenerOK, WaitInv, NEW t \in Turn,
         Become(t, At("done")), Release(t)
  PROVE  WaitInv'
<1> SUFFICES ASSUME NEW u \in Turn PROVE WaitOK(u)'
  BY DEF WaitInv
<1>0. /\ WorkerOf[u] \in Worker /\ ThreadOf[u] \in Thread /\ ThreadOf[t] \in Thread
      /\ t # NoTurn
  BY WorkerOfAssumption, ThreadOfAssumption, NoTurnAssumption
<1>1. CASE u = t
  BY <1>1, PcNames, SleeperNames, BecomeAt, WaitLeft DEF TurnsOK
<1>2. CASE u # t /\ ~(holder[ThreadOf[t]] = t /\ ThreadOf[u] = ThreadOf[t])
  <2>1. turn'[u] = turn[u]
    BY <1>2, PcNames, BecomeAt DEF TurnsOK
  <2>2. KeyStays(ThreadOf[u])
    BY <1>0, <1>2 DEF KeyStays, Release, KeyOK, leaseVars
  <2>3. /\ listener'[WorkerOf[u]] = listener[WorkerOf[u]]
        /\ ThreadOf[u] \in inbox[WorkerOf[u]] => ThreadOf[u] \in inbox'[WorkerOf[u]]
    BY <1>0 DEF Release, ListenerOK, listenerVars
  <2> QED
    BY <2>1, <2>2, <2>3, WaitKept DEF WaitInv
<1>3. CASE u # t /\ holder[ThreadOf[t]] = t /\ ThreadOf[u] = ThreadOf[t]
  <2>1. turn'[u] = turn[u]
    BY <1>3, PcNames, BecomeAt DEF TurnsOK
  <2>2. listener' = listener
    BY <1>3 DEF Release
  <2>3. holder'[ThreadOf[u]] = NoTurn
    BY <1>0, <1>3 DEF Release, KeyOK
  <2>4. listener[WorkerOf[u]] = "on" => ThreadOf[u] \in inbox'[WorkerOf[u]]
    BY <1>0, <1>3 DEF Release
  <2>5. turn[u].pc \in Sleepers => listener[WorkerOf[u]] \in {"on", "down"}
    BY DEF WaitInv, WaitOK
  <2> QED
    BY <2>1, <2>2, <2>3, <2>4, <2>5, SleeperNames DEF WaitOK, Free
<1> QED
  BY <1>1, <1>2, <1>3

(***************************************************************************)
(* The steps of a listener.                                                *)
(***************************************************************************)
LEMMA WaitSubscribed ==
  ASSUME TurnsOK, ListenerOK, WaitInv, NEW w \in Worker,
         Subscribed(w) \/ SubscribeFails(w)
  PROVE  WaitInv'
<1> SUFFICES ASSUME NEW u \in Turn PROVE WaitOK(u)'
  BY DEF WaitInv
<1>0. WorkerOf[u] \in Worker
  BY WorkerOfAssumption
<1>1. listener[w] = "starting" /\ UNCHANGED leaseVars /\ UNCHANGED inbox
  BY DEF Subscribed, SubscribeFails
<1>2. CASE WorkerOf[u] = w /\ turn[u].pc = "subscribing"
  <2>1. CASE Subscribed(w)
    <3>1. turn'[u] = At("retry") /\ listener'[w] = "on"
      BY <1>2, <2>1 DEF Subscribed, ListenerOK
    <3> QED
      BY <1>2, <3>1, PcNames, AtFields, WaitRetry
  <2>2. CASE SubscribeFails(w)
    <3>1. turn'[u] = At("release")
      BY <1>2, <2>2 DEF SubscribeFails
    <3> QED
      BY <3>1, PcNames, SleeperNames, AtFields, WaitLeft
  <2> QED
    BY <2>1, <2>2
<1>3. CASE WorkerOf[u] = w /\ turn[u].pc # "subscribing"
  <2>1. turn'[u] = turn[u]
    BY <1>3 DEF Subscribed, SubscribeFails
  <2>2. turn[u].pc \notin Sleepers
    BY <1>1, <1>3 DEF WaitInv, WaitOK
  <2> QED
    BY <2>1, <2>2, WaitLeft
<1>4. CASE WorkerOf[u] # w
  <2>1. turn'[u] = turn[u] /\ listener'[WorkerOf[u]] = listener[WorkerOf[u]]
    BY <1>0, <1>4 DEF Subscribed, SubscribeFails, ListenerOK
  <2>2. KeyStays(ThreadOf[u])
    BY <1>1 DEF KeyStays, leaseVars
  <2> QED
    BY <1>1, <2>1, <2>2, WaitKept DEF WaitInv
<1> QED
  BY <1>2, <1>3, <1>4

LEMMA WaitWake ==
  ASSUME TurnsOK, ListenerOK, WaitInv, NEW w \in Worker, NEW th \in Thread, Wake(w, th)
  PROVE  WaitInv'
<1> SUFFICES ASSUME NEW u \in Turn PROVE WaitOK(u)'
  BY DEF WaitInv
<1>0. WorkerOf[u] \in Worker
  BY WorkerOfAssumption
<1>1. UNCHANGED leaseVars /\ UNCHANGED listener
  BY DEF Wake
<1>2. CASE WorkerOf[u] = w /\ ThreadOf[u] = th /\ turn[u].pc \in Waiting
  <2>1. turn'[u] = [turn[u] EXCEPT !.woken = TRUE]
    BY <1>2 DEF Wake
  <2> QED
    BY <1>1, <2>1, WaitWoken DEF WaitInv, WaitOK
<1>3. CASE ~(WorkerOf[u] = w /\ ThreadOf[u] = th /\ turn[u].pc \in Waiting)
  <2>1. turn'[u] = turn[u]
    BY <1>3 DEF Wake
  <2>2. KeyStays(ThreadOf[u])
    BY <1>1 DEF KeyStays, leaseVars
  <2>3. turn[u].pc \in Sleepers =>
          (ThreadOf[u] \in inbox[WorkerOf[u]] => ThreadOf[u] \in inbox'[WorkerOf[u]])
    BY <1>0, <1>3, SleeperNames DEF Wake, ListenerOK
  <2> QED
    BY <1>1, <2>1, <2>2, <2>3, WaitKept DEF WaitInv
<1> QED
  BY <1>2, <1>3

LEMMA WaitListenerLost ==
  ASSUME TurnsOK, ListenerOK, WaitInv, NEW w \in Worker, ListenerLost(w)
  PROVE  WaitInv'
<1> SUFFICES ASSUME NEW u \in Turn PROVE WaitOK(u)'
  BY DEF WaitInv
<1>0. WorkerOf[u] \in Worker
  BY WorkerOfAssumption
<1>1. UNCHANGED leaseVars /\ listener'[w] = "down"
  BY DEF ListenerLost, ListenerOK
<1>2. CASE WorkerOf[u] = w /\ turn'[u] = turn[u]
  BY <1>1, <1>2 DEF WaitInv, WaitOK, Free, leaseVars
<1>3. CASE WorkerOf[u] = w /\ turn'[u] = [turn[u] EXCEPT !.woken = TRUE]
  BY <1>1, <1>3, WaitWoken DEF WaitInv
<1>4. CASE WorkerOf[u] # w
  <2>1. turn'[u] = turn[u]
    BY <1>4 DEF ListenerLost, WakeAll
  <2>2. /\ listener'[WorkerOf[u]] = listener[WorkerOf[u]]
        /\ inbox'[WorkerOf[u]] = inbox[WorkerOf[u]]
    BY <1>0, <1>4 DEF ListenerLost, ListenerOK
  <2>3. KeyStays(ThreadOf[u])
    BY <1>1 DEF KeyStays, leaseVars
  <2> QED
    BY <2>1, <2>2, <2>3, WaitKept DEF WaitInv
<1>5. turn'[u] = turn[u] \/ turn'[u] = [turn[u] EXCEPT !.woken = TRUE]
  BY DEF ListenerLost, WakeAll
<1> QED
  BY <1>2, <1>3, <1>4, <1>5

LEMMA WaitResubscribed ==
  ASSUME TurnsOK, ListenerOK, WaitInv, NEW w \in Worker, Resubscribed(w)
  PROVE  WaitInv'
<1> SUFFICES ASSUME NEW u \in Turn PROVE WaitOK(u)'
  BY DEF WaitInv
<1>0. WorkerOf[u] \in Worker
  BY WorkerOfAssumption
<1>1. UNCHANGED leaseVars /\ UNCHANGED inbox /\ listener'[w] = "on"
  BY DEF Resubscribed, ListenerOK
<1>2. CASE WorkerOf[u] = w /\ turn[u].pc \in Waiting
  <2>1. turn'[u] = [turn[u] EXCEPT !.woken = TRUE]
    BY <1>2 DEF Resubscribed, WakeAll
  <2> QED
    BY <1>1, <1>2, <2>1, WaitWoken DEF WaitInv
<1>3. CASE turn[u].pc \notin Waiting
  <2>1. turn'[u] = turn[u]
    BY <1>3 DEF Resubscribed, WakeAll
  <2> QED
    BY <1>3, <2>1, SleeperNames, WaitLeft
<1>4. CASE WorkerOf[u] # w
  <2>1. turn'[u] = turn[u] /\ listener'[WorkerOf[u]] = listener[WorkerOf[u]]
    BY <1>0, <1>4 DEF Resubscribed, WakeAll, ListenerOK
  <2>2. KeyStays(ThreadOf[u])
    BY <1>1 DEF KeyStays, leaseVars
  <2> QED
    BY <1>1, <2>1, <2>2, WaitKept DEF WaitInv
<1> QED
  BY <1>2, <1>3, <1>4

LEMMA WaitCrash ==
  ASSUME TurnsOK, ListenerOK, WaitInv, NEW w \in Worker, Crash(w)
  PROVE  WaitInv'
<1> SUFFICES ASSUME NEW u \in Turn PROVE WaitOK(u)'
  BY DEF WaitInv
<1>0. WorkerOf[u] \in Worker /\ UNCHANGED leaseVars
  BY WorkerOfAssumption DEF Crash
<1>1. CASE WorkerOf[u] = w
  <2>1. turn'[u] = IF turn[u].pc \in Reserving THEN At("dead") ELSE turn[u]
    BY <1>1 DEF Crash
  <2>2. turn'[u].pc \notin Sleepers
    BY <2>1, PcNames, SleeperNames, AtFields
  <2> QED
    BY <2>2, WaitLeft
<1>2. CASE WorkerOf[u] # w
  <2>1. /\ turn'[u] = turn[u]
        /\ listener'[WorkerOf[u]] = listener[WorkerOf[u]]
        /\ inbox'[WorkerOf[u]] = inbox[WorkerOf[u]]
    BY <1>0, <1>2 DEF Crash, ListenerOK
  <2>2. KeyStays(ThreadOf[u])
    BY <1>0 DEF KeyStays, leaseVars
  <2> QED
    BY <2>1, <2>2, WaitKept DEF WaitInv
<1> QED
  BY <1>1, <1>2

(***************************************************************************)
(* A tick: a wait and the lease it waits for run out together.             *)
(***************************************************************************)
LEMMA WaitTick ==
  ASSUME KeyOK, TurnsOK, WaitInv, Tick
  PROVE  WaitInv'
<1> SUFFICES ASSUME NEW u \in Turn PROVE WaitOK(u)'
  BY DEF WaitInv
<1> DEFINE r == turn[u]
           th == ThreadOf[u]
<1>0. th \in Thread /\ r \in TurnRecord
  BY ThreadOfAssumption DEF TurnsOK
<1>1. r.bound \in Nat /\ ttl[th] \in Nat
  BY <1>0, RecordFields, NumberFacts DEF KeyOK
<1>2. turn'[u] = Aged(r) /\ listener' = listener /\ inbox' = inbox
  BY DEF Tick, listenerVars
<1>3. /\ holder'[th] = IF ttl[th] <= 1 THEN NoTurn ELSE holder[th]
      /\ ttl'[th] = Less(ttl[th])
  BY <1>0 DEF Tick
<1>4. CASE r.pc = "wait"
  <2>1. Aged(r) = [r EXCEPT !.bound = Less(r.bound)]
    BY <1>4 DEF Aged, Held
  <2>2. /\ turn'[u].pc = "wait" /\ turn'[u].woken = r.woken
        /\ turn'[u].bound = Less(r.bound)
    BY <1>0, <1>2, <1>4, <2>1 DEF TurnRecord
  <2>3. listener[WorkerOf[u]] \in {"on", "down"}
    BY <1>4, SleeperNames DEF WaitInv, WaitOK
  <2>4. CASE holder[th] = NoTurn
    <3>1. holder'[th] = NoTurn
      BY <1>3, <2>4
    <3>2. r.woken \/ th \in inbox[WorkerOf[u]] \/ listener[WorkerOf[u]] = "down" \/ r.bound = 0
      BY <1>4, <2>4 DEF WaitInv, WaitOK, Free
    <3>3. r.bound = 0 => Less(r.bound) = 0
      BY DEF Less
    <3> QED
      BY <1>2, <2>2, <2>3, <3>1, <3>2, <3>3 DEF WaitOK, Free
  <2>5. CASE holder[th] # NoTurn
    <3>1. r.bound <= ttl[th]
      BY <1>4, <2>5 DEF WaitInv, WaitOK, Free
    <3>2. CASE ttl[th] <= 1
      <4>1. Less(r.bound) = 0
        BY <1>1, <3>1, <3>2 DEF Less
      <4>2. holder'[th] = NoTurn
        BY <1>3, <3>2
      <4> QED
        BY <1>2, <2>2, <2>3, <4>1, <4>2 DEF WaitOK, Free
    <3>3. CASE ~(ttl[th] <= 1)
      <4>1. Less(r.bound) <= Less(ttl[th])
        BY <1>1, <3>1, <3>3 DEF Less
      <4>2. holder'[th] # NoTurn
        BY <1>3, <2>5, <3>3
      <4> QED
        BY <1>2, <1>3, <2>2, <2>3, <4>1, <4>2 DEF WaitOK, Free
    <3> QED
      BY <3>2, <3>3
  <2> QED
    BY <2>4, <2>5
<1>5. CASE r.pc # "wait" /\ r.pc \notin Held
  <2>1. turn'[u] = turn[u]
    BY <1>2, <1>5 DEF Aged
  <2> QED
    BY <1>2, <1>5, <2>1 DEF WaitInv, WaitOK
<1>6. CASE r.pc \in Held
  <2>1. Aged(r) = [r EXCEPT !.beat = Less(r.beat), !.since = More(r.since)]
    BY <1>6, Zenon DEF Aged, Held
  <2>2. turn'[u].pc = r.pc
    BY <1>0, <1>2, <2>1 DEF TurnRecord
  <2> QED
    BY <1>6, <2>2, SleeperNames, WaitLeft
<1> QED
  BY <1>4, <1>5, <1>6

LEMMA WaitInit == Init => WaitInv
  BY DEF Init, LeaseInit, NewTurn, WaitInv, WaitOK, Sleepers

LEMMA WaitStep == TypeOK /\ WaitInv /\ [Next]_vars => WaitInv'
<1> SUFFICES ASSUME TypeOK, WaitInv, [Next]_vars PROVE WaitInv'
  OBVIOUS
<1>0. KeyOK /\ TurnsOK /\ ListenerOK
  BY TypeParts
<1>n. \A pc \in {"accepted", "lock", "first", "release", "done"} : pc \in TurnPc \ Sleepers
  BY PcNames, SleeperNames
<1>1. CASE \E t \in Turn : Refresh(t) /\ UNCHANGED capsVars
  <2> PICK t \in Turn : Refresh(t)
    BY <1>1
  <2>1. turn' = [turn EXCEPT ![t] = [turn[t] EXCEPT !.beat = RefreshTicks, !.since = 0]]
    BY DEF Refresh
  <2>2. turn'[t] = [turn[t] EXCEPT !.beat = RefreshTicks, !.since = 0]
    BY <1>0, <2>1 DEF TurnsOK
  <2>3. turn'[t].pc = turn[t].pc
    BY <1>0, <2>2 DEF TurnsOK, TurnRecord
  <2>4. \A u \in Turn : u # t => turn'[u] = turn[u]
    BY <1>0, <2>1 DEF TurnsOK
  <2>5. turn'[t].pc \notin Sleepers
    BY <2>3, SleeperNames DEF Refresh, Due
  <2> QED
    BY <1>0, <2>4, <2>5, WaitLeaver DEF Refresh
<1>2. CASE \E t \in Turn : RefreshFindsItLost(t) /\ UNCHANGED capsVars
  BY <1>0, <1>2, <1>n, WaitLeaverAt DEF RefreshFindsItLost, leaseVars, listenerVars
<1>3. CASE \E t \in Turn : RefreshRaises(t) /\ UNCHANGED capsVars
  <2> PICK t \in Turn : RefreshRaises(t)
    BY <1>3
  <2>1. turn'[t] = IF turn[t].since >= LeaseTicks THEN At("release")
                   ELSE [turn[t] EXCEPT !.beat = RefreshTicks]
    BY <1>0 DEF RefreshRaises, TurnsOK
  <2>2. [turn[t] EXCEPT !.beat = RefreshTicks].pc = turn[t].pc
    BY <1>0 DEF TurnsOK, TurnRecord
  <2>3. turn[t].pc \notin Sleepers /\ At("release").pc \notin Sleepers
    BY SleeperNames, PcNames, AtFields DEF RefreshRaises, Due
  <2>4. turn'[t].pc \notin Sleepers
    <3>1. CASE turn'[t] = At("release")
      BY <2>3, <3>1
    <3>2. CASE turn'[t] = [turn[t] EXCEPT !.beat = RefreshTicks]
      BY <2>2, <2>3, <3>2
    <3> QED
      BY <2>1, <3>1, <3>2
  <2>5. \A u \in Turn : u # t => turn'[u] = turn[u]
    BY <1>0 DEF RefreshRaises, TurnsOK
  <2>6. (UNCHANGED leaseVars \/ Take(t)) /\ UNCHANGED listenerVars
    BY DEF RefreshRaises
  <2> QED
    BY <1>0, <2>4, <2>5, <2>6, WaitLeaver
<1>4. CASE \E t \in Turn : ScheduleTurn(t)
  BY <1>0, <1>4, <1>n, WaitLeaverAt DEF ScheduleTurn
<1>5. CASE \E t \in Turn : LockThread(t)
  BY <1>0, <1>5, <1>n, WaitLeaverAt DEF LockThread
<1>6. CASE \E t \in Turn : TryFirst(t) /\ UNCHANGED capsVars
  <2> PICK t \in Turn : TryFirst(t)
    BY <1>6
  <2>1. CASE Take(t) /\ Become(t, Holding("gate")) /\ UNCHANGED listenerVars
    <3>1. turn'[t] = Holding("gate") /\ \A u \in Turn : u # t => turn'[u] = turn[u]
      BY <1>0, <2>1 DEF Become, TurnsOK
    <3>2. turn'[t].pc \notin Sleepers
      BY <3>1, HoldingFields, SleeperNames
    <3> QED
      BY <1>0, <2>1, <3>1, <3>2, WaitLeaver
  <2>2. CASE Join(t) /\ UNCHANGED leaseVars
    BY <1>0, <2>2, WaitJoin
  <2> QED
    BY <2>1, <2>2 DEF TryFirst
<1>7. CASE \E t \in Turn : Retry(t) /\ UNCHANGED capsVars
  <2> PICK t \in Turn : Retry(t)
    BY <1>7
  <2>1. CASE Take(t) /\ Become(t, Holding("gate")) /\ Quit(t)
    <3>1. turn'[t] = Holding("gate") /\ \A u \in Turn : u # t => turn'[u] = turn[u]
      BY <1>0, <2>1 DEF Become, TurnsOK
    <3>2. turn'[t].pc \notin Sleepers
      BY <3>1, HoldingFields, SleeperNames
    <3> QED
      BY <1>0, <2>1, <3>1, <3>2, WaitLeaver
  <2>2. CASE /\ ~Free(ThreadOf[t])
             /\ turn' = [turn EXCEPT ![t].pc = "wait", ![t].bound = ttl[ThreadOf[t]]]
             /\ UNCHANGED <<leaseVars, listenerVars>>
    <3> SUFFICES ASSUME NEW u \in Turn PROVE WaitOK(u)'
      BY DEF WaitInv
    <3>1. turn' = [turn EXCEPT ![t] =
                     [turn[t] EXCEPT !.pc = "wait", !.bound = ttl[ThreadOf[t]]]]
      BY <2>2
    <3>2. UNCHANGED <<holder, ttl, listener, inbox>>
      BY <2>2 DEF leaseVars, listenerVars
    <3>3. CASE u = t
      <4>1. turn'[t] = [turn[t] EXCEPT !.pc = "wait", !.bound = ttl[ThreadOf[t]]]
        BY <1>0, <3>1 DEF TurnsOK
      <4>2. turn'[t].pc = "wait" /\ turn'[t].bound = ttl[ThreadOf[t]]
        BY <1>0, <4>1 DEF TurnsOK, TurnRecord
      <4>3. listener[WorkerOf[t]] \in {"on", "down"}
        BY SleeperNames DEF Retry, WaitInv, WaitOK
      <4>4. ttl[ThreadOf[t]] \in Nat
        BY <1>0, ThreadOfAssumption, NumberFacts DEF KeyOK
      <4> QED
        BY <2>2, <3>2, <3>3, <4>2, <4>3, <4>4 DEF WaitOK, Free
    <3>4. CASE u # t
      <4>1. turn'[u] = turn[u]
        BY <1>0, <3>1, <3>4 DEF TurnsOK
      <4> QED
        BY <3>2, <4>1 DEF WaitInv, WaitOK, Free
    <3> QED
      BY <3>3, <3>4
  <2> QED
    BY <2>1, <2>2 DEF Retry
<1>8. CASE \E t \in Turn : WaitEnds(t) /\ UNCHANGED capsVars
  <2> PICK t \in Turn : WaitEnds(t)
    BY <1>8
  <2> SUFFICES ASSUME NEW u \in Turn PROVE WaitOK(u)'
    BY DEF WaitInv
  <2>1. UNCHANGED <<holder, ttl, listener, inbox>>
    BY DEF WaitEnds, leaseVars, listenerVars
  <2>2. CASE u = t
    <3>1. turn'[t].pc = "retry"
      BY <1>0, PcNames, BecomeAt DEF WaitEnds, TurnsOK
    <3>2. listener[WorkerOf[t]] \in {"on", "down"}
      BY SleeperNames DEF WaitEnds, WaitInv, WaitOK
    <3> QED
      BY <2>1, <2>2, <3>1, <3>2, WaitRetry
  <2>3. CASE u # t
    <3>1. turn'[u] = turn[u]
      BY <1>0, <2>3, PcNames, BecomeAt DEF WaitEnds, TurnsOK
    <3> QED
      BY <2>1, <3>1 DEF WaitInv, WaitOK, Free
  <2> QED
    BY <2>2, <2>3
<1>9. CASE \E t \in Turn : EnterGate(t)
  <2> PICK t \in Turn : EnterGate(t)
    BY <1>9
  <2>1. turn' = [turn EXCEPT ![t] = [turn[t] EXCEPT !.pc = "body"]]
    BY DEF EnterGate
  <2>2. turn'[t] = [turn[t] EXCEPT !.pc = "body"]
    BY <1>0, <2>1 DEF TurnsOK
  <2>3. turn'[t].pc \notin Sleepers
    BY <1>0, <2>2, SleeperNames DEF TurnsOK, TurnRecord
  <2>4. \A u \in Turn : u # t => turn'[u] = turn[u]
    BY <1>0, <2>1 DEF TurnsOK
  <2> QED
    BY <1>0, <2>3, <2>4, WaitLeaver DEF EnterGate
<1>10. CASE \E t \in Turn : LeaveThread(t)
  <2> PICK t \in Turn : LeaveThread(t)
    BY <1>10
  <2>1. CASE Release(t)
    BY <1>0, <2>1, WaitRelease DEF LeaveThread
  <2>2. CASE UNCHANGED <<leaseVars, listenerVars>>
    BY <1>0, <1>n, <2>2, WaitLeaverAt DEF LeaveThread
  <2> QED
    BY <2>1, <2>2 DEF LeaveThread
<1>11. CASE \E t \in Turn : FinishBody(t)
  BY <1>0, <1>11, <1>n, WaitLeaverAt DEF FinishBody
<1>12. CASE \E t \in Turn : Accept(t)
  <2> PICK t \in Turn : Accept(t)
    BY <1>12
  <2>1. \E pc \in TurnPc \ Sleepers : Become(t, At(pc))
    BY <1>n DEF Accept
  <2> QED
    BY <1>0, <2>1, WaitLeaverAt DEF Accept
<1>13. CASE \E t \in Turn : AcceptFails(t)
  BY <1>0, <1>13, <1>n, WaitLeaverAt DEF AcceptFails
<1>14. CASE \E t \in Turn : ScheduleRaises(t)
  BY <1>0, <1>14, <1>n, WaitLeaverAt DEF ScheduleRaises
<1>15. CASE \E t \in Turn : AcquireRaises(t) /\ UNCHANGED capsVars
  BY <1>0, <1>15, <1>n, WaitLeaverAt DEF AcquireRaises
<1>16. CASE \E t \in Turn : AcquireTimesOut(t)
  <2> PICK t \in Turn : AcquireTimesOut(t)
    BY <1>16
  <2>1. CASE Become(t, At("done")) /\ UNCHANGED <<leaseVars, listenerVars>>
    BY <1>0, <1>n, <2>1, WaitLeaverAt
  <2>2. CASE Become(t, At("release")) /\ PerhapsTake(t) /\ Quit(t)
    BY <1>0, <1>n, <2>2, WaitLeaverAt
  <2> QED
    BY <2>1, <2>2 DEF AcquireTimesOut
<1>17. CASE \E w \in Worker : Subscribed(w) /\ UNCHANGED capsVars
  BY <1>0, <1>17, WaitSubscribed
<1>18. CASE \E w \in Worker : SubscribeFails(w) /\ UNCHANGED capsVars
  BY <1>0, <1>18, WaitSubscribed
<1>19. CASE \E w \in Worker, th \in Thread : Wake(w, th) /\ UNCHANGED capsVars
  BY <1>0, <1>19, WaitWake
<1>20. CASE \E w \in Worker : ListenerLost(w) /\ UNCHANGED capsVars
  BY <1>0, <1>20, WaitListenerLost
<1>21. CASE \E w \in Worker : Resubscribed(w) /\ UNCHANGED capsVars
  BY <1>0, <1>21, WaitResubscribed
<1>22. CASE \E w \in Worker : Crash(w)
  BY <1>0, <1>22, WaitCrash
<1>23. CASE Tick /\ UNCHANGED capsVars
  BY <1>0, <1>23, WaitTick
<1>24. CASE UNCHANGED vars
  BY <1>24 DEF vars, leaseVars, listenerVars, WaitInv, WaitOK, Free
<1> QED
  BY <1>1, <1>2, <1>3, <1>4, <1>5, <1>6, <1>7, <1>8, <1>9, <1>10, <1>11, <1>12,
     <1>13, <1>14, <1>15, <1>16, <1>17, <1>18, <1>19, <1>20, <1>21, <1>22,
     <1>23, <1>24, NextCases

LEMMA WaitNoLoss == WaitInv => NoLostWakeup
  BY DEF WaitInv, WaitOK, NoLostWakeup

(***************************************************************************)
(* No turn sleeps on a free lease without a wake-up on its way, a          *)
(* re-subscribe due, or its wait run out (_acquire, _run).                 *)
(***************************************************************************)
THEOREM WakeupsAreNotLost == Spec => []NoLostWakeup
  BY TypeInit, TypeStep, WaitInit, WaitStep, WaitNoLoss, PTL DEF Spec

-----------------------------------------------------------------------------
(***************************************************************************)
(* Every turn in flight has its reservation.  However many turns there     *)
(* are, those in flight stay finitely many: each was accepted by a step.   *)
(***************************************************************************)
Covered(w, th) ==
  /\ IsFiniteSet(InFlight(w, th))
  /\ reserved[w][th] >= Cardinality(InFlight(w, th))

CoverInv == \A w \in Worker, th \in Thread : Covered(w, th)

LEMMA ReservingNames ==
  /\ {"accepted", "lock", "first", "subscribing", "retry", "wait", "gate",
      "body", "release"} = Reserving
  /\ Waiting \subseteq Reserving /\ Held \subseteq Reserving
  /\ \A pc \in {"idle", "done", "dead"} : pc \notin Reserving
  BY DEF Reserving, LockHeld, Waiting, Held

(***************************************************************************)
(* A set that loses members, or one member, or gains one.                  *)
(***************************************************************************)
LEMMA FewerCount ==
  ASSUME NEW S, NEW U, IsFiniteSet(S), U \subseteq S
  PROVE  /\ IsFiniteSet(U)
         /\ Cardinality(U) \in Nat /\ Cardinality(S) \in Nat
         /\ Cardinality(U) <= Cardinality(S)
<1>1. IsFiniteSet(U) /\ Cardinality(U) <= Cardinality(S)
  BY FS_Subset
<1> QED
  BY <1>1, FS_CardinalityType

LEMMA OneLessCount ==
  ASSUME NEW S, NEW U, NEW x \in S, IsFiniteSet(S), U \subseteq S \ {x}
  PROVE  /\ IsFiniteSet(U)
         /\ Cardinality(U) \in Nat /\ Cardinality(S) \in Nat
         /\ Cardinality(U) <= Cardinality(S) - 1
<1>1. /\ IsFiniteSet(S \ {x})
      /\ Cardinality(S \ {x}) = Cardinality(S) - 1
  BY FS_RemoveElement
<1>2. IsFiniteSet(U) /\ Cardinality(U) \in Nat /\ Cardinality(U) <= Cardinality(S \ {x})
  BY <1>1, FewerCount
<1> QED
  BY <1>1, <1>2, FS_CardinalityType

LEMMA OneMoreCount ==
  ASSUME NEW S, NEW U, NEW x, IsFiniteSet(S), U \subseteq S \cup {x}
  PROVE  /\ IsFiniteSet(U)
         /\ Cardinality(U) \in Nat /\ Cardinality(S) \in Nat
         /\ Cardinality(U) <= Cardinality(S) + 1
<1>1. Cardinality(S) \in Nat
  BY FS_CardinalityType
<1>2. /\ IsFiniteSet(S \cup {x})
      /\ Cardinality(S \cup {x}) <= Cardinality(S) + 1
  BY <1>1, FS_AddElement
<1>3. /\ IsFiniteSet(U) /\ Cardinality(U) \in Nat /\ Cardinality(S \cup {x}) \in Nat
      /\ Cardinality(U) <= Cardinality(S \cup {x})
  BY <1>2, FewerCount
<1> QED
  BY <1>1, <1>2, <1>3

(***************************************************************************)
(* A step that starts no turn and moves no counter.                        *)
(***************************************************************************)
NoneStarts ==
  \A u \in Turn : turn'[u].pc \in Reserving => turn[u].pc \in Reserving

LEMMA CoverKept ==
  ASSUME SlotsOK, CoverInv, UNCHANGED reserved, NoneStarts
  PROVE  CoverInv'
<1> SUFFICES ASSUME NEW w \in Worker, NEW th \in Thread PROVE Covered(w, th)'
  BY DEF CoverInv
<1>1. InFlight(w, th)' \subseteq InFlight(w, th)
  BY DEF InFlight, TurnsOf, NoneStarts
<1>2. Covered(w, th)
  BY DEF CoverInv
<1>3. /\ IsFiniteSet(InFlight(w, th)')
      /\ Cardinality(InFlight(w, th)') \in Nat /\ Cardinality(InFlight(w, th)) \in Nat
      /\ Cardinality(InFlight(w, th)') <= Cardinality(InFlight(w, th))
  BY <1>1, <1>2, FewerCount DEF Covered
<1>4. reserved[w][th] \in Nat
  BY DEF SlotsOK
<1> QED
  BY <1>2, <1>3, <1>4 DEF Covered

(***************************************************************************)
(* A turn that ends and gives its reservation back.                        *)
(***************************************************************************)
LEMMA CoverGivenBack ==
  ASSUME SlotsOK, CoverInv, NEW t \in Turn, GiveSlotBack(t),
         turn[t].pc \in Reserving, turn'[t].pc \notin Reserving, NoneStarts
  PROVE  CoverInv'
<1> SUFFICES ASSUME NEW w \in Worker, NEW th \in Thread PROVE Covered(w, th)'
  BY DEF CoverInv
<1>0. Covered(w, th) /\ reserved[w][th] \in Nat
  BY DEF CoverInv, SlotsOK
<1>1. InFlight(w, th)' \subseteq InFlight(w, th) \ {t}
  BY DEF InFlight, TurnsOf, NoneStarts
<1>2. CASE t \in InFlight(w, th)
  <2>1. /\ IsFiniteSet(InFlight(w, th)')
        /\ Cardinality(InFlight(w, th)') \in Nat /\ Cardinality(InFlight(w, th)) \in Nat
        /\ Cardinality(InFlight(w, th)') <= Cardinality(InFlight(w, th)) - 1
    BY <1>0, <1>1, <1>2, OneLessCount DEF Covered
  <2>2. WorkerOf[t] = w /\ ThreadOf[t] = th
    BY <1>2 DEF InFlight, TurnsOf
  <2>3. reserved'[w][th] = Less(reserved[w][th])
    BY <2>2 DEF GiveSlotBack, SlotsOK
  <2>4. reserved[w][th] > 0
    BY <1>0, <2>1 DEF Covered
  <2>5. reserved'[w][th] = reserved[w][th] - 1
    BY <1>0, <2>3, <2>4, LessFacts
  <2> QED
    BY <1>0, <2>1, <2>5 DEF Covered
<1>3. CASE t \notin InFlight(w, th)
  <2>1. ~(WorkerOf[t] = w /\ ThreadOf[t] = th)
    BY <1>3 DEF InFlight, TurnsOf
  <2>2. reserved'[w][th] = reserved[w][th]
    BY <2>1 DEF GiveSlotBack, SlotsOK
  <2>3. /\ IsFiniteSet(InFlight(w, th)')
        /\ Cardinality(InFlight(w, th)') \in Nat /\ Cardinality(InFlight(w, th)) \in Nat
        /\ Cardinality(InFlight(w, th)') <= Cardinality(InFlight(w, th))
    BY <1>0, <1>1, FewerCount DEF Covered
  <2> QED
    BY <1>0, <2>2, <2>3 DEF Covered
<1> QED
  BY <1>2, <1>3

(***************************************************************************)
(* A turn that is accepted, on its reservation.                            *)
(***************************************************************************)
LEMMA CoverAccepted ==
  ASSUME SlotsOK, CoverInv, NEW t \in Turn,
         reserved' = [reserved EXCEPT ![WorkerOf[t]][ThreadOf[t]] = @ + 1],
         \A u \in Turn : u # t => turn'[u] = turn[u]
  PROVE  CoverInv'
<1> SUFFICES ASSUME NEW w \in Worker, NEW th \in Thread PROVE Covered(w, th)'
  BY DEF CoverInv
<1>0. Covered(w, th) /\ reserved[w][th] \in Nat
  BY DEF CoverInv, SlotsOK
<1>1. CASE WorkerOf[t] = w /\ ThreadOf[t] = th
  <2>1. InFlight(w, th)' \subseteq InFlight(w, th) \cup {t}
    BY DEF InFlight, TurnsOf
  <2>2. /\ IsFiniteSet(InFlight(w, th)')
        /\ Cardinality(InFlight(w, th)') \in Nat /\ Cardinality(InFlight(w, th)) \in Nat
        /\ Cardinality(InFlight(w, th)') <= Cardinality(InFlight(w, th)) + 1
    BY <1>0, <2>1, OneMoreCount DEF Covered
  <2>3. reserved'[w][th] = reserved[w][th] + 1
    BY <1>1 DEF SlotsOK
  <2> QED
    BY <1>0, <2>2, <2>3 DEF Covered
<1>2. CASE ~(WorkerOf[t] = w /\ ThreadOf[t] = th)
  <2>1. InFlight(w, th)' = InFlight(w, th)
    BY <1>2 DEF InFlight, TurnsOf
  <2>2. reserved'[w][th] = reserved[w][th]
    BY <1>2 DEF SlotsOK
  <2> QED
    BY <1>0, <2>1, <2>2 DEF Covered
<1> QED
  BY <1>1, <1>2

(***************************************************************************)
(* A crash ends the worker's turns and clears its counters.                *)
(***************************************************************************)
LEMMA CoverCrash ==
  ASSUME SlotsOK, CoverInv, NEW crasher \in Worker, Crash(crasher)
  PROVE  CoverInv'
<1> SUFFICES ASSUME NEW w \in Worker, NEW th \in Thread PROVE Covered(w, th)'
  BY DEF CoverInv
<1>1. CASE w = crasher
  <2>1. InFlight(w, th)' = {}
    BY <1>1, AtFields, ReservingNames DEF Crash, InFlight, TurnsOf, At, NewTurn
  <2>2. reserved'[w][th] = 0
    BY <1>1 DEF Crash, SlotsOK
  <2> QED
    BY <2>1, <2>2, FS_EmptySet DEF Covered
<1>2. CASE w # crasher
  <2>1. InFlight(w, th)' = InFlight(w, th)
    BY <1>2 DEF Crash, InFlight, TurnsOf
  <2>2. reserved'[w][th] = reserved[w][th]
    BY <1>2 DEF Crash, SlotsOK
  <2> QED
    BY <2>1, <2>2 DEF Covered, CoverInv
<1> QED
  BY <1>1, <1>2

LEMMA CoverInit == Init => CoverInv
<1> SUFFICES ASSUME Init, NEW w \in Worker, NEW th \in Thread PROVE Covered(w, th)
  BY DEF CoverInv
<1>1. InFlight(w, th) = {}
  BY ReservingNames DEF Init, LeaseInit, NewTurn, InFlight, TurnsOf
<1>2. reserved[w][th] = 0
  BY DEF Init
<1> QED
  BY <1>1, <1>2, FS_EmptySet DEF Covered

(***************************************************************************)
(* A turn that is in flight moves on, or is sent to its release.           *)
(***************************************************************************)
LEMMA BecomesReserving ==
  ASSUME TurnsOK, NEW t \in Turn, turn[t].pc \in Reserving,
         \A u \in Turn : u # t => turn'[u].pc = turn[u].pc
  PROVE  NoneStarts
  BY DEF NoneStarts

LEMMA AgedPc == ASSUME NEW r \in TurnRecord PROVE Aged(r).pc = r.pc
<1>1. CASE r.pc \in Held
  <2>1. Aged(r) = [r EXCEPT !.beat = Less(r.beat), !.since = More(r.since)]
    BY <1>1, Zenon DEF Aged, Held
  <2>2. \A n, m : [r EXCEPT !.beat = n, !.since = m].pc = r.pc
    BY DEF TurnRecord
  <2> QED
    BY <2>1, <2>2, Zenon
<1>2. CASE r.pc = "wait"
  <2>1. Aged(r) = [r EXCEPT !.bound = Less(r.bound)]
    BY <1>2 DEF Aged, Held
  <2> QED
    BY <2>1 DEF TurnRecord
<1>3. CASE r.pc \notin Held /\ r.pc # "wait"
  BY <1>3 DEF Aged
<1> QED
  BY <1>1, <1>2, <1>3

LEMMA CoverStep == TypeOK /\ CoverInv /\ [Next]_vars => CoverInv'
<1> SUFFICES ASSUME TypeOK, CoverInv, [Next]_vars PROVE CoverInv'
  OBVIOUS
<1>0. TurnsOK /\ SlotsOK
  BY TypeParts
<1> USE DEF capsVars
<1>1. CASE \/ \E t \in Turn : \/ Refresh(t) /\ UNCHANGED capsVars
                              \/ RefreshFindsItLost(t) /\ UNCHANGED capsVars
                              \/ RefreshRaises(t) /\ UNCHANGED capsVars
  <2> PICK t \in Turn : \/ Refresh(t) /\ UNCHANGED capsVars
                        \/ RefreshFindsItLost(t) /\ UNCHANGED capsVars
                        \/ RefreshRaises(t) /\ UNCHANGED capsVars
    BY <1>1
  <2>1. turn[t].pc \in Reserving
    BY ReservingNames DEF Refresh, RefreshFindsItLost, RefreshRaises, Due
  <2>2. \A u \in Turn : u # t => turn'[u].pc = turn[u].pc
    BY <1>0 DEF Refresh, RefreshFindsItLost, RefreshRaises, Become, TurnsOK
  <2> QED
    BY <1>0, <2>1, <2>2, BecomesReserving, CoverKept
<1>2. CASE \E t \in Turn : \/ ScheduleTurn(t) \/ LockThread(t) \/ EnterGate(t)
                           \/ FinishBody(t) \/ ScheduleRaises(t)
                           \/ WaitEnds(t) /\ UNCHANGED capsVars
  <2> PICK t \in Turn : \/ ScheduleTurn(t) \/ LockThread(t) \/ EnterGate(t)
                        \/ FinishBody(t) \/ ScheduleRaises(t)
                        \/ WaitEnds(t) /\ UNCHANGED capsVars
    BY <1>2
  <2>1. turn[t].pc \in Reserving /\ UNCHANGED reserved
    BY ReservingNames
       DEF ScheduleTurn, LockThread, EnterGate, FinishBody, ScheduleRaises, WaitEnds
  <2>2. \A u \in Turn : u # t => turn'[u].pc = turn[u].pc
    BY <1>0 DEF ScheduleTurn, LockThread, EnterGate, FinishBody, ScheduleRaises,
                WaitEnds, Become, TurnsOK
  <2> QED
    BY <1>0, <2>1, <2>2, BecomesReserving, CoverKept
<1>3. CASE \E t \in Turn : \/ TryFirst(t) /\ UNCHANGED capsVars
                           \/ Retry(t) /\ UNCHANGED capsVars
                           \/ AcquireRaises(t) /\ UNCHANGED capsVars
  <2> PICK t \in Turn : \/ TryFirst(t) /\ UNCHANGED capsVars
                        \/ Retry(t) /\ UNCHANGED capsVars
                        \/ AcquireRaises(t) /\ UNCHANGED capsVars
    BY <1>3
  <2>1. turn[t].pc \in Reserving
    BY ReservingNames DEF TryFirst, Retry, AcquireRaises
  <2>2. \A u \in Turn : u # t => turn'[u].pc = turn[u].pc
    BY <1>0 DEF TryFirst, Retry, AcquireRaises, Join, Become, TurnsOK
  <2> QED
    BY <1>0, <2>1, <2>2, BecomesReserving, CoverKept
<1>4. CASE \E t \in Turn : LeaveThread(t) \/ AcceptFails(t)
  <2> PICK t \in Turn : LeaveThread(t) \/ AcceptFails(t)
    BY <1>4
  <2>1. /\ turn[t].pc \in Reserving /\ Become(t, At("done")) /\ GiveSlotBack(t)
    BY ReservingNames DEF LeaveThread, AcceptFails
  <2>2. turn'[t].pc = "done" /\ \A u \in Turn : u # t => turn'[u] = turn[u]
    BY <1>0, <2>1, PcNames, BecomeAt DEF TurnsOK
  <2> QED
    BY <1>0, <2>1, <2>2, ReservingNames, BecomesReserving, CoverGivenBack
<1>5. CASE \E t \in Turn : Accept(t)
  <2> PICK t \in Turn : Accept(t)
    BY <1>5
  <2>1. CASE reserved[WorkerOf[t]][ThreadOf[t]] < QueueDepth
    BY <1>0, <2>1, CoverAccepted DEF Accept, Become, TurnsOK
  <2>2. CASE ~(reserved[WorkerOf[t]][ThreadOf[t]] < QueueDepth)
    <3>1. Become(t, At("done")) /\ UNCHANGED reserved
      BY <2>2 DEF Accept
    <3>2. turn'[t].pc = "done" /\ \A u \in Turn : u # t => turn'[u] = turn[u]
      BY <1>0, <3>1, PcNames, BecomeAt DEF TurnsOK
    <3> QED
      BY <1>0, <3>1, <3>2, ReservingNames, CoverKept DEF NoneStarts
  <2> QED
    BY <2>1, <2>2
<1>6. CASE \E t \in Turn : AcquireTimesOut(t)
  <2> PICK t \in Turn : AcquireTimesOut(t)
    BY <1>6
  <2>1. CASE turn[t].pc = "lock" /\ Become(t, At("done")) /\ GiveSlotBack(t)
    <3>1. turn'[t].pc = "done" /\ \A u \in Turn : u # t => turn'[u] = turn[u]
      BY <1>0, <2>1, PcNames, BecomeAt DEF TurnsOK
    <3> QED
      BY <1>0, <2>1, <3>1, ReservingNames, BecomesReserving, CoverGivenBack
  <2>2. CASE /\ turn[t].pc \in Waiting \cup {"first", "gate"}
             /\ Become(t, At("release")) /\ UNCHANGED reserved
    <3>1. \A u \in Turn : u # t => turn'[u] = turn[u]
      BY <1>0, <2>2, PcNames, BecomeAt DEF TurnsOK
    <3> QED
      BY <1>0, <2>2, <3>1, ReservingNames, BecomesReserving, CoverKept
  <2> QED
    BY <2>1, <2>2 DEF AcquireTimesOut
<1>7. CASE \/ \E w \in Worker : \/ Subscribed(w) /\ UNCHANGED capsVars
                                \/ SubscribeFails(w) /\ UNCHANGED capsVars
                                \/ ListenerLost(w) /\ UNCHANGED capsVars
                                \/ Resubscribed(w) /\ UNCHANGED capsVars
           \/ \E w \in Worker, th \in Thread : Wake(w, th) /\ UNCHANGED capsVars
  <2>1. NoneStarts
    BY <1>0, <1>7, ReservingNames
       DEF Subscribed, SubscribeFails, ListenerLost, Resubscribed, Wake, WakeAll,
           NoneStarts, TurnsOK, TurnRecord
  <2> QED
    BY <1>0, <1>7, <2>1, CoverKept
<1>8. CASE \E w \in Worker : Crash(w)
  BY <1>0, <1>8, CoverCrash
<1>9. CASE Tick /\ UNCHANGED capsVars
  <2>1. \A u \in Turn : turn'[u].pc = turn[u].pc
    BY <1>0, <1>9, AgedPc DEF Tick, TurnsOK
  <2> QED
    BY <1>0, <1>9, <2>1, CoverKept DEF NoneStarts
<1>10. CASE UNCHANGED vars
  BY <1>0, <1>10, CoverKept DEF vars, NoneStarts
<1> QED
  BY <1>1, <1>2, <1>3, <1>4, <1>5, <1>6, <1>7, <1>8, <1>9, <1>10, NextCases

(***************************************************************************)
(* A thread's counter on a worker is never below the turns in flight       *)
(* there, so it reaches zero, and the thread's lock is dropped, only when  *)
(* nobody uses the lock: however many turns are accepted, give up, time    *)
(* out, raise or die with their worker.                                    *)
(***************************************************************************)
THEOREM TurnsAreReserved == Spec => []ReservationsCover
<1>1. CoverInv => ReservationsCover
  BY DEF CoverInv, Covered, ReservationsCover
<1>2. Spec => []TypeOK
  BY TurnsTypeCorrect
<1> QED
  BY <1>1, <1>2, CoverInit, CoverStep, PTL DEF Spec
=============================================================================
