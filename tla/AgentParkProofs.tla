-------------------------- MODULE AgentParkProofs --------------------------
(***************************************************************************)
(* A parked super-step settles once, on the first answers, and nothing     *)
(* else is reported of it: proofs about AgentPark.                         *)
(***************************************************************************)
EXTENDS AgentPark, TLAPS

Unsettled == resolutions = <<>>
Answered == \A m \in Member : output[m] # NoAnswer
FirstAnswers(f) == \A m \in Member : first[m] # NoAnswer /\ f[m] = first[m]
Driving == {"resume", "holds", "chain", "final"}

(***************************************************************************)
(* The step has not parked yet, waits for answers, or is settled; once     *)
(* settled it neither waits again nor is an ask of it live.                *)
(***************************************************************************)
Phases ==
  /\ Unsettled \/ \E r \in Resolutions : resolutions = <<r>>
  /\ Unsettled /\ expected => (\A m \in Member : entry[m] = "live") /\ output = first
  /\ Unsettled /\ ~expected =>
       /\ \A m \in Member : entry[m] = "absent"
       /\ output = first
       /\ \A a \in Actor : actor[a].pc \in {"idle", "away"}
  /\ ~Unsettled => ~expected /\ \A m \in Member : entry[m] # "live"

(***************************************************************************)
(* What an actor may rely on where it stands: the answers it has seen are  *)
(* the barrier's as long as the step is not settled, and under its lease   *)
(* the step is not.                                                        *)
(***************************************************************************)
ActorKnows(a) ==
  /\ actor[a].pc \in {"undo", "replay", "erase", "drop", "return"} => ~Unsettled
  /\ actor[a].pc \in {"check", "count"} /\ Unsettled => output[actor[a].member] # NoAnswer
  /\ a \in Delivery /\ actor[a].pc \in {"claim", "barrier"} /\ Unsettled => Answered
  /\ a \in Delivery /\ actor[a].pc \in Driving /\ Unsettled => FirstAnswers(actor[a].answers)
  /\ actor[a].pc = "return" => resolutions = <<ResolutionBy(a)>>
  /\ actor[a].pc \in Driving /\ lease = a => Unsettled

(***************************************************************************)
(* What has been written and returned of the step.                         *)
(***************************************************************************)
Reported ==
  /\ resolution # NoResolution => resolutions = <<resolution>>
  /\ \A r \in replies : resolutions = <<r>>
  /\ Unsettled => (\A m \in delivered : output[m] # NoAnswer) /\ delivered # Member
  /\ \A r \in Resolutions : resolutions = <<r>> /\ r.by \in Delivery => FirstAnswers(r.answers)

ParkInv == ParkTypeOK /\ Phases /\ Reported /\ \A a \in Actor : ActorKnows(a)
-----------------------------------------------------------------------------
(***************************************************************************)
(* The initial states.                                                     *)
(***************************************************************************)
LEMMA RestingFits == Resting \in Stances
<1>1. (CHOOSE m \in Member : TRUE) \in Member
  BY MemberAssumption
<1> QED
  BY <1>1 DEF Resting, Stances, Places, NoAnswers, Endings

LEMMA ParkInitHolds ==
  ASSUME ParkInit
  PROVE  ParkInv
<1>1. PICK away \in SUBSET Actor, f \in 0..MaxParkFaults : ParkStart(away, f)
  BY DEF ParkInit
<1>2. /\ actor \in [Actor -> Stances]
      /\ \A a \in Actor : actor[a].pc \in {"idle", "away"}
  <2>1. ASSUME NEW a \in Actor
        PROVE  [Resting EXCEPT !.pc = IF a \in away THEN "away" ELSE "idle"] \in Stances
    BY RestingFits DEF Stances, Places
  <2>2. ASSUME NEW a \in Actor PROVE actor[a].pc \in {"idle", "away"}
    BY <1>1, RestingFits DEF ParkStart, Stances
  <2> QED
    BY <1>1, <2>1, <2>2 DEF ParkStart
<1>3. ParkTypeOK
  <2>1. resolutions \in Seq(Resolutions)
    BY <1>1 DEF ParkStart
  <2> QED
    BY <1>1, <1>2, <2>1 DEF ParkStart, ParkTypeOK, NoAnswers
<1>4. Phases /\ Reported
  BY <1>1, <1>2, MemberAssumption
  DEF ParkStart, Phases, Reported, Unsettled
<1>5. \A a \in Actor : ActorKnows(a)
  BY <1>2 DEF ActorKnows, Driving
<1> QED
  BY <1>3, <1>4, <1>5 DEF ParkInv

-----------------------------------------------------------------------------
(***************************************************************************)
(* A step in which one actor moves and may take or lose the lease, and     *)
(* that writes nothing of the super-step, keeps the invariant if that      *)
(* actor may rely on what it must where it arrives.                        *)
(***************************************************************************)
LEMMA MovesKeep ==
  ASSUME ParkInv, NEW a \in Actor, NEW s \in Stances,
         actor' = [actor EXCEPT ![a] = s],
         UNCHANGED <<stepVars, first, resolutions, replies, delivered>>,
         lease' \in {lease, NoHolder, a},
         s.pc \in {"idle", "away"} \/ ~(Unsettled /\ ~expected),
         ActorKnows(a)'
  PROVE  ParkInv'
<1>1. ParkTypeOK'
  BY DEF ParkInv, ParkTypeOK, stepVars
<1>2. Phases'
  BY DEF ParkInv, ParkTypeOK, Phases, Unsettled, stepVars
<1>3. Reported'
  BY DEF ParkInv, Reported, Unsettled, FirstAnswers, stepVars
<1>4. ASSUME NEW b \in Actor PROVE ActorKnows(b)'
  <2>1. CASE b = a
    BY <2>1
  <2>2. CASE b # a
    <3>1. actor'[b] = actor[b] /\ (lease' = b => lease = b)
      BY <2>2, ActorAssumption DEF ParkInv, ParkTypeOK
    <3> QED
      BY <3>1 DEF ParkInv, ActorKnows, ResolutionBy, Unsettled, Answered, FirstAnswers, stepVars
  <2> QED
    BY <2>1, <2>2
<1> QED
  BY <1>1, <1>2, <1>3, <1>4 DEF ParkInv

(***************************************************************************)
(* An actor may leave from anywhere.                                       *)
(***************************************************************************)
LEMMA DepartsKeep ==
  ASSUME ParkInv, NEW a \in Actor, Departs(a),
         UNCHANGED <<stepVars, first, resolutions, replies, delivered>>,
         lease' \in {lease, NoHolder, a}
  PROVE  ParkInv'
<1>1. Resting \in Stances /\ Resting.pc = "idle"
  BY RestingFits DEF Resting
<1>2. actor' = [actor EXCEPT ![a] = Resting] /\ actor'[a] = Resting
  BY DEF Departs, ParkInv, ParkTypeOK
<1>3. ActorKnows(a)'
  BY <1>1, <1>2 DEF ActorKnows, Driving
<1> QED
  BY <1>1, <1>2, <1>3, MovesKeep

(***************************************************************************)
(* One that goes on keeps everything but its place.                        *)
(***************************************************************************)
LEMMA GoesKeep ==
  ASSUME ParkInv, NEW a \in Actor, NEW pc \in Places, Goes(a, pc),
         UNCHANGED <<stepVars, first, resolutions, replies, delivered>>,
         lease' \in {lease, NoHolder, a},
         ~(Unsettled /\ ~expected),
         ActorKnows(a)'
  PROVE  ParkInv'
<1>1. [actor[a] EXCEPT !.pc = pc] \in Stances
  BY DEF ParkInv, ParkTypeOK, Stances
<1>2. actor' = [actor EXCEPT ![a] = [actor[a] EXCEPT !.pc = pc]]
  BY DEF Goes
<1> QED
  BY <1>1, <1>2, MovesKeep

(***************************************************************************)
(* A handler that comes for an ask starts from what it finds.              *)
(***************************************************************************)
LEMMA ComesKeep ==
  ASSUME ParkInv, NEW a \in Actor, NEW pc \in {"expect", "claim", "replay"}, NEW m \in Member,
         Comes(a, pc, m), entry[m] # "absent",
         pc = "replay" => entry[m] # "live",
         pc = "claim" => a \notin Delivery,
         UNCHANGED <<stepVars, lease, first, resolutions, replies, delivered>>
  PROVE  ParkInv'
<1> DEFINE s == [Resting EXCEPT !.pc = pc, !.member = m]
<1>1. s \in Stances /\ s.pc = pc
  BY RestingFits DEF Stances, Places
<1>2. actor' = [actor EXCEPT ![a] = s] /\ actor'[a] = s
  BY DEF Comes, ParkInv, ParkTypeOK
<1>3. ~(Unsettled /\ ~expected) /\ (pc = "replay" => ~Unsettled)
  BY DEF ParkInv, Phases
<1>4. ActorKnows(a)'
  BY <1>1, <1>2, <1>3 DEF ActorKnows, Driving, Unsettled
<1> HIDE DEF s
<1> QED
  BY <1>1, <1>2, <1>3, <1>4, MovesKeep

-----------------------------------------------------------------------------
(***************************************************************************)
(* The round trips of a delivery that write nothing of the super-step.     *)
(***************************************************************************)
LEMMA DeliverySteps ==
  ASSUME ParkInv, NEW d \in Delivery, NEW m \in Member,
         LookUp(d, m) \/ ReadExpected(d) \/ CheckBarrier(d) \/ RefuseRun(d)
  PROVE  ParkInv'
<1>1. d \in Actor
  BY DEF Actor
<1>2. actor[d] \in Stances /\ actor \in [Actor -> Stances]
  BY <1>1 DEF ParkInv, ParkTypeOK
<1>3. CASE LookUp(d, m)
  <2> DEFINE pc == IF entry[m] = "live" THEN "expect" ELSE "replay"
  <2>1. Comes(d, pc, m) /\ pc \in {"expect", "claim", "replay"}
    BY <1>3 DEF LookUp
  <2>2. entry[m] # "absent" /\ (pc = "replay" => entry[m] # "live") /\ pc # "claim"
    BY <1>3 DEF LookUp
  <2>3. UNCHANGED <<stepVars, lease, first, resolutions, replies, delivered>>
    BY <1>3 DEF LookUp, pastVars
  <2> HIDE DEF pc
  <2> QED
    BY <1>1, <2>1, <2>2, <2>3, ComesKeep
<1>4. CASE ReadExpected(d)
  <2>1. UNCHANGED <<stepVars, lease, first, resolutions, replies, delivered>>
    BY <1>4 DEF ReadExpected, pastVars
  <2>2. CASE expected
    <3>1. Goes(d, "put") /\ "put" \in Places
      BY <1>4, <2>2 DEF ReadExpected, Places
    <3>2. ActorKnows(d)'
      BY <1>1, <1>2, <3>1 DEF Goes, ActorKnows, Driving, Stances
    <3> QED
      BY <1>1, <2>1, <2>2, <3>1, <3>2, GoesKeep
  <2>3. CASE ~expected
    <3>1. Departs(d)
      BY <1>4, <2>3 DEF ReadExpected
    <3> QED
      BY <1>1, <2>1, <3>1, DepartsKeep
  <2> QED
    BY <2>2, <2>3
<1>5. CASE CheckBarrier(d)
  <2>1. UNCHANGED <<stepVars, lease, first, resolutions, replies, delivered>>
    BY <1>5 DEF CheckBarrier, pastVars
  <2>2. ~(Unsettled /\ ~expected)
    BY <1>1, <1>5 DEF CheckBarrier, Stands, ParkInv, Phases
  <2>3. CASE expected
    <3>1. Goes(d, "count") /\ "count" \in Places
      BY <1>5, <2>3 DEF CheckBarrier, Places
    <3>2. ActorKnows(d)'
      BY <1>1, <1>2, <1>5, <2>1, <3>1
      DEF CheckBarrier, Stands, ParkInv, Goes, ActorKnows, Driving, Stances, Unsettled, stepVars
    <3> QED
      BY <1>1, <2>1, <2>2, <3>1, <3>2, GoesKeep
  <2>4. CASE ~expected
    <3>1. Goes(d, "undo") /\ "undo" \in Places
      BY <1>5, <2>4 DEF CheckBarrier, Places
    <3>2. ActorKnows(d)'
      BY <1>1, <1>2, <2>1, <2>2, <2>4, <3>1
      DEF Goes, ActorKnows, Driving, Stances, Unsettled, stepVars
    <3> QED
      BY <1>1, <2>1, <2>2, <3>1, <3>2, GoesKeep
  <2> QED
    BY <2>3, <2>4
<1>6. CASE RefuseRun(d)
  <2>1. UNCHANGED <<stepVars, lease, first, resolutions, replies, delivered>>
    BY <1>6 DEF RefuseRun, pastVars
  <2>2. Goes(d, "release") /\ "release" \in Places
    BY <1>6 DEF RefuseRun, Places
  <2>3. ~(Unsettled /\ ~expected)
    BY <1>1, <1>6 DEF RefuseRun, Stands, ParkInv, Phases
  <2>4. ActorKnows(d)'
    BY <1>1, <1>2, <2>2 DEF Goes, ActorKnows, Driving, Stances
  <2> QED
    BY <1>1, <2>1, <2>2, <2>3, <2>4, GoesKeep
<1> QED
  BY <1>3, <1>4, <1>5, <1>6

(***************************************************************************)
(* The drive lease: taken by one, read under, looked at, given up.         *)
(***************************************************************************)
LEMMA LeaseSteps ==
  ASSUME ParkInv, NEW a \in Actor,
         \/ ClaimLease(a) \/ CheckLease(a) \/ LoseLease(a) \/ ReleaseLease(a)
         \/ \E lands \in BOOLEAN : FireChain(a, lands)
  PROVE  ParkInv'
<1>1. actor[a] \in Stances /\ actor \in [Actor -> Stances]
  BY DEF ParkInv, ParkTypeOK
<1>2. UNCHANGED <<stepVars, first, resolutions, replies, delivered>>
  BY DEF ClaimLease, CheckLease, LoseLease, ReleaseLease, FireChain, pastVars
<1>3. ReleaseLease(a) \/ ~(Unsettled /\ ~expected)
  BY DEF ClaimLease, CheckLease, LoseLease, FireChain, Stands, ParkInv, Phases
<1>4. ASSUME Goes(a, "release"), lease' = lease, ~(Unsettled /\ ~expected) PROVE ParkInv'
  <2>1. ActorKnows(a)'
    BY <1>1, <1>4 DEF Goes, ActorKnows, Driving, Stances
  <2>2. "release" \in Places
    BY DEF Places
  <2> QED
    BY <1>2, <1>4, <2>1, <2>2, GoesKeep
<1>5. CASE ClaimLease(a)
  <2>1. CASE lease = NoHolder
    <3>1. lease' = a /\ Goes(a, "barrier") /\ "barrier" \in Places
      BY <1>5, <2>1 DEF ClaimLease, Places
    <3>2. ActorKnows(a)'
      BY <1>1, <1>2, <1>5, <3>1
      DEF ClaimLease, Stands, ParkInv, Goes, ActorKnows, Driving, Stances, Unsettled,
          Answered, stepVars
    <3> QED
      BY <1>2, <1>3, <1>5, <3>1, <3>2, GoesKeep DEF ClaimLease, ReleaseLease, Stands
  <2>2. CASE lease # NoHolder
    BY <1>2, <1>5, <2>2, DepartsKeep DEF ClaimLease
  <2> QED
    BY <2>1, <2>2
<1>6. CASE CheckLease(a)
  <2>1. CASE lease = a
    <3>1. lease' = lease /\ Goes(a, "chain") /\ "chain" \in Places
      BY <1>6, <2>1 DEF CheckLease, Places
    <3>2. ActorKnows(a)'
      BY <1>1, <1>2, <1>6, <3>1
      DEF CheckLease, Stands, ParkInv, Goes, ActorKnows, Driving, Stances, Unsettled,
          FirstAnswers, stepVars
    <3> QED
      BY <1>2, <1>3, <1>6, <3>1, <3>2, GoesKeep DEF CheckLease, ReleaseLease, Stands
  <2>2. CASE lease # a
    BY <1>3, <1>4, <1>6, <2>2 DEF CheckLease, ReleaseLease, Stands
  <2> QED
    BY <2>1, <2>2
<1>7. CASE LoseLease(a)
  BY <1>3, <1>4, <1>7 DEF LoseLease, ReleaseLease, Stands
<1>8. CASE ReleaseLease(a)
  <2>1. lease' \in {lease, NoHolder, a} /\ Departs(a)
    BY <1>8 DEF ReleaseLease
  <2> QED
    BY <1>2, <2>1, DepartsKeep
<1>9. ASSUME NEW lands \in BOOLEAN, FireChain(a, lands) PROVE ParkInv'
  <2>1. CASE lands
    <3>1. lease' = lease /\ Goes(a, "final") /\ "final" \in Places
      BY <1>9, <2>1 DEF FireChain, Places
    <3>2. ActorKnows(a)'
      BY <1>1, <1>2, <1>9, <3>1
      DEF FireChain, Stands, ParkInv, Goes, ActorKnows, Driving, Stances, Unsettled,
          FirstAnswers, stepVars
    <3> QED
      BY <1>2, <1>3, <1>9, <3>1, <3>2, GoesKeep DEF FireChain, ReleaseLease, Stands
  <2>2. CASE ~lands
    BY <1>3, <1>4, <1>9, <2>2 DEF FireChain, ReleaseLease, Stands
  <2> QED
    BY <2>1, <2>2
<1> QED
  BY <1>5, <1>6, <1>7, <1>8, <1>9

(***************************************************************************)
(* The barrier is read whole, and the run resumed on what was read.        *)
(***************************************************************************)
LEMMA ReadBarrierKeeps ==
  ASSUME ParkInv, NEW a \in Actor, ReadBarrier(a)
  PROVE  ParkInv'
<1>1. actor[a] \in Stances /\ actor \in [Actor -> Stances]
  BY DEF ParkInv, ParkTypeOK
<1>2. UNCHANGED <<stepVars, lease, first, resolutions, replies, delivered>>
  BY DEF ReadBarrier, pastVars
<1>3. ~(Unsettled /\ ~expected)
  BY DEF ReadBarrier, Stands, ParkInv, Phases
<1>4. CASE ~expected
  <2>1. Goes(a, "release") /\ "release" \in Places
    BY <1>4 DEF ReadBarrier, Places
  <2>2. ActorKnows(a)'
    BY <1>1, <2>1 DEF Goes, ActorKnows, Driving, Stances
  <2> QED
    BY <1>2, <1>3, <2>1, <2>2, GoesKeep
<1>5. CASE expected
  <2> DEFINE pc == CASE a = Killer -> "final" [] a = Quitter -> "holds" [] OTHER -> "resume"
             how == IF a = Killer THEN "aborted" ELSE "ended"
             answers == IF a \in Delivery THEN output ELSE NoAnswers
             s == [actor[a] EXCEPT !.pc = pc, !.how = how, !.answers = answers]
  <2>1. pc \in Driving /\ pc \in Places /\ how \in Endings
    BY DEF Driving, Places, Endings
  <2>2. answers \in [Member -> Answer \cup {NoAnswer}]
    BY DEF NoAnswers, ParkInv, ParkTypeOK
  <2>3. actor' = [actor EXCEPT ![a] = s]
    BY <1>5 DEF ReadBarrier
  <2>4. s \in Stances /\ s.pc = pc /\ s.answers = answers
    <3> HIDE DEF pc, how, answers
    <3> QED
      BY <1>1, <2>1, <2>2 DEF Stances
  <2>5. Unsettled
    BY <1>5 DEF ParkInv, Phases
  <2>6. a \in Delivery => FirstAnswers(answers)
    BY <1>5, <2>5 DEF ReadBarrier, Stands, ParkInv, Phases, ActorKnows, Answered, FirstAnswers
  <2> HIDE DEF s, pc, answers
  <2>7. actor'[a] = s /\ pc \notin {"undo", "replay", "erase", "drop", "return", "check",
                                    "count", "claim", "barrier"}
    BY <1>1, <2>1, <2>3 DEF Driving
  <2>8. ActorKnows(a)'
    BY <1>2, <2>4, <2>5, <2>6, <2>7 DEF ActorKnows, Unsettled, FirstAnswers
  <2> QED
    BY <1>2, <1>3, <2>3, <2>4, <2>8, MovesKeep
<1> QED
  BY <1>4, <1>5

LEMMA ResumeRunKeeps ==
  ASSUME ParkInv, NEW d \in Delivery, NEW how \in Endings, ResumeRun(d, how)
  PROVE  ParkInv'
<1> DEFINE s == [actor[d] EXCEPT !.pc = "holds", !.how = how]
<1>1. d \in Actor
  BY DEF Actor
<1>2. actor[d] \in Stances /\ actor \in [Actor -> Stances]
  BY <1>1 DEF ParkInv, ParkTypeOK
<1>3. UNCHANGED <<stepVars, lease, first, resolutions, replies, delivered>>
  BY DEF ResumeRun, pastVars
<1>4. s \in Stances /\ s.pc = "holds" /\ s.answers = actor[d].answers
  BY <1>2 DEF Stances, Places
<1>5. actor' = [actor EXCEPT ![d] = s]
  BY DEF ResumeRun
<1> HIDE DEF s
<1>6. actor'[d] = s
  BY <1>1, <1>2, <1>5
<1>7. ActorKnows(d)'
  BY <1>1, <1>3, <1>4, <1>6
  DEF ResumeRun, Stands, ParkInv, ActorKnows, Driving, Unsettled, FirstAnswers
<1>8. ~(Unsettled /\ ~expected)
  BY <1>1 DEF ResumeRun, Stands, ParkInv, Phases
<1> QED
  BY <1>1, <1>3, <1>4, <1>5, <1>7, <1>8, MovesKeep

(***************************************************************************)
(* The handlers of a kill and a give-up, short of what a kill erases.      *)
(***************************************************************************)
LEMMA EndingSteps ==
  ASSUME ParkInv, NEW m \in Member, KillPark(m) \/ ReadEnd \/ GiveUpPark(m)
  PROVE  ParkInv'
<1>1. Killer \in Actor /\ Quitter \in Actor
  BY DEF Actor
<1>2. actor[Killer] \in Stances /\ actor \in [Actor -> Stances]
  BY <1>1 DEF ParkInv, ParkTypeOK
<1>3. UNCHANGED <<stepVars, lease, first, resolutions, replies, delivered>>
  BY DEF KillPark, ReadEnd, GiveUpPark, pastVars
<1>4. CASE KillPark(m)
  <2> DEFINE pc == IF entry[m] = "live" THEN "claim" ELSE "erase"
  <2>1. Goes(Killer, pc) /\ pc \in Places
    BY <1>4 DEF KillPark, Places
  <2>2. ~(Unsettled /\ ~expected) /\ (pc = "erase" => ~Unsettled)
    BY <1>4 DEF KillPark, ParkInv, Phases
  <2>3. pc \in {"claim", "erase"}
    OBVIOUS
  <2> HIDE DEF pc
  <2>4. ActorKnows(Killer)'
    BY <1>1, <1>2, <1>3, <2>1, <2>2, <2>3, ActorAssumption
    DEF Goes, ActorKnows, Driving, Stances, Unsettled
  <2> QED
    BY <1>1, <1>3, <2>1, <2>2, <2>4, GoesKeep
<1>5. CASE ReadEnd
  <2>1. ~Unsettled
    BY <1>1, <1>5 DEF ReadEnd, Stands, ParkInv, ActorKnows
  <2>2. CASE Departs(Killer)
    BY <1>1, <1>3, <2>2, DepartsKeep
  <2>3. CASE Goes(Killer, "drop")
    <3>1. "drop" \in Places
      BY DEF Places
    <3>2. ActorKnows(Killer)'
      BY <1>1, <1>2, <1>3, <2>1, <2>3, ActorAssumption
      DEF Goes, ActorKnows, Driving, Stances, Unsettled
    <3> QED
      BY <1>1, <1>3, <2>1, <2>3, <3>1, <3>2, GoesKeep
  <2> QED
    BY <1>5, <2>2, <2>3 DEF ReadEnd
<1>6. CASE GiveUpPark(m)
  <2> DEFINE pc == IF entry[m] = "live" THEN "claim" ELSE "replay"
  <2>1. Comes(Quitter, pc, m) /\ pc \in {"expect", "claim", "replay"}
    BY <1>6 DEF GiveUpPark
  <2>2. entry[m] # "absent" /\ (pc = "replay" => entry[m] # "live")
    BY <1>6 DEF GiveUpPark
  <2> HIDE DEF pc
  <2> QED
    BY <1>1, <1>3, <2>1, <2>2, ActorAssumption, ComesKeep
<1> QED
  BY <1>4, <1>5, <1>6

(***************************************************************************)
(* Faults.                                                                 *)
(***************************************************************************)
LEMMA FaultSteps ==
  ASSUME ParkInv, NEW a \in Actor, DriveLeaseLapses \/ HeartbeatStops(a) \/ ActorDies(a)
  PROVE  ParkInv'
<1>1. actor[a] \in Stances /\ actor \in [Actor -> Stances]
  BY DEF ParkInv, ParkTypeOK
<1>2. UNCHANGED <<stepVars, first, resolutions, replies, delivered>>
  BY DEF DriveLeaseLapses, HeartbeatStops, ActorDies
<1>3. CASE DriveLeaseLapses
  <2>1. lease' = NoHolder /\ actor' = actor
    BY <1>3 DEF DriveLeaseLapses
  <2>2. actor' = [actor EXCEPT ![a] = actor[a]]
    BY <1>1, <2>1
  <2>3. actor[a].pc \in {"idle", "away"} \/ ~(Unsettled /\ ~expected)
    BY DEF ParkInv, Phases
  <2>4. ActorKnows(a)'
    BY <1>2, <2>1, ActorAssumption
    DEF ParkInv, ActorKnows, ResolutionBy, Unsettled, Answered, FirstAnswers, stepVars
  <2> QED
    BY <1>1, <1>2, <2>1, <2>2, <2>3, <2>4, MovesKeep
<1>4. CASE HeartbeatStops(a)
  <2> DEFINE s == [actor[a] EXCEPT !.lost = TRUE]
  <2>1. lease' = lease /\ actor' = [actor EXCEPT ![a] = s]
    BY <1>4 DEF HeartbeatStops
  <2>2. /\ s \in Stances /\ s.pc = actor[a].pc /\ s.member = actor[a].member
        /\ s.answers = actor[a].answers /\ s.how = actor[a].how
    BY <1>1 DEF Stances
  <2> HIDE DEF s
  <2>3. s.pc \in {"idle", "away"} \/ ~(Unsettled /\ ~expected)
    BY <2>2 DEF ParkInv, Phases
  <2>4. actor'[a] = s
    BY <1>1, <2>1
  <2>5. ActorKnows(a)'
    BY <1>2, <2>1, <2>2, <2>4
    DEF ParkInv, ActorKnows, ResolutionBy, Unsettled, Answered, FirstAnswers, stepVars
  <2> QED
    BY <1>2, <2>1, <2>2, <2>3, <2>5, MovesKeep
<1>5. CASE ActorDies(a)
  <2>1. Departs(a) /\ lease' = lease
    BY <1>5 DEF ActorDies
  <2> QED
    BY <1>2, <2>1, DepartsKeep
<1> QED
  BY <1>3, <1>4, <1>5

-----------------------------------------------------------------------------
(***************************************************************************)
(* The steps that write the super-step, or what is returned of it.         *)
(***************************************************************************)
LEMMA PersistKeeps ==
  ASSUME ParkInv, PersistPark
  PROVE  ParkInv'
<1>1. UNCHANGED <<output, resolution, lease, actor, first, resolutions, replies, delivered>>
  BY DEF PersistPark, pastVars
<1>2. Unsettled /\ ~expected
  BY MemberAssumption DEF PersistPark, ParkInv, Phases, Unsettled
<1>3. \A a \in Actor : actor[a].pc \in {"idle", "away"}
  BY <1>2 DEF ParkInv, Phases
<1>4. ParkTypeOK'
  BY <1>1 DEF PersistPark, ParkInv, ParkTypeOK
<1>5. Phases'
  BY <1>1, <1>2 DEF PersistPark, ParkInv, Phases, Unsettled
<1>6. Reported'
  BY <1>1 DEF ParkInv, Reported, Unsettled, FirstAnswers
<1>7. \A a \in Actor : ActorKnows(a)'
  BY <1>1, <1>3 DEF ActorKnows, Driving
<1> QED
  BY <1>4, <1>5, <1>6, <1>7 DEF ParkInv

(***************************************************************************)
(* A later answer of an ask does not replace the first: what a drive has   *)
(* read stays what the barrier holds.                                      *)
(***************************************************************************)
LEMMA PutKeeps ==
  ASSUME ParkInv, NEW d \in Delivery, PutAnswer(d)
  PROVE  ParkInv'
<1> DEFINE n == actor[d].member
           v == IF output[n] = NoAnswer THEN AnswerOf[d] ELSE output[n]
<1>1. d \in Actor
  BY DEF Actor
<1>2. actor[d] \in Stances /\ actor \in [Actor -> Stances] /\ n \in Member
  BY <1>1 DEF ParkInv, ParkTypeOK, Stances
<1>3. v \in Answer /\ v # NoAnswer /\ (output[n] # NoAnswer => v = output[n])
  BY <1>2, AnswerAssumption DEF ParkInv, ParkTypeOK
<1>4. /\ output' = [output EXCEPT ![n] = v]
      /\ first' = IF expected THEN [first EXCEPT ![n] = v] ELSE first
      /\ Goes(d, "check")
      /\ UNCHANGED <<entry, expected, resolution, lease, resolutions, replies, delivered>>
  BY DEF PutAnswer
<1>5. ~(Unsettled /\ ~expected)
  BY <1>1 DEF PutAnswer, Stands, ParkInv, Phases
<1> HIDE DEF n, v
<1>6. ParkTypeOK'
  <2>1. output' \in [Member -> Answer \cup {NoAnswer}]
    BY <1>2, <1>3, <1>4 DEF ParkInv, ParkTypeOK
  <2>2. first' \in [Member -> Answer \cup {NoAnswer}]
    BY <1>2, <1>3, <1>4 DEF ParkInv, ParkTypeOK
  <2>3. actor' \in [Actor -> Stances]
    BY <1>1, <1>2, <1>4 DEF Goes, Stances, Places
  <2> QED
    BY <1>4, <2>1, <2>2, <2>3 DEF ParkInv, ParkTypeOK
<1>7. Unsettled => output' = first'
  BY <1>4, <1>5 DEF ParkInv, Phases
<1>8. Phases'
  BY <1>4, <1>5, <1>7 DEF ParkInv, Phases, Unsettled
<1>9. \A k \in Member : output[k] # NoAnswer => output'[k] = output[k] /\ output'[k] # NoAnswer
  BY <1>2, <1>3, <1>4 DEF ParkInv, ParkTypeOK
<1>10. output'[n] # NoAnswer
  BY <1>2, <1>3, <1>4 DEF ParkInv, ParkTypeOK
<1>11. \A f : FirstAnswers(f) => FirstAnswers(f)'
  <2>1. CASE expected
    BY <1>2, <1>3, <1>4, <1>5, <2>1 DEF ParkInv, ParkTypeOK, Phases, FirstAnswers
  <2>2. CASE ~expected
    BY <1>4, <2>2 DEF FirstAnswers
  <2> QED
    BY <2>1, <2>2
<1>12. Reported'
  <2>1. ASSUME NEW r \in Resolutions, resolutions' = <<r>>, r.by \in Delivery
        PROVE  FirstAnswers(r.answers)'
    BY <1>4, <1>11, <2>1 DEF ParkInv, Reported
  <2>2. Unsettled' => (\A m \in delivered' : output'[m] # NoAnswer) /\ delivered' # Member
    BY <1>4, <1>9 DEF ParkInv, ParkTypeOK, Reported, Unsettled
  <2> QED
    BY <1>4, <2>1, <2>2 DEF ParkInv, Reported, Unsettled
<1>13. ASSUME NEW a \in Actor PROVE ActorKnows(a)'
  <2>1. CASE a = d
    <3>1. actor'[a].pc = "check" /\ actor'[a].member = n
      BY <1>1, <1>2, <1>4, <2>1 DEF Goes, Stances, n
    <3> QED
      BY <1>10, <3>1 DEF ActorKnows, Driving
  <2>2. CASE a # d
    <3>1. actor'[a] = actor[a] /\ actor[a].member \in Member
      BY <1>2, <1>4, <2>2 DEF Goes, Stances
    <3>2. ActorKnows(a)
      BY DEF ParkInv
    <3>3. Answered => Answered'
      BY <1>9 DEF Answered
    <3>4. (actor[a].pc \in {"check", "count"} /\ Unsettled)' => output'[actor'[a].member] # NoAnswer
      BY <1>4, <1>9, <3>1, <3>2 DEF ActorKnows, Unsettled
    <3>5. (a \in Delivery /\ actor[a].pc \in Driving /\ Unsettled)'
             => FirstAnswers(actor[a].answers)'
      BY <1>4, <1>11, <3>1, <3>2 DEF ActorKnows, Unsettled, FirstAnswers
    <3> QED
      BY <1>4, <3>1, <3>2, <3>3, <3>4, <3>5 DEF ActorKnows, Unsettled, ResolutionBy
  <2> QED
    BY <2>1, <2>2
<1> QED
  BY <1>6, <1>8, <1>12, <1>13 DEF ParkInv

(***************************************************************************)
(* Only a barrier that was finalized is deleted, and nobody relies on it.  *)
(***************************************************************************)
LEMMA DeleteKeeps ==
  ASSUME ParkInv, NEW d \in Delivery, DeleteBarrier(d)
  PROVE  ParkInv'
<1>1. d \in Actor
  BY DEF Actor
<1>2. ~Unsettled
  BY <1>1 DEF DeleteBarrier, Stands, ParkInv, ActorKnows
<1>3. /\ output' = NoAnswers /\ ~expected' /\ actor' = [actor EXCEPT ![d] = Resting]
      /\ UNCHANGED <<entry, resolution, lease, first, resolutions, replies, delivered>>
  BY DEF DeleteBarrier, Departs, pastVars
<1>4. ParkTypeOK'
  <2>1. actor' \in [Actor -> Stances]
    BY <1>1, <1>3, RestingFits DEF ParkInv, ParkTypeOK
  <2>2. output' \in [Member -> Answer \cup {NoAnswer}] /\ expected' \in BOOLEAN
    BY <1>3 DEF NoAnswers, DeleteBarrier
  <2> QED
    BY <1>3, <2>1, <2>2 DEF ParkInv, ParkTypeOK
<1>5. Phases' /\ Reported'
  BY <1>2, <1>3 DEF ParkInv, Phases, Reported, Unsettled, FirstAnswers
<1>6. ASSUME NEW a \in Actor PROVE ActorKnows(a)'
  <2>1. CASE a = d
    <3>1. actor'[a].pc = "idle"
      BY <1>1, <1>3, <2>1 DEF Resting, ParkInv, ParkTypeOK
    <3> QED
      BY <3>1 DEF ActorKnows, Driving
  <2>2. CASE a # d
    <3>1. actor'[a] = actor[a]
      BY <1>3, <2>2 DEF ParkInv, ParkTypeOK
    <3> QED
      BY <1>2, <1>3, <3>1 DEF ParkInv, ActorKnows, Unsettled, ResolutionBy
  <2> QED
    BY <2>1, <2>2
<1> QED
  BY <1>4, <1>5, <1>6 DEF ParkInv

LEMMA ReturnsKeep ==
  ASSUME ParkInv, NEW a \in Actor, Departs(a),
         UNCHANGED <<stepVars, lease, first, resolutions>>,
         replies' \subseteq Resolutions, delivered' \subseteq Member, Reported'
  PROVE  ParkInv'
<1>1. actor' = [actor EXCEPT ![a] = Resting] /\ actor \in [Actor -> Stances]
  BY DEF Departs, ParkInv, ParkTypeOK
<1>2. Resting.pc = "idle"
  BY DEF Resting
<1>3. ParkTypeOK'
  <2>1. actor' \in [Actor -> Stances]
    BY <1>1, RestingFits
  <2> QED
    BY <2>1 DEF ParkInv, ParkTypeOK, stepVars
<1>4. Phases'
  BY <1>1, <1>2 DEF ParkInv, Phases, Unsettled, stepVars
<1>5. ASSUME NEW b \in Actor PROVE ActorKnows(b)'
  <2>1. CASE b = a
    BY <1>1, <1>2, <2>1 DEF ActorKnows, Driving
  <2>2. CASE b # a
    BY <1>1, <2>2
    DEF ParkInv, ActorKnows, ResolutionBy, Unsettled, Answered, FirstAnswers, stepVars
  <2> QED
    BY <2>1, <2>2
<1> QED
  BY <1>3, <1>4, <1>5 DEF ParkInv

(***************************************************************************)
(* A delivery that leaves with the barrier incomplete leaves another ask   *)
(* whose delivery is still to come.                                        *)
(***************************************************************************)
LEMMA CountKeeps ==
  ASSUME ParkInv, NEW d \in Delivery, CountAnswers(d)
  PROVE  ParkInv'
<1>1. d \in Actor
  BY DEF Actor
<1>2. actor[d] \in Stances /\ actor \in [Actor -> Stances] /\ actor[d].member \in Member
  BY <1>1 DEF ParkInv, ParkTypeOK, Stances
<1>3. UNCHANGED <<stepVars, lease, first, resolutions, replies>>
  BY DEF CountAnswers
<1>4. ~(Unsettled /\ ~expected)
  BY <1>1 DEF CountAnswers, Stands, ParkInv, Phases
<1>5. CASE Answered /\ Goes(d, "claim") /\ delivered' = delivered
  <2>1. "claim" \in Places
    BY DEF Places
  <2>2. ActorKnows(d)'
    BY <1>1, <1>2, <1>3, <1>5 DEF Goes, ActorKnows, Driving, Stances, Answered, stepVars
  <2> QED
    BY <1>1, <1>3, <1>4, <1>5, <2>1, <2>2, GoesKeep
<1>6. CASE /\ \E m \in Member : output[m] = NoAnswer
           /\ Departs(d)
           /\ delivered' = delivered \cup {actor[d].member}
  <2>1. replies' \subseteq Resolutions /\ delivered' \subseteq Member
    BY <1>2, <1>3, <1>6 DEF ParkInv, ParkTypeOK
  <2>2. Unsettled' => \A m \in delivered' : output'[m] # NoAnswer
    BY <1>1, <1>3, <1>6
    DEF CountAnswers, Stands, ParkInv, Reported, ActorKnows, Unsettled, stepVars
  <2>3. Unsettled' => delivered' # Member
    BY <1>3, <1>6, <2>2 DEF stepVars
  <2>4. Reported'
    BY <1>3, <2>2, <2>3 DEF ParkInv, Reported, Unsettled, FirstAnswers, stepVars
  <2> QED
    BY <1>1, <1>3, <1>6, <2>1, <2>4, ReturnsKeep
<1> QED
  BY <1>5, <1>6 DEF CountAnswers, Answered

(***************************************************************************)
(* What is replayed or returned is the resolution that was written.        *)
(***************************************************************************)
LEMMA ReplyKeeps ==
  ASSUME ParkInv, NEW a \in Actor, Replay(a) \/ ReturnOutcome(a)
  PROVE  ParkInv'
<1>1. actor[a].member \in Member
  BY DEF ParkInv, ParkTypeOK, Stances
<1>2. Departs(a) /\ UNCHANGED <<stepVars, lease, first, resolutions>>
  BY DEF Replay, ReturnOutcome
<1>3. ~Unsettled
  BY DEF Replay, ReturnOutcome, Stands, ParkInv, ActorKnows
<1>4. ASSUME NEW r, replies' \subseteq replies \cup {r}, resolutions = <<r>>,
             delivered' \subseteq delivered \cup {actor[a].member}
      PROVE  ParkInv'
  <2>1. r \in Resolutions
    BY <1>4 DEF ParkInv, Phases, Unsettled
  <2>2. replies' \subseteq Resolutions /\ delivered' \subseteq Member
    BY <1>1, <1>4, <2>1 DEF ParkInv, ParkTypeOK
  <2>3. Reported'
    BY <1>2, <1>3, <1>4 DEF ParkInv, Reported, Unsettled, FirstAnswers, stepVars
  <2> QED
    BY <1>2, <2>2, <2>3, ReturnsKeep
<1>5. CASE Replay(a)
  <2>1. CASE resolution = NoResolution
    <3>1. PICK r \in Resolutions : resolutions = <<r>>
      BY <1>3 DEF ParkInv, Phases
    <3>2. replies' = replies /\ delivered' = delivered
      BY <1>5, <2>1 DEF Replay
    <3> QED
      BY <1>4, <3>1, <3>2
  <2>2. CASE resolution # NoResolution
    <3>1. resolutions = <<resolution>>
      BY <2>2 DEF ParkInv, Reported
    <3>2. replies' = replies \cup {resolution} /\ delivered' = delivered \cup {actor[a].member}
      BY <1>5, <2>2 DEF Replay
    <3> QED
      BY <1>4, <3>1, <3>2
  <2> QED
    BY <2>1, <2>2
<1>6. CASE ReturnOutcome(a)
  <2>1. resolutions = <<ResolutionBy(a)>>
    BY <1>6 DEF ReturnOutcome, Stands, ParkInv, ActorKnows
  <2>2. replies' \subseteq replies \cup {ResolutionBy(a)}
    BY <1>6 DEF ReturnOutcome
  <2>3. delivered' \subseteq delivered \cup {actor[a].member}
    BY <1>6 DEF ReturnOutcome
  <2> QED
    BY <1>4, <2>1, <2>2, <2>3
<1> QED
  BY <1>5, <1>6

(***************************************************************************)
(* The finalize finds its lease held, so that the step is not settled and  *)
(* the answers it read are the first ones.                                 *)
(***************************************************************************)
LEMMA FinalizeKeeps ==
  ASSUME ParkInv, NEW a \in Actor, Finalize(a)
  PROVE  ParkInv'
<1> DEFINE r == ResolutionBy(a)
<1>1. actor[a] \in Stances /\ actor \in [Actor -> Stances]
  BY DEF ParkInv, ParkTypeOK
<1>2. r \in Resolutions
  BY <1>1 DEF ResolutionBy, Resolutions, Stances
<1>3. Unsettled /\ (a \in Delivery => FirstAnswers(r.answers))
  BY DEF Finalize, Stands, ParkInv, ActorKnows, Driving, ResolutionBy
<1>4. /\ entry' = [m \in Member |-> "resolved"] /\ resolution' = r
      /\ expected' = FALSE /\ output' = NoAnswers /\ lease' = NoHolder
      /\ Goes(a, "return") /\ UNCHANGED <<first, replies, delivered>>
  BY DEF Finalize, WriteResolution
<1>5. resolutions' = <<r>>
  BY <1>2, <1>3 DEF Finalize, WriteResolution, Unsettled
<1>6. r.by = a /\ ResolutionBy(a)' = r
  BY <1>1, <1>4 DEF ResolutionBy, Goes, Stances
<1> HIDE DEF r
<1>7. ~Unsettled'
  BY <1>5 DEF Unsettled
<1>8. ParkTypeOK'
  <2>1. actor' \in [Actor -> Stances]
    BY <1>1, <1>4 DEF Goes, Stances, Places
  <2>2. resolutions' \in Seq(Resolutions)
    BY <1>2, <1>5
  <2>3. output' \in [Member -> Answer \cup {NoAnswer}]
    BY <1>4 DEF NoAnswers
  <2> QED
    BY <1>2, <1>4, <2>1, <2>2, <2>3 DEF ParkInv, ParkTypeOK
<1>9. Phases'
  BY <1>2, <1>4, <1>5, <1>7 DEF Phases
<1>10. Reported'
  <2>1. replies' = {}
    BY <1>3, <1>4 DEF ParkInv, Reported, Unsettled
  <2>2. ASSUME NEW q \in Resolutions, resolutions' = <<q>>, q.by \in Delivery
        PROVE  FirstAnswers(q.answers)'
    <3>1. q = r
      BY <1>5, <2>2
    <3> QED
      BY <1>3, <1>4, <1>6, <2>2, <3>1 DEF FirstAnswers
  <2> QED
    BY <1>4, <1>5, <1>7, <2>1, <2>2 DEF Reported
<1>11. ASSUME NEW b \in Actor PROVE ActorKnows(b)'
  <2>1. lease' # b
    BY <1>4, ActorAssumption
  <2>2. CASE b = a
    BY <1>5, <1>6, <1>7, <2>1, <2>2 DEF ActorKnows
  <2>3. CASE b # a
    <3>1. actor'[b].pc # "return"
      BY <1>1, <1>3, <1>4, <2>3 DEF Goes, ParkInv, ActorKnows
    <3> QED
      BY <1>7, <2>1, <3>1 DEF ActorKnows
  <2> QED
    BY <2>2, <2>3
<1> QED
  BY <1>8, <1>9, <1>10, <1>11 DEF ParkInv

LEMMA DropKeeps ==
  ASSUME ParkInv, DropResolution
  PROVE  ParkInv'
<1>1. Killer \in Actor
  BY DEF Actor
<1>2. ~Unsettled
  BY <1>1 DEF DropResolution, Stands, ParkInv, ActorKnows
<1>3. /\ entry' = [m \in Member |-> "absent"] /\ resolution' = NoResolution
      /\ actor' = [actor EXCEPT ![Killer] = Resting]
      /\ UNCHANGED <<expected, output, lease, first, resolutions, replies, delivered>>
  BY DEF DropResolution, Departs, pastVars
<1>4. ParkTypeOK'
  <2>1. actor' \in [Actor -> Stances]
    BY <1>1, <1>3, RestingFits DEF ParkInv, ParkTypeOK
  <2> QED
    BY <1>3, <2>1 DEF ParkInv, ParkTypeOK
<1>5. Phases' /\ Reported'
  BY <1>2, <1>3 DEF ParkInv, Phases, Reported, Unsettled, FirstAnswers
<1>6. ASSUME NEW a \in Actor PROVE ActorKnows(a)'
  <2>1. CASE a = Killer
    <3>1. actor'[a].pc = "idle"
      BY <1>1, <1>3, <2>1 DEF Resting, ParkInv, ParkTypeOK
    <3> QED
      BY <3>1 DEF ActorKnows, Driving
  <2>2. CASE a # Killer
    <3>1. actor'[a] = actor[a]
      BY <1>3, <2>2 DEF ParkInv, ParkTypeOK
    <3> QED
      BY <1>2, <1>3, <3>1 DEF ParkInv, ActorKnows, Unsettled, ResolutionBy
  <2> QED
    BY <2>1, <2>2
<1> QED
  BY <1>4, <1>5, <1>6 DEF ParkInv

-----------------------------------------------------------------------------
(***************************************************************************)
(* The invariant, and what follows.                                        *)
(***************************************************************************)
LEMMA ParkSteps ==
  ASSUME ParkInv, ParkNext
  PROVE  ParkInv'
<1>1. PICK m0 \in Member : TRUE
  BY MemberAssumption
<1>2. Killer \in Actor
  BY DEF Actor
<1>3. CASE PersistPark
  BY <1>3, PersistKeeps
<1>4. ASSUME NEW d \in Delivery, NEW m \in Member, LookUp(d, m) PROVE ParkInv'
  BY <1>4, DeliverySteps
<1>5. ASSUME NEW d \in Delivery,
             \/ ReadExpected(d) \/ PutAnswer(d) \/ CheckBarrier(d) \/ DeleteBarrier(d)
             \/ CountAnswers(d) \/ RefuseRun(d) \/ \E how \in Endings : ResumeRun(d, how)
      PROVE  ParkInv'
  BY <1>1, <1>5, DeliverySteps, PutKeeps, DeleteKeeps, CountKeeps, ResumeRunKeeps
<1>6. ASSUME NEW a \in Actor,
             \/ Replay(a) \/ ClaimLease(a) \/ ReadBarrier(a) \/ CheckLease(a)
             \/ Finalize(a) \/ LoseLease(a) \/ ReleaseLease(a) \/ ReturnOutcome(a)
             \/ HeartbeatStops(a) \/ ActorDies(a)
             \/ \E lands \in BOOLEAN : FireChain(a, lands)
      PROVE  ParkInv'
  BY <1>6, ReplyKeeps, LeaseSteps, ReadBarrierKeeps, FinalizeKeeps, FaultSteps
<1>7. ASSUME NEW m \in Member, KillPark(m) \/ GiveUpPark(m) PROVE ParkInv'
  BY <1>7, EndingSteps
<1>8. CASE ReadEnd
  BY <1>1, <1>8, EndingSteps
<1>9. CASE DropResolution
  BY <1>9, DropKeeps
<1>10. CASE DriveLeaseLapses
  BY <1>2, <1>10, FaultSteps
<1> QED
  BY <1>3, <1>4, <1>5, <1>6, <1>7, <1>8, <1>9, <1>10 DEF ParkNext

LEMMA ParkStutters ==
  ASSUME ParkInv, UNCHANGED parkVars
  PROVE  ParkInv'
<1>1. UNCHANGED <<entry, expected, output, resolution, lease, actor, first, resolutions,
                  replies, delivered>>
  BY DEF parkVars, stepVars, pastVars
<1>2. ParkTypeOK' /\ Phases' /\ Reported'
  BY <1>1 DEF ParkInv, ParkTypeOK, Phases, Reported, Unsettled, FirstAnswers
<1>3. \A a \in Actor : ActorKnows(a)'
  BY <1>1 DEF ParkInv, ActorKnows, Unsettled, Answered, FirstAnswers, ResolutionBy
<1> QED
  BY <1>2, <1>3 DEF ParkInv

LEMMA ParkInvariant == ParkSpec => []ParkInv
<1>1. ParkInit => ParkInv
  BY ParkInitHolds
<1>2. ParkInv /\ [ParkNext]_parkVars => ParkInv'
  BY ParkSteps, ParkStutters
<1> QED
  BY <1>1, <1>2, PTL DEF ParkSpec

(***************************************************************************)
(* Every state of a parked super-step has its type: an answer of the       *)
(* barrier, a resolution and an outcome are what they should be, whoever   *)
(* wrote them (ParkIndex).                                                 *)
(***************************************************************************)
THEOREM ParkTypeCorrect == ParkSpec => []ParkTypeOK
<1>1. ParkInv => ParkTypeOK
  BY DEF ParkInv
<1> QED
  BY <1>1, ParkInvariant, PTL

(***************************************************************************)
(* However many deliveries, redeliveries, kills and give-ups meet, and     *)
(* whatever lapses or dies, a super-step is resolved once, a drive         *)
(* resolves it with the first answer of every ask, every outcome returned  *)
(* is that resolution, and the last delivery to come back leaves it        *)
(* resolved (ParkIndex.buffer, ParkIndex.finalize, agent_resume).          *)
(***************************************************************************)
THEOREM SuperStepsSettle == ParkSpec => []SuperStepSettles
<1>1. ParkInv => SuperStepSettles
  <2> SUFFICES ASSUME ParkInv PROVE SuperStepSettles
    OBVIOUS
  <2>1. CASE Unsettled
    <3>1. resolutions = <<>> /\ replies = {} /\ delivered # Member
      BY <2>1 DEF ParkInv, Reported, Unsettled
    <3> QED
      BY <3>1 DEF SuperStepSettles
  <2>2. CASE ~Unsettled
    <3>1. PICK r \in Resolutions : resolutions = <<r>>
      BY <2>2 DEF ParkInv, Phases
    <3>2. DOMAIN resolutions = {1} /\ Len(resolutions) = 1 /\ resolutions[1] = r
      BY <3>1
    <3>3. r.by \in Delivery => FirstAnswers(r.answers)
      BY <3>1 DEF ParkInv, Reported
    <3>4. \A q \in replies : q = r
      BY <3>1 DEF ParkInv, Reported
    <3> QED
      BY <2>2, <3>2, <3>3, <3>4 DEF SuperStepSettles, FirstAnswers, Unsettled
  <2> QED
    BY <2>1, <2>2
<1> QED
  BY <1>1, ParkInvariant, PTL
=============================================================================
