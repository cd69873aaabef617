----------------------------- MODULE AgentPark -----------------------------
(***************************************************************************)
(* One parked super-step of an agent run (tai42_kit                        *)
(* interactions/park_index.py, tai42_agents _internal/park/resume.py and   *)
(* resume_tool.py).  The run waits for the answers of several asks; each   *)
(* delivery buffers its answer in the step's barrier, and one that finds   *)
(* the barrier complete drives the run under the step's drive lease and    *)
(* finalizes the step.  A kill or a give-up finalizes it under the same    *)
(* lease.  A step here is a round trip to Redis; the resumed run is one.   *)
(***************************************************************************)
EXTENDS Integers, FiniteSets, Sequences

CONSTANTS
  Member,          \* the asks the super-step waits for
  Answer,          \* what they are answered with
  Delivery,        \* concurrent deliveries of answers, redeliveries included
  AnswerOf,        \* [Delivery -> the answer it brings]
  Killer,          \* the platform's kill
  Quitter,         \* the platform's give-up
  NoHolder, NoAnswer, NoResolution,
  MaxParkFaults    \* bound: leases that lapse, heartbeats that fail, deaths

ASSUME MemberAssumption == Member # {}
ASSUME AnswerAssumption == AnswerOf \in [Delivery -> Answer] /\ NoAnswer \notin Answer

Actor == Delivery \cup {Killer, Quitter}
ASSUME ActorAssumption ==
  /\ Killer \notin Delivery /\ Quitter \notin Delivery /\ Killer # Quitter
  /\ NoHolder \notin Actor
ASSUME ParkBoundsAssumption == MaxParkFaults \in Nat

VARIABLES
  entry,        \* [Member -> "absent", "live" or "resolved" (a tombstone)]
  expected,     \* the barrier holds its expected map
  output,       \* [Member -> the answer the barrier holds]
  lease,        \* who holds the drive lease
  resolution,   \* the record of how the step was resolved
  actor,        \* [Actor -> where it stands, for which ask, the answers it read from
                \*  the barrier, how the run ended, whether its heartbeat stopped]
  first,        \* history: [Member -> the first answer its barrier took]
  resolutions,  \* history: the resolutions that were written
  replies,      \* history: the outcomes deliveries and give-ups returned
  delivered,    \* history: asks one of whose deliveries came back
  parkFaults

stepVars == <<entry, expected, output, resolution>>
pastVars == <<first, resolutions, replies, delivered, parkFaults>>
parkVars == <<stepVars, lease, actor, pastVars>>

NoAnswers == [m \in Member |-> NoAnswer]
Endings == {"ended", "aborted"}       \* a terminal and a further wait are alike
Resolutions == [how : Endings, by : Actor, answers : [Member -> Answer \cup {NoAnswer}]]
ASSUME ResolutionAssumption == NoResolution \notin Resolutions

Stands(a, pc) == actor[a].pc = pc
Goes(a, pc) == actor' = [actor EXCEPT ![a].pc = pc]
Resting == [pc |-> "idle", member |-> CHOOSE m \in Member : TRUE,
            answers |-> NoAnswers, how |-> "ended", lost |-> FALSE]
Departs(a) == actor' = [actor EXCEPT ![a] = Resting]
Comes(a, pc, m) ==
  actor' = [actor EXCEPT ![a] = [Resting EXCEPT !.pc = pc, !.member = m]]

ParkStart(away, f) ==
  /\ entry = [m \in Member |-> "absent"] /\ expected = FALSE /\ output = NoAnswers
  /\ lease = NoHolder /\ resolution = NoResolution
  /\ actor = [a \in Actor |-> [Resting EXCEPT !.pc = IF a \in away THEN "away" ELSE "idle"]]
  /\ first = NoAnswers /\ resolutions = <<>> /\ replies = {} /\ delivered = {}
  /\ parkFaults = f

(***************************************************************************)
(* Some deliveries never come, nobody kills or gives up, or some of the    *)
(* bounded faults lie in the past.                                         *)
(***************************************************************************)
ParkInit == \E away \in SUBSET Actor, f \in 0..MaxParkFaults : ParkStart(away, f)

(***************************************************************************)
(* persist: entries and barrier in one transaction, when the run parks.    *)
(***************************************************************************)
PersistPark ==
  /\ \A m \in Member : entry[m] = "absent"
  /\ resolutions = <<>>
  /\ entry' = [m \in Member |-> "live"]
  /\ expected' = TRUE
  /\ UNCHANGED <<output, resolution, lease, actor, pastVars>>

-----------------------------------------------------------------------------
(* A delivery: agent_resume reads the entry, then buffer.                  *)

(***************************************************************************)
(* An ask without an entry raises and is delivered again.                  *)
(***************************************************************************)
LookUp(d, m) ==
  /\ Stands(d, "idle")
  /\ entry[m] # "absent"
  /\ Comes(d, IF entry[m] = "live" THEN "expect" ELSE "replay", m)
  /\ UNCHANGED <<stepVars, lease, pastVars>>

ReadExpected(d) ==
  /\ Stands(d, "expect")
  /\ IF expected THEN Goes(d, "put") ELSE Departs(d)
  /\ UNCHANGED <<stepVars, lease, pastVars>>

(***************************************************************************)
(* HSETNX: a member already answered keeps its answer.  On a barrier that  *)
(* was finalized since, it brings the key back with this field alone.      *)
(***************************************************************************)
PutAnswer(d) ==
  LET m == actor[d].member
      v == IF output[m] = NoAnswer THEN AnswerOf[d] ELSE output[m]
  IN /\ Stands(d, "put")
     /\ output' = [output EXCEPT ![m] = v]
     /\ first' = IF expected THEN [first EXCEPT ![m] = v] ELSE first
     /\ Goes(d, "check")
     /\ UNCHANGED <<entry, expected, resolution, lease, resolutions, replies, delivered,
                    parkFaults>>

CheckBarrier(d) ==
  /\ Stands(d, "check")
  /\ Goes(d, IF expected THEN "count" ELSE "undo")
  /\ UNCHANGED <<stepVars, lease, pastVars>>

(***************************************************************************)
(* The key it brought back is deleted, and the delivery raises.            *)
(***************************************************************************)
DeleteBarrier(d) ==
  /\ Stands(d, "undo")
  /\ expected' = FALSE
  /\ output' = NoAnswers
  /\ Departs(d)
  /\ UNCHANGED <<entry, resolution, lease, pastVars>>

(***************************************************************************)
(* HMGET of every member's answer: while one is missing the delivery is    *)
(* done (ResumeBuffered); the one that finds them all goes on to drive.    *)
(***************************************************************************)
CountAnswers(d) ==
  /\ Stands(d, "count")
  /\ \/ /\ \A m \in Member : output[m] # NoAnswer
        /\ Goes(d, "claim")
        /\ UNCHANGED delivered
     \/ /\ \E m \in Member : output[m] = NoAnswer
        /\ Departs(d)
        /\ delivered' = delivered \cup {actor[d].member}
  /\ UNCHANGED <<stepVars, lease, first, resolutions, replies, parkFaults>>

(***************************************************************************)
(* A tombstone replays its resolution; without one the delivery raises.        *)
(***************************************************************************)
Replay(a) ==
  /\ Stands(a, "replay")
  /\ Departs(a)
  /\ IF resolution = NoResolution
     THEN UNCHANGED <<replies, delivered>>
     ELSE /\ replies' = replies \cup {resolution}
          /\ delivered' = delivered \cup {actor[a].member}
  /\ UNCHANGED <<stepVars, lease, first, resolutions, parkFaults>>

-----------------------------------------------------------------------------
(* The drive lease, and what is done under it.                             *)

(***************************************************************************)
(* SET NX: whoever finds it held raises, and comes again.                  *)
(***************************************************************************)
ClaimLease(a) ==
  /\ Stands(a, "claim")
  /\ IF lease = NoHolder
     THEN lease' = a /\ Goes(a, "barrier")
     ELSE Departs(a) /\ UNCHANGED lease
  /\ UNCHANGED <<stepVars, pastVars>>

(***************************************************************************)
(* read_barrier: a step finalized meanwhile has none, and a key brought    *)
(* back is corrupt; both raise.  A kill goes straight to the finalize, a   *)
(* give-up to the terminal of a failed run, a delivery to the run.         *)
(***************************************************************************)
ReadBarrier(a) ==
  /\ Stands(a, "barrier")
  /\ IF ~expected
     THEN Goes(a, "release")
     ELSE actor' = [actor EXCEPT
            ![a].pc = CASE a = Killer -> "final" [] a = Quitter -> "holds" [] OTHER -> "resume",
            ![a].how = IF a = Killer THEN "aborted" ELSE "ended",
            ![a].answers = IF a \in Delivery THEN output ELSE NoAnswers]
  /\ UNCHANGED <<stepVars, lease, pastVars>>

(***************************************************************************)
(* The run is resumed with the answers read, if every member's entry is    *)
(* live, and ends, fails, parks again or is torn down.  It is refused when *)
(* its workspace is held or the run was taken down, and ends nothing.      *)
(***************************************************************************)
ResumeRun(d, how) ==
  /\ Stands(d, "resume")
  /\ \A m \in Member : entry[m] = "live"
  /\ actor' = [actor EXCEPT ![d].pc = "holds", ![d].how = how]
  /\ UNCHANGED <<stepVars, lease, pastVars>>

RefuseRun(d) ==
  /\ Stands(d, "resume")
  /\ Goes(d, "release")
  /\ UNCHANGED <<stepVars, lease, pastVars>>

(***************************************************************************)
(* The lease is looked at before the outcome goes to the caller's chain.   *)
(***************************************************************************)
CheckLease(a) ==
  /\ Stands(a, "holds")
  /\ Goes(a, IF lease = a THEN "chain" ELSE "release")
  /\ UNCHANGED <<stepVars, lease, pastVars>>

(***************************************************************************)
(* A chained run fires its caller's delivery, and finalizes nothing when   *)
(* the fire raises.                                                        *)
(***************************************************************************)
FireChain(a, lands) ==
  /\ Stands(a, "chain")
  /\ Goes(a, IF lands THEN "final" ELSE "release")
  /\ UNCHANGED <<stepVars, lease, pastVars>>

(***************************************************************************)
(* The finalize script, guarded by the lease's token: tombstones, the      *)
(* resolution, no barrier, no lease.                                       *)
(***************************************************************************)
ResolutionBy(a) == [how |-> actor[a].how, by |-> a, answers |-> actor[a].answers]

WriteResolution(a) ==
  /\ entry' = [m \in Member |-> "resolved"]
  /\ resolution' = ResolutionBy(a)
  /\ expected' = FALSE
  /\ output' = NoAnswers
  /\ lease' = NoHolder
  /\ resolutions' = Append(resolutions, ResolutionBy(a))
  /\ Goes(a, "return")
  /\ UNCHANGED <<first, replies, delivered, parkFaults>>

\* Mutant of Finalize: not guarded by the lease.
FinalizeUnguarded(a) == Stands(a, "final") /\ WriteResolution(a)

Finalize(a) == Stands(a, "final") /\ lease = a /\ ~actor[a].lost /\ WriteResolution(a)

LoseLease(a) ==
  /\ Stands(a, "final")
  /\ lease # a \/ actor[a].lost
  /\ Goes(a, "release")
  /\ UNCHANGED <<stepVars, lease, pastVars>>

(***************************************************************************)
(* The release is checked against the token too.                           *)
(***************************************************************************)
ReleaseLease(a) ==
  /\ Stands(a, "release")
  /\ lease' = IF lease = a THEN NoHolder ELSE lease
  /\ Departs(a)
  /\ UNCHANGED <<stepVars, pastVars>>

ReturnOutcome(a) ==
  /\ Stands(a, "return")
  /\ Departs(a)
  /\ replies' = IF a = Killer THEN replies ELSE replies \cup {ResolutionBy(a)}
  /\ delivered' = IF a = Killer THEN delivered ELSE delivered \cup {actor[a].member}
  /\ UNCHANGED <<stepVars, lease, first, resolutions, parkFaults>>

-----------------------------------------------------------------------------
(* The handlers of a kill and of a give-up.                                *)

KillPark(m) ==
  /\ Stands(Killer, "idle")
  /\ entry[m] # "absent"
  /\ Goes(Killer, IF entry[m] = "live" THEN "claim" ELSE "erase")
  /\ UNCHANGED <<stepVars, lease, pastVars>>

(***************************************************************************)
(* A kill keeps the resolution of an aborted step and erases any other.        *)
(***************************************************************************)
ReadEnd ==
  /\ Stands(Killer, "erase")
  /\ IF resolution # NoResolution /\ resolution.how = "aborted"
     THEN Departs(Killer)
     ELSE Goes(Killer, "drop")
  /\ UNCHANGED <<stepVars, lease, pastVars>>

DropResolution ==
  /\ Stands(Killer, "drop")
  /\ entry' = [m \in Member |-> "absent"]
  /\ resolution' = NoResolution
  /\ Departs(Killer)
  /\ UNCHANGED <<expected, output, lease, pastVars>>

GiveUpPark(m) ==
  /\ Stands(Quitter, "idle")
  /\ entry[m] # "absent"
  /\ Comes(Quitter, IF entry[m] = "live" THEN "claim" ELSE "replay", m)
  /\ UNCHANGED <<stepVars, lease, pastVars>>

-----------------------------------------------------------------------------
(* Faults.                                                                 *)

DriveLeaseLapses ==
  /\ lease # NoHolder
  /\ parkFaults < MaxParkFaults
  /\ lease' = NoHolder
  /\ parkFaults' = parkFaults + 1
  /\ UNCHANGED <<stepVars, actor, first, resolutions, replies, delivered>>

(***************************************************************************)
(* A renew that raises, or finds another holder, ends the heartbeat.       *)
(***************************************************************************)
HeartbeatStops(a) ==
  /\ lease = a
  /\ ~Stands(a, "idle")
  /\ parkFaults < MaxParkFaults
  /\ actor' = [actor EXCEPT ![a].lost = TRUE]
  /\ parkFaults' = parkFaults + 1
  /\ UNCHANGED <<stepVars, lease, first, resolutions, replies, delivered>>

ActorDies(a) ==
  /\ actor[a].pc \notin {"idle", "away"}
  /\ parkFaults < MaxParkFaults
  /\ Departs(a)
  /\ parkFaults' = parkFaults + 1
  /\ UNCHANGED <<stepVars, lease, first, resolutions, replies, delivered>>

ParkNext ==
  \/ PersistPark
  \/ \E d \in Delivery, m \in Member : LookUp(d, m)
  \/ \E d \in Delivery :
       \/ ReadExpected(d) \/ PutAnswer(d) \/ CheckBarrier(d) \/ DeleteBarrier(d)
       \/ CountAnswers(d) \/ RefuseRun(d)
       \/ \E how \in Endings : ResumeRun(d, how)
  \/ \E a \in Actor :
       \/ Replay(a) \/ ClaimLease(a) \/ ReadBarrier(a) \/ CheckLease(a)
       \/ Finalize(a) \/ LoseLease(a) \/ ReleaseLease(a) \/ ReturnOutcome(a)
       \/ HeartbeatStops(a) \/ ActorDies(a)
       \/ \E lands \in BOOLEAN : FireChain(a, lands)
  \/ \E m \in Member : KillPark(m) \/ GiveUpPark(m)
  \/ ReadEnd \/ DropResolution \/ DriveLeaseLapses

ParkSpec == ParkInit /\ [][ParkNext]_parkVars

-----------------------------------------------------------------------------
(* Properties.                                                             *)

Places == {"away", "idle", "expect", "put", "check", "undo", "count", "replay", "claim",
           "barrier", "resume", "holds", "chain", "final", "release", "return", "erase",
           "drop"}
Stances == [pc : Places, member : Member, answers : [Member -> Answer \cup {NoAnswer}],
            how : Endings, lost : BOOLEAN]

ParkTypeOK ==
  /\ entry \in [Member -> {"absent", "live", "resolved"}]
  /\ expected \in BOOLEAN
  /\ output \in [Member -> Answer \cup {NoAnswer}]
  /\ lease \in Actor \cup {NoHolder}
  /\ resolution \in Resolutions \cup {NoResolution}
  /\ actor \in [Actor -> Stances]
  /\ first \in [Member -> Answer \cup {NoAnswer}]
  /\ resolutions \in Seq(Resolutions) /\ replies \subseteq Resolutions
  /\ delivered \subseteq Member

(***************************************************************************)
(* A super-step is resolved once: by one kill or give-up, or by one drive  *)
(* with the first answer of every ask.  Every outcome a delivery returns   *)
(* is that resolution, and when a delivery of every ask has come back the  *)
(* step is resolved: no answer is the last one to be buffered and drives   *)
(* nothing.                                                                *)
(***************************************************************************)
SuperStepSettles ==
  /\ Len(resolutions) <= 1
  /\ \A i \in DOMAIN resolutions :
       resolutions[i].by \in Delivery =>
         \A m \in Member : first[m] # NoAnswer /\ resolutions[i].answers[m] = first[m]
  /\ \A r \in replies : \E i \in DOMAIN resolutions : resolutions[i] = r
  /\ delivered = Member => resolutions # <<>>
=============================================================================
