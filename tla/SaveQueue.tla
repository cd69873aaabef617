------------------------------ MODULE SaveQueue ------------------------------
(***************************************************************************)
(* What the outbox of saves promises, with no rows, tasks, claims or       *)
(* leases in it: a save is ordered behind what was committed when it took  *)
(* its number; its records are applied once and behind those of the saves  *)
(* before it; its calls are made one after the other, behind the saves of  *)
(* its subjects, and none twice that must not be; it goes only when all of *)
(* them are done, or an operator discards what failed; and a run comes in  *)
(* only when what it found of its subjects is gone.                        *)
(***************************************************************************)
EXTENDS Integers

CONSTANTS Saves, RecordKeys, SubjectKeys, Calls, Resumable, RootRun, RunSubject

VARIABLES
  stage,     \* where each save stands
  recorded,  \* saves whose records are applied
  progress,  \* how many calls of a save are done
  made,      \* how often each of its calls was started
  grace,     \* how often each may be started again, though it must not be twice
  after,     \* what each save is ordered behind
  entry,     \* where each run stands
  found      \* the saves each run waits for

queueVars == <<stage, recorded, progress, made, grace, after, entry, found>>

Outstanding == {"open", "failed"}
Gone == {"applied", "discarded", "refused"}
Committed == {s \in Saves : stage[s] \in Outstanding \cup {"applied", "discarded"}}
SameRecord(s, q) == RecordKeys[s] \cap RecordKeys[q] # {}
SameSubject(s, q) == SubjectKeys[s] \cap SubjectKeys[q] # {}

QueueInit ==
  /\ stage \in [Saves -> {"absent", "refused"}]
  /\ recorded = {}
  /\ progress = [s \in Saves |-> 0]
  /\ made = [s \in Saves |-> [c \in 1..Calls[s] |-> 0]]
  /\ grace = [s \in Saves |-> [c \in 1..Calls[s] |-> 0]]
  /\ after = [s \in Saves |-> {}]
  /\ entry \in [RootRun -> {"out", "away"}]
  /\ found = [r \in RootRun |-> {}]

Become(s, st) == stage' = [stage EXCEPT ![s] = st]
Excuse(s) == grace' = [grace EXCEPT ![s][progress[s] + 1] = @ + 1]

(***************************************************************************)
(* Numbers are taken in order, and commits come in any.                    *)
(***************************************************************************)
Number(s) ==
  /\ stage[s] = "absent"
  /\ \A q \in Saves : q < s => stage[q] # "absent"
  /\ Become(s, "inserting")
  /\ after' = [after EXCEPT ![s] = Committed]
  /\ UNCHANGED <<recorded, progress, made, grace, entry, found>>

Commit(s) ==
  /\ stage[s] = "inserting"
  /\ Become(s, "open")
  /\ recorded' = IF RecordKeys[s] = {} THEN recorded \cup {s} ELSE recorded
  /\ UNCHANGED <<progress, made, grace, after, entry, found>>

Refuse(s) ==
  /\ stage[s] = "inserting"
  /\ Become(s, "refused")
  /\ UNCHANGED <<recorded, progress, made, grace, after, entry, found>>

Apply(s) ==
  /\ stage[s] = "open" /\ s \notin recorded
  /\ \A q \in after[s] : SameRecord(q, s) => q \in recorded \/ stage[q] = "discarded"
  /\ recorded' = recorded \cup {s}
  /\ Become(s, IF Calls[s] = 0 THEN "applied" ELSE "open")
  /\ UNCHANGED <<progress, made, grace, after, entry, found>>

CallsDue(s) ==
  /\ s \in recorded
  /\ \A q \in after[s] : SameSubject(q, s) => stage[q] \in Gone

(***************************************************************************)
(* A call is due, or was and a runner that lost the save is still at it.   *)
(***************************************************************************)
Start(s, c) ==
  /\ CallsDue(s)
  /\ c <= progress[s] + 1
  /\ s \in Resumable \/ made[s][c] <= grace[s][c]
  /\ made' = [made EXCEPT ![s][c] = @ + 1]
  /\ UNCHANGED <<stage, recorded, progress, grace, after, entry, found>>

CallEnds(s) ==
  /\ stage[s] = "open"
  /\ progress[s] < Calls[s]
  /\ made[s][progress[s] + 1] > 0

Done(s) ==
  /\ CallEnds(s)
  /\ progress' = [progress EXCEPT ![s] = @ + 1]
  /\ UNCHANGED <<stage, recorded, made, grace, after, entry, found>>

(***************************************************************************)
(* The due call failed in passing, or nothing could be noted of its end:   *)
(* it may start once more, even when it had completed.                     *)
(***************************************************************************)
TryAgain(s) ==
  /\ CallEnds(s)
  /\ Excuse(s)
  /\ UNCHANGED <<stage, recorded, progress, made, after, entry, found>>

Finish(s) ==
  /\ stage[s] = "open"
  /\ CallsDue(s)
  /\ progress[s] = Calls[s]
  /\ Become(s, "applied")
  /\ UNCHANGED <<recorded, progress, made, grace, after, entry, found>>

Fail(s) ==
  /\ stage[s] = "open"
  /\ Become(s, "failed")
  /\ UNCHANGED <<recorded, progress, made, grace, after, entry, found>>

(***************************************************************************)
(* An operator puts a failed save back, or discards it.                    *)
(***************************************************************************)
Retry(s) ==
  /\ stage[s] = "failed"
  /\ Become(s, "open")
  /\ IF s \in recorded /\ progress[s] < Calls[s] THEN Excuse(s) ELSE UNCHANGED grace
  /\ UNCHANGED <<recorded, progress, made, after, entry, found>>

Discard(s) ==
  /\ stage[s] = "failed"
  /\ Become(s, "discarded")
  /\ UNCHANGED <<recorded, progress, made, grace, after, entry, found>>

(***************************************************************************)
(* A run waits for what is outstanding of its subjects, unless one failed. *)
(***************************************************************************)
Enter(r) ==
  LET listed == {s \in Saves : /\ SubjectKeys[s] \cap RunSubject[r] # {}
                               /\ stage[s] \in Outstanding}
  IN /\ entry[r] = "out"
     /\ IF \E s \in listed : stage[s] = "failed"
        THEN entry' = [entry EXCEPT ![r] = "refused"] /\ UNCHANGED found
        ELSE /\ entry' = [entry EXCEPT ![r] = "draining"]
             /\ found' = [found EXCEPT ![r] = listed]
     /\ UNCHANGED <<stage, recorded, progress, made, grace, after>>

Begin(r) ==
  /\ entry[r] = "draining"
  /\ \A s \in found[r] : stage[s] \in Gone
  /\ entry' = [entry EXCEPT ![r] = "in"]
  /\ UNCHANGED <<stage, recorded, progress, made, grace, after, found>>

TurnAway(r) ==
  /\ entry[r] = "draining"
  /\ entry' = [entry EXCEPT ![r] = "refused"]
  /\ UNCHANGED <<stage, recorded, progress, made, grace, after, found>>

-----------------------------------------------------------------------------
(* What a save may do where it stands.                                     *)

Entering(s) == stage[s] = "inserting" /\ (Commit(s) \/ Refuse(s))
Working(s) ==
  stage[s] = "open" /\ (Apply(s) \/ Done(s) \/ TryAgain(s) \/ Finish(s) \/ Fail(s))
Mending(s) == stage[s] = "failed" /\ (Retry(s) \/ Discard(s))
Calling(s) == \E c \in 1..Calls[s] : Start(s, c)

SaveMoves(s) == Number(s) \/ Entering(s) \/ Working(s) \/ Mending(s) \/ Calling(s)

QueueNext ==
  \/ \E s \in Saves : SaveMoves(s)
  \/ \E r \in RootRun : Enter(r) \/ Begin(r) \/ TurnAway(r)

QueueSpec == QueueInit /\ [][QueueNext]_queueVars
=============================================================================
