----------------------------- MODULE ThreadTurns -----------------------------
(***************************************************************************)
(* The turns of conversation threads (conversations/caps.py and the doors  *)
(* that schedule them, conversations/turn/): a place in the thread's queue *)
(* on this worker, the worker's lock of the thread, the thread's lease     *)
(* across workers, and a slot of the worker's ceiling, in that order.      *)
(***************************************************************************)
EXTENDS ThreadLease, FiniteSets

CONSTANTS
  SyncDoor,    \* turns of a live caller, whose acquisition is bounded
  QueueDepth,  \* thread_queue_depth
  GateLimit    \* max_concurrent_turns

ASSUME SyncDoorAssumption == SyncDoor \subseteq Turn
ASSUME LimitsAssumption == QueueDepth \in Nat \ {0} /\ GateLimit \in Nat \ {0}

VARIABLES
  reserved,  \* the reservations of each worker and thread
  crashed    \* workers that crashed

vars == <<leaseVars, turn, listenerVars, reserved, crashed>>

LockHeld == {"first", "gate", "body", "release"} \cup Waiting
Reserving == {"accepted", "lock"} \cup LockHeld

TypeOK ==
  /\ LeaseTypeOK
  /\ reserved \in [Worker -> [Thread -> 0..QueueDepth]]
  /\ crashed \subseteq Worker

Init ==
  /\ LeaseInit
  /\ reserved = [w \in Worker |-> [th \in Thread |-> 0]]
  /\ crashed = {}

TurnsOf(w, th) == {t \in Turn : WorkerOf[t] = w /\ ThreadOf[t] = th}

(***************************************************************************)
(* release_thread_slot.  At zero the counter goes, and the lock with it.   *)
(***************************************************************************)
GiveSlotBack(t) ==
  reserved' = [reserved EXCEPT ![WorkerOf[t]][ThreadOf[t]] = Less(@)]

-----------------------------------------------------------------------------
(* The doors.                                                              *)

\* Mutant of Accept: one place more than the depth.
AcceptOverDepth(t) ==
  /\ turn[t].pc = "idle"
  /\ WorkerOf[t] \notin crashed
  /\ IF reserved[WorkerOf[t]][ThreadOf[t]] <= QueueDepth
     THEN /\ reserved' = [reserved EXCEPT ![WorkerOf[t]][ThreadOf[t]] = @ + 1]
          /\ Become(t, At(IF t \in SyncDoor THEN "lock" ELSE "accepted"))
     ELSE Become(t, At("done")) /\ UNCHANGED reserved
  /\ UNCHANGED <<leaseVars, listenerVars, crashed>>

(***************************************************************************)
(* A door reserves a place, or refuses at the queue's depth.  A sync door  *)
(* goes on to run the turn, the others write its intake first.             *)
(***************************************************************************)
Accept(t) ==
  /\ turn[t].pc = "idle"
  /\ WorkerOf[t] \notin crashed
  /\ IF reserved[WorkerOf[t]][ThreadOf[t]] < QueueDepth
     THEN /\ reserved' = [reserved EXCEPT ![WorkerOf[t]][ThreadOf[t]] = @ + 1]
          /\ Become(t, At(IF t \in SyncDoor THEN "lock" ELSE "accepted"))
     ELSE Become(t, At("done")) /\ UNCHANGED reserved
  /\ UNCHANGED <<leaseVars, listenerVars, crashed>>

(***************************************************************************)
(* The intake is not written, or another attempt's claim won.              *)
(***************************************************************************)
AcceptFails(t) ==
  /\ turn[t].pc = "accepted"
  /\ Become(t, At("done"))
  /\ GiveSlotBack(t)
  /\ UNCHANGED <<leaseVars, listenerVars, crashed>>

ScheduleTurn(t) ==
  /\ turn[t].pc = "accepted"
  /\ Become(t, At("lock"))
  /\ UNCHANGED <<leaseVars, listenerVars, reserved, crashed>>

(***************************************************************************)
(* The intake is written and the cancel marker's write raises: no turn is  *)
(* spawned, and nobody gives the reservation back.                         *)
(***************************************************************************)
ScheduleRaises(t) ==
  /\ turn[t].pc = "accepted"
  /\ Become(t, At("done"))
  /\ UNCHANGED <<leaseVars, listenerVars, reserved, crashed>>

-----------------------------------------------------------------------------
(* _acquire_thread.                                                        *)

LockThread(t) ==
  /\ turn[t].pc = "lock"
  /\ \A u \in TurnsOf(WorkerOf[t], ThreadOf[t]) : turn[u].pc \notin LockHeld
  /\ Become(t, At("first"))
  /\ UNCHANGED <<leaseVars, listenerVars, reserved, crashed>>

EnterGate(t) ==
  /\ turn[t].pc = "gate"
  /\ Cardinality({u \in Turn : WorkerOf[u] = WorkerOf[t] /\ turn[u].pc = "body"})
       < GateLimit
  /\ turn' = [turn EXCEPT ![t].pc = "body"]
  /\ UNCHANGED <<leaseVars, listenerVars, reserved, crashed>>

(***************************************************************************)
(* The turn's body ends, one way or another.                               *)
(***************************************************************************)
FinishBody(t) ==
  /\ turn[t].pc = "body"
  /\ Become(t, At("release"))
  /\ UNCHANGED <<leaseVars, listenerVars, reserved, crashed>>

\* Mutant of AcquireTimesOut: the door gives the slot back as well.
AcquireTimesOutTwice(t) ==
  /\ t \in SyncDoor
  /\ \/ turn[t].pc = "lock" /\ Become(t, At("done")) /\ UNCHANGED <<leaseVars, listenerVars>>
     \/ /\ turn[t].pc \in Waiting \cup {"first", "gate"}
        /\ PerhapsTake(t)
        /\ Quit(t)
        /\ Become(t, At("release"))
  /\ GiveSlotBack(t)
  /\ UNCHANGED crashed

(***************************************************************************)
(* A sync door's bound on the whole acquisition passes: the turn unwinds   *)
(* what it entered.                                                        *)
(***************************************************************************)
AcquireTimesOut(t) ==
  /\ t \in SyncDoor
  /\ \/ /\ turn[t].pc = "lock"
        /\ Become(t, At("done"))
        /\ GiveSlotBack(t)
        /\ UNCHANGED <<leaseVars, listenerVars>>
     \/ /\ turn[t].pc \in Waiting \cup {"first", "gate"}
        /\ PerhapsTake(t)
        /\ Quit(t)
        /\ Become(t, At("release"))
        /\ UNCHANGED reserved
  /\ UNCHANGED crashed

(***************************************************************************)
(* The lease is released, or its release raises and the key is left to its *)
(* TTL; the lock and the reservation go either way.                        *)
(***************************************************************************)
LeaveThread(t) ==
  /\ turn[t].pc = "release"
  /\ Release(t) \/ UNCHANGED <<leaseVars, listenerVars>>
  /\ Become(t, At("done"))
  /\ GiveSlotBack(t)
  /\ UNCHANGED crashed

(***************************************************************************)
(* A worker crashes with its turns, its listener and its counters; the     *)
(* leases it held stay.                                                    *)
(***************************************************************************)
Crash(w) ==
  /\ w \notin crashed
  /\ crashed' = crashed \cup {w}
  /\ turn' = [t \in Turn |->
       IF WorkerOf[t] = w /\ turn[t].pc \in Reserving THEN At("dead") ELSE turn[t]]
  /\ listener' = [listener EXCEPT ![w] = "off"]
  /\ inbox' = [inbox EXCEPT ![w] = {}]
  /\ reserved' = [reserved EXCEPT ![w] = [th \in Thread |-> 0]]
  /\ UNCHANGED leaseVars

-----------------------------------------------------------------------------
(* The specification.                                                      *)

capsVars == <<reserved, crashed>>

Heartbeat(t) ==
  /\ Refresh(t) \/ RefreshFindsItLost(t) \/ RefreshRaises(t)
  /\ UNCHANGED capsVars

(***************************************************************************)
(* What the event loop runs of a turn that is ready to go on.              *)
(***************************************************************************)
Proceed(t) ==
  \/ ScheduleTurn(t)
  \/ LockThread(t)
  \/ TryFirst(t) /\ UNCHANGED capsVars
  \/ Retry(t) /\ UNCHANGED capsVars
  \/ WaitEnds(t) /\ UNCHANGED capsVars
  \/ EnterGate(t)
  \/ LeaveThread(t)

Listen(w) ==
  /\ \/ Subscribed(w)
     \/ SubscribeFails(w)
     \/ \E th \in Thread : Wake(w, th)
  /\ UNCHANGED capsVars

Outside ==
  \/ \E t \in Turn : \/ Accept(t)
                     \/ AcceptFails(t)
                     \/ ScheduleRaises(t)
                     \/ AcquireRaises(t) /\ UNCHANGED capsVars
                     \/ AcquireTimesOut(t)
  \/ \E w \in Worker : \/ Crash(w)
                       \/ ListenerLost(w) /\ UNCHANGED capsVars
                       \/ Resubscribed(w) /\ UNCHANGED capsVars

Clock == Tick /\ UNCHANGED capsVars

Next ==
  \/ \E t \in Turn : Heartbeat(t) \/ Proceed(t) \/ FinishBody(t)
  \/ \E w \in Worker : Listen(w)
  \/ Outside
  \/ Clock

Spec == Init /\ [][Next]_vars

(***************************************************************************)
(* Fairness.  The event loop runs what is ready, heartbeats are answered   *)
(* or raise, a first subscription is confirmed or fails (its read is       *)
(* bounded), bodies end, and time passes.  A lost subscription need not    *)
(* come back.                                                              *)
(***************************************************************************)
Fairness ==
  /\ \A t \in Turn : /\ WF_vars(Heartbeat(t))
                     /\ WF_vars(Proceed(t))
                     /\ WF_vars(FinishBody(t))
  /\ \A w \in Worker : WF_vars(Listen(w))
  /\ WF_vars(Clock)

FairSpec == Spec /\ Fairness

-----------------------------------------------------------------------------
(* Properties.                                                             *)

(***************************************************************************)
(* Two turns of one thread run their bodies at once only when one of them  *)
(* went a whole lease without a refresh that succeeded: nothing else, no   *)
(* release, retry, raise or lost reply, lets a second one in (held).       *)
(***************************************************************************)
OverlapOnlyWhenStale ==
  \A t, u \in Turn :
    /\ t # u /\ ThreadOf[t] = ThreadOf[u]
    /\ turn[t].pc = "body" /\ turn[u].pc = "body"
    => turn[t].since >= LeaseTicks \/ turn[u].since >= LeaseTicks

(***************************************************************************)
(* A turn that cannot prove its hold stops: it runs no longer than one     *)
(* refresh interval past the lease of its last refresh (_heartbeat).       *)
(***************************************************************************)
StaleTurnStops ==
  \A t \in Turn :
    turn[t].pc \in Held => turn[t].since < LeaseTicks + RefreshTicks

(***************************************************************************)
(* No turn sleeps on a free lease: a wake-up is on its way, its listener   *)
(* is about to wake it on its re-subscribe, or its wait has run out        *)
(* (_acquire, _run).                                                       *)
(***************************************************************************)
NoLostWakeup ==
  \A t \in Turn :
    turn[t].pc = "wait" /\ Free(ThreadOf[t]) =>
      \/ turn[t].woken
      \/ ThreadOf[t] \in inbox[WorkerOf[t]]
      \/ listener[WorkerOf[t]] = "down"
      \/ turn[t].bound = 0

InFlight(w, th) == {t \in TurnsOf(w, th) : turn[t].pc \in Reserving}

(***************************************************************************)
(* Every turn in flight has its reservation: the counter reaches zero, and *)
(* the thread's lock is dropped, only when nobody uses the lock            *)
(* (release_thread_slot).                                                  *)
(***************************************************************************)
ReservationsCover ==
  \A w \in Worker, th \in Thread :
    reserved[w][th] >= Cardinality(InFlight(w, th))

(***************************************************************************)
(* Every turn that was accepted ends, whatever holders crash, releases     *)
(* fail or subscriptions stay down (_wait_for_release).  A turn runs once, *)
(* so in the end none is in flight.                                        *)
(***************************************************************************)
EveryTurnEnds == <>[](\A t \in Turn : turn[t].pc \notin Reserving)

-----------------------------------------------------------------------------
(* What the code's own documentation says of it, and is not so.            *)

(***************************************************************************)
(* "Every reservation must be released" (reserve_thread_slot).             *)
(***************************************************************************)
ReservationsReturned ==
  \A w \in Worker, th \in Thread :
    reserved[w][th] = Cardinality(InFlight(w, th))
=============================================================================
