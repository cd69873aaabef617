----------------------------- MODULE ThreadLease -----------------------------
(***************************************************************************)
(* The per-thread lease that serialises a conversation's turns across      *)
(* workers (conversations/thread_lease.py): a Redis key with a token and a *)
(* TTL, the heartbeat that keeps it, and the release listener of each      *)
(* worker's event loop that wakes the turns waiting for it.                *)
(*                                                                         *)
(* Time passes in ticks.  A round trip takes none: one that is slower has  *)
(* failed.  A turn's token is the turn itself.                             *)
(***************************************************************************)
EXTENDS Naturals

CONSTANTS
  Turn,          \* turns, each run once
  Thread,        \* conversation threads
  Worker,        \* worker processes, an event loop each
  ThreadOf,      \* the thread a turn runs on
  WorkerOf,      \* the worker that accepts it
  NoTurn,
  LeaseTicks,    \* thread_lease_seconds
  RefreshTicks   \* thread_lease_refresh_seconds

ASSUME ThreadOfAssumption == ThreadOf \in [Turn -> Thread]
ASSUME WorkerOfAssumption == WorkerOf \in [Turn -> Worker]
ASSUME NoTurnAssumption == NoTurn \notin Turn

(***************************************************************************)
(* The settings refuse a refresh interval at or above the lease.           *)
(***************************************************************************)
ASSUME LeaseAssumption ==
  /\ LeaseTicks \in Nat
  /\ RefreshTicks \in Nat \ {0}
  /\ RefreshTicks < LeaseTicks

VARIABLES
  holder,    \* the token of each thread's lease key, or NoTurn
  ttl,       \* what is left of the key's expiry
  turn,      \* the turns
  listener,  \* each worker's subscription to the release channel
  inbox      \* releases published to a subscription and not handled yet

leaseVars == <<holder, ttl>>
listenerVars == <<listener, inbox>>

TurnPc == {"idle", "accepted", "lock", "first", "subscribing", "retry",
           "wait", "gate", "body", "release", "done", "dead"}
Waiting == {"subscribing", "retry", "wait"}  \* registered with the listener
Held == {"gate", "body"}                     \* inside held, heartbeat running
TurnRecord == [pc : TurnPc, beat : 0..RefreshTicks,
               since : 0..(LeaseTicks + RefreshTicks), bound : 0..LeaseTicks,
               woken : BOOLEAN]
NewTurn == [pc |-> "idle", beat |-> 0, since |-> 0, bound |-> 0, woken |-> FALSE]
At(pc) == [NewTurn EXCEPT !.pc = pc]

LeaseTypeOK ==
  /\ holder \in [Thread -> Turn \cup {NoTurn}]
  /\ ttl \in [Thread -> 0..LeaseTicks]
  /\ turn \in [Turn -> TurnRecord]
  /\ listener \in [Worker -> {"off", "starting", "on", "down"}]
  /\ inbox \in [Worker -> SUBSET Thread]

LeaseInit ==
  /\ holder = [th \in Thread |-> NoTurn]
  /\ ttl = [th \in Thread |-> 0]
  /\ turn = [t \in Turn |-> NewTurn]
  /\ listener = [w \in Worker |-> "off"]
  /\ inbox = [w \in Worker |-> {}]

Become(t, record) == turn' = [turn EXCEPT ![t] = record]
Free(th) == holder[th] = NoTurn

-----------------------------------------------------------------------------
(* The Redis key.                                                          *)

Take(t) ==
  /\ holder' = [holder EXCEPT ![ThreadOf[t]] = t]
  /\ ttl' = [ttl EXCEPT ![ThreadOf[t]] = LeaseTicks]

(***************************************************************************)
(* A set whose reply is lost may have taken a free lease.                  *)
(***************************************************************************)
PerhapsTake(t) ==
  \/ UNCHANGED leaseVars
  \/ turn[t].pc \in {"first", "retry"} /\ Free(ThreadOf[t]) /\ Take(t)

(***************************************************************************)
(* The heartbeat's first beat is a refresh interval after the acquisition. *)
(***************************************************************************)
Holding(pc) == [At(pc) EXCEPT !.beat = RefreshTicks]

-----------------------------------------------------------------------------
(* The release listener.                                                   *)

(***************************************************************************)
(* A waiter registers.  The first one starts the subscriber; one that      *)
(* finds it subscribed, or subscribed once and down, does not wait for it. *)
(***************************************************************************)
Join(t) ==
  LET w == WorkerOf[t] IN
  /\ listener' = [listener EXCEPT ![w] = IF @ = "off" THEN "starting" ELSE @]
  /\ Become(t, At(IF listener[w] \in {"on", "down"} THEN "retry"
                                                    ELSE "subscribing"))
  /\ UNCHANGED inbox

(***************************************************************************)
(* A waiter leaves; the last one stops the subscriber.                     *)
(***************************************************************************)
Quit(t) ==
  LET w == WorkerOf[t]
      others == {u \in Turn \ {t} : WorkerOf[u] = w /\ turn[u].pc \in Waiting}
  IN
  IF turn[t].pc \in Waiting /\ others = {}
  THEN /\ listener' = [listener EXCEPT ![w] = "off"]
       /\ inbox' = [inbox EXCEPT ![w] = {}]
  ELSE UNCHANGED listenerVars

WakeAll(w) ==
  turn' = [t \in Turn |-> IF WorkerOf[t] = w /\ turn[t].pc \in Waiting
                          THEN [turn[t] EXCEPT !.woken = TRUE] ELSE turn[t]]

Subscribed(w) ==
  /\ listener[w] = "starting"
  /\ listener' = [listener EXCEPT ![w] = "on"]
  /\ turn' = [t \in Turn |->
       IF WorkerOf[t] = w /\ turn[t].pc = "subscribing" THEN At("retry")
                                                        ELSE turn[t]]
  /\ UNCHANGED <<leaseVars, inbox>>

(***************************************************************************)
(* A first subscription that fails raises to every waiter entering on it.  *)
(***************************************************************************)
SubscribeFails(w) ==
  /\ listener[w] = "starting"
  /\ listener' = [listener EXCEPT ![w] = "off"]
  /\ turn' = [t \in Turn |->
       IF WorkerOf[t] = w /\ turn[t].pc = "subscribing" THEN At("release")
                                                        ELSE turn[t]]
  /\ UNCHANGED <<leaseVars, inbox>>

(***************************************************************************)
(* A release reaches the loop: the waiters of its thread are woken.        *)
(***************************************************************************)
Wake(w, th) ==
  /\ th \in inbox[w]
  /\ inbox' = [inbox EXCEPT ![w] = @ \ {th}]
  /\ turn' = [t \in Turn |->
       IF WorkerOf[t] = w /\ ThreadOf[t] = th /\ turn[t].pc \in Waiting
       THEN [turn[t] EXCEPT !.woken = TRUE] ELSE turn[t]]
  /\ UNCHANGED <<leaseVars, listener>>

(***************************************************************************)
(* The subscription is lost with what it had not handled.  A loss the      *)
(* listener sees wakes every waiter; one its connection hides does not.    *)
(***************************************************************************)
ListenerLost(w) ==
  /\ listener[w] = "on"
  /\ listener' = [listener EXCEPT ![w] = "down"]
  /\ inbox' = [inbox EXCEPT ![w] = {}]
  /\ WakeAll(w) \/ UNCHANGED turn
  /\ UNCHANGED leaseVars

\* Mutant of Resubscribed: the waiters sleep on.
ResubscribedQuietly(w) ==
  /\ listener[w] = "down"
  /\ listener' = [listener EXCEPT ![w] = "on"]
  /\ UNCHANGED <<leaseVars, turn, inbox>>

(***************************************************************************)
(* A re-subscribe: what was published meanwhile was not heard, so every    *)
(* waiter retries.                                                         *)
(***************************************************************************)
Resubscribed(w) ==
  /\ listener[w] = "down"
  /\ listener' = [listener EXCEPT ![w] = "on"]
  /\ WakeAll(w)
  /\ UNCHANGED <<leaseVars, inbox>>

-----------------------------------------------------------------------------
(* held: the acquisition, the heartbeat, the release.                      *)

(***************************************************************************)
(* A free lease is taken in one round trip; a busy one is waited for.      *)
(***************************************************************************)
TryFirst(t) ==
  /\ turn[t].pc = "first"
  /\ \/ /\ Free(ThreadOf[t])
        /\ Take(t)
        /\ Become(t, Holding("gate"))
        /\ UNCHANGED listenerVars
     \/ /\ ~Free(ThreadOf[t])
        /\ Join(t)
        /\ UNCHANGED leaseVars

(***************************************************************************)
(* A waiter's retry: it takes the lease, or waits as long as the holder's  *)
(* lease has left.                                                         *)
(***************************************************************************)
Retry(t) ==
  /\ turn[t].pc = "retry"
  /\ \/ /\ Free(ThreadOf[t])
        /\ Take(t)
        /\ Become(t, Holding("gate"))
        /\ Quit(t)
     \/ /\ ~Free(ThreadOf[t])
        /\ turn' = [turn EXCEPT ![t].pc = "wait",
                                ![t].bound = ttl[ThreadOf[t]]]
        /\ UNCHANGED <<leaseVars, listenerVars>>

\* Mutant of WaitEnds: the wait has no bound.
WaitForRelease(t) ==
  /\ turn[t].pc = "wait"
  /\ turn[t].woken
  /\ Become(t, At("retry"))
  /\ UNCHANGED <<leaseVars, listenerVars>>

(***************************************************************************)
(* The wait ends on a wake-up or on its bound.  The next retry clears the  *)
(* wake-up first, so a release after it counts again.                      *)
(***************************************************************************)
WaitEnds(t) ==
  /\ turn[t].pc = "wait"
  /\ turn[t].woken \/ turn[t].bound = 0
  /\ Become(t, At("retry"))
  /\ UNCHANGED <<leaseVars, listenerVars>>

(***************************************************************************)
(* A retry, or the first try, raises: whatever it took is released.        *)
(***************************************************************************)
AcquireRaises(t) ==
  /\ turn[t].pc \in {"first", "retry"}
  /\ PerhapsTake(t)
  /\ Quit(t)
  /\ Become(t, At("release"))

(***************************************************************************)
(* The heartbeat is due: the lease is refreshed.                           *)
(***************************************************************************)
Due(t) == turn[t].pc \in Held /\ turn[t].beat = 0

Refresh(t) ==
  /\ Due(t)
  /\ holder[ThreadOf[t]] = t
  /\ Take(t)
  /\ turn' = [turn EXCEPT ![t].beat = RefreshTicks, ![t].since = 0]
  /\ UNCHANGED listenerVars

(***************************************************************************)
(* The key is gone or another's: the turn is cancelled.                    *)
(***************************************************************************)
RefreshFindsItLost(t) ==
  /\ Due(t)
  /\ holder[ThreadOf[t]] # t
  /\ Become(t, At("release"))
  /\ UNCHANGED <<leaseVars, listenerVars>>

\* Mutant of RefreshRaises: it never gives up.
RefreshRaisesAgain(t) ==
  /\ Due(t)
  /\ turn' = [turn EXCEPT ![t].beat = RefreshTicks]
  /\ UNCHANGED <<leaseVars, listenerVars>>

(***************************************************************************)
(* The refresh raises, perhaps with only its reply lost.  Up to a lease    *)
(* after the last one that succeeded it is tried again; from then on the   *)
(* hold cannot be proven and the turn is cancelled.                        *)
(***************************************************************************)
RefreshRaises(t) ==
  /\ Due(t)
  /\ \/ UNCHANGED leaseVars
     \/ holder[ThreadOf[t]] = t /\ Take(t)
  /\ turn' = [turn EXCEPT ![t] =
       IF @.since >= LeaseTicks THEN At("release")
                                ELSE [@ EXCEPT !.beat = RefreshTicks]]
  /\ UNCHANGED listenerVars

\* Mutant of Release: the token is not compared.
ReleaseWhoever(t) ==
  LET th == ThreadOf[t] IN
  /\ holder' = [holder EXCEPT ![th] = NoTurn]
  /\ ttl' = [ttl EXCEPT ![th] = 0]
  /\ inbox' = [w \in Worker |-> IF listener[w] = "on"
                                 THEN inbox[w] \cup {th} ELSE inbox[w]]
  /\ UNCHANGED listener

(***************************************************************************)
(* The release: a lease another turn adopted is left alone, one that was   *)
(* ours goes and is announced to the loops subscribed at that moment.      *)
(***************************************************************************)
Release(t) ==
  LET th == ThreadOf[t] IN
  IF holder[th] = t
  THEN /\ holder' = [holder EXCEPT ![th] = NoTurn]
       /\ ttl' = [ttl EXCEPT ![th] = 0]
       /\ inbox' = [w \in Worker |-> IF listener[w] = "on"
                                     THEN inbox[w] \cup {th} ELSE inbox[w]]
       /\ UNCHANGED listener
  ELSE UNCHANGED <<leaseVars, listenerVars>>

-----------------------------------------------------------------------------
(***************************************************************************)
(* A tick.  Heartbeats are on time; a lease that runs out is gone.         *)
(***************************************************************************)
Less(n) == IF n = 0 THEN 0 ELSE n - 1
More(n) == IF n = LeaseTicks + RefreshTicks THEN n ELSE n + 1
Aged(r) ==
  CASE r.pc \in Held -> [r EXCEPT !.beat = Less(@), !.since = More(@)]
    [] r.pc = "wait" -> [r EXCEPT !.bound = Less(@)]
    [] OTHER -> r

Tick ==
  /\ \A t \in Turn : ~Due(t)
  /\ holder' = [th \in Thread |-> IF ttl[th] <= 1 THEN NoTurn ELSE holder[th]]
  /\ ttl' = [th \in Thread |-> Less(ttl[th])]
  /\ turn' = [t \in Turn |-> Aged(turn[t])]
  /\ UNCHANGED listenerVars
=============================================================================
