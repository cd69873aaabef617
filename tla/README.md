# tai42 in TLA+: parks, turns and the durable services beside them

tai42 runs tools and agents for people who are not always there to answer. A
run that needs an answer *parks*: it writes its question to a durable store,
unwinds, and is resumed later, by whichever worker is at hand, when somebody
answers, when the question's deadline passes, or when an operator takes the run
down. The workers share nothing but Redis (and a SQL database), every worker
serves every door, and every worker runs the same reaper. What makes the system
hard is that one park is resolved by at most one of many racing doors, that a
resolved park leads to exactly what its run is owed although any worker may die
between any two round trips, and that a kill of a run reaches all of it.

The conversations of these people run in *turns*, and the turns of one thread must
not overlap, on one worker or across workers: each reads the agent's memory and
writes it back. A Redis lease with a heartbeat keeps them apart, and what makes it
hard is that leases lapse, replies get lost and subscriptions go down.

Beside these two stand services that each keep one durable thing right while
workers race and die: saves of a person's states, runs of event hooks, background
runs of tools, the caps and groups of blocking asks, the rotating tokens of a
connection, outcomes that wait for their owner, and the barrier in which an
agent's run collects the answers it waits for.

This directory models these parts of the program as TLA+ modules, checks them with
TLC on small instances, and proves the safety properties with TLAPS for
instances of every size. Paths below are under `src/core/skeleton/src/tai42_skeleton/`
unless they start with `src/`.

## 1. Inventory

### 1.1 The system's components

| component | source | state it keeps | operations | modelled |
|---|---|---|---|---|
| interactions store: parks | `interactions/store/` | per park a state hash, an expiry member, a run-index member, a continuation-due and a kill-due record with their index members; per run a taken-down mark | `add`, `record_answer`, `prune_pending`, `enqueue_kill`, `clear_*_due`, `claim_*_retry`, `drop_expiry_member` | `InteractionStore` |
| waiting outcomes | `interactions/store/writes_outcomes.py` | one record per run completion id | `add_outcome`, `claim_outcome` (take), removal by a kill, retention sweep | `Continuation`, `WaitingOutcomes` |
| asynchronous ask | `interactions/helper.py`, `ask/` | none of its own between round trips | check, write, deliver to the channel, undo on a failed delivery | `Continuation` |
| continuation dispatch and resume drive | `interactions/continuation.py`, `continuation_dispatch.py` | tasks of a worker | dispatch, redelivery, authorisation, drive, ticket check, delivery, clear | `Continuation`, `Parks` |
| answer doors | `operations/interactions.py`, `interactions/answer_check.py` | none | answer, cancel | `Continuation`, `KillSeam` |
| kill seam | `interactions/kill.py`, `store/writes_kills.py` | kill-due records | revoke, walk the run, tell the drivers, deliver, clear, redeliver, abandon | `KillSeam` |
| reaper | `interactions/reaper.py`, `giveup_delivery.py` | none: it reads the indexes | expiry leg, continuation-due leg, kill-due leg, give-up | `Parks` |
| subject visit | `interactions/visit.py` | waiting outcomes of a subject | list, cancel, resume, take | as a hook's attempt makes it: `HookRuns` |
| blocking asks, ask groups, open-question caps | `interactions/ask/`, `interactions/store/writes.py`, `writes_answers.py`, `reads.py` | the open index, per group a count, a stream, a place on the pending list | reserve, purge, add, answer, give up, prune, list | `AskGroups` |
| agent park persistence | `src/core/kit/src/tai42_kit/interactions/park_index.py`, `src/plugins/agents/src/tai42_agents/_internal/park/` | per super-step entries, a barrier, a drive lease, a resolution record | persist, buffer, claim, drive, finalize, replay, kill, give up | `AgentPark` |
| conversation thread lease and turn caps | `conversations/thread_lease.py`, `caps.py`, `turn/schedule.py`, `turn/intake.py` | per thread a lease key (token, TTL); per event loop a release subscription and its waiters; per worker the reservations, locks and ceiling | reserve, schedule, lock, acquire, wait, heartbeat, release, wake, give back | `ThreadLease`, `ThreadTurns` |
| conversation turns and delivery | `conversations/turn/` | turn records | turn, completion delivery | the delivery's dedupe only |
| states and the write outbox | `states/outbox/`, `states/` | SQL rows `pending → calls → running` | enqueue, apply, claim, call, lapse, drain, retry, discard | `StateOutbox` (not the state service itself) |
| hook runs | `hooks/runs/`, `hooks/managers/redis_hook_runs.py` | a durable job: status, lease, notices of what an attempt does | claim, note, act, finish, sweep, retry, discard | `HookRuns` |
| tool runs | `operations/tool_runs/` | a record and a liveness key per run; slots and an epoch per worker | submit, drive, end, drain, mark lost, replay | `ToolRuns` |
| connectors: token refresh | `connectors/runtime/` | the connection's encrypted record, a lock, an owner task per replica | serve, refresh, write back, edit, reconnect, close | `TokenRefresh` |
| presets, tools, access control, configuration, epochs, bus | `presets/`, ... | registries, in-process locks | | no (section 7) |

`PROJECT.json` lists every component with the reason for its status.

### 1.2 How they interact

```
   a person / a channel            an operator              every worker's reaper
        | answer                     | cancel, delete            | scans the indexes
        v                            v                           v
   record_answer  <--- race --->  enqueue_kill   <--- race --->  expiry / redelivery
        \                            |                           /
         \____________ InteractionStore (one Redis transaction each) ______/
                                     ^
      ask: check, write, deliver     |   ticket check, clear
                                     |
              drive (first segment, or a resume) --> completion delivery
                                                     (read, then write)
```

* A **drive** is a task: the first segment of a run, or the resume of an
  answered park. It may ask again, and then parks again, or end with a terminal.
  A resume has no caller waiting for it, so the platform delivers its terminal to
  the run's address, or keeps it as a waiting outcome.
* A **door** claims an answer and spawns a drive, or starts a **kill**. A kill
  revokes the park it was called on, walks the run's index and revokes every
  other park of the run, and only then tells the drivers, delivers the run's
  terminal, and clears its records.
* The **reaper** comes back to every member of the three TTL-less indexes: parks
  past their deadline, claimed answers whose *continuation-due* record (the
  *ticket*) still stands, and *kill-due* records.

A **turn** of a conversation thread reserves a place in the thread's queue on its
worker, takes the worker's lock of the thread, the thread's lease, and a slot of
the worker's ceiling, in this order; then its body runs (a run that
parks in it ends the body without an answer).

The other services share no state with these or with one another: each has its
own keys or rows, and where one calls another (a hook's attempt cancels, takes or
resumes; a deferred call enters a run; an agent is driven by a continuation) the
module models the callee by what it may return.

Each of these goes through many round trips. A round trip is atomic (a Lua
script, or `MULTI` under `WATCH`); nothing makes two of them atomic.

### 1.3 What is hard, and what makes it correct

The 40 hazards, each at its line, are in `PROJECT.json`. Those of the parks fall into:

* **races of the doors**: an answer, a cancel, an expiry, a failed delivery's
  undo, and a kill walk resolve one park: exactly one may win
  (`OneDoorResolves`), and only the witness of an unresolved lapse may report it
  (`AbandonedLapsedUnresolved`);
* **crashes between round trips**: a claimed answer is never lost
  (`ClaimedResumeNotLost`, `EveryClaimDischarged`) and a kill cut short is still
  owed (`KilledRunStillOwed`, `EveryKillTold`);
* **order**: the ticket is cleared last, drivers are told of a kill last
  (`DriversToldLast`), the withdrawal of what a channel holds comes before the
  clear (`CompletedKillWithdrew`);
* **stale reads**: what is decided on a read is written a round trip later (the
  taken-down check of an ask, the ticket check of a delivery, the reaper's read,
  the dedupe of an outcome). Four of these windows contradict what the code's own
  documentation promises (section 5);
* **retention**: a hash ages out, its index member does not.

Those of the turns:

* **leases that lapse**: a heartbeat that raises keeps the turn until its hold
  cannot be proven, while another worker may adopt the thread
  (`OverlapOnlyWhenStale`, `StaleTurnStops`); a lapsed holder must not release the
  adopter's lease; a set whose reply was lost must be released;
* **lost wake-ups**: a release between a waiter's retry and its wait, or while its
  subscription is down (`NoLostWakeup`);
* **holders that never release** (`EveryTurnEnds`);
* **the queue's counter**, which decides when the thread's lock is dropped
  (`ReservationsCover`), and which one door leaves behind (section 5).

Those of the services:

* **order through an outbox**: rows commit out of the order of their numbers, a
  claim lapses under a live call, a call waits for saves that wait for it
  (`RecordsInOrder`, `CallsInOrder`, `InterruptedCallsStay`, `RunsWaitForSaves`,
  `NoCallWaitsForItself`);
* **at most once across crashes**: a hook's attempt dies between its notice and
  its act (`StartsOnce`, `OneAttemptActs`, `HeldJobsTellTheTruth`); a run found
  dead is replayed by one of many readers (`ReplayedOnce`,
  `NoRunBesideItsReplay`, `TerminalStays`); an outcome is taken, killed, or
  reported as dropped (`OutcomeLeavesOnce`);
* **counters and caps**, kept by whoever ends a thing, in whatever order
  (`SlotsFollowRuns`, `OpenWithinCap`, `PlacesComeBack`, `CountCoversOpen`,
  `OpenQuestionsListed`), and a slot that one cancelled submit leaves behind
  (section 5);
* **a credential that rotates** under a lock that is only best effort
  (`GrantKept`, `TokensNeverGoBack`, `RevivedByReconnect`, `ForcedServesNewer`);
* **answers that arrive together**: the last one drives the agent's run, a late one
  must not bring its barrier back, and of several drives one resolves the step
  (`SuperStepSettles`).

## 2. The modules

| module | models | extends |
|---|---|---|
| `InteractionStore` | the keyspace; one action per transaction | |
| `Continuation` | asks, drives, completion delivery | `InteractionStore` |
| `KillSeam` | kill doors, kill walk, kill-due redelivery | `Continuation` |
| `Parks` | the reaper, faults, lapses, the specification, the properties | `KillSeam` |
| `ResumeLedger` | the abstract promise: a question is asked, claimed once, owed, discharged | |
| `MCParks` | constants and symmetry for TLC | `Parks` |
| `MCParksRecovery` | the instance of the liveness run: two runs, one of which never comes | `Parks` |
| `ParksProofs` | theorems and proofs | `Parks` |
| `ThreadLease` | the lease key, the heartbeat, the release listener of each worker, the clock | |
| `ThreadTurns` | queue, lock and ceiling of each worker, the doors, crashes, the specification, the properties | `ThreadLease` |
| `MCThreadTurns` | constants for TLC | `ThreadTurns` |
| `ThreadTurnsProofs` | theorems and proofs | `ThreadTurns` |
| `SaveQueue` | the abstract promise of the outbox: saves in order, calls in order and not twice, runs behind them | |
| `StateOutbox` | rows of saves, appliers, runs that wait for them; implements `SaveQueue` | |
| `HookRuns` | jobs of event hooks and their attempts | |
| `ToolRuns` | background runs, supervisors, readers, drains | |
| `AskGroups` | blocking asks, their groups and their cap | |
| `TokenRefresh` | one connection, its callers, owner tasks and editors | |
| `WaitingOutcomes` | one waiting outcome from its write to its exit | |
| `AgentPark` | one parked super-step of an agent's run | |
| `MCServices` | constants and starts for TLC of the seven modules above, side by side | all seven |
| `StateOutboxProofs`, `ToolRunsProofs`, `TokenRefreshProofs`, `AgentParkProofs`, `HookRunsProofs` | theorems and proofs | the module each is named after |
| `InteractionsProofs` | theorems and proofs | `AskGroups`, `WaitingOutcomes` |

### State of the parks

| variable | code |
|---|---|
| `state[p]` | the `status` field of the park's state hash, or its absence |
| `pending_expiry`, `run_parks`, `continuation_due_index`, `kill_due_index` | the index sets of `interactions/store/keys.py`, which have no TTL |
| `continuation_due`, `kill_due[p]` | the records behind them, which have one |
| `run_killed` | the `run_killed_key` marks |
| `drive[d]` | a task running a first segment (`park = NoPark`) or `drive_and_deliver`; `pc` is the await it stands at, `ask` the question it is asking |
| `door[k]` | a task in `kill_park`, `redeliver_kill`, or one reaper step; `todo` the members still to revoke, `dues` the records still to complete |
| `dispatching` | answers claimed by a door that has yet to spawn the continuation |
| `channel[p]` | what the channel holds for the park: nothing, its delivery, a delivery that came after the withdrawal (`stray`), or released |
| `recorded` | runs with a record under their completion id (the waiting outcome, or the address rung's delivery record), which a take or a sweep removes |
| `started`, `minted` | runs that were started and interaction ids in use: neither is ever used twice |
| `delivered[r]`, `claimed`, `pruned`, `late`, `moved`, `told`, `abandoned`, `dropped`, `kill_abandoned` | history, read by properties and by no guard |
| `revoked` | history too, and what tells a delivery that arrives after a withdrawal (`stray`) from one that does not |

### Actions of the parks

An action is what a task does between two awaits, so every place where the code
can be interrupted is a state of the model. The guards are the code's conditions
and early returns. `Demand` (start a run, answer, cancel, erase, take an outcome)
is what the environment may ask for. `Resume` is a drive's step, `KillStep` a
kill's, `ReaperStep`/`ReaperStart` the reaper's. `Fault` ends a task at any point
or makes a call raise, `Lapse` is a TTL or a give-up deadline that passes; both
count against `Faults`.

A read and the transaction that follows it are one action only where the
transaction decides again under `WATCH` (`kill_park`'s read of its target before
`enqueue_kill`).

### State of the turns

| variable | code |
|---|---|
| `holder[th]`, `ttl[th]` | the thread's lease key: the token in it (the turn itself, a turn runs once) and its remaining expiry |
| `turn[t]` | a turn's task: `pc`, the await it stands at; `beat`, ticks to its next heartbeat; `since`, ticks since its last refresh that succeeded (`last_success`); `bound`, what is left of its wait; `woken`, its event |
| `listener[w]` | the subscription of the worker's event loop: none, being made, up, or down after it was up |
| `inbox[w]` | threads whose release was published to that subscription and is not handled yet |
| `reserved[w][th]` | `_thread_waiters` |
| `crashed` | workers that crashed |

The worker's lock of a thread is held by the turn whose `pc` is in `LockHeld`, and
the ceiling counts the turns in their bodies; neither has a variable.

### Actions of the turns

`idle -> accepted -> lock -> first -> (subscribing -> retry <-> wait ->) gate ->
body -> release -> done`. `Accept` reserves or refuses. `TryFirst` is the round
trip of a free lease; a busy one is waited for through `Join` (the listener's
`waiting`), `Retry` (clear the event, try again) and `WaitEnds`. `Refresh`,
`RefreshFindsItLost` and `RefreshRaises` are the three outcomes of a heartbeat.
`LeaveThread` releases the lease, or fails to, and gives the reservation back in
any case. `PerhapsTake` is a set whose reply was lost. The lease is compared by
token in one Lua script, so each of these is one action.

Time passes in ticks (`Tick`): it ages every key, heartbeat and wait together. A
heartbeat that is due comes before the next tick, and a round trip takes none: one
that is slower has raised. So the model's `since` starts when the server set the
key, where the code's starts when the reply arrives.

### The services

Each module is complete in itself: variables, initial states, one action per
round trip, next-state relation, specification, properties. History variables are
marked in the declarations and read by properties, and by guards only where they
bound a behaviour.

* **`StateOutbox`.** `row` is the SQL row of a save (`pending`, `calls`,
  `running`, `failed`, or gone), with its claim and whether that has lapsed; `task`
  is a fast path, a sweep, a drain or a reader that helps along, with the stack of
  saves its deferred calls entered; `run` is a run that waits. A save takes its
  number before it commits, so `before` remembers what it could know of. The
  selects decide again under the row's lock, so a select with its update is one
  action; a call and what is noted of it are two. The note that a call is done and
  the delete of the row may raise, landed or not, and their runner then records a
  failure of its row: `CallRaises` where the note did not land, as after a call that
  raised, and `unheard` otherwise. **`SaveQueue`** has none of this:
  a save is `absent`, `inserting`, `open`, `failed` or gone, its records are written
  or not, and so many of its calls are done. `Queue` maps `pending`, `calls` and
  `running` to `open`, keeps what is written, done and started as it is, and a run's
  drain becomes the set of saves it waits for; locks, claims, lapses, heartbeats,
  attempts and the order in which a drain helps along are stutters.
* **`HookRuns`.** `job` is the job hash (status, attempts, claiming process,
  `acted` and `intent` notices); `attempt` is the live attempt of a process, which
  goes on after its lease lapsed; `open` holds the entries the store still has. A
  notice is written before an act and after it; the act itself is a step of
  the interactions store, which this module has as a set.
* **`ToolRuns`.** `record` is the record hash with its liveness key, `driver` the
  task of a run and the worker and epoch it belongs to, `active` the counter of
  slots, `reader` a reader at one of its round trips (record, liveness, mark,
  replay). A drain ends the supervisors of an epoch that is replaced. A submit that
  is cut between the reserve of its slot and the spawn (`cut`) is over for everyone
  and still counted in `active`.
* **`AskGroups`.** `ask` is the asker, `question` the state hash, `txn` the count
  a door (answer, asker, reader) has read under `WATCH`, forgotten when anyone
  writes the group (`Dirtied`); `openIndex` the places under the cap; `listed`,
  `dated` and `stream` what a reader of the pending list looks at. The reader
  drops a phantom in separate round trips, and `swept` remembers whom that met.
* **`TokenRefresh`.** A token pair is the number of its issue; the provider
  accepts only the last. `stored` is the connection's record with a number for
  its ciphertext, `slow` the slow path of an owner task, an inline caller or an
  editor; the lock may fail to be acquired or lapse, and the section then runs
  without it, so what protects the record is the compare-and-set of `Persist`.
  `WriteBackRaises` and `EditRaises` are a write that raises, landed or not, and ends
  its section.
* **`WaitingOutcomes`.** One row and its index member. A write looks first and
  writes later, whenever that is: a redelivery, a give-up (`reaper.py:277`, after
  its due record lapsed) and a kill's terminal all come through `add_outcome`. A sweep
  lists, claims and reports in three steps. `revived` remembers a write that landed
  where the TTL had taken the row before and the sweep had not repaired that yet.
* **`AgentPark`.** `entry`, `expected`/`output` (the barrier), `lease` and
  `resolution` are the keys of `park_index.py`. A delivery is the six round trips
  of `agent_resume` and `buffer`: entry, expected map, `HSETNX`, `HEXISTS`
  (and the delete of a key it brought back), `HMGET`; then the drive: claim,
  barrier, the resumed run, the look at the lease, the chain fire, the finalize
  script, the release. A kill and a give-up walk the same keys. The lease's token
  is its holder: an actor has one attempt at a time.

## 3. The runs

| run | instance | shows |
|---|---|---|
| `parks_faults` | 2 parks, 1 drive, 1 door, 1 fault (about 1.2 million states) | `TypeOK`; `ClaimedResumeNotLost`; `KilledRunStillOwed`; `AbandonedLapsedUnresolved`; `ImplementsLedger`: every step is a step of `ResumeLedger` or a stutter |
| `parks_races` | 2 parks, 2 drives, 1 door (2.3 million) | `OneDoorResolves`, with drives resuming the same run side by side |
| `parks_kills` | 2 parks, 1 drive, 2 doors (2.2 million) | `CompletedKillWithdrew`, `DriversToldLast`, with two kills or reaper passes side by side |
| `parks_recovery` | 1 park that comes, of two: p1's expiry kills its run, p2's resumes it; 1 drive, 1 door, 3 faults, fair (120 thousand) | `EveryParkResolves`, `EveryClaimDischarged`, `EveryKillTold` |
| `thread_turns` | 4 turns of one thread, or 2 of one and 1 of another, on 2 workers, a lease of 3 ticks refreshed every 2, a queue of 2, a ceiling of 1, one live caller with a bounded wait, fair (140 thousand) | `TypeOK`; `OverlapOnlyWhenStale`; `StaleTurnStops`; `NoLostWakeup`; `ReservationsCover`; `EveryTurnEnds` |
| `services` | the seven services, one of them per behaviour (1.2 million) | `ImplementsQueue`: every step of the outbox is a step of `SaveQueue` or a stutter; and the 22 properties of section 1.3's services |
| `kill_late_park`, `kill_late_delivery`, `kill_stray_delivery`, `deliver_twice`, `thread_slots`, `tool_slots` | the smallest instance of each | a documented promise the code does not keep (section 5) |

Each property of a passing run has a *mutant* in `PROJECT.json`: a plausible bug
in a definition of the model that the same run reports.

**Bounds.** `Park`, `Drive` and `Door` bound what exists and what is in flight;
`Faults` bounds crashes, raises and lapses of one behaviour. One run with two
parks is enough for what a kill does to a sibling (the named park and another
one) and for a drive that parks again; runs do not share state except through a
park's `RunOf`, so a second run adds no interaction. `MCOnExpiry` gives the two
parks the two expiry actions. Two drives make a redelivery race a drive in
flight, two doors make two kills, or a kill and the reaper, race. A fault at one
step leaves the rest of the instance to recover from it; the liveness run allows
three, so that a recovery can fail too. Its behaviours are those of a single park,
one of each kind of expiry (`away` is the run that never comes): three faults over
two parks at once are out of TLC's reach for liveness, so what two parks of a run
owe each other through a kill is left to the safety runs. A lapse is a fault too,
so a park that ages out, and its abandonment, occur in `parks_faults` and
`parks_recovery`, and not in the runs without faults. Symmetry is used over drives and doors,
which no definition tells apart, and only in runs without liveness.

Three turns on one worker are one in the body, one behind its lock and one refused
by the queue; the fourth, on another worker, is the one that adopts, waits and is
woken. With the second thread there is one turn of each thread on one worker, and
the adopter on the other (`away` are those that never come), so that the ceiling of
one is contended by turns that hold different leases. A lease of three ticks and an
interval of two let a heartbeat fail once and leave a tick in which the lease has
lapsed and the turn does not know.
A turn runs once, and that is what bounds the behaviours: crashes, raises, lost
replies and lost subscriptions need no bound of their own.

The services share no state, so `MCServices` lets a behaviour step one of them
(`service`) and keeps the others where they rest; TLC explores the sum of their
state spaces, not the product. Where one instance with everything in it would be
too large, the module starts in one of several smaller ones:

| service | starts |
|---|---|
| outbox | saves 2 and 3 under two appliers with a fault, saves 1 and 2 under one with a fault and a run that waits, or all three under one and no fault; save 3 has calls only, save 2 shares a subject with each of the others, and the call of save 1 drains the subject of save 3 |
| hooks | one job, two processes, two entries, two attempts, two faults |
| tools | three runs that may be replayed, or one and one that may not; a cap of one slot, one worker with two epochs, two readers, one fault |
| asks | a cap of two and a reader of the list: two questions in one group or two, with a fault; or two beside an ask that is lost and holds a place |
| tokens | two callers of one replica, or of two, and an editor; three pairs, a retry budget of two, one fault |
| outcomes | two writers, two sweepers, two takes, one fault |
| agent parks | two asks and two deliveries with different answers, alone with a fault or with a kill; or one delivery with a kill or a give-up, and a fault |

Each has what its hazards need: two who race, one more thing than a cap
allows, a fault (a crash, a lapse, or a write that raises, landed or not) and
somebody left to recover from it. A bound on faults or
repetitions is a guard of the action it bounds and named in the module's CONSTANTS
(`MaxFaults`, `MaxHookFaults`, `MaxRunFaults`, `MaxEpoch`, `MaxAskFaults`,
`MaxTokens`, `MaxTokenFaults`, `MaxTakes`, `MaxOutcomeFaults`, `MaxParkFaults`).

**Deadlock** is not checked: a park system, or one whose turns are all done, may come to rest with nothing asked
and nothing owed. That it does not rest too early is what the liveness run says.
In `services` every component may come to rest too: all saves gone, all runs ended,
or a bound used up. No fairness is assumed there, and nothing is claimed to
happen eventually.

**Fairness** (`FairSpec`). A task in flight takes its next step: the event loop
runs every ready task, and a task that raises or dies is a `Fault`. The reaper's
loop comes back to every member of its indexes (`reaper.py`, a fixed interval in
every worker), hence weak fairness of each reaper step per park. A redelivery is
strongly fair: other drives may take the model's few slots again and again, a
real worker has no such limit. Nothing is assumed of people, operators, a door's
dispatch, or lapses.

For the turns (`ThreadTurns!FairSpec`): the event loop runs what is ready, a
heartbeat is answered or raises, a first subscription is confirmed or fails (its
confirmation read has a timeout), a published release is handled while the
subscription is up, a turn's body ends, and time passes. Nothing is assumed of
doors, of a subscription that was lost, which may stay down for ever, or of a
release, which may fail.

## 4. What is proved

### 4.1 Parks

`ParksProofs` holds, for every finite or infinite set of parks, runs, drives and
doors, every `RunOf`, `OnExpiry` and every bound on faults:

| theorem | statement |
|---|---|
| `TypeCorrect` | `Spec => []TypeOK` |
| `ClaimsAreKept` | `Spec => []ClaimedResumeNotLost` |
| `OneDoorWins` | `Spec => []OneDoorResolves` |
| `AbandonedUnresolved` | `Spec => []AbandonedLapsedUnresolved` |
| `KillIsOwed` | `Spec => []KilledRunStillOwed` |
| `WithdrawnWhenCompleted` | `Spec => []CompletedKillWithdrew` |
| `ToldLast` | `Spec => DriversToldLast` |
| `LifecycleImplementsLedger` | `Spec => ImplementsLedger` |

They rest only on the assumptions named in the modules (`RunOfAssumption`,
`NoParkAssumption`, `NoRunAssumption`, `OnExpiryAssumption`,
`FaultsAssumption`).

*Why an inductive invariant.* None of the safety properties is inductive.

* `ClaimedResumeNotLost` is about the index member; the step that could break it
  is the clear at the end of a drive, which looks at neither the outcome nor the
  further wait. `OwedInv` therefore adds that a drive that stands before its clear
  has already got an outcome or a further wait out, that whatever is on record was
  delivered (a drive that finds a record goes straight to its clear), and that a
  standing ticket is indexed.
* `OneDoorResolves` and `AbandonedLapsedUnresolved` rest on `ResolveInv`: two asks
  in flight never carry the same id (`AskersInv`); a park that is not written yet
  was resolved by nobody, a pending one by nobody yet, and one that is still in
  the expiry index was neither claimed nor pruned (`ParkInv`); and a reaper step
  that settles a park has read it written and no longer pending, which it stays
  (`SettlerInv`).
* The three kill properties share `KillInv`. `RunIndexed` says that a park that is
  open or keeps its ticket is in its run's index, and that a revoked one is neither,
  for good. `Covered` is what the reaper has to go by: while a park a kill should
  reach is open, a record of the kill stands or its abandonment was surfaced, and a
  revoked park whose record is gone has nothing held by its channel. `DoorOwes`
  is what a kill in flight has done so far, which no property mentions: from its walk
  on, whatever of the run is still open is on its list, so that the end of the
  walk means that nothing is; and each record it goes on to clear is past its
  withdrawal. A kill that raises or dies leaves its records behind, and a
  redelivery begins the walk again.

Each is proved by one step per action of `Next`, over `TypeInv`, which is proved
first. `ToldLast` is an action property: the one step that tells a driver is
`FireParkKilled`, and `DoorOwes` says what was left open before it.

*The refinement.* `ImplInv` is the conjunction of these invariants with `AnswerInv`,
which orders the phases of a question's answer. `PhaseFacts` draws from it that the
mapping (`PhaseOf` of `Parks`) gives a question one phase only: one whose ticket stands was
claimed and not dropped, a claimed one is written and not pending, a revoked one has
neither ticket nor a pending state. For most actions the phases do not change
(`PhaseStays`), for the others the lemma names the step of `ResumeLedger` that is
taken. The theorem is the whole of the property: `ResumeLedger` states no fairness.

*Only model-checked*: the liveness properties, which are beyond the prover.

### 4.2 Turns

`ThreadTurnsProofs` holds, for every set of turns, threads and workers, every lease
and every shorter refresh interval, every queue depth and ceiling:

| theorem | statement |
|---|---|
| `TurnsTypeCorrect` | `Spec => []TypeOK` |
| `TurnsOverlapOnlyWhenStale` | `Spec => []OverlapOnlyWhenStale` |
| `StaleTurnsStop` | `Spec => []StaleTurnStops` |
| `WakeupsAreNotLost` | `Spec => []NoLostWakeup` |
| `TurnsAreReserved` | `Spec => []ReservationsCover` |

They rest on `ThreadOfAssumption`, `WorkerOfAssumption`, `NoTurnAssumption`,
`LeaseAssumption` (what the settings' validator refuses) and `LimitsAssumption`.

* `HoldInv` is what a turn inside `held` knows: its next heartbeat comes before a
  lease and an interval have passed since its last refresh that succeeded, and
  while less than a lease has passed, the key is its own and lives for at least the
  difference. Nobody else takes or releases a key that is a turn's own
  (`OwnLeaseKept`), a tick takes one from both sides of the inequality
  (`HoldTick`), and two turns cannot both own one key: hence no overlap of turns
  that are not stale. A turn that raises keeps going only below a lease, so it stops
  below a lease and an interval.
* `WaitInv` is what protects a sleeper: from its first retry on its worker's
  subscription has been up; while its lease is free it has a wake-up coming, and
  while it is taken, the wait is no longer than the lease. Without the second half
  a tick that lets the lease lapse would leave a turn asleep on it.

* `CoverInv` is `ReservationsCover` with the finiteness of what is counted. There may
  be infinitely many turns, but those in flight were accepted one by one, so their
  number is a number, and the cardinality lemmas of the library apply: a step brings
  at most one turn into flight, and that one reserves; a turn that leaves gives one
  reservation back. The counter may be larger than the turns in flight, which is the
  leak of section 5.

*Only model-checked*: `EveryTurnEnds`.

### 4.3 Waiting outcomes

`InteractionsProofs`, for any number of writers, takes and faults and any finite
number of sweepers (`SweeperAssumption`, `OutcomeBoundsAssumption`):
`OutcomesLeaveOnce` (`[]OutcomeLeavesOnce`) and `WaitingOutcomesAreIndexed`
(`[]WaitingIsIndexed`). Both except `revived`: a write that lands where the TTL has
taken an earlier row while its index member, or a sweep that has seen it missing,
still stands for that loss. The sweep's repair then takes the new row's member for the
old one's, reports one loss for two outcomes, and the new row leaves by its TTL with
nothing to tell of it. The writers are not bound to any horizon: give-ups and kill
terminals write late. The invariant adds `OrphansAreGone`: while a
sweep past its claim has found the row gone, nothing is written, unless `revived`; that
is what makes the member it removes the one of the outcome it reports.

### 4.4 Tool runs

`ToolRunsProofs`, for every finite set of run ids, any workers and readers, every
cap and number of epochs (`RunAssumption`, `RunBoundsAssumption`):

| theorem | statement |
|---|---|
| `ToolRunsTypeCorrect` | `ToolSpec => []ToolTypeOK` |
| `LostRunsReplayOnce` | `ToolSpec => []ReplayedOnce` |
| `ReplaysRunAlone` | `ToolSpec => []NoRunBesideItsReplay` |
| `SlotsAreHeldByRuns` | `ToolSpec => []SlotsFollowRuns` |
| `TerminalRecordsStay` | `ToolSpec => TerminalStays` |

`Replays` says that a replay, made or about to be made, is of a run whose record is
lost, and of one that nobody else replays; `Attended` that a recorded run in flight
is live unless its liveness lapsed under it, and that what a reader found dead
stays dead. The slots are counted with the cardinality lemmas of the library: one
run moves per step (`OneRunMoves`). `SlotsFollowRuns` says who holds a worker's slots:
the submits in flight, and those that were cut between the reserve and the spawn,
each for one slot and for good. That these come back too is what the code's comment
says and what the run `tool_slots` refutes.

### 4.5 Asks and their groups

`InteractionsProofs`, for every finite set of questions, every grouping and every cap
(`QuestionAssumption`, `GroupOfAssumption`, `AskBoundsAssumption`):
`AskTypeCorrect`, `AsksStayWithinCap`, `PlacesAreFreed`, `CountsCover`,
`OpenQuestionsStayListed`. The invariant is three parts. `TxnCurrent`: a transaction
about to be executed still has the count it read, because every write of the group
dirties it; hence a count never goes below its open questions. `PlacesInv`: whoever
is open or opening has a place, and only they have one. `ListInv`: the group of an
open question has its stream, so that no reader takes it for a phantom.

### 4.6 Token refresh

`TokenRefreshProofs`, for any replicas, callers, retry budget and number of pairs
and faults (`ReplicaOfAssumption`, `TokenBoundsAssumption`, `SlotAssumption`):

| theorem | statement |
|---|---|
| `TokenTypeCorrect` | `TokenSpec => []TokenTypeOK` |
| `OnlyReconnectsRevive` | `TokenSpec => RevivedByReconnect` |
| `TokensOnlyGoForward` | `OneEditor /\ TokenSpec => TokensNeverGoBack` |
| `GrantIsKept` | `OneEditor /\ TokenSpec => []GrantKept` |
| `ForcedRefreshServesNewer` | `OneEditor /\ TokenSpec => []ForcedServesNewer` |

`RecordInv` holds with and without the lock: what a slow path has loaded is the
record as long as the ciphertext is the one it loaded (`Coherent`), and the pair it
was given is newer than the one it gave away (`Older`); so the compare-and-set of
the write-back only ever goes forward. `Exclusive` is what the lock adds: unless
something excused it, whoever is in the section has the key and sees the record as
it is. What excuses it is `excused`: the lock was not acquired or lapsed, a crash
between the provider's answer and the write, an answer that was lost, a grant the
provider revoked, or a write of a new pair that raised before it landed. The last
needs neither a crash nor a lost answer: the section holds the lock, the endpoint has
answered, and the database has not. `OneEditor` says that at most one editor is at work on the connection. It is
needed because a consent is exchanged for its pair before the lock is taken: two
consents at once are two grants, and the record keeps the one that is written last,
which may be the older one.

### 4.7 Agent parks

`AgentParkProofs`, for any asks of a super-step, any answers, deliveries, kills and
give-ups, whichever of them are away, and any bound on faults (`MemberAssumption`,
`AnswerAssumption`, `ActorAssumption`, `ParkBoundsAssumption`,
`ResolutionAssumption`): `ParkTypeCorrect` (`ParkSpec => []ParkTypeOK`) and
`SuperStepsSettle` (`ParkSpec => []SuperStepSettles`). The invariant is four parts.
`Phases`: a step has not parked yet, waits, or is settled, and once settled no ask
of it is live and it does not wait again. `ActorKnows`: what a delivery has read of
the barrier is still in it while the step is not settled, so that whoever drives
carries the first answers, and under its own lease the step is not settled yet.
`Reported`: what is written, replied and delivered is the one resolution. The lease
may lapse under a drive, and another may then settle the step: the finalize script
refuses the first one because its token is gone, which is why `ActorKnows` is about
the actor whose token is still the one stored.

### 4.8 Hook runs

`HookRunsProofs`, for every finite set of processes, any jobs and entries, whichever
tools declare crash-resume, every number of attempts and faults
(`ProcessAssumption`, `EntryAssumption`, `CrashResumeAssumption`,
`HookBoundsAssumption`):

| theorem | statement |
|---|---|
| `HookTypeCorrect` | `HookSpec => []HookTypeOK` |
| `HookToolStartsOnce` | `HookSpec => []StartsOnce` |
| `HookOneAttemptActs` | `HookSpec => []OneAttemptActs` |
| `HookHeldJobsTellTheTruth` | `HookSpec => []HeldJobsTellTheTruth` |

* `StartInv` is why a stale attempt does no harm to `StartsOnce`. It counts the
  starts made and those an attempt has noted and not made yet (`Starting`), with the
  cardinality lemmas of the library. When these use up what the retries allow
  (`Spent`), the job is `Closed`: its note says "start", it is not free, and the
  attempt under its lease can no longer get to a start. A stale attempt is stopped at
  the fenced note; one that has already written its note is among those counted.
* `ActInv` is about a job no live attempt of which lost its lease: its live attempt
  is the one under the lease. `Marks` says what such an attempt has noted on the job
  before it acts, `Noted` that once something was acted the job says so, or names an
  entry that is resolved, and `Knows` where the attempt can then still be: at an
  intent it cannot clear, or on a way that neither claims nor starts again. Both
  `OneAttemptActs` and `HeldJobsTellTheTruth` follow.

The lemma `AttemptShape` says once for all twenty steps of an attempt that they move
that attempt alone and write its job only under the lease.

### 4.9 The write outbox

`StateOutboxProofs`, for any set of saves, any appliers and runs, whatever subjects
the saves, their calls and the runs touch, every number of attempts and faults
(`SavesAssumption`: the ids of rows are whole numbers from 1 on; `KeysAssumption`,
`BoundsAssumption`; `ApplierAssumption`: no task is called `NoApplier`):

| theorem | statement |
|---|---|
| `OutboxIsTyped` | `OutboxSpec => []OutboxTypeOK` |
| `RecordsApplyInOrder` | `OutboxSpec => []RecordsInOrder` |
| `CallsStartInOrder` | `OutboxSpec => []CallsInOrder` |
| `RunsFindSavesFinished` | `OutboxSpec => []RunsWaitForSaves` |
| `CallsPassThemselves` | `OutboxSpec => []NoCallWaitsForItself` |
| `StartsArePaidFor` | `OutboxSpec => []InterruptedCallsStay` |
| `OutboxImplementsQueue` | `OutboxSpec => ImplementsQueue` |

* `OutboxInv` rests on one fact about all steps, `Onward`: a row that is gone stays
  gone, records that are written stay written, and what a row is ordered behind
  does not change once it has its number. So what a task found before it began
  (`RecordsBehind`, `CallsBehind`) is still so when it writes or starts a call, and the
  order follows although the task looked a round trip earlier. `TaskOK` adds where a
  runner is: as long as the claim is its own, it is at the call its row is at.
  Two tasks never write the records of one row (`OneWriter`), which is the row's lock.
* A drain takes the oldest outstanding save it has left. That there is an oldest one is
  the well-foundedness of the naturals (`OldestIn`), the one induction the provers
  can use here, because the library states it of a set and a relation: what it needs of the
  order is first-order. From there `DrainGoesOn` follows what a drain does with one save: it
  passes over it because it is gone, or because it waits for the save whose call the
  drain belongs to, or it goes down to the save that holds it back. That last one is
  never the call's own save, and a drain that belongs to no call passes over nothing
  that is not gone.
* `PaidInv` counts. Each start of a call that may not be run again is paid for by the
  first one, by a failure that its runner recorded as passing, or by an operator's
  retry. The failure is that of the call, or of the write that notes it done
  (`apply.py:277`, 279, 260): after the second the call has completed and is started
  again, and the theorem allows exactly that one start for it and no more. A runner
  about to make the start has paid (`AtStart`), and so has a row whose next claim will
  bring a runner to that call (`Credit`); a claim turns the one into the other, and a
  recorded failure gives the row its credit back. After a call that raised, or whose note
  did not land, the failure pays for it. After a note that landed and was not heard of
  the row is at the next call: the `unheard` runner was counted for that one, gives its
  place to the row (`CreditGiven`), and pays for nothing. A claim taken over from one that lapsed brings nobody to the
  call: the row goes to `failed`, and only a retry pays for another start. The runner
  whose claim lapsed may still make the start it was about to make, and it is counted
  for that. The runners at one call are finitely many although the appliers need not be,
  as in `CoverInv`.
* `OutboxImplementsQueue` says what the invariants, being about states, cannot: *how*
  a save goes. The queue lets it go only with all of its calls noted as done, one after
  the other, each after a start of it, or by the hand of an operator who
  discards a failed one; it lets a run in only when what the run found on its arrival
  is gone; and it lets a call start only behind the saves of its subjects, at the
  first call not yet done or at an earlier one (a runner that lost its claim), and
  again only with leave. The initial states are the queue's, and one lemma per action
  shows each step to be a step of the queue or a stutter (`QueueStep`). What the
  lemmas need beyond `OutboxInv` and `PaidInv` is where a runner may stand although
  its claim is long lost: `RunInv` has it at a row whose records are written, at
  a call the row has reached, and, past the call, at one that was started. It
  holds without any claim, because a row's progress only grows. A note or a delete that
  is not heard of is the queue's own step if it landed, and a stutter if not
  (`NotedImplements`, `DeleteRaisesUnseen`); the queue starts a completed call again
  only where its end was never noted, and only with leave.

### 4.10 Only model-checked

Liveness is beyond the prover: `EveryParkResolves`, `EveryClaimDischarged` and
`EveryKillTold` of the parks and `EveryTurnEnds` of the turns are checked on the
instances of section 3, under the fairness stated there. Every
other property that a passing run checks, of states, of steps and both refinements,
is a theorem. The services' type invariants are proved and not listed in a run: each
is a theorem of the service's own specification above, or a part of one
(`OutcomesLeaveOnce` has the type of a waiting outcome in its invariant).

## 5. Where the documentation and the code disagree

Six runs end in a counterexample of something a docstring or a comment says. The
first four are windows between two round trips; none loses an answer. The last two
are leaks.

1. `kill_late_park`: `add` reads the taken-down mark in one round trip and writes
   the park in another. A kill that completes in between leaves an open park of a
   dead run, until its own deadline (`interactions/store/writes.py:117`, against
   `store/writes_kills.py:111`).
2. `kill_late_delivery`: a resume reads its ticket once, then delivers. A kill in
   between does not stop the delivery (`interactions/continuation.py:353`, against
   its docstring at 453).
3. `kill_stray_delivery`: an ask hands its question to the channel after it
   persisted it, without looking at the park again; a kill in between withdraws
   first, and the channel then holds an address for a park that is gone
   (`interactions/helper.py:457`, against `kill.py:18`).
4. `deliver_twice`: the dedupe of a run's outcome is a read and a later write, and
   two redeliveries can both write (`store/writes_outcomes.py:61`, against
   `continuation.py:269`).

5. `thread_slots`: on a route that cancels a running turn, `_schedule_turn` writes
   the cancel marker before it spawns the turn's task. If that write raises, no task
   is spawned, and no door gives the reservation back, so the thread's queue on
   that worker loses a place for good (`conversations/turn/schedule.py:64`, against
   `conversations/caps.py:280`).

6. `tool_slots`: a submit reserves a slot, awaits the binding of its caller's identity
   and the writes of its record, and spawns the supervisor that releases it. The
   `except Exception` between them does not see a cancelled request, nor a binding that
   raises outside it, so the slot is reserved for good
   (`operations/tool_runs/doors.py:78` and 131, against the comment at line 75).

`KilledRunStillOwed` and `CompletedKillWithdrew` are the promises with exactly
these windows taken out (`late` parks, `stray` deliveries), and they hold.

Six more sentences of the source do not hold in the models as written. They have no
run of their own; the modules except the window, or leave out what it touches, and
say so:

* `interactions/store/scripts.py:20` says that a group re-listed by a concurrent add
  cannot be wrongly purged: its script reads and deletes in one step. A reader of the pending list drops what it took for a phantom in two more
  round trips (`store/reads.py`, `pending`), and a question added in between is off
  the list until its answer. `OpenQuestionsListed` excepts it (`swept`).
* `store/writes_outcomes.py:50` says of `add_outcome` that a re-run repeats identical
  writes. A second write after a take brings the outcome back, and it is taken
  again: `OutcomeLeavesOnce` counts it as a second outcome. And a write that comes so
  late that a sweep is repairing the loss of the row before it loses its own index
  member (`revived`).
* `connectors/runtime/locks.py` says that two refreshes racing past a lapsed lock are
  made safe by the resolver's write-back fence. The record never goes back (`TokensNeverGoBack`), but the
  loser of an unlocked race may be told `invalid_grant` for a token its peer has
  just rotated: `GrantKept` excuses a section without its lock (`excused`).
* `states/outbox/apply.py` says of `run_calls` that a call which may not be re-run
  fails its row when a lapsed claim interrupted it. A call that *completed* is started again
  when `outbox_call_done` raises without having landed, resumable or not, because
  `_attempt_failed` puts the row back; that is a failure which pays for the start in
  `InterruptedCallsStay`. And a delete that raises may leave a row `failed` with all of its
  calls done.
* `_internal/park/resume.py` of the agents says that the lease is looked at before the
  terminal chain fires, so that a super-step the drive no longer owns fires none.
  The lease may lapse, and a kill take it, between the look and the fire
  (`CheckLease`, `FireChain`); the finalize, which compares the token in the
  script, is refused, and `SuperStepSettles` claims nothing of the fire.
* `ParkIndex.buffer` (`park_index.py`) says that a key it brought back is deleted. A
  process that dies between the `HSETNX` and the delete leaves the key, without a
  TTL; it has no expected map, so nothing can be driven from it.

## 6. What the models leave out

* **The parks' clocks.** A deadline, a backoff or a TTL is due whenever the step that waits
  for it may be taken: every order of lapses is covered, durations are not. The
  lapse of the taken-down mark is left out, because it is kept for twice the
  retention horizon of what it guards.
* **Payloads**: questions, answers, formats, media, principals, wording. A
  terminal is `succeeded` or `failed`; `withdrawn` is what a kill may name, and
  is never delivered as an outcome.
* **The channel's retry loop**: one delivery that succeeds or fails for good.
* **Runs with neither an address nor a subject**: their outcome is dropped by
  design; every run of the model has one of the two.
* **A turn's body**, its intake lease, batching and superseding: a body runs, and
  ends. **The order** in which a queue, the ceiling or a lease admits those who
  wait: any of them may be next, so nothing is said of fairness among turns.
* **The token bucket** of an address, `hold_thread` (a person's erase, which takes a
  second thread's lease inside a first), a settings reload, and the in-memory mode,
  in which the lease is a no-op and there is one worker.
* **The agent** behind a continuation, in `Parks`: a drive may ask, park again, return
  any terminal, or die. `AgentPark` models the agents' own index by itself; the two
  are not composed.
* **Of the agents' index**: detached tombstones and the horizons that keep them,
  the take-over by an inline resumer, the other super-steps of the run (which a
  kill erases), the workspace lease (a drive it refuses is `RefuseRun`), TTLs. A
  step is not parked again under its own id once it is resolved.
* **Of the outbox**: the state service behind it (schemas, merges, templates), the
  erase of a person, what records hold, back-off times. Where recording a failure, or
  asking a call's kind whether it may be resumed, raises itself, the task ends as one
  that dies; a claim whose reply is lost is one that lapses, and records that
  committed without their reply are `CommitRecords` and the task's end.
* **Of hook runs**: matching events to hooks, trigger links, cron schedules, the
  in-memory manager, a process's concurrency slots, back-off times, and the visit of a
  conversation's turn.
* **Of tool runs**: a record's TTL, listing, what a run returns, and the cancel of a
  run by its user.
* **Of a connection**: the cooldown after a failing refresh (it only turns callers
  away), connections without a refresh token, disconnecting, keep-alive writes. A
  shutdown's `aclose` gives its sections a bounded time and leaves one that takes
  longer behind (`refresh_owner.py:149`): it runs on in the model too, with its owner
  `closed`, until it ends or its replica dies.
* **Of asks**: validation, formats and media; thread and subject indexes; the merge
  of two people's records.

## 7. Plan

The order is by what would hurt most if it were wrong.

| step | module | source | properties | theorems |
|---|---|---|---|---|
| done | `InteractionStore`, `Continuation`, `KillSeam`, `Parks`, `ResumeLedger` | `interactions/` | section 3 | section 4.1 |
| done | `ThreadLease`, `ThreadTurns` | `conversations/` | section 3 | section 4.2 |
| done | `StateOutbox`, `SaveQueue`, `HookRuns`, `ToolRuns`, `AskGroups`, `TokenRefresh`, `WaitingOutcomes`, `AgentPark` | section 1.1 | section 3 | sections 4.3 to 4.9 |
| 1 | `AgentPark` composed with `Continuation` | agent drivers | what `ResumeBuffered` clears is never the last delivery a run waits for | |
| 2 | conversation turns: batching, superseding, delivery | `conversations/turn/` | a superseded turn delivers nothing after its successor began | |
| 3 | application epochs and the reload gate | `app/epoch.py`, `app/reload_gate.py` | a reload waits for the runs of the epoch it retires | |
| done | kills, both refinements, reservations, outbox | | `KilledRunStillOwed`, `DriversToldLast`, `CompletedKillWithdrew`, `ImplementsLedger`, `ReservationsCover`, `ImplementsQueue`, the outbox's | sections 4.1, 4.2, 4.9 |

Not planned, with the reasons: presets, tools and sub-MCP servers
(registries, no protocol), access control and identity (pure decisions), run
chokepoint and versioning (one SQL transaction each), configuration and worker
recycling (in-process lifecycle), command line, templates, examples and vendor
plugins (input and output).
