--------------------------- MODULE InteractionStore ---------------------------
(***************************************************************************)
(* The durable interactions store, as far as the asynchronous parks of     *)
(* agent runs need it (interactions/store/).  The store is a Redis         *)
(* keyspace; every operation below is ONE server-side transaction (a       *)
(* MULTI under WATCH, or a Lua script), hence one atomic action.  What the *)
(* program does between two operations is an interleaving point, and the   *)
(* modules that extend this one put each of them in an action of its own.  *)
(*                                                                         *)
(* A park is one open question of a run (an interaction id).  A run is the *)
(* tree of calls that shares one run_delivery_id.                          *)
(***************************************************************************)
CONSTANTS
  Park,   \* interaction ids
  Run,    \* run delivery ids
  RunOf   \* the run whose delivery identity a park carries

ASSUME RunOfAssumption == RunOf \in [Park -> Run]

VARIABLES
  state,                  \* status field of the state hash, or "absent"
  pending_expiry,         \* members of the expiry index (no TTL)
  run_parks,              \* members of the run indexes (run_parks_key)
  run_killed,             \* runs whose taken-down mark stands
  continuation_due,       \* parks whose continuation-due record stands
  continuation_due_index, \* members of the due index (no TTL)
  kill_due,               \* the terminal a kill-due record names, or "none"
  kill_due_index,         \* members of the kill-due index (no TTL)
  (* history: what the doors were told, kept for the properties only *)
  claimed,                \* parks whose answer claim committed
  pruned,                 \* parks ended while pending by a prune or a kill
  revoked,                \* parks a kill wrote a kill-due record for
  late                    \* parks written after their run was taken down

redisVars == <<state, pending_expiry, run_parks, run_killed, continuation_due,
               continuation_due_index, kill_due, kill_due_index>>
storeVars == <<redisVars, claimed, pruned, revoked, late>>

Terminal == {"withdrawn", "failed"}   \* what a kill door may name
KillActOnPending == {"pending"}
KillActOnAny == {"pending", "answered"}

ParksOf(r) == {p \in Park : RunOf[p] = r}

(***************************************************************************)
(* Something live answers to the id: its state hash, or a ticket that      *)
(* outlived it.                                                            *)
(***************************************************************************)
Live(p) == state[p] # "absent" \/ p \in continuation_due

(***************************************************************************)
(* The status a kill's precondition is tested against: a state hash that   *)
(* aged out beside a standing ticket counts as answered.                   *)
(***************************************************************************)
Resolved(p) == IF state[p] = "pending" THEN "pending" ELSE "answered"

StoreTypeOK ==
  /\ state \in [Park -> {"absent", "pending", "answered"}]
  /\ pending_expiry \subseteq Park
  /\ run_parks \subseteq Park
  /\ run_killed \subseteq Run
  /\ continuation_due \subseteq Park
  /\ continuation_due_index \subseteq Park
  /\ kill_due \in [Park -> Terminal \cup {"none"}]
  /\ kill_due_index \subseteq Park
  /\ claimed \subseteq Park
  /\ pruned \subseteq Park
  /\ revoked \subseteq Park
  /\ late \subseteq Park

StoreInit ==
  /\ state = [p \in Park |-> "absent"]
  /\ kill_due = [p \in Park |-> "none"]
  /\ pending_expiry = {} /\ run_parks = {} /\ run_killed = {}
  /\ continuation_due = {} /\ continuation_due_index = {}
  /\ kill_due_index = {}
  /\ claimed = {} /\ pruned = {} /\ revoked = {} /\ late = {}

-----------------------------------------------------------------------------
(* Writes.                                                                 *)

(***************************************************************************)
(* Mutant of Add: the pipeline forgets the expiry member.                  *)
(***************************************************************************)
AddUnindexed(p) ==
  /\ state' = [state EXCEPT ![p] = "pending"]
  /\ run_parks' = run_parks \cup {p}
  /\ late' = IF RunOf[p] \in run_killed THEN late \cup {p} ELSE late
  /\ UNCHANGED <<pending_expiry, run_killed, continuation_due,
                 continuation_due_index, kill_due, kill_due_index, claimed,
                 pruned, revoked>>

(***************************************************************************)
(* add's pipeline: the state hash, the expiry member and the run index.    *)
(* The taken-down mark is NOT read here: the EXISTS is a round trip of its *)
(* own, before it.                                                         *)
(***************************************************************************)
Add(p) ==
  /\ state' = [state EXCEPT ![p] = "pending"]
  /\ pending_expiry' = pending_expiry \cup {p}
  /\ run_parks' = run_parks \cup {p}
  /\ late' = IF RunOf[p] \in run_killed THEN late \cup {p} ELSE late
  /\ UNCHANGED <<run_killed, continuation_due, continuation_due_index,
                 kill_due, kill_due_index, claimed, pruned, revoked>>

(***************************************************************************)
(* Mutants of RecordAnswer: the due index is written later, by the drive;  *)
(* the answered park leaves its run's index.                               *)
(***************************************************************************)
RecordAnswerUnindexed(p) ==
  /\ state[p] = "pending"
  /\ state' = [state EXCEPT ![p] = "answered"]
  /\ pending_expiry' = pending_expiry \ {p}
  /\ continuation_due' = continuation_due \cup {p}
  /\ claimed' = claimed \cup {p}
  /\ UNCHANGED <<run_parks, run_killed, continuation_due_index, kill_due,
                 kill_due_index, pruned, revoked, late>>

RecordAnswerLeavesRun(p) ==
  /\ state[p] = "pending"
  /\ state' = [state EXCEPT ![p] = "answered"]
  /\ pending_expiry' = pending_expiry \ {p}
  /\ run_parks' = run_parks \ {p}
  /\ continuation_due' = continuation_due \cup {p}
  /\ continuation_due_index' = continuation_due_index \cup {p}
  /\ claimed' = claimed \cup {p}
  /\ UNCHANGED <<run_killed, kill_due, kill_due_index, pruned, revoked, late>>

(***************************************************************************)
(* record_answer when it claims: the answered state, the expiry member's   *)
(* removal and the durable continuation-due record commit together.  The   *)
(* park stays in its run's index.                                          *)
(***************************************************************************)
RecordAnswer(p) ==
  /\ state[p] = "pending"
  /\ state' = [state EXCEPT ![p] = "answered"]
  /\ pending_expiry' = pending_expiry \ {p}
  /\ continuation_due' = continuation_due \cup {p}
  /\ continuation_due_index' = continuation_due_index \cup {p}
  /\ claimed' = claimed \cup {p}
  /\ UNCHANGED <<run_parks, run_killed, kill_due, kill_due_index,
                 pruned, revoked, late>>

(***************************************************************************)
(* Mutant of PrunePending: the status is not read again under the watch.   *)
(***************************************************************************)
PruneAnyway(p) ==
  /\ state' = [state EXCEPT ![p] = "absent"]
  /\ pending_expiry' = pending_expiry \ {p}
  /\ run_parks' = run_parks \ {p}
  /\ pruned' = pruned \cup {p}
  /\ UNCHANGED <<run_killed, continuation_due, continuation_due_index,
                 kill_due, kill_due_index, claimed, revoked, late>>

(***************************************************************************)
(* prune_pending when it finds the park pending.                           *)
(***************************************************************************)
PrunePending(p) ==
  /\ state[p] = "pending"
  /\ state' = [state EXCEPT ![p] = "absent"]
  /\ pending_expiry' = pending_expiry \ {p}
  /\ run_parks' = run_parks \ {p}
  /\ pruned' = pruned \cup {p}
  /\ UNCHANGED <<run_killed, continuation_due, continuation_due_index,
                 kill_due, kill_due_index, claimed, revoked, late>>

(***************************************************************************)
(* Mutant of EnqueueKill: the kill-due record is not indexed.              *)
(***************************************************************************)
EnqueueKillUnindexed(p, terminal) ==
  /\ Live(p)
  /\ state' = [state EXCEPT ![p] = IF @ = "pending" THEN "absent" ELSE @]
  /\ pending_expiry' = pending_expiry \ {p}
  /\ pruned' = IF state[p] = "pending" THEN pruned \cup {p} ELSE pruned
  /\ continuation_due' = continuation_due \ {p}
  /\ continuation_due_index' = continuation_due_index \ {p}
  /\ run_parks' = run_parks \ {p}
  /\ run_killed' = run_killed \cup {RunOf[p]}
  /\ kill_due' = [kill_due EXCEPT ![p] = terminal]
  /\ revoked' = revoked \cup {p}
  /\ UNCHANGED <<kill_due_index, claimed, late>>

(***************************************************************************)
(* enqueue_kill when it writes: a pending park is pruned; whatever the     *)
(* status, the ticket goes, the park leaves its run's index, the run is    *)
(* marked taken down and the kill-due record is written.                   *)
(***************************************************************************)
EnqueueKill(p, terminal) ==
  /\ Live(p)
  /\ IF state[p] = "pending"
     THEN /\ state' = [state EXCEPT ![p] = "absent"]
          /\ pending_expiry' = pending_expiry \ {p}
          /\ pruned' = pruned \cup {p}
     ELSE UNCHANGED <<state, pending_expiry, pruned>>
  /\ continuation_due' = continuation_due \ {p}
  /\ continuation_due_index' = continuation_due_index \ {p}
  /\ run_parks' = run_parks \ {p}
  /\ run_killed' = run_killed \cup {RunOf[p]}
  /\ kill_due' = [kill_due EXCEPT ![p] = terminal]
  /\ kill_due_index' = kill_due_index \cup {p}
  /\ revoked' = revoked \cup {p}
  /\ UNCHANGED <<claimed, late>>

ClearContinuationDue(p) ==
  /\ continuation_due' = continuation_due \ {p}
  /\ continuation_due_index' = continuation_due_index \ {p}
  /\ UNCHANGED <<state, pending_expiry, run_parks, run_killed, kill_due,
                 kill_due_index, claimed, pruned, revoked, late>>

ClearKillDue(p) ==
  /\ kill_due' = [kill_due EXCEPT ![p] = "none"]
  /\ kill_due_index' = kill_due_index \ {p}
  /\ UNCHANGED <<state, pending_expiry, run_parks, run_killed,
                 continuation_due, continuation_due_index, claimed, pruned,
                 revoked, late>>

-----------------------------------------------------------------------------
(* The reaper's claims.                                                    *)

(***************************************************************************)
(* drop_expiry_member.  The caller learns whether IT removed the member.   *)
(***************************************************************************)
DropExpiryMember(p) ==
  /\ pending_expiry' = pending_expiry \ {p}
  /\ UNCHANGED <<state, run_parks, run_killed, continuation_due,
                 continuation_due_index, kill_due, kill_due_index, claimed,
                 pruned, revoked, late>>

(***************************************************************************)
(* The retry claim on a member whose record aged out: the orphan index     *)
(* member is dropped and the caller told so.                               *)
(***************************************************************************)
DropOrphanContinuation(p) ==
  /\ p \in continuation_due_index \ continuation_due
  /\ continuation_due_index' = continuation_due_index \ {p}
  /\ UNCHANGED <<state, pending_expiry, run_parks, run_killed,
                 continuation_due, kill_due, kill_due_index, claimed, pruned,
                 revoked, late>>

DropOrphanKill(p) ==
  /\ p \in kill_due_index
  /\ kill_due[p] = "none"
  /\ kill_due_index' = kill_due_index \ {p}
  /\ UNCHANGED <<state, pending_expiry, run_parks, run_killed,
                 continuation_due, continuation_due_index, kill_due, claimed,
                 pruned, revoked, late>>

-----------------------------------------------------------------------------
(***************************************************************************)
(* Time: a hash ages out on its TTL, its members in the TTL-less indexes   *)
(* stay behind.                                                            *)
(***************************************************************************)
StateAgesOut(p) ==
  /\ state[p] # "absent"
  /\ state' = [state EXCEPT ![p] = "absent"]
  /\ UNCHANGED <<pending_expiry, run_parks, run_killed, continuation_due,
                 continuation_due_index, kill_due, kill_due_index, claimed,
                 pruned, revoked, late>>

TicketAgesOut(p) ==
  /\ p \in continuation_due
  /\ continuation_due' = continuation_due \ {p}
  /\ UNCHANGED <<state, pending_expiry, run_parks, run_killed,
                 continuation_due_index, kill_due, kill_due_index, claimed,
                 pruned, revoked, late>>

KillDueAgesOut(p) ==
  /\ kill_due[p] # "none"
  /\ kill_due' = [kill_due EXCEPT ![p] = "none"]
  /\ UNCHANGED <<state, pending_expiry, run_parks, run_killed,
                 continuation_due, continuation_due_index, kill_due_index,
                 claimed, pruned, revoked, late>>
=============================================================================
