---------------------------- MODULE TokenRefresh ----------------------------
(***************************************************************************)
(* The credentials of one connection (connectors/runtime): callers serve   *)
(* its stored token while it is fresh, and otherwise refresh it through    *)
(* the owner task of their process, under a best-effort lock, with a       *)
(* compare-and-set write-back.  The provider takes each refresh token once *)
(* and knows only the last one.  A token pair is the number of its issue.  *)
(* The cooldown after a failing refresh only turns callers away and is     *)
(* left out.                                                               *)
(***************************************************************************)
EXTENDS Integers

CONSTANTS
  Replica, Caller,  \* a replica has one refresh owner
  ReplicaOf,       \* [Caller -> Replica]
  Editor,          \* a reconnect, or an edit: a patch or a note of wanted scopes
  RetryBudget,     \* TRANSIENT_RETRY_BUDGET
  MaxTokens,       \* bound: token pairs issued
  MaxTokenFaults   \* bound: lapses of a held lock, failed acquires, lost answers,
                   \* failed writes, crashes, closes, callers that leave, revocations

ASSUME ReplicaOfAssumption == ReplicaOf \in [Caller -> Replica]
ASSUME TokenBoundsAssumption ==
  RetryBudget \in Nat \ {0} /\ MaxTokens \in Nat \ {0} /\ MaxTokenFaults \in Nat

Slot == Replica \cup Caller \cup Editor
Free == "free"

ASSUME SlotAssumption ==
  /\ Replica \cap Caller = {}
  /\ Editor \cap (Replica \cup Caller) = {}
  /\ Free \notin Slot

VARIABLES
  stored,       \* [blob, token, health]: the connection's record
  issued,       \* the last pair the provider issued, the one it accepts
  dead,         \* pairs whose access token is no longer fresh
  lock,         \* the slot whose key it is, or Free
  slow,         \* [Slot -> the slow path of an owner task, a caller or an editor]
  call,         \* [Caller -> [pc, token, sent]]
  owner,        \* [Replica -> "live", "closed" or "gone"]
  excused,      \* history: a section ran without its key or was cut by a crash, an
                \* answer or the write of a new pair failed, or the provider took the
                \* grant back
  tokenFaults

tokenVars == <<stored, issued, dead, lock, slow, call, owner, excused, tokenFaults>>

NoSlow == [pc |-> "none", kind |-> "none", sent |-> 0, blob |-> 0, token |-> 0,
           got |-> 0, tries |-> 0]

(***************************************************************************)
(* Some callers and editors never come.                                    *)
(***************************************************************************)
TokenStart(away) ==
  /\ stored = [blob |-> 0, token |-> 1, health |-> "healthy"]
  /\ issued = 1
  /\ dead \in SUBSET {1}
  /\ lock = Free
  /\ slow = [x \in Slot |-> IF x \in Editor \cap away THEN [NoSlow EXCEPT !.kind = "edit"]
                            ELSE NoSlow]
  /\ call = [c \in Caller |-> [pc |-> IF c \in away THEN "left" ELSE "idle",
                               token |-> 0, sent |-> 0]]
  /\ owner = [p \in Replica |-> "live"]
  /\ excused = FALSE
  /\ tokenFaults = 0

TokenInit == \E away \in SUBSET (Caller \cup Editor) : TokenStart(away)

TokenFault == tokenFaults < MaxTokenFaults /\ tokenFaults' = tokenFaults + 1
Fresh == stored.health = "healthy" /\ stored.token \notin dead
SlowAt(x, pc) == slow' = [slow EXCEPT ![x].pc = pc]
HomeOf(x) == IF x \in Caller THEN ReplicaOf[x] ELSE x

-----------------------------------------------------------------------------
(* The callers.                                                            *)

(***************************************************************************)
(* A slow path begins: an owner task, or inline in its caller.             *)
(***************************************************************************)
Starts(x, kind, sent) ==
  slow' = [slow EXCEPT ![x] = [NoSlow EXCEPT !.pc = "queued", !.kind = kind, !.sent = sent]]

(***************************************************************************)
(* refresh_owner.run: the first caller of a process starts the owner's     *)
(* task, the others join it; without a live owner the caller runs it.      *)
(***************************************************************************)
HandOver(c, kind) ==
  LET p == ReplicaOf[c]
      wait == CASE owner[p] # "live" -> "inline"
                [] owner[p] = "live" /\ slow[p].pc = "none" -> "owning"
                [] OTHER -> "joining"
  IN /\ call' = [call EXCEPT ![c].pc = wait]
     /\ CASE wait = "inline" -> Starts(c, kind, call[c].sent)
          [] wait = "owning" -> Starts(p, kind, call[c].sent)
          [] OTHER -> UNCHANGED slow

(***************************************************************************)
(* resolve_managed_auth.                                                   *)
(***************************************************************************)
Resolve(c) ==
  /\ call[c].pc = "idle"
  /\ owner[ReplicaOf[c]] # "gone"
  /\ CASE stored.health = "reconnect" ->
            call' = [call EXCEPT ![c].pc = "denied"] /\ UNCHANGED slow
       [] Fresh ->
            call' = [call EXCEPT ![c].pc = "served", ![c].token = stored.token]
            /\ UNCHANGED slow
       [] OTHER -> HandOver(c, "resolve")
  /\ UNCHANGED <<stored, issued, dead, lock, owner, excused, tokenFaults>>

(***************************************************************************)
(* The server refuses the token and the caller forces a refresh, once.     *)
(***************************************************************************)
Refuse(c) ==
  /\ call[c].pc = "served"
  /\ call[c].sent = 0
  /\ call[c].token \in dead \/ call[c].token < issued
  /\ call' = [call EXCEPT ![c].pc = "refused", ![c].sent = call[c].token]
  /\ UNCHANGED <<stored, issued, dead, lock, slow, owner, excused, tokenFaults>>

ForceRefresh(c) ==
  /\ call[c].pc = "refused"
  /\ HandOver(c, "force")
  /\ UNCHANGED <<stored, issued, dead, lock, owner, excused, tokenFaults>>

(***************************************************************************)
(* A cancelled caller: an owned task goes on without it; an inline one     *)
(* finishes the section it is in.                                          *)
(***************************************************************************)
CallerLeaves(c) ==
  /\ call[c].pc \in {"owning", "inline"}
  /\ TokenFault
  /\ call' = [call EXCEPT ![c].pc = "left"]
  /\ UNCHANGED <<stored, issued, dead, lock, slow, owner, excused>>

-----------------------------------------------------------------------------
(* The slow path under connection_lock.                                    *)

(***************************************************************************)
(* The slow path ends: its caller has the outcome, who joined asks again.  *)
(***************************************************************************)
Reaches(c, x) == IF x \in Caller THEN c = x ELSE x = ReplicaOf[c] /\ call[c].pc = "owning"
Again(c) == IF call[c].sent = 0 THEN "idle" ELSE "refused"

Finish(x, pc, token) ==
  /\ slow' = [slow EXCEPT ![x] = NoSlow]
  /\ lock' = IF lock = x THEN Free ELSE lock
  /\ call' = [c \in Caller |->
       CASE Reaches(c, x) /\ call[c].pc \in {"owning", "inline"} ->
              [call[c] EXCEPT !.pc = pc, !.token = token]
         [] x = ReplicaOf[c] /\ call[c].pc = "joining" -> [call[c] EXCEPT !.pc = Again(c)]
         [] OTHER -> call[c]]

Acquire(x) ==
  /\ slow[x].pc = "queued"
  /\ lock = Free
  /\ lock' = x
  /\ SlowAt(x, "loading")
  /\ UNCHANGED <<stored, issued, dead, call, owner, excused, tokenFaults>>

(***************************************************************************)
(* Redis fails or the wait runs out: the body runs without the key.        *)
(***************************************************************************)
AcquireFails(x) ==
  /\ slow[x].pc = "queued"
  /\ TokenFault
  /\ SlowAt(x, "loading")
  /\ excused' = TRUE
  /\ UNCHANGED <<stored, issued, dead, lock, call, owner>>

LockLapses ==
  /\ lock # Free
  /\ lock' = Free
  /\ IF slow[lock].pc = "none" THEN UNCHANGED <<excused, tokenFaults>>
     ELSE TokenFault /\ excused' = TRUE
  /\ UNCHANGED <<stored, issued, dead, slow, call, owner>>

Loaded(x, pc) ==
  slow' = [slow EXCEPT ![x].pc = pc, ![x].blob = stored.blob, ![x].token = stored.token]
Going(x, pc) == Loaded(x, pc) /\ UNCHANGED <<lock, call>>

\* Mutant of Load: a forced refresh serves whatever the clock calls fresh.
LoadByTheClock(x) ==
  /\ slow[x].pc = "loading"
  /\ slow[x].kind \in {"resolve", "force"}
  /\ CASE stored.health = "reconnect" -> Finish(x, "denied", 0)
       [] Fresh -> Finish(x, "served", stored.token)
       [] OTHER -> Going(x, "ready")
  /\ UNCHANGED <<stored, issued, dead, owner, excused, tokenFaults>>

(***************************************************************************)
(* Under the lock: a resolve looks again whether the record is fresh, a    *)
(* forced refresh whether a peer has replaced the token that failed.       *)
(***************************************************************************)
Load(x) ==
  LET s == slow[x]
      replaced == s.kind = "force" /\ stored.token # s.sent
  IN /\ s.pc = "loading"
     /\ s.kind \in {"resolve", "force"}
     /\ CASE stored.health = "reconnect" -> Finish(x, "denied", 0)
          [] stored.health = "healthy" /\ replaced -> Finish(x, "served", stored.token)
          [] stored.health = "failing" /\ replaced -> Finish(x, "denied", 0)
          [] s.kind = "resolve" /\ Fresh -> Finish(x, "served", stored.token)
          [] OTHER -> Going(x, "ready")
     /\ UNCHANGED <<stored, issued, dead, owner, excused, tokenFaults>>

(***************************************************************************)
(* Between two attempts a cancelled slow path ends.                        *)
(***************************************************************************)
Cancelled(x) ==
  \/ x \in Caller /\ call[x].pc = "left"
  \/ x \in Replica /\ owner[x] = "closed"

Send(x) ==
  /\ slow[x].pc = "ready"
  /\ ~Cancelled(x)
  /\ SlowAt(x, "sending")
  /\ UNCHANGED <<stored, issued, dead, lock, call, owner, excused, tokenFaults>>

\* Mutant of StopCancelled: a cancellation cuts the section it finds.
StopAnywhere(x) ==
  /\ slow[x].pc # "none"
  /\ Cancelled(x)
  /\ Finish(x, "denied", 0)
  /\ UNCHANGED <<stored, issued, dead, owner, excused, tokenFaults>>

StopCancelled(x) ==
  /\ slow[x].pc \in {"queued", "loading", "ready"}
  /\ Cancelled(x)
  /\ Finish(x, "denied", 0)
  /\ UNCHANGED <<stored, issued, dead, owner, excused, tokenFaults>>

(***************************************************************************)
(* The token endpoint takes the refresh token and issues the next pair,    *)
(* refuses it (invalid_grant), or fails; its answer may be lost on the way.*)
(***************************************************************************)
Exchange(x) ==
  /\ slow[x].pc = "sending"
  /\ \/ /\ slow[x].token = issued
        /\ issued < MaxTokens
        /\ issued' = issued + 1
        /\ \/ /\ slow' = [slow EXCEPT ![x].pc = "issued", ![x].got = issued + 1]
              /\ UNCHANGED <<excused, tokenFaults>>
           \/ SlowAt(x, "failed") /\ TokenFault /\ excused' = TRUE
     \/ /\ SlowAt(x, IF slow[x].token = issued THEN "failed" ELSE "refused")
        /\ UNCHANGED <<issued, excused, tokenFaults>>
  /\ UNCHANGED <<stored, dead, lock, call, owner>>

-----------------------------------------------------------------------------
(* The write-back.                                                         *)

\* Mutant of Persist: a plain upsert.
PersistBlind(x, token, health) ==
  stored' = [blob |-> stored.blob + 1, token |-> token, health |-> health]

(***************************************************************************)
(* A compare-and-set against the ciphertext the slow path has loaded.      *)
(***************************************************************************)
Persist(x, token, health) ==
  /\ stored.blob = slow[x].blob
  /\ stored' = [blob |-> stored.blob + 1, token |-> token, health |-> health]

Answered(x) ==
  \/ slow[x].pc \in {"issued", "refused"}
  \/ slow[x].pc = "failed" /\ slow[x].tries + 1 >= RetryBudget

PersistAnswer(x) ==
  CASE slow[x].pc = "issued" -> Persist(x, slow[x].got, "healthy")
    [] slow[x].pc = "refused" -> Persist(x, slow[x].token, "reconnect")
    [] slow[x].pc = "failed" -> Persist(x, slow[x].token, "failing")

WriteBack(x) ==
  /\ Answered(x)
  /\ PersistAnswer(x)
  /\ IF slow[x].pc = "issued" THEN Finish(x, "served", slow[x].got)
     ELSE Finish(x, "denied", 0)
  /\ UNCHANGED <<issued, dead, owner, excused, tokenFaults>>

(***************************************************************************)
(* The write raises, landed or not, and ends the section: a rotated pair   *)
(* that was not written exists nowhere any more.                           *)
(***************************************************************************)
WriteBackRaises(x) ==
  /\ Answered(x)
  /\ TokenFault
  /\ \/ PersistAnswer(x) /\ UNCHANGED excused
     \/ UNCHANGED stored /\ excused' = (excused \/ slow[x].pc = "issued")
  /\ Finish(x, "denied", 0)
  /\ UNCHANGED <<issued, dead, owner>>

Retry(x) ==
  /\ slow[x].pc = "failed"
  /\ slow[x].tries + 1 < RetryBudget
  /\ slow' = [slow EXCEPT ![x].pc = "ready", ![x].tries = @ + 1]
  /\ UNCHANGED <<stored, issued, dead, lock, call, owner, excused, tokenFaults>>

(***************************************************************************)
(* A lost compare-and-set serves the record of the peer that won it.       *)
(***************************************************************************)
LosesTo(x) ==
  /\ Answered(x)
  /\ stored.blob # slow[x].blob
  /\ IF stored.health = "healthy" THEN Finish(x, "served", stored.token)
     ELSE Finish(x, "denied", 0)
  /\ UNCHANGED <<stored, issued, dead, owner, excused, tokenFaults>>

-----------------------------------------------------------------------------
(* The editors: the same lock and the same compare-and-set.                *)

StartEdit(x) ==
  /\ slow[x] = NoSlow
  /\ \/ Starts(x, "edit", 0) /\ UNCHANGED issued
     \/ /\ issued < MaxTokens
        /\ issued' = issued + 1
        /\ slow' = [slow EXCEPT ![x] = [NoSlow EXCEPT !.pc = "queued",
                                          !.kind = "reconnect", !.got = issued + 1]]
  /\ UNCHANGED <<stored, dead, lock, call, owner, excused, tokenFaults>>

LoadEdit(x) ==
  /\ slow[x].pc = "loading"
  /\ slow[x].kind \in {"edit", "reconnect"}
  /\ Going(x, "editing")
  /\ UNCHANGED <<stored, issued, dead, owner, excused, tokenFaults>>

EndEdit(x) ==
  /\ slow' = [slow EXCEPT ![x] = [NoSlow EXCEPT !.kind = slow[x].kind]]
  /\ lock' = IF lock = x THEN Free ELSE lock

(***************************************************************************)
(* A lost write raises, or notes the wanted scopes anew.                   *)
(***************************************************************************)
PersistEdit(x) ==
  IF slow[x].kind = "reconnect" THEN Persist(x, slow[x].got, "healthy")
  ELSE Persist(x, slow[x].token, stored.health)

WriteEdit(x) ==
  /\ slow[x].pc = "editing"
  /\ IF stored.blob = slow[x].blob THEN PersistEdit(x) /\ EndEdit(x)
     ELSE /\ \/ EndEdit(x)
             \/ slow[x].kind = "edit" /\ SlowAt(x, "loading") /\ UNCHANGED lock
          /\ UNCHANGED stored
  /\ UNCHANGED <<issued, dead, call, owner, excused, tokenFaults>>

(***************************************************************************)
(* The write of an edit raises, landed or not.                             *)
(***************************************************************************)
EditRaises(x) ==
  /\ slow[x].pc = "editing"
  /\ TokenFault
  /\ \/ PersistEdit(x) /\ UNCHANGED excused
     \/ UNCHANGED stored /\ excused' = (excused \/ slow[x].kind = "reconnect")
  /\ EndEdit(x)
  /\ UNCHANGED <<issued, dead, call, owner>>

-----------------------------------------------------------------------------
(* Time, shutdowns, crashes and the provider.                              *)

TokenExpires ==
  /\ stored.token \notin dead
  /\ dead' = dead \cup {stored.token}
  /\ UNCHANGED <<stored, issued, lock, slow, call, owner, excused, tokenFaults>>

(***************************************************************************)
(* aclose: the owner takes no more work and its task is cancelled.         *)
(***************************************************************************)
CloseOwner(p) ==
  /\ owner[p] = "live"
  /\ TokenFault
  /\ owner' = [owner EXCEPT ![p] = "closed"]
  /\ UNCHANGED <<stored, issued, dead, lock, slow, call, excused>>

Mine(p) == {x \in Replica \cup Caller : HomeOf(x) = p}

ReplicaDies(p) ==
  /\ owner[p] # "gone"
  /\ TokenFault
  /\ owner' = [owner EXCEPT ![p] = "gone"]
  /\ slow' = [x \in Slot |-> IF x \in Mine(p) THEN NoSlow ELSE slow[x]]
  /\ call' = [c \in Caller |-> IF ReplicaOf[c] = p THEN [call[c] EXCEPT !.pc = "left"]
                               ELSE call[c]]
  /\ excused' = (excused \/ \E x \in Mine(p) : slow[x].pc = "issued")
  /\ UNCHANGED <<stored, issued, dead, lock>>

Revoke ==
  /\ issued < MaxTokens
  /\ TokenFault
  /\ issued' = issued + 1
  /\ excused' = TRUE
  /\ UNCHANGED <<stored, dead, lock, slow, call, owner>>

TokenNext ==
  \/ \E c \in Caller : Resolve(c) \/ Refuse(c) \/ ForceRefresh(c) \/ CallerLeaves(c)
  \/ \E x \in Slot : Acquire(x) \/ AcquireFails(x)
  \/ \E x \in Replica \cup Caller :
       \/ Load(x) \/ Send(x) \/ StopCancelled(x) \/ Exchange(x)
       \/ WriteBack(x) \/ WriteBackRaises(x) \/ Retry(x) \/ LosesTo(x)
  \/ \E x \in Editor : StartEdit(x) \/ LoadEdit(x) \/ WriteEdit(x) \/ EditRaises(x)
  \/ \E p \in Replica : CloseOwner(p) \/ ReplicaDies(p)
  \/ TokenExpires \/ LockLapses \/ Revoke

TokenSpec == TokenInit /\ [][TokenNext]_tokenVars

-----------------------------------------------------------------------------
(* Properties.                                                             *)

SlowPc ==
  {"none", "queued", "loading", "ready", "sending", "issued", "refused", "failed", "editing"}
SlowPath ==
  [pc : SlowPc,
   kind : {"none", "resolve", "force", "edit", "reconnect"},
   sent : 0..MaxTokens, blob : Nat, token : 0..MaxTokens, got : 0..MaxTokens, tries : Nat]
Call ==
  [pc : {"idle", "owning", "inline", "joining", "served", "denied", "refused", "left"},
   token : 0..MaxTokens, sent : 0..MaxTokens]

TokenTypeOK ==
  /\ stored \in [blob : Nat, token : 1..MaxTokens, health : {"healthy", "failing", "reconnect"}]
  /\ issued \in 1..MaxTokens
  /\ dead \subseteq 1..MaxTokens
  /\ lock \in Slot \cup {Free}
  /\ owner \in [Replica -> {"live", "closed", "gone"}]
  /\ slow \in [Slot -> SlowPath]
  /\ call \in [Caller -> Call]

(***************************************************************************)
(* The record holds the grant the provider still accepts whenever nobody   *)
(* is writing the next one down: no lost caller, shutdown or concurrent    *)
(* edit drops a refresh token that was rotated.  It takes a section that   *)
(* ran without its lock, a crash, the provider's answer or a write of the  *)
(* new pair that the store failed to lose it.                              *)
(***************************************************************************)
GrantKept ==
  excused \/ stored.token = issued \/ \E x \in Slot : slow[x].got = issued

(***************************************************************************)
(* With or without the lock, a slow refresh never puts an older pair over  *)
(* a newer one.                                                            *)
(***************************************************************************)
TokensNeverGoBack == [][stored'.token >= stored.token]_tokenVars

(***************************************************************************)
(* A connection whose user has to reconnect stays so until a reconnect,    *)
(* whatever a refresh that was under way writes.                           *)
(***************************************************************************)
RevivedByReconnect ==
  [][stored.health = "reconnect" /\ stored'.health # "reconnect" =>
       \E x \in Editor : slow[x].kind = "reconnect" /\ stored'.token = slow[x].got]_tokenVars

(***************************************************************************)
(* Who forces a refresh because a token failed is never served that token  *)
(* again, nor an older one, unless a section ran without its lock.         *)
(***************************************************************************)
ForcedServesNewer ==
  \A c \in Caller : call[c].pc = "served" /\ call[c].sent # 0 =>
    excused \/ call[c].token > call[c].sent
=============================================================================
