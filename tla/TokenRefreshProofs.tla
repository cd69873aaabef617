------------------------- MODULE TokenRefreshProofs -------------------------
(***************************************************************************)
(* Theorems about the credentials of a connection, for every set of        *)
(* replicas and callers and any number of tokens and faults.  Those about  *)
(* tokens that only move forward are for one consent at a time: two        *)
(* consents that race are two grants, and the record keeps the later one.  *)
(***************************************************************************)
EXTENDS TokenRefresh, TLAPS

-----------------------------------------------------------------------------
(* The inductive invariant.                                                *)

Refresher == Replica \cup Caller
LoadedPc == {"ready", "sending", "issued", "refused", "failed", "editing"}
OneEditor == \A x, y \in Editor : x = y
Reconnecting(x) == x \in Editor /\ slow[x].kind = "reconnect" /\ slow[x].pc # "none"

(***************************************************************************)
(* Who is at what, and where the pairs that are not stored yet are.        *)
(***************************************************************************)
Fits(x) ==
  /\ x \in Refresher =>
       /\ slow[x].pc # "editing"
       /\ slow[x].pc # "none" => slow[x].kind \in {"resolve", "force"}
       /\ slow[x].pc # "issued" => slow[x].got = 0
  /\ x \in Editor =>
       /\ slow[x].pc \in {"none", "queued", "loading", "editing"}
       /\ slow[x].kind \in {"none", "edit", "reconnect"}
       /\ slow[x].pc # "none" => slow[x].kind # "none"
       /\ Reconnecting(x) => slow[x].got > 0
       /\ ~Reconnecting(x) => slow[x].got = 0

(***************************************************************************)
(* What a slow path has loaded is the record while the ciphertext is the   *)
(* one it loaded; no refresh goes on from a connection to be reconnected.  *)
(***************************************************************************)
Coherent(x) ==
  slow[x].pc \in LoadedPc =>
    /\ slow[x].blob <= stored.blob
    /\ slow[x].blob = stored.blob =>
         /\ slow[x].token = stored.token
         /\ x \in Refresher => stored.health # "reconnect"

(***************************************************************************)
(* The last pair is the newest, and the one a refresh was given is newer   *)
(* than the one it gave away for it.                                       *)
(***************************************************************************)
Older(x) ==
  /\ slow[x].token <= issued /\ slow[x].got <= issued
  /\ slow[x].pc = "issued" => slow[x].token < slow[x].got

Path(x) == Fits(x) /\ Coherent(x) /\ Older(x)

RecordInv ==
  /\ TokenTypeOK
  /\ stored.token <= issued
  /\ \A x \in Slot : Path(x)

-----------------------------------------------------------------------------
(* The steps in terms of the slots.                                        *)

LEMMA Slots ==
  /\ Refresher \subseteq Slot /\ Editor \subseteq Slot
  /\ \A x \in Slot : x \in Refresher \/ x \in Editor
  /\ \A x \in Refresher : x \notin Editor
  BY SlotAssumption DEF Slot, Refresher

(***************************************************************************)
(* A slow path goes to another pc.                                         *)
(***************************************************************************)
LEMMA SlowMoves ==
  ASSUME TokenTypeOK, NEW x \in Slot, NEW pc \in SlowPc, SlowAt(x, pc)
  PROVE  /\ slow' \in [Slot -> SlowPath]
         /\ slow'[x].pc = pc
         /\ slow'[x].kind = slow[x].kind /\ slow'[x].sent = slow[x].sent
         /\ slow'[x].blob = slow[x].blob /\ slow'[x].token = slow[x].token
         /\ slow'[x].got = slow[x].got
         /\ \A y \in Slot : y # x => slow'[y] = slow[y]
  BY DEF SlowAt, TokenTypeOK, SlowPath, SlowPc

LEMMA NoSlowIs ==
  NoSlow \in SlowPath /\ NoSlow.pc = "none" /\ NoSlow.kind = "none" /\ NoSlow.got = 0
  /\ NoSlow.token = 0
  BY TokenBoundsAssumption DEF NoSlow, SlowPath, SlowPc

LEMMA StartsIs ==
  ASSUME TokenTypeOK, NEW x \in Slot, NEW kind \in {"resolve", "force", "edit"},
         NEW sent \in 0..MaxTokens, Starts(x, kind, sent)
  PROVE  /\ slow' \in [Slot -> SlowPath]
         /\ slow'[x].pc = "queued" /\ slow'[x].kind = kind /\ slow'[x].sent = sent
         /\ slow'[x].token = 0 /\ slow'[x].got = 0
         /\ \A y \in Slot : y # x => slow'[y] = slow[y]
<1> DEFINE new == [NoSlow EXCEPT !.pc = "queued", !.kind = kind, !.sent = sent]
<1>1. /\ new \in SlowPath
      /\ new.pc = "queued" /\ new.kind = kind /\ new.sent = sent /\ new.token = 0 /\ new.got = 0
  BY NoSlowIs DEF SlowPath, SlowPc
<1>2. slow' = [slow EXCEPT ![x] = new]
  BY DEF Starts
<1> HIDE DEF new
<1> QED
  BY <1>1, <1>2 DEF TokenTypeOK

LEMMA LoadedIs ==
  ASSUME TokenTypeOK, NEW x \in Slot, NEW pc \in SlowPc, Loaded(x, pc)
  PROVE  /\ slow' \in [Slot -> SlowPath]
         /\ slow'[x].pc = pc
         /\ slow'[x].kind = slow[x].kind /\ slow'[x].sent = slow[x].sent
         /\ slow'[x].blob = stored.blob /\ slow'[x].token = stored.token
         /\ slow'[x].got = slow[x].got
         /\ \A y \in Slot : y # x => slow'[y] = slow[y]
<1>1. stored.blob \in Nat /\ stored.token \in 0..MaxTokens
  BY TokenBoundsAssumption DEF TokenTypeOK
<1>2. slow[x] \in SlowPath
  BY DEF TokenTypeOK
<1> DEFINE new == [slow[x] EXCEPT !.pc = pc, !.blob = stored.blob, !.token = stored.token]
<1>3. slow' = [slow EXCEPT ![x] = new]
  BY DEF Loaded, TokenTypeOK
<1>4. /\ new \in SlowPath
      /\ new.pc = pc /\ new.kind = slow[x].kind /\ new.sent = slow[x].sent
      /\ new.blob = stored.blob /\ new.token = stored.token /\ new.got = slow[x].got
  BY <1>1, <1>2 DEF SlowPath
<1> HIDE DEF new
<1> QED
  BY <1>3, <1>4 DEF TokenTypeOK

LEMMA FinishIs ==
  ASSUME TokenTypeOK, NEW x \in Slot, NEW pc \in {"served", "denied"}, NEW token \in 0..MaxTokens,
         Finish(x, pc, token)
  PROVE  /\ slow' \in [Slot -> SlowPath]
         /\ slow'[x] = NoSlow
         /\ \A y \in Slot : y # x => slow'[y] = slow[y]
         /\ lock' = IF lock = x THEN Free ELSE lock
         /\ lock' \in Slot \cup {Free}
         /\ call' \in [Caller -> Call]
         /\ \A c \in Caller :
              /\ call'[c].sent = call[c].sent
              /\ \/ /\ Reaches(c, x) /\ call[c].pc \in {"owning", "inline"}
                    /\ call'[c].pc = pc /\ call'[c].token = token
                 \/ /\ x = ReplicaOf[c] /\ call[c].pc = "joining"
                    /\ call'[c].pc = Again(c) /\ call'[c].token = call[c].token
                 \/ /\ ~(Reaches(c, x) /\ call[c].pc \in {"owning", "inline"})
                    /\ call'[c] = call[c]
<1>1. slow' \in [Slot -> SlowPath] /\ slow'[x] = NoSlow
      /\ \A y \in Slot : y # x => slow'[y] = slow[y]
  BY NoSlowIs DEF Finish, TokenTypeOK
<1>2. lock' = (IF lock = x THEN Free ELSE lock) /\ lock' \in Slot \cup {Free}
  BY DEF Finish, TokenTypeOK
<1>3. ASSUME NEW c \in Caller
      PROVE  /\ call'[c] \in Call
             /\ call'[c].sent = call[c].sent
             /\ \/ /\ Reaches(c, x) /\ call[c].pc \in {"owning", "inline"}
                   /\ call'[c].pc = pc /\ call'[c].token = token
                \/ /\ x = ReplicaOf[c] /\ call[c].pc = "joining"
                   /\ call'[c].pc = Again(c) /\ call'[c].token = call[c].token
                \/ /\ ~(Reaches(c, x) /\ call[c].pc \in {"owning", "inline"})
                   /\ call'[c] = call[c]
  <2>1. call[c] \in Call
    BY DEF TokenTypeOK
  <2>2. CASE Reaches(c, x) /\ call[c].pc \in {"owning", "inline"}
    <3>1. call'[c] = [call[c] EXCEPT !.pc = pc, !.token = token]
      BY <2>2 DEF Finish
    <3> QED
      BY <2>1, <2>2, <3>1 DEF Call
  <2>3. CASE /\ ~(Reaches(c, x) /\ call[c].pc \in {"owning", "inline"})
             /\ x = ReplicaOf[c] /\ call[c].pc = "joining"
    <3>1. call'[c] = [call[c] EXCEPT !.pc = Again(c)]
      BY <2>3 DEF Finish
    <3>2. Again(c) \in {"idle", "refused"}
      BY DEF Again
    <3> QED
      BY <2>1, <2>3, <3>1, <3>2 DEF Call
  <2>4. CASE /\ ~(Reaches(c, x) /\ call[c].pc \in {"owning", "inline"})
             /\ ~(x = ReplicaOf[c] /\ call[c].pc = "joining")
    <3>1. call'[c] = call[c]
      BY <2>4 DEF Finish
    <3> QED
      BY <2>1, <2>4, <3>1
  <2> QED
    BY <2>2, <2>3, <2>4
<1>4. call' \in [Caller -> Call]
  <2>1. call' = [c \in Caller |-> call'[c]]
    BY DEF Finish
  <2> QED
    BY <1>3, <2>1
<1> QED
  BY <1>1, <1>2, <1>3, <1>4

(***************************************************************************)
(* A caller that hands over starts a slow path that was not under way, or  *)
(* joins the one of its process.                                           *)
(***************************************************************************)
LEMMA HandOverIs ==
  ASSUME TokenTypeOK, NEW c \in Caller, NEW kind \in {"resolve", "force"}, HandOver(c, kind)
  PROVE  /\ call' \in [Caller -> Call]
         /\ call'[c].sent = call[c].sent /\ call'[c].token = call[c].token
         /\ \A d \in Caller : d # c => call'[d] = call[d]
         /\ \/ call'[c].pc = "inline" /\ Starts(c, kind, call[c].sent)
            \/ /\ call'[c].pc = "owning" /\ slow[ReplicaOf[c]].pc = "none"
               /\ Starts(ReplicaOf[c], kind, call[c].sent)
            \/ call'[c].pc = "joining" /\ UNCHANGED slow
<1> DEFINE p == ReplicaOf[c]
           wait == CASE owner[p] # "live" -> "inline"
                     [] owner[p] = "live" /\ slow[p].pc = "none" -> "owning"
                     [] OTHER -> "joining"
<1>1. call' = [call EXCEPT ![c].pc = wait]
  BY DEF HandOver
<1>2. wait \in {"inline", "owning", "joining"}
  OBVIOUS
<1>3. (CASE wait = "inline" -> Starts(c, kind, call[c].sent)
         [] wait = "owning" -> Starts(p, kind, call[c].sent)
         [] OTHER -> UNCHANGED slow)
  BY DEF HandOver
<1>4. wait = "owning" => slow[p].pc = "none"
  OBVIOUS
<1> HIDE DEF wait
<1>5. /\ call' \in [Caller -> Call]
      /\ call'[c].pc = wait
      /\ call'[c].sent = call[c].sent /\ call'[c].token = call[c].token
      /\ \A d \in Caller : d # c => call'[d] = call[d]
  BY <1>1, <1>2 DEF TokenTypeOK, Call
<1>6. \/ wait = "inline" /\ Starts(c, kind, call[c].sent)
      \/ wait = "owning" /\ Starts(p, kind, call[c].sent)
      \/ wait = "joining" /\ UNCHANGED slow
  BY <1>2, <1>3
<1> QED
  BY <1>4, <1>5, <1>6

LEMMA EndEditIs ==
  ASSUME TokenTypeOK, NEW x \in Slot, EndEdit(x)
  PROVE  /\ slow' \in [Slot -> SlowPath]
         /\ slow'[x].pc = "none" /\ slow'[x].kind = slow[x].kind
         /\ slow'[x].token = 0 /\ slow'[x].got = 0
         /\ \A y \in Slot : y # x => slow'[y] = slow[y]
         /\ lock' = IF lock = x THEN Free ELSE lock
         /\ lock' \in Slot \cup {Free}
  BY TokenBoundsAssumption DEF EndEdit, TokenTypeOK, NoSlow, SlowPath, SlowPc

LEMMA CallField ==
  ASSUME TokenTypeOK, NEW c \in Caller
  PROVE  call[c].sent \in 0..MaxTokens /\ call[c].token \in 0..MaxTokens
  BY DEF TokenTypeOK, Call

(***************************************************************************)
(* A caller is served the stored token, or has its token refused.          *)
(***************************************************************************)
Serves(c, token) == call' = [call EXCEPT ![c].pc = "served", ![c].token = token]

LEMMA ServedIs ==
  ASSUME TokenTypeOK, NEW c \in Caller, NEW token \in 0..MaxTokens, Serves(c, token)
  PROVE  /\ call' \in [Caller -> Call]
         /\ call'[c].pc = "served" /\ call'[c].token = token /\ call'[c].sent = call[c].sent
         /\ \A d \in Caller : d # c => call'[d] = call[d]
<1> DEFINE new == [call[c] EXCEPT !.pc = "served", !.token = token]
<1>1. call[c] \in Call
  BY DEF TokenTypeOK
<1>2. call' = [call EXCEPT ![c] = new]
  BY DEF Serves, TokenTypeOK
<1>3. new \in Call /\ new.pc = "served" /\ new.token = token /\ new.sent = call[c].sent
  BY <1>1 DEF Call
<1> HIDE DEF new
<1> QED
  BY <1>2, <1>3 DEF TokenTypeOK

LEMMA RefusedIs ==
  ASSUME TokenTypeOK, NEW c \in Caller, Refuse(c)
  PROVE  /\ call' \in [Caller -> Call]
         /\ call'[c].pc = "refused" /\ call'[c].token = call[c].token
         /\ call'[c].sent = call[c].token
         /\ \A d \in Caller : d # c => call'[d] = call[d]
<1> DEFINE new == [call[c] EXCEPT !.pc = "refused", !.sent = call[c].token]
<1>1. call[c] \in Call
  BY DEF TokenTypeOK
<1>2. call' = [call EXCEPT ![c] = new]
  BY DEF Refuse, TokenTypeOK
<1>3. /\ new \in Call /\ new.pc = "refused" /\ new.token = call[c].token
      /\ new.sent = call[c].token
  BY <1>1 DEF Call
<1> HIDE DEF new
<1> QED
  BY <1>2, <1>3 DEF TokenTypeOK

-----------------------------------------------------------------------------
(* The record and the slow paths.                                          *)

(***************************************************************************)
(* A slow path that stays is not upset by another write of the record nor  *)
(* by another pair.                                                        *)
(***************************************************************************)
LEMMA PathStays ==
  ASSUME RecordInv, TokenTypeOK', NEW y \in Slot, slow'[y] = slow[y], issued' >= issued,
         stored' = stored \/ stored'.blob = stored.blob + 1
  PROVE  Path(y)'
<1>1. Path(y) /\ slow[y] \in SlowPath
  BY DEF RecordInv, TokenTypeOK
<1>2. Fits(y)'
  BY <1>1 DEF Path, Fits, Reconnecting
<1>3. Coherent(y)'
  <2>1. stored.blob \in Nat /\ slow[y].blob \in Nat
    BY <1>1 DEF RecordInv, TokenTypeOK, SlowPath
  <2> QED
    BY <1>1, <2>1 DEF Path, Coherent
<1>4. Older(y)'
  <2>1. slow[y].token \in Nat /\ slow[y].got \in Nat /\ issued \in Nat /\ issued' \in Nat
    BY <1>1, TokenBoundsAssumption DEF RecordInv, TokenTypeOK, SlowPath
  <2> QED
    BY <1>1, <2>1 DEF Path, Older
<1> QED
  BY <1>2, <1>3, <1>4 DEF Path

LEMMA NoSlowPath ==
  ASSUME TokenTypeOK', NEW y \in Slot,
         slow'[y].pc \in {"none", "queued"}, slow'[y].token = 0, slow'[y].got = 0,
         \/ slow'[y].pc = "none" /\ (y \in Editor => slow'[y].kind \in {"none", "edit", "reconnect"})
         \/ y \in Refresher /\ slow'[y].kind \in {"resolve", "force"}
         \/ y \in Editor /\ slow'[y].kind = "edit"
  PROVE  Path(y)'
<1>1. issued' >= 0 /\ issued' \in Nat
  BY TokenBoundsAssumption DEF TokenTypeOK
<1> QED
  BY <1>1, Slots DEF Path, Fits, Coherent, Older, Reconnecting, LoadedPc

LEMMA CallersKeepRecord ==
  ASSUME RecordInv, NEW c \in Caller,
         Resolve(c) \/ Refuse(c) \/ ForceRefresh(c) \/ CallerLeaves(c)
  PROVE  RecordInv'
<1> USE DEF RecordInv
<1>1. UNCHANGED <<stored, issued, dead, lock, owner>>
  BY DEF Resolve, Refuse, ForceRefresh, CallerLeaves
<1>2. stored.token \in 0..MaxTokens /\ issued \in Nat
  BY TokenBoundsAssumption DEF TokenTypeOK
<1>3. call[c].sent \in 0..MaxTokens
  BY CallField
<1>4. ASSUME NEW kind \in {"resolve", "force"}, HandOver(c, kind)
      PROVE  RecordInv'
  <2>1. \/ \E x \in Refresher : Starts(x, kind, call[c].sent)
        \/ UNCHANGED slow
    BY <1>4, HandOverIs, ReplicaOfAssumption DEF Refresher
  <2>2. call' \in [Caller -> Call]
    BY <1>4, HandOverIs
  <2>3. ASSUME NEW x \in Refresher, Starts(x, kind, call[c].sent)
        PROVE  RecordInv'
    <3>1. x \in Slot
      BY Slots
    <3>2. /\ slow' \in [Slot -> SlowPath]
          /\ slow'[x].pc = "queued" /\ slow'[x].kind = kind
          /\ slow'[x].token = 0 /\ slow'[x].got = 0
          /\ \A y \in Slot : y # x => slow'[y] = slow[y]
      BY <1>3, <2>3, <3>1, StartsIs
    <3>3. TokenTypeOK'
      BY <1>1, <2>2, <3>2 DEF TokenTypeOK
    <3>4. Path(x)'
      BY <3>1, <3>2, <3>3, NoSlowPath
    <3>5. ASSUME NEW y \in Slot, y # x PROVE Path(y)'
      BY <1>1, <1>2, <3>2, <3>3, <3>5, PathStays
    <3> QED
      BY <1>1, <3>3, <3>4, <3>5
  <2>4. CASE UNCHANGED slow
    <3>1. TokenTypeOK'
      BY <1>1, <2>2, <2>4 DEF TokenTypeOK
    <3>2. ASSUME NEW y \in Slot PROVE Path(y)'
      BY <1>1, <1>2, <2>4, <3>1, PathStays
    <3> QED
      BY <1>1, <3>1, <3>2
  <2> QED
    BY <2>1, <2>3, <2>4
<1>5. ASSUME UNCHANGED slow, call' \in [Caller -> Call]
      PROVE  RecordInv'
  <2>1. TokenTypeOK'
    BY <1>1, <1>5 DEF TokenTypeOK
  <2>2. ASSUME NEW y \in Slot PROVE Path(y)'
    BY <1>1, <1>2, <1>5, <2>1, PathStays
  <2> QED
    BY <1>1, <2>1, <2>2
<1>6. CASE Resolve(c)
  <2>1. \/ HandOver(c, "resolve")
        \/ /\ UNCHANGED slow
           /\ \/ call' = [call EXCEPT ![c].pc = "denied"]
              \/ Serves(c, stored.token)
    BY <1>6 DEF Resolve, Serves
  <2>2. ASSUME call' = [call EXCEPT ![c].pc = "denied"] PROVE call' \in [Caller -> Call]
    BY <2>2 DEF TokenTypeOK, Call
  <2>3. ASSUME Serves(c, stored.token)
        PROVE  call' \in [Caller -> Call]
    BY <1>2, <2>3, ServedIs
  <2> QED
    BY <1>4, <1>5, <2>1, <2>2, <2>3
<1>7. CASE Refuse(c)
  <2>1. call' \in [Caller -> Call]
    BY <1>7, RefusedIs
  <2> QED
    BY <1>5, <1>7, <2>1 DEF Refuse
<1>8. CASE ForceRefresh(c)
  BY <1>4, <1>8 DEF ForceRefresh
<1>9. CASE CallerLeaves(c)
  <2>1. call' \in [Caller -> Call]
    BY <1>9 DEF CallerLeaves, TokenTypeOK, Call
  <2> QED
    BY <1>5, <1>9, <2>1 DEF CallerLeaves
<1> QED
  BY <1>6, <1>7, <1>8, <1>9

(***************************************************************************)
(* One slow path moves.                                                    *)
(***************************************************************************)
LEMMA OnePathMoves ==
  ASSUME RecordInv, TokenTypeOK', NEW x \in Slot,
         \A y \in Slot : y # x => slow'[y] = slow[y],
         issued' >= issued, stored' = stored \/ stored'.blob = stored.blob + 1,
         stored'.token <= issued', Path(x)'
  PROVE  RecordInv'
<1>1. ASSUME NEW y \in Slot, y # x PROVE Path(y)'
  BY <1>1, PathStays
<1> QED
  BY <1>1 DEF RecordInv

LEMMA Numbers ==
  ASSUME RecordInv
  PROVE  /\ stored.token \in 1..MaxTokens /\ stored.blob \in Nat /\ issued \in 1..MaxTokens
         /\ stored.health \in {"healthy", "failing", "reconnect"}
         /\ \A x \in Slot :
              /\ slow[x].pc \in SlowPc /\ slow[x].token \in 0..MaxTokens
              /\ slow[x].got \in 0..MaxTokens /\ slow[x].blob \in Nat
              /\ slow[x].sent \in 0..MaxTokens
  BY TokenBoundsAssumption DEF RecordInv, TokenTypeOK, SlowPath

(***************************************************************************)
(* A slow path ends, and the record is as it was or newly written.         *)
(***************************************************************************)
LEMMA FinishKeepsRecord ==
  ASSUME RecordInv, NEW x \in Refresher, NEW pc \in {"served", "denied"},
         NEW token \in 0..MaxTokens, Finish(x, pc, token),
         UNCHANGED <<issued, dead, owner>>,
         stored' \in [blob : Nat, token : 1..MaxTokens,
                      health : {"healthy", "failing", "reconnect"}],
         stored' = stored \/ stored'.blob = stored.blob + 1,
         stored'.token <= issued
  PROVE  RecordInv'
<1>1. x \in Slot /\ TokenTypeOK
  BY Slots DEF RecordInv
<1>2. /\ slow' \in [Slot -> SlowPath] /\ slow'[x] = NoSlow
      /\ \A y \in Slot : y # x => slow'[y] = slow[y]
      /\ lock' \in Slot \cup {Free} /\ call' \in [Caller -> Call]
  BY <1>1, FinishIs
<1>3. TokenTypeOK'
  BY <1>1, <1>2 DEF TokenTypeOK
<1>4. Path(x)'
  BY <1>1, <1>2, <1>3, NoSlowIs, NoSlowPath
<1>5. issued' >= issued
  BY Numbers
<1> QED
  BY <1>1, <1>2, <1>3, <1>4, <1>5, OnePathMoves

(***************************************************************************)
(* A slow path goes on, and nothing but pairs and the key change with it.  *)
(***************************************************************************)
LEMMA MoveKeepsRecord ==
  ASSUME RecordInv, NEW x \in Slot,
         slow' \in [Slot -> SlowPath], \A y \in Slot : y # x => slow'[y] = slow[y],
         issued' \in 1..MaxTokens, issued' >= issued,
         lock' \in Slot \cup {Free}, call' \in [Caller -> Call],
         UNCHANGED <<stored, dead, owner>>, Path(x)'
  PROVE  RecordInv'
<1>1. TokenTypeOK'
  BY DEF RecordInv, TokenTypeOK
<1>2. stored'.token <= issued'
  BY Numbers DEF RecordInv
<1> QED
  BY <1>1, <1>2, OnePathMoves

(***************************************************************************)
(* The next pair is issued to a refresh; a refresh is tried again; what a  *)
(* refresh writes back.                                                    *)
(***************************************************************************)
IssuesTo(x) == slow' = [slow EXCEPT ![x].pc = "issued", ![x].got = issued + 1]

LEMMA IssuedIs ==
  ASSUME TokenTypeOK, NEW x \in Slot, IssuesTo(x), issued < MaxTokens
  PROVE  /\ slow' \in [Slot -> SlowPath] /\ slow'[x].pc = "issued"
         /\ slow'[x].kind = slow[x].kind /\ slow'[x].sent = slow[x].sent
         /\ slow'[x].got = issued + 1
         /\ slow'[x].blob = slow[x].blob /\ slow'[x].token = slow[x].token
         /\ \A y \in Slot : y # x => slow'[y] = slow[y]
<1> DEFINE new == [slow[x] EXCEPT !.pc = "issued", !.got = issued + 1]
<1>1. slow[x] \in SlowPath /\ issued + 1 \in 0..MaxTokens
  BY TokenBoundsAssumption DEF TokenTypeOK
<1>2. slow' = [slow EXCEPT ![x] = new]
  BY DEF IssuesTo, TokenTypeOK
<1>3. /\ new \in SlowPath /\ new.pc = "issued" /\ new.kind = slow[x].kind
      /\ new.sent = slow[x].sent /\ new.got = issued + 1 /\ new.blob = slow[x].blob
      /\ new.token = slow[x].token
  BY <1>1 DEF SlowPath, SlowPc
<1> HIDE DEF new
<1> QED
  BY <1>2, <1>3 DEF TokenTypeOK

LEMMA RetryIs ==
  ASSUME TokenTypeOK, NEW x \in Slot, Retry(x)
  PROVE  /\ slow' \in [Slot -> SlowPath] /\ slow'[x].pc = "ready"
         /\ slow'[x].kind = slow[x].kind /\ slow'[x].sent = slow[x].sent
         /\ slow'[x].got = slow[x].got
         /\ slow'[x].blob = slow[x].blob /\ slow'[x].token = slow[x].token
         /\ \A y \in Slot : y # x => slow'[y] = slow[y]
<1> DEFINE new == [slow[x] EXCEPT !.pc = "ready", !.tries = slow[x].tries + 1]
<1>1. slow[x] \in SlowPath /\ slow[x].tries + 1 \in Nat
  BY DEF TokenTypeOK, SlowPath
<1>2. slow' = [slow EXCEPT ![x] = new]
  BY DEF Retry, TokenTypeOK
<1>3. /\ new \in SlowPath /\ new.pc = "ready" /\ new.kind = slow[x].kind
      /\ new.sent = slow[x].sent /\ new.got = slow[x].got /\ new.blob = slow[x].blob
      /\ new.token = slow[x].token
  BY <1>1 DEF SlowPath, SlowPc
<1> HIDE DEF new
<1> QED
  BY <1>2, <1>3 DEF TokenTypeOK

(***************************************************************************)
(* What an answer writes, and the writes that raise.                       *)
(***************************************************************************)
LEMMA AnswerIs ==
  ASSUME NEW x \in Refresher, Answered(x)
  PROVE  /\ slow[x].pc \in LoadedPc /\ slow[x].pc # "none"
         /\ slow[x].pc \in {"issued", "refused", "failed"}
  BY DEF Answered, LoadedPc

LEMMA PersistAnswerIs ==
  ASSUME NEW x \in Refresher, Answered(x), PersistAnswer(x)
  PROVE  /\ stored.blob = slow[x].blob
         /\ \/ slow[x].pc = "issued" /\ Persist(x, slow[x].got, "healthy")
            \/ /\ slow[x].pc # "issued"
               /\ \E health \in {"reconnect", "failing"} : Persist(x, slow[x].token, health)
<1>1. slow[x].pc \in {"issued", "refused", "failed"}
  BY AnswerIs
<1>2. CASE slow[x].pc = "issued"
  BY <1>2 DEF PersistAnswer, Persist
<1>3. CASE slow[x].pc = "refused"
  BY <1>3 DEF PersistAnswer, Persist
<1>4. CASE slow[x].pc = "failed"
  BY <1>4 DEF PersistAnswer, Persist
<1> QED
  BY <1>1, <1>2, <1>3, <1>4

LEMMA WriteBackRaisesIs ==
  ASSUME NEW x \in Refresher, WriteBackRaises(x)
  PROVE  /\ Answered(x) /\ Finish(x, "denied", 0) /\ UNCHANGED <<issued, dead, owner>>
         /\ \/ PersistAnswer(x)
            \/ UNCHANGED stored /\ (slow[x].pc = "issued" => excused')
  BY Zenon DEF WriteBackRaises

LEMMA EditRaisesIs ==
  ASSUME NEW x \in Editor, EditRaises(x)
  PROVE  /\ slow[x].pc = "editing" /\ EndEdit(x) /\ UNCHANGED <<issued, dead, call, owner>>
         /\ \/ PersistEdit(x)
            \/ UNCHANGED stored /\ (slow[x].kind = "reconnect" => excused')
  BY Zenon DEF EditRaises

LEMMA EditWrites ==
  ASSUME RecordInv, NEW x \in Editor, slow[x].pc = "editing", PersistEdit(x)
  PROVE  \/ /\ slow[x].kind = "reconnect"
            /\ stored' = [blob |-> stored.blob + 1, token |-> slow[x].got, health |-> "healthy"]
         \/ /\ slow[x].kind # "reconnect"
            /\ stored' = [blob |-> stored.blob + 1, token |-> stored.token,
                           health |-> stored.health]
<1>1. x \in Slot
  BY Slots
<1>2. stored.blob = slow[x].blob
  BY DEF PersistEdit, Persist
<1>3. slow[x].token = stored.token
  BY <1>1, <1>2 DEF RecordInv, Path, Coherent, LoadedPc
<1> QED
  BY <1>3 DEF PersistEdit, Persist

LEMMA AnswerWrites ==
  ASSUME RecordInv, NEW x \in Refresher, Answered(x), PersistAnswer(x)
  PROVE  /\ \E t \in 1..MaxTokens, health \in {"healthy", "failing", "reconnect"} :
              t <= issued /\ Persist(x, t, health)
         /\ slow[x].pc = "issued" => slow[x].got \in 0..MaxTokens
<1>1. x \in Slot /\ stored.blob = slow[x].blob /\ slow[x].pc \in LoadedPc
  BY Slots, AnswerIs, PersistAnswerIs
<1>2. slow[x].token = stored.token
  BY <1>1 DEF RecordInv, Path, Coherent
<1>3. slow[x].token \in 1..MaxTokens /\ slow[x].token <= issued /\ 0 \in 0..MaxTokens
  BY <1>1, <1>2, Numbers, TokenBoundsAssumption DEF RecordInv, Path, Older
<1>4. slow[x].pc = "issued" => slow[x].got \in 1..MaxTokens /\ slow[x].got <= issued
  BY <1>1, <1>3, Numbers DEF RecordInv, Path, Older
<1>5. slow[x].pc = "issued" => slow[x].got \in 0..MaxTokens
  BY <1>4
<1> QED
  BY <1>3, <1>4, <1>5, PersistAnswerIs

LEMMA BackWrites ==
  ASSUME RecordInv, NEW x \in Refresher, WriteBack(x)
  PROVE  \E token \in 0..MaxTokens, pc \in {"served", "denied"}, t \in 1..MaxTokens,
            health \in {"healthy", "failing", "reconnect"} :
           t <= issued /\ Persist(x, t, health) /\ Finish(x, pc, token)
<1>1. Answered(x) /\ PersistAnswer(x)
  BY DEF WriteBack
<1>2. PICK t \in 1..MaxTokens, health \in {"healthy", "failing", "reconnect"} :
        t <= issued /\ Persist(x, t, health)
  BY <1>1, AnswerWrites
<1>3. \/ slow[x].pc = "issued" /\ Finish(x, "served", slow[x].got)
      \/ Finish(x, "denied", 0)
  BY DEF WriteBack
<1>4. 0 \in 0..MaxTokens /\ (slow[x].pc = "issued" => slow[x].got \in 0..MaxTokens)
  BY <1>1, AnswerWrites, TokenBoundsAssumption
<1> QED
  BY <1>2, <1>3, <1>4

Reconnects(x) ==
  slow' = [slow EXCEPT ![x] = [NoSlow EXCEPT !.pc = "queued", !.kind = "reconnect",
                                              !.got = issued + 1]]

LEMMA ReconnectsIs ==
  ASSUME TokenTypeOK, NEW x \in Slot, Reconnects(x), issued < MaxTokens
  PROVE  /\ slow' \in [Slot -> SlowPath] /\ slow'[x].pc = "queued"
         /\ slow'[x].kind = "reconnect" /\ slow'[x].token = 0 /\ slow'[x].got = issued + 1
         /\ \A y \in Slot : y # x => slow'[y] = slow[y]
<1> DEFINE new == [NoSlow EXCEPT !.pc = "queued", !.kind = "reconnect", !.got = issued + 1]
<1>1. issued + 1 \in 0..MaxTokens
  BY TokenBoundsAssumption DEF TokenTypeOK
<1>2. slow' = [slow EXCEPT ![x] = new]
  BY DEF Reconnects
<1>3. /\ new \in SlowPath /\ new.pc = "queued" /\ new.kind = "reconnect" /\ new.token = 0
      /\ new.got = issued + 1
  BY <1>1, NoSlowIs DEF SlowPath, SlowPc
<1> HIDE DEF new
<1> QED
  BY <1>2, <1>3 DEF TokenTypeOK

LEMMA CallsOfTheDead ==
  ASSUME TokenTypeOK, NEW p \in Replica, ReplicaDies(p)
  PROVE  /\ call' \in [Caller -> Call]
         /\ \A c \in Caller : call'[c].sent = call[c].sent
         /\ \A c \in Caller : call'[c] = call[c] \/ call'[c].pc = "left"
         /\ \A c \in Caller : ReplicaOf[c] = p => call'[c].pc = "left"
<1>1. call' = [c \in Caller |-> IF ReplicaOf[c] = p THEN [call[c] EXCEPT !.pc = "left"]
                                ELSE call[c]]
  BY DEF ReplicaDies
<1>2. \A c \in Caller : call[c] \in Call
  BY DEF TokenTypeOK
<1>3. ASSUME NEW c \in Caller
      PROVE  /\ call'[c] \in Call /\ call'[c].sent = call[c].sent
             /\ call'[c] = call[c] \/ call'[c].pc = "left"
             /\ ReplicaOf[c] = p => call'[c].pc = "left"
  BY <1>1, <1>2 DEF Call
<1>4. call' \in [Caller -> Call]
  <2>1. call' = [c \in Caller |-> call'[c]]
    BY <1>1
  <2> QED
    BY <1>3, <2>1
<1> QED
  BY <1>3, <1>4

LEMMA SlotsKeepRecord ==
  ASSUME RecordInv, NEW x \in Slot, Acquire(x) \/ AcquireFails(x)
  PROVE  RecordInv'
<1>1. SlowAt(x, "loading") /\ "loading" \in SlowPc /\ TokenTypeOK
  BY DEF Acquire, AcquireFails, SlowPc, RecordInv
<1>2. /\ slow' \in [Slot -> SlowPath] /\ slow'[x].pc = "loading"
      /\ slow'[x].kind = slow[x].kind /\ slow'[x].token = slow[x].token
      /\ slow'[x].got = slow[x].got
      /\ \A y \in Slot : y # x => slow'[y] = slow[y]
  BY <1>1, SlowMoves
<1>3. slow[x].pc = "queued" /\ UNCHANGED <<stored, issued, dead, call, owner>>
      /\ lock' \in Slot \cup {Free}
  BY <1>1 DEF Acquire, AcquireFails, TokenTypeOK
<1>4. Path(x)'
  BY <1>2, <1>3 DEF RecordInv, Path, Fits, Coherent, Older, Reconnecting, LoadedPc
<1>5. issued' \in 1..MaxTokens /\ issued' >= issued /\ call' \in [Caller -> Call]
  BY <1>1, <1>3, Numbers DEF TokenTypeOK
<1> QED
  BY <1>2, <1>3, <1>4, <1>5, MoveKeepsRecord

LEMMA RefreshersKeepRecord ==
  ASSUME RecordInv, NEW x \in Refresher,
         \/ Load(x) \/ Send(x) \/ StopCancelled(x) \/ Exchange(x)
         \/ WriteBack(x) \/ WriteBackRaises(x) \/ Retry(x) \/ LosesTo(x)
  PROVE  RecordInv'
<1>1. x \in Slot /\ x \notin Editor /\ TokenTypeOK
  BY Slots DEF RecordInv
<1>2. /\ stored \in [blob : Nat, token : 1..MaxTokens,
                     health : {"healthy", "failing", "reconnect"}]
      /\ issued \in 1..MaxTokens
      /\ lock \in Slot \cup {Free} /\ call \in [Caller -> Call]
  BY <1>1 DEF TokenTypeOK
<1>3. stored.token \in 0..MaxTokens /\ stored.token <= issued /\ 0 \in 0..MaxTokens
  BY Numbers, TokenBoundsAssumption DEF RecordInv
<1>4. Path(x)
  BY <1>1 DEF RecordInv
<1>5. ASSUME NEW token \in 0..MaxTokens, NEW pc \in {"served", "denied"},
             Finish(x, pc, token), UNCHANGED <<stored, issued, dead, owner>>
      PROVE  RecordInv'
  BY <1>2, <1>3, <1>5, FinishKeepsRecord
<1>6. ASSUME NEW pc \in {"ready", "sending", "refused", "failed"}, SlowAt(x, pc),
             slow[x].pc \in {"ready", "sending"},
             issued' \in 1..MaxTokens, issued' >= issued,
             UNCHANGED <<stored, dead, lock, call, owner>>
      PROVE  RecordInv'
  <2>1. /\ slow' \in [Slot -> SlowPath] /\ slow'[x].pc = pc
        /\ slow'[x].kind = slow[x].kind /\ slow'[x].token = slow[x].token
        /\ slow'[x].got = slow[x].got /\ slow'[x].blob = slow[x].blob
        /\ \A y \in Slot : y # x => slow'[y] = slow[y]
    BY <1>1, <1>6, SlowMoves DEF SlowPc
  <2>2. slow[x].token <= issued' /\ slow[x].got <= issued'
    BY <1>1, <1>4, <1>6, Numbers DEF Path, Older
  <2>3. Path(x)'
    BY <1>1, <1>4, <1>6, <2>1, <2>2 DEF Path, Fits, Coherent, Older, LoadedPc
  <2> QED
    BY <1>1, <1>2, <1>6, <2>1, <2>3, MoveKeepsRecord
<1>7. CASE Load(x)
  <2>1. \/ Finish(x, "denied", 0)
        \/ Finish(x, "served", stored.token)
        \/ stored.health # "reconnect" /\ Going(x, "ready")
    BY <1>7 DEF Load
  <2>2. UNCHANGED <<stored, issued, dead, owner>> /\ slow[x].pc = "loading"
    BY <1>7 DEF Load
  <2>3. ASSUME stored.health # "reconnect", Going(x, "ready") PROVE RecordInv'
    <3>1. /\ slow' \in [Slot -> SlowPath] /\ slow'[x].pc = "ready"
          /\ slow'[x].kind = slow[x].kind /\ slow'[x].got = slow[x].got
          /\ slow'[x].blob = stored.blob /\ slow'[x].token = stored.token
          /\ \A y \in Slot : y # x => slow'[y] = slow[y]
      BY <1>1, <2>3, LoadedIs DEF Going, SlowPc
    <3>2. UNCHANGED <<lock, call>>
      BY <2>3 DEF Going
    <3>3. Path(x)'
      BY <1>1, <1>3, <1>4, <2>2, <2>3, <3>1, Numbers DEF Path, Fits, Coherent, Older, LoadedPc
    <3>4. issued' >= issued
      BY <2>2, Numbers
    <3> QED
      BY <1>1, <1>2, <2>2, <3>1, <3>2, <3>3, <3>4, MoveKeepsRecord
  <2> QED
    BY <1>3, <1>5, <2>1, <2>2, <2>3
<1>8. CASE Send(x)
  <2>1. issued' >= issued
    BY <1>8, Numbers DEF Send
  <2> QED
    BY <1>2, <1>6, <1>8, <2>1 DEF Send
<1>9. CASE StopCancelled(x)
  BY <1>3, <1>5, <1>9 DEF StopCancelled
<1>10. CASE Exchange(x)
  <2>1. slow[x].pc = "sending" /\ UNCHANGED <<stored, dead, lock, call, owner>>
    BY <1>10 DEF Exchange
  <2>2. CASE UNCHANGED issued
    <3>1. \E pc \in {"failed", "refused"} : SlowAt(x, pc)
      <4>1. issued + 1 # issued
        BY <1>2
      <4> QED
        BY <1>10, <2>2, <4>1 DEF Exchange
    <3>2. issued' >= issued
      BY <2>2, Numbers
    <3> QED
      BY <1>2, <1>6, <2>1, <2>2, <3>1, <3>2
  <2>3. CASE ~UNCHANGED issued
    <3>1. /\ slow[x].token = issued /\ issued < MaxTokens /\ issued' = issued + 1
          /\ \/ slow' = [slow EXCEPT ![x].pc = "issued", ![x].got = issued + 1]
             \/ SlowAt(x, "failed")
      BY <1>10, <2>3 DEF Exchange
    <3>2. issued' \in 1..MaxTokens /\ issued' >= issued
      BY <1>2, <3>1, TokenBoundsAssumption
    <3>3. CASE SlowAt(x, "failed")
      BY <1>6, <2>1, <3>2, <3>3
    <3>4. CASE slow' = [slow EXCEPT ![x].pc = "issued", ![x].got = issued + 1]
      <4>1. /\ slow' \in [Slot -> SlowPath] /\ slow'[x].pc = "issued"
            /\ slow'[x].kind = slow[x].kind /\ slow'[x].got = issued + 1
            /\ slow'[x].blob = slow[x].blob /\ slow'[x].token = slow[x].token
            /\ \A y \in Slot : y # x => slow'[y] = slow[y]
        BY <1>1, <1>2, <3>1, <3>4, IssuedIs DEF IssuesTo
      <4>2. Path(x)'
        BY <1>1, <1>2, <1>4, <2>1, <3>1, <4>1 DEF Path, Fits, Coherent, Older, LoadedPc
      <4> QED
        BY <1>1, <1>2, <2>1, <3>2, <4>1, <4>2, MoveKeepsRecord
    <3> QED
      BY <3>1, <3>3, <3>4
  <2> QED
    BY <2>2, <2>3
<1>11. ASSUME NEW token \in 0..MaxTokens, NEW pc \in {"served", "denied"},
              NEW t \in 1..MaxTokens, NEW health \in {"healthy", "failing", "reconnect"},
              t <= issued, Persist(x, t, health), Finish(x, pc, token),
              UNCHANGED <<issued, dead, owner>>
       PROVE  RecordInv'
  <2>1. stored' = [blob |-> stored.blob + 1, token |-> t, health |-> health]
    BY <1>11 DEF Persist
  <2>2. stored' \in [blob : Nat, token : 1..MaxTokens,
                     health : {"healthy", "failing", "reconnect"}]
    BY <2>1, Numbers
  <2>3. stored'.blob = stored.blob + 1 /\ stored'.token <= issued
    BY <1>11, <2>1
  <2> QED
    BY <1>11, <2>2, <2>3, FinishKeepsRecord
<1>12. CASE Retry(x)
  <2>1. /\ slow' \in [Slot -> SlowPath] /\ slow'[x].pc = "ready"
        /\ slow'[x].kind = slow[x].kind /\ slow'[x].token = slow[x].token
        /\ slow'[x].got = slow[x].got /\ slow'[x].blob = slow[x].blob
        /\ \A y \in Slot : y # x => slow'[y] = slow[y]
    BY <1>1, <1>12, RetryIs
  <2>2. slow[x].pc = "failed" /\ UNCHANGED <<stored, issued, dead, lock, call, owner>>
    BY <1>12 DEF Retry
  <2>3. Path(x)'
    BY <1>1, <1>4, <2>1, <2>2 DEF Path, Fits, Coherent, Older, LoadedPc
  <2>4. issued' >= issued
    BY <2>2, Numbers
  <2> QED
    BY <1>1, <1>2, <2>1, <2>2, <2>3, <2>4, MoveKeepsRecord
<1>13. CASE LosesTo(x)
  BY <1>3, <1>5, <1>13 DEF LosesTo
<1>14. CASE WriteBack(x)
  <2>1. UNCHANGED <<issued, dead, owner>>
    BY <1>14 DEF WriteBack
  <2> QED
    BY <1>11, <1>14, <2>1, BackWrites
<1>15. CASE WriteBackRaises(x)
  <2>1. /\ Answered(x) /\ Finish(x, "denied", 0) /\ UNCHANGED <<issued, dead, owner>>
        /\ PersistAnswer(x) \/ UNCHANGED stored
    BY <1>15, WriteBackRaisesIs
  <2>2. CASE PersistAnswer(x)
    <3>1. \E t \in 1..MaxTokens, health \in {"healthy", "failing", "reconnect"} :
            t <= issued /\ Persist(x, t, health)
      BY <2>1, <2>2, AnswerWrites
    <3> QED
      BY <1>3, <1>11, <2>1, <3>1
  <2>3. CASE UNCHANGED stored
    BY <1>3, <1>5, <2>1, <2>3
  <2> QED
    BY <2>1, <2>2, <2>3
<1> QED
  BY <1>7, <1>8, <1>9, <1>10, <1>12, <1>13, <1>14, <1>15

LEMMA EditorsKeepRecord ==
  ASSUME RecordInv, NEW x \in Editor,
         StartEdit(x) \/ LoadEdit(x) \/ WriteEdit(x) \/ EditRaises(x)
  PROVE  RecordInv'
<1>1. x \in Slot /\ x \notin Refresher /\ TokenTypeOK
  BY Slots DEF RecordInv
<1>2. /\ stored \in [blob : Nat, token : 1..MaxTokens,
                     health : {"healthy", "failing", "reconnect"}]
      /\ issued \in 1..MaxTokens
      /\ lock \in Slot \cup {Free} /\ call \in [Caller -> Call]
  BY <1>1 DEF TokenTypeOK
<1>3. stored.token \in 0..MaxTokens /\ stored.token <= issued /\ 0 \in 0..MaxTokens
  BY Numbers, TokenBoundsAssumption DEF RecordInv
<1>4. Path(x)
  BY <1>1 DEF RecordInv
<1>5. CASE StartEdit(x)
  <2>1. UNCHANGED <<stored, dead, lock, call, owner>>
    BY <1>5 DEF StartEdit
  <2>2. CASE Starts(x, "edit", 0) /\ UNCHANGED issued
    <3>1. /\ slow' \in [Slot -> SlowPath] /\ slow'[x].pc = "queued" /\ slow'[x].kind = "edit"
          /\ slow'[x].token = 0 /\ slow'[x].got = 0
          /\ \A y \in Slot : y # x => slow'[y] = slow[y]
      BY <1>1, <1>3, <2>2, StartsIs
    <3>2. TokenTypeOK'
      BY <1>1, <2>1, <2>2, <3>1 DEF TokenTypeOK
    <3>3. Path(x)'
      BY <1>1, <3>1, <3>2, NoSlowPath
    <3>4. issued' >= issued
      BY <2>2, Numbers
    <3> QED
      BY <1>1, <1>2, <2>1, <2>2, <3>1, <3>3, <3>4, MoveKeepsRecord
  <2>3. CASE issued < MaxTokens /\ issued' = issued + 1 /\ Reconnects(x)
    <3>1. /\ slow' \in [Slot -> SlowPath] /\ slow'[x].pc = "queued"
          /\ slow'[x].kind = "reconnect" /\ slow'[x].token = 0 /\ slow'[x].got = issued + 1
          /\ \A y \in Slot : y # x => slow'[y] = slow[y]
      BY <1>1, <2>3, ReconnectsIs
    <3>2. issued' \in 1..MaxTokens /\ issued' >= issued
      BY <1>2, <2>3, TokenBoundsAssumption
    <3>3. Path(x)'
      BY <1>1, <1>2, <2>3, <3>1 DEF Path, Fits, Coherent, Older, Reconnecting, LoadedPc
    <3> QED
      BY <1>1, <1>2, <2>1, <3>1, <3>2, <3>3, MoveKeepsRecord
  <2> QED
    BY <1>5, <2>2, <2>3 DEF StartEdit, Reconnects
<1>6. CASE LoadEdit(x)
  <2>1. Going(x, "editing") /\ slow[x].pc = "loading" /\ UNCHANGED <<stored, issued, dead, owner>>
    BY <1>6 DEF LoadEdit
  <2>2. /\ slow' \in [Slot -> SlowPath] /\ slow'[x].pc = "editing"
        /\ slow'[x].kind = slow[x].kind /\ slow'[x].got = slow[x].got
        /\ slow'[x].blob = stored.blob /\ slow'[x].token = stored.token
        /\ \A y \in Slot : y # x => slow'[y] = slow[y]
        /\ UNCHANGED <<lock, call>>
    BY <1>1, <2>1, LoadedIs DEF Going, SlowPc
  <2>3. Path(x)'
    BY <1>1, <1>3, <1>4, <2>1, <2>2, Numbers
    DEF Path, Fits, Coherent, Older, Reconnecting, LoadedPc
  <2>4. issued' >= issued
    BY <2>1, Numbers
  <2> QED
    BY <1>1, <1>2, <2>1, <2>2, <2>3, <2>4, MoveKeepsRecord
<1>7. ASSUME slow[x].pc = "editing", EndEdit(x), PersistEdit(x) \/ UNCHANGED stored,
             UNCHANGED <<issued, dead, call, owner>>
      PROVE  RecordInv'
  <2>1. issued' >= issued
    BY <1>7, Numbers
  <2>2. ASSUME stored' \in [blob : Nat, token : 1..MaxTokens,
                            health : {"healthy", "failing", "reconnect"}],
               stored' = stored \/ stored'.blob = stored.blob + 1,
               stored'.token <= issued
        PROVE  RecordInv'
    <3>1. /\ slow' \in [Slot -> SlowPath] /\ slow'[x].pc = "none"
          /\ slow'[x].kind = slow[x].kind /\ slow'[x].token = 0 /\ slow'[x].got = 0
          /\ \A y \in Slot : y # x => slow'[y] = slow[y]
          /\ lock' \in Slot \cup {Free}
      BY <1>1, <1>7, EndEditIs
    <3>2. TokenTypeOK'
      BY <1>1, <1>7, <2>2, <3>1 DEF TokenTypeOK
    <3>3. slow[x].kind \in {"none", "edit", "reconnect"}
      BY <1>4 DEF Path, Fits
    <3>4. Path(x)'
      BY <1>1, <3>1, <3>2, <3>3, NoSlowPath
    <3> QED
      BY <1>1, <1>7, <2>1, <2>2, <3>1, <3>2, <3>4, OnePathMoves
  <2>3. CASE PersistEdit(x)
    <3>1. \E t \in 1..MaxTokens, health \in {"healthy", "failing", "reconnect"} :
            t <= issued /\ stored' = [blob |-> stored.blob + 1, token |-> t, health |-> health]
      <4>1. slow[x].kind = "reconnect" => slow[x].got \in 1..MaxTokens /\ slow[x].got <= issued
        BY <1>1, <1>4, <1>7, Numbers DEF Path, Fits, Older, Reconnecting
      <4> QED
        BY <1>3, <1>7, <2>3, <4>1, EditWrites, Numbers
    <3>2. PICK t \in 1..MaxTokens, health \in {"healthy", "failing", "reconnect"} :
            t <= issued /\ stored' = [blob |-> stored.blob + 1, token |-> t, health |-> health]
      BY <3>1
    <3> QED
      BY <2>2, <3>2, Numbers
  <2>4. CASE UNCHANGED stored
    BY <1>2, <1>3, <2>2, <2>4
  <2> QED
    BY <1>7, <2>3, <2>4
<1>8. CASE WriteEdit(x)
  <2>1. slow[x].pc = "editing" /\ UNCHANGED <<issued, dead, call, owner>>
    BY <1>8 DEF WriteEdit
  <2>2. \/ EndEdit(x) /\ (PersistEdit(x) \/ UNCHANGED stored)
        \/ slow[x].kind = "edit" /\ SlowAt(x, "loading") /\ UNCHANGED <<lock, stored>>
    BY <1>8 DEF WriteEdit
  <2>3. CASE slow[x].kind = "edit" /\ SlowAt(x, "loading") /\ UNCHANGED <<lock, stored>>
    <3>1. /\ slow' \in [Slot -> SlowPath] /\ slow'[x].pc = "loading"
          /\ slow'[x].kind = slow[x].kind /\ slow'[x].token = slow[x].token
          /\ slow'[x].got = slow[x].got
          /\ \A y \in Slot : y # x => slow'[y] = slow[y]
      BY <1>1, <2>3, SlowMoves DEF SlowPc
    <3>2. Path(x)'
      BY <1>1, <1>4, <2>1, <2>3, <3>1 DEF Path, Fits, Coherent, Older, Reconnecting, LoadedPc
    <3>3. issued' >= issued
      BY <2>1, Numbers
    <3> QED
      BY <1>1, <1>2, <2>1, <2>3, <3>1, <3>2, <3>3, MoveKeepsRecord
  <2> QED
    BY <1>7, <2>1, <2>2, <2>3
<1>9. CASE EditRaises(x)
  BY <1>7, <1>9, EditRaisesIs
<1> QED
  BY <1>5, <1>6, <1>8, <1>9

LEMMA TimeKeepsRecord ==
  ASSUME RecordInv,
         \/ TokenExpires \/ LockLapses \/ Revoke
         \/ \E p \in Replica : CloseOwner(p) \/ ReplicaDies(p)
  PROVE  RecordInv'
<1>1. TokenTypeOK /\ stored.token <= issued /\ \A x \in Slot : Path(x)
  BY DEF RecordInv
<1>2. issued \in 1..MaxTokens
  BY <1>1 DEF TokenTypeOK
<1>3. UNCHANGED stored /\ issued' \in 1..MaxTokens /\ issued' >= issued
  BY <1>2, TokenBoundsAssumption
  DEF TokenExpires, LockLapses, Revoke, CloseOwner, ReplicaDies
<1>4. stored'.token <= issued'
  BY <1>1, <1>3, Numbers
<1>5. ASSUME UNCHANGED slow, TokenTypeOK' PROVE RecordInv'
  <2>1. ASSUME NEW y \in Slot PROVE Path(y)'
    BY <1>3, <1>5, PathStays DEF RecordInv
  <2> QED
    BY <1>4, <1>5, <2>1 DEF RecordInv
<1>6. CASE TokenExpires
  <2>1. stored.token \in 1..MaxTokens
    BY Numbers
  <2>2. UNCHANGED <<stored, issued, lock, slow, call, owner>> /\ dead' = dead \cup {stored.token}
    BY <1>6 DEF TokenExpires
  <2>3. TokenTypeOK'
    BY <1>1, <2>1, <2>2 DEF TokenTypeOK
  <2> QED
    BY <1>5, <2>2, <2>3
<1>7. CASE LockLapses
  <2>1. UNCHANGED <<stored, issued, dead, slow, call, owner>> /\ lock' = Free
    BY <1>7 DEF LockLapses
  <2>2. TokenTypeOK'
    BY <1>1, <2>1 DEF TokenTypeOK
  <2> QED
    BY <1>5, <2>1, <2>2
<1>8. CASE Revoke
  <2>1. UNCHANGED <<stored, dead, lock, slow, call, owner>>
    BY <1>8 DEF Revoke
  <2>2. TokenTypeOK'
    BY <1>1, <1>3, <2>1 DEF TokenTypeOK
  <2> QED
    BY <1>5, <2>1, <2>2
<1>9. ASSUME NEW p \in Replica, CloseOwner(p) PROVE RecordInv'
  <2>1. /\ UNCHANGED <<stored, issued, dead, lock, slow, call>>
        /\ owner' = [owner EXCEPT ![p] = "closed"]
    BY <1>9 DEF CloseOwner
  <2>2. TokenTypeOK'
    BY <1>1, <2>1 DEF TokenTypeOK
  <2> QED
    BY <1>5, <2>1, <2>2
<1>10. ASSUME NEW p \in Replica, ReplicaDies(p) PROVE RecordInv'
  <2>1. UNCHANGED <<stored, issued, dead, lock>>
    BY <1>10 DEF ReplicaDies
  <2>2. slow' = [x \in Slot |-> IF x \in Mine(p) THEN NoSlow ELSE slow[x]]
    BY <1>10 DEF ReplicaDies
  <2>3. slow' \in [Slot -> SlowPath]
    BY <1>1, <2>2, NoSlowIs DEF TokenTypeOK
  <2>4. call' \in [Caller -> Call] /\ owner' \in [Replica -> {"live", "closed", "gone"}]
    BY <1>1, <1>10, CallsOfTheDead DEF ReplicaDies, TokenTypeOK
  <2>5. TokenTypeOK'
    BY <1>1, <2>1, <2>3, <2>4 DEF TokenTypeOK
  <2>6. ASSUME NEW y \in Slot PROVE Path(y)'
    <3>1. CASE y \in Mine(p)
      <4>1. slow'[y] = NoSlow
        BY <2>2, <3>1
      <4> QED
        BY <2>5, <4>1, NoSlowIs, NoSlowPath
    <3>2. CASE y \notin Mine(p)
      <4>1. slow'[y] = slow[y]
        BY <2>2, <3>2
      <4> QED
        BY <1>3, <2>5, <4>1, PathStays
    <3> QED
      BY <3>1, <3>2
  <2> QED
    BY <1>4, <2>5, <2>6 DEF RecordInv
<1> QED
  BY <1>6, <1>7, <1>8, <1>9, <1>10

LEMMA TokenInitHolds ==
  ASSUME TokenInit
  PROVE  RecordInv
<1>1. PICK away \in SUBSET (Caller \cup Editor) : TokenStart(away)
  BY DEF TokenInit
<1>2. \A x \in Slot : slow[x] = IF x \in Editor \cap away THEN [NoSlow EXCEPT !.kind = "edit"]
                                ELSE NoSlow
  BY <1>1 DEF TokenStart
<1>3. /\ [NoSlow EXCEPT !.kind = "edit"] \in SlowPath
      /\ [NoSlow EXCEPT !.kind = "edit"].pc = "none"
      /\ [NoSlow EXCEPT !.kind = "edit"].kind = "edit"
      /\ [NoSlow EXCEPT !.kind = "edit"].token = 0
      /\ [NoSlow EXCEPT !.kind = "edit"].got = 0
  BY NoSlowIs DEF SlowPath
<1>4. slow \in [Slot -> SlowPath]
  BY <1>1, <1>3, NoSlowIs DEF TokenStart
<1>5. call \in [Caller -> Call]
  <2>1. ASSUME NEW c \in Caller PROVE call[c] \in Call
    <3>1. call[c] = [pc |-> IF c \in away THEN "left" ELSE "idle", token |-> 0, sent |-> 0]
      BY <1>1 DEF TokenStart
    <3> QED
      BY <3>1, TokenBoundsAssumption DEF Call
  <2> QED
    BY <1>1, <2>1 DEF TokenStart
<1>6. TokenTypeOK
  <2>1. stored = [blob |-> 0, token |-> 1, health |-> "healthy"] /\ issued = 1
        /\ dead \in SUBSET {1} /\ lock = Free /\ owner = [p \in Replica |-> "live"]
    BY <1>1 DEF TokenStart
  <2>2. stored \in [blob : Nat, token : 1..MaxTokens, health : {"healthy", "failing", "reconnect"}]
        /\ issued \in 1..MaxTokens /\ dead \subseteq 1..MaxTokens
    BY <2>1, TokenBoundsAssumption
  <2> QED
    BY <1>4, <1>5, <2>1, <2>2 DEF TokenTypeOK
<1>7. stored.token = 1 /\ issued = 1
  BY <1>1 DEF TokenStart
<1>8. ASSUME NEW x \in Slot PROVE Path(x)
  <2>1. slow[x].pc = "none" /\ slow[x].token = 0 /\ slow[x].got = 0
        /\ slow[x].kind \in {"none", "edit"}
    BY <1>2, <1>3, NoSlowIs
  <2> QED
    BY <1>7, <2>1 DEF Path, Fits, Coherent, Older, Reconnecting, LoadedPc
<1> QED
  BY <1>6, <1>7, <1>8 DEF RecordInv

LEMMA RecordKept ==
  ASSUME RecordInv, [TokenNext]_tokenVars
  PROVE  RecordInv'
<1>1. CASE TokenNext
  BY <1>1, CallersKeepRecord, SlotsKeepRecord, RefreshersKeepRecord, EditorsKeepRecord,
     TimeKeepsRecord
  DEF TokenNext, Refresher
<1>2. CASE UNCHANGED tokenVars
  BY <1>2 DEF tokenVars, RecordInv, TokenTypeOK, Path, Fits, Coherent, Older, Reconnecting
<1> QED
  BY <1>1, <1>2

-----------------------------------------------------------------------------
(* The lock.                                                               *)

InSection(x) == slow[x].pc \notin {"none", "queued"}

(***************************************************************************)
(* Unless something excused it, who is in the section has the key and sees *)
(* the record as it is.                                                    *)
(***************************************************************************)
Guarded(x) ==
  InSection(x) => lock = x /\ (slow[x].pc \in LoadedPc => slow[x].blob = stored.blob)

Exclusive == ~excused => \A x \in Slot : Guarded(x)

LEMMA ExcusedStays ==
  ASSUME [TokenNext]_tokenVars, ~excused'
  PROVE  ~excused
<1>1. CASE \E c \in Caller : Resolve(c) \/ Refuse(c) \/ ForceRefresh(c) \/ CallerLeaves(c)
  BY <1>1, Zenon DEF Resolve, Refuse, ForceRefresh, CallerLeaves
<1>2. CASE \E x \in Slot : Acquire(x) \/ AcquireFails(x)
  BY <1>2, Zenon DEF Acquire, AcquireFails
<1>3. CASE \E x \in Replica \cup Caller :
             \/ Load(x) \/ Send(x) \/ StopCancelled(x) \/ Exchange(x)
             \/ WriteBack(x) \/ WriteBackRaises(x) \/ Retry(x) \/ LosesTo(x)
  BY <1>3, Zenon DEF Load, Send, StopCancelled, Exchange, WriteBack, WriteBackRaises,
                      Retry, LosesTo
<1>4. CASE \E x \in Editor : StartEdit(x) \/ LoadEdit(x) \/ WriteEdit(x) \/ EditRaises(x)
  BY <1>4, Zenon DEF StartEdit, LoadEdit, WriteEdit, EditRaises
<1>5. CASE \E p \in Replica : CloseOwner(p) \/ ReplicaDies(p)
  BY <1>5, Zenon DEF CloseOwner, ReplicaDies
<1>6. CASE TokenExpires \/ LockLapses \/ Revoke
  BY <1>6, Zenon DEF TokenExpires, LockLapses, Revoke
<1>7. CASE UNCHANGED tokenVars
  BY <1>7, Zenon DEF tokenVars
<1> QED
  BY <1>1, <1>2, <1>3, <1>4, <1>5, <1>6, <1>7 DEF TokenNext

(***************************************************************************)
(* A slow path that leaves the section frees the key, if it was its.       *)
(***************************************************************************)
LEMMA LeavingKeepsGuard ==
  ASSUME NEW x \in Slot, \A y \in Slot : Guarded(y),
         \A y \in Slot : y # x => slow'[y] = slow[y],
         slow'[x].pc = "none", lock' = IF lock = x THEN Free ELSE lock,
         stored' = stored \/ InSection(x)
  PROVE  \A y \in Slot : Guarded(y)'
  BY DEF Guarded, InSection

LEMMA GoingKeepsGuard ==
  ASSUME NEW x \in Slot, \A y \in Slot : Guarded(y),
         \A y \in Slot : y # x => slow'[y] = slow[y],
         UNCHANGED <<lock, stored>>,
         \/ slow'[x].pc = "queued"
         \/ /\ InSection(x)
            /\ \/ slow'[x].pc \notin LoadedPc
               \/ slow'[x].blob = stored.blob
               \/ slow'[x].blob = slow[x].blob /\ slow[x].pc \in LoadedPc
  PROVE  \A y \in Slot : Guarded(y)'
  BY DEF Guarded, InSection

LEMMA ExclusiveKept ==
  ASSUME RecordInv, Exclusive, TokenNext
  PROVE  Exclusive'
<1> SUFFICES ASSUME ~excused' PROVE \A y \in Slot : Guarded(y)'
  BY DEF Exclusive
<1>1. \A y \in Slot : Guarded(y)
  BY ExcusedStays DEF Exclusive
<1>2. TokenTypeOK
  BY DEF RecordInv
<1>3. ASSUME NEW c \in Caller, Resolve(c) \/ Refuse(c) \/ ForceRefresh(c) \/ CallerLeaves(c)
      PROVE  \A y \in Slot : Guarded(y)'
  <2>1. UNCHANGED <<lock, stored>>
    BY <1>3 DEF Resolve, Refuse, ForceRefresh, CallerLeaves
  <2>2. \/ UNCHANGED slow
        \/ \E kind \in {"resolve", "force"} : HandOver(c, kind)
    BY <1>3 DEF Resolve, Refuse, ForceRefresh, CallerLeaves
  <2>3. CASE UNCHANGED slow
    BY <1>1, <2>1, <2>3 DEF Guarded, InSection
  <2>4. ASSUME NEW kind \in {"resolve", "force"}, HandOver(c, kind)
        PROVE  \A y \in Slot : Guarded(y)'
    <3>1. UNCHANGED slow \/ \E x \in Refresher : Starts(x, kind, call[c].sent)
      BY <1>2, <2>4, HandOverIs, ReplicaOfAssumption DEF Refresher
    <3>2. ASSUME NEW x \in Refresher, Starts(x, kind, call[c].sent)
          PROVE  \A y \in Slot : Guarded(y)'
      <4>1. x \in Slot /\ call[c].sent \in 0..MaxTokens
        BY <1>2, Slots, CallField
      <4>2. slow'[x].pc = "queued" /\ \A y \in Slot : y # x => slow'[y] = slow[y]
        BY <1>2, <3>2, <4>1, StartsIs
      <4> QED
        BY <1>1, <2>1, <4>1, <4>2, GoingKeepsGuard
    <3> QED
      BY <2>3, <3>1, <3>2
  <2> QED
    BY <2>2, <2>3, <2>4
<1>4. ASSUME NEW x \in Slot, Acquire(x) PROVE \A y \in Slot : Guarded(y)'
  <2>1. /\ slow'[x].pc = "loading" /\ \A y \in Slot : y # x => slow'[y] = slow[y]
    BY <1>2, <1>4, SlowMoves DEF Acquire, SlowPc
  <2>2. lock = Free /\ lock' = x
    BY <1>4 DEF Acquire
  <2>3. \A y \in Slot : ~InSection(y)
    BY <1>1, <2>2, SlotAssumption DEF Guarded
  <2> QED
    BY <2>1, <2>2, <2>3 DEF Guarded, InSection, LoadedPc
<1>5. ASSUME NEW x \in Slot, AcquireFails(x) PROVE \A y \in Slot : Guarded(y)'
  <2>1. excused'
    BY <1>5, Zenon DEF AcquireFails
  <2> QED
    BY <2>1
<1>6. ASSUME NEW x \in Refresher, NEW pc \in {"served", "denied"}, NEW token \in 0..MaxTokens,
             Finish(x, pc, token), stored' = stored \/ InSection(x)
      PROVE  \A y \in Slot : Guarded(y)'
  <2>1. x \in Slot
    BY Slots
  <2>2. /\ slow'[x] = NoSlow /\ \A y \in Slot : y # x => slow'[y] = slow[y]
        /\ lock' = IF lock = x THEN Free ELSE lock
    BY <1>2, <1>6, <2>1, FinishIs
  <2>3. slow'[x].pc = "none"
    BY <2>2, NoSlowIs
  <2> QED
    BY <1>1, <1>6, <2>1, <2>2, <2>3, LeavingKeepsGuard
<1>7. stored.token \in 0..MaxTokens /\ 0 \in 0..MaxTokens
  BY Numbers, TokenBoundsAssumption
<1>8. ASSUME NEW x \in Refresher,
             \/ Load(x) \/ Send(x) \/ StopCancelled(x) \/ Exchange(x)
             \/ WriteBack(x) \/ WriteBackRaises(x) \/ Retry(x) \/ LosesTo(x)
      PROVE  \A y \in Slot : Guarded(y)'
  <2>1. x \in Slot
    BY Slots
  <2>2. CASE Load(x)
    <3>1. \/ Finish(x, "denied", 0) \/ Finish(x, "served", stored.token)
          \/ Loaded(x, "ready") /\ UNCHANGED lock
      BY <2>2 DEF Load, Going
    <3>2. UNCHANGED stored /\ InSection(x)
      BY <2>2 DEF Load, InSection
    <3>3. ASSUME Loaded(x, "ready"), UNCHANGED lock PROVE \A y \in Slot : Guarded(y)'
      <4>1. /\ slow'[x].blob = stored.blob /\ slow'[x].pc = "ready"
            /\ \A y \in Slot : y # x => slow'[y] = slow[y]
        BY <1>2, <2>1, <3>3, LoadedIs DEF SlowPc
      <4> QED
        BY <1>1, <2>1, <3>2, <3>3, <4>1, GoingKeepsGuard
    <3> QED
      BY <1>6, <1>7, <3>1, <3>2, <3>3
  <2>3. ASSUME NEW pc \in {"sending", "failed", "refused"}, SlowAt(x, pc),
               slow[x].pc \in {"ready", "sending"}, UNCHANGED <<lock, stored>>
        PROVE  \A y \in Slot : Guarded(y)'
    <3>1. /\ slow'[x].blob = slow[x].blob
          /\ \A y \in Slot : y # x => slow'[y] = slow[y]
      BY <1>2, <2>1, <2>3, SlowMoves DEF SlowPc
    <3>2. InSection(x) /\ slow[x].pc \in LoadedPc
      BY <2>3 DEF InSection, LoadedPc
    <3> QED
      BY <1>1, <2>1, <2>3, <3>1, <3>2, GoingKeepsGuard
  <2>4. CASE Send(x)
    BY <2>3, <2>4 DEF Send
  <2>5. CASE StopCancelled(x)
    BY <1>6, <1>7, <2>5 DEF StopCancelled
  <2>6. CASE Exchange(x)
    <3>1. slow[x].pc = "sending" /\ UNCHANGED <<lock, stored>>
      BY <2>6 DEF Exchange
    <3>2. \/ issued < MaxTokens /\ IssuesTo(x)
          \/ \E pc \in {"failed", "refused"} : SlowAt(x, pc)
      BY <2>6 DEF Exchange, IssuesTo
    <3>3. ASSUME issued < MaxTokens, IssuesTo(x) PROVE \A y \in Slot : Guarded(y)'
      <4>1. /\ slow'[x].blob = slow[x].blob
            /\ \A y \in Slot : y # x => slow'[y] = slow[y]
        BY <1>2, <2>1, <3>3, IssuedIs
      <4>2. InSection(x) /\ slow[x].pc \in LoadedPc
        BY <3>1 DEF InSection, LoadedPc
      <4> QED
        BY <1>1, <2>1, <3>1, <4>1, <4>2, GoingKeepsGuard
    <3> QED
      BY <2>3, <3>1, <3>2, <3>3
  <2>7. CASE WriteBack(x)
    <3>1. InSection(x)
      BY <2>7, AnswerIs DEF WriteBack, InSection
    <3> QED
      BY <1>6, <2>7, <3>1, BackWrites
  <2>8. CASE Retry(x)
    <3>1. /\ slow'[x].blob = slow[x].blob
          /\ \A y \in Slot : y # x => slow'[y] = slow[y]
      BY <1>2, <2>1, <2>8, RetryIs
    <3>2. InSection(x) /\ slow[x].pc \in LoadedPc /\ UNCHANGED <<lock, stored>>
      BY <2>8 DEF Retry, InSection, LoadedPc
    <3> QED
      BY <1>1, <2>1, <3>1, <3>2, GoingKeepsGuard
  <2>9. CASE LosesTo(x)
    BY <1>6, <1>7, <2>9 DEF LosesTo
  <2>10. CASE WriteBackRaises(x)
    <3>1. Answered(x) /\ Finish(x, "denied", 0)
      BY <2>10, WriteBackRaisesIs
    <3>2. InSection(x)
      BY <3>1, AnswerIs DEF InSection
    <3> QED
      BY <1>6, <1>7, <3>1, <3>2
  <2> QED
    BY <1>8, <2>2, <2>4, <2>5, <2>6, <2>7, <2>8, <2>9, <2>10
<1>9. ASSUME NEW x \in Editor, StartEdit(x) \/ LoadEdit(x) \/ WriteEdit(x) \/ EditRaises(x)
      PROVE  \A y \in Slot : Guarded(y)'
  <2>1. x \in Slot
    BY Slots
  <2>2. CASE StartEdit(x)
    <3>1. UNCHANGED <<lock, stored>>
          /\ (Starts(x, "edit", 0) \/ (issued < MaxTokens /\ Reconnects(x)))
      BY <2>2 DEF StartEdit, Reconnects
    <3>2. slow'[x].pc = "queued" /\ \A y \in Slot : y # x => slow'[y] = slow[y]
      BY <1>2, <1>7, <2>1, <3>1, StartsIs, ReconnectsIs
    <3> QED
      BY <1>1, <2>1, <3>1, <3>2, GoingKeepsGuard
  <2>3. CASE LoadEdit(x)
    <3>1. Loaded(x, "editing") /\ UNCHANGED <<lock, stored>> /\ InSection(x)
      BY <2>3 DEF LoadEdit, Going, InSection
    <3>2. slow'[x].blob = stored.blob /\ \A y \in Slot : y # x => slow'[y] = slow[y]
      BY <1>2, <2>1, <3>1, LoadedIs DEF SlowPc
    <3> QED
      BY <1>1, <2>1, <3>1, <3>2, GoingKeepsGuard
  <2>4. CASE WriteEdit(x)
    <3>1. InSection(x) /\ slow[x].blob = stored.blob
      BY <1>1, <2>1, <2>4 DEF WriteEdit, InSection, Guarded, LoadedPc
    <3>2. EndEdit(x)
      BY <2>4, <3>1 DEF WriteEdit
    <3>3. /\ slow'[x].pc = "none" /\ \A y \in Slot : y # x => slow'[y] = slow[y]
          /\ lock' = IF lock = x THEN Free ELSE lock
      BY <1>2, <2>1, <3>2, EndEditIs
    <3> QED
      BY <1>1, <2>1, <3>1, <3>3, LeavingKeepsGuard
  <2>5. CASE EditRaises(x)
    <3>1. EndEdit(x) /\ InSection(x)
      BY <2>5, EditRaisesIs DEF InSection
    <3>2. /\ slow'[x].pc = "none" /\ \A y \in Slot : y # x => slow'[y] = slow[y]
          /\ lock' = IF lock = x THEN Free ELSE lock
      BY <1>2, <2>1, <3>1, EndEditIs
    <3> QED
      BY <1>1, <2>1, <3>1, <3>2, LeavingKeepsGuard
  <2> QED
    BY <1>9, <2>2, <2>3, <2>4, <2>5
<1>10. ASSUME NEW p \in Replica, CloseOwner(p) PROVE \A y \in Slot : Guarded(y)'
  <2>1. UNCHANGED <<slow, lock, stored>>
    BY <1>10 DEF CloseOwner
  <2> QED
    BY <1>1, <2>1 DEF Guarded, InSection
<1>11. ASSUME NEW p \in Replica, ReplicaDies(p) PROVE \A y \in Slot : Guarded(y)'
  <2>1. UNCHANGED <<lock, stored>>
        /\ \A y \in Slot : slow'[y] = NoSlow \/ slow'[y] = slow[y]
    BY <1>11 DEF ReplicaDies
  <2> QED
    BY <1>1, <2>1, NoSlowIs DEF Guarded, InSection
<1>12. CASE LockLapses
  <2>1. UNCHANGED <<slow, stored>> /\ lock # Free /\ lock \in Slot
    BY <1>2, <1>12 DEF LockLapses, TokenTypeOK
  <2>2. slow[lock].pc = "none"
    BY <1>12, Zenon DEF LockLapses
  <2>3. \A y \in Slot : ~InSection(y)
    BY <1>1, <2>2 DEF Guarded, InSection
  <2> QED
    BY <2>1, <2>3 DEF Guarded, InSection
<1>13. CASE TokenExpires
  BY <1>1, <1>13 DEF TokenExpires, Guarded, InSection
<1>14. CASE Revoke
  <2>1. excused'
    BY <1>14, Zenon DEF Revoke
  <2> QED
    BY <2>1
<1> QED
  BY <1>3, <1>4, <1>5, <1>8, <1>9, <1>10, <1>11, <1>12, <1>13, <1>14 DEF TokenNext, Refresher

-----------------------------------------------------------------------------
(* What a step does to one slow path: it ends, begins, goes on or stays.   *)

Ends(y) == slow'[y].pc = "none" /\ slow'[y].token = 0 /\ slow'[y].got = 0

Asks(c, y) ==
  /\ call[c].pc \in {"idle", "refused"} /\ call'[c].sent = call[c].sent
  /\ slow'[y].sent = call[c].sent
  /\ \/ y = c /\ call'[c].pc = "inline"
     \/ y = ReplicaOf[c] /\ call'[c].pc = "owning" /\ slow[y].pc = "none"
  /\ slow'[y].kind = IF call[c].pc = "idle" THEN "resolve" ELSE "force"

Begins(y) ==
  /\ slow'[y].pc = "queued" /\ slow'[y].token = 0
  /\ \/ y \in Refresher /\ slow'[y].got = 0 /\ \E c \in Caller : Asks(c, y)
     \/ y \in Editor /\ slow[y].pc = "none" /\ slow'[y].kind = "edit" /\ slow'[y].got = 0
     \/ /\ y \in Editor /\ slow[y].pc = "none" /\ slow'[y].kind = "reconnect"
        /\ slow'[y].got = issued + 1 /\ \A z \in Slot : z # y => slow'[z] = slow[z]

GoesOn(y) ==
  /\ slow[y].pc # "none" /\ slow'[y].pc \notin {"none", "queued"}
  /\ slow'[y].kind = slow[y].kind /\ slow'[y].sent = slow[y].sent
  /\ \/ slow'[y].token = slow[y].token /\ (slow[y].pc \in LoadedPc \/ slow'[y].pc \notin LoadedPc)
     \/ slow'[y].token = stored.token /\ (slow[y].kind = "force" => stored.token = slow[y].sent)
  /\ \/ slow'[y].got = slow[y].got
     \/ y \in Refresher /\ slow[y].token = issued /\ slow'[y].got = issued + 1

PathStep(y) == slow'[y] = slow[y] \/ Ends(y) \/ Begins(y) \/ GoesOn(y)

LEMMA OnlyOneSteps ==
  ASSUME NEW x \in Slot, \A y \in Slot : y # x => slow'[y] = slow[y], PathStep(x)
  PROVE  \A y \in Slot : PathStep(y)
  BY DEF PathStep

LEMMA HandOverSteps ==
  ASSUME RecordInv, NEW c \in Caller, NEW kind \in {"resolve", "force"}, HandOver(c, kind),
         \/ call[c].pc = "idle" /\ kind = "resolve"
         \/ call[c].pc = "refused" /\ kind = "force"
  PROVE  \A y \in Slot : PathStep(y)
<1>1. TokenTypeOK /\ call[c].sent \in 0..MaxTokens
  BY CallField DEF RecordInv
<1>2. /\ call'[c].sent = call[c].sent
      /\ \/ call'[c].pc = "inline" /\ Starts(c, kind, call[c].sent)
         \/ /\ call'[c].pc = "owning" /\ slow[ReplicaOf[c]].pc = "none"
            /\ Starts(ReplicaOf[c], kind, call[c].sent)
         \/ call'[c].pc = "joining" /\ UNCHANGED slow
  BY <1>1, HandOverIs
<1>3. ASSUME NEW x \in Refresher, Starts(x, kind, call[c].sent),
             \/ x = c /\ call'[c].pc = "inline"
             \/ x = ReplicaOf[c] /\ call'[c].pc = "owning" /\ slow[x].pc = "none"
      PROVE  \A y \in Slot : PathStep(y)
  <2>1. x \in Slot
    BY Slots
  <2>2. /\ slow'[x].pc = "queued" /\ slow'[x].kind = kind /\ slow'[x].sent = call[c].sent
        /\ slow'[x].token = 0 /\ slow'[x].got = 0
        /\ \A y \in Slot : y # x => slow'[y] = slow[y]
    BY <1>1, <1>3, <2>1, StartsIs
  <2>3. Asks(c, x)
    BY <1>2, <1>3, <2>2 DEF Asks
  <2> QED
    BY <2>1, <2>2, <2>3, OnlyOneSteps DEF PathStep, Begins
<1>4. c \in Refresher /\ ReplicaOf[c] \in Refresher
  BY ReplicaOfAssumption DEF Refresher
<1>5. CASE UNCHANGED slow
  BY <1>5 DEF PathStep
<1> QED
  BY <1>2, <1>3, <1>4, <1>5

LEMMA PathSteps ==
  ASSUME RecordInv, TokenNext
  PROVE  \A y \in Slot : PathStep(y)
<1>1. TokenTypeOK
  BY DEF RecordInv
<1>2. stored.token \in 0..MaxTokens /\ 0 \in 0..MaxTokens
  BY Numbers, TokenBoundsAssumption
<1>3. CASE UNCHANGED slow
  BY <1>3 DEF PathStep
<1>4. ASSUME NEW c \in Caller, Resolve(c) \/ Refuse(c) \/ ForceRefresh(c) \/ CallerLeaves(c)
      PROVE  \A y \in Slot : PathStep(y)
  <2>1. \/ UNCHANGED slow
        \/ call[c].pc = "idle" /\ HandOver(c, "resolve")
        \/ call[c].pc = "refused" /\ HandOver(c, "force")
    BY <1>4 DEF Resolve, Refuse, ForceRefresh, CallerLeaves
  <2> QED
    BY <1>3, <2>1, HandOverSteps
<1>5. ASSUME NEW x \in Slot, Acquire(x) \/ AcquireFails(x) PROVE \A y \in Slot : PathStep(y)
  <2>1. slow[x].pc = "queued" /\ SlowAt(x, "loading")
    BY <1>5 DEF Acquire, AcquireFails
  <2> QED
    BY <1>1, <2>1, SlowMoves, OnlyOneSteps DEF PathStep, GoesOn, SlowPc, LoadedPc
<1>6. ASSUME NEW x \in Refresher, NEW pc \in {"served", "denied"}, NEW token \in 0..MaxTokens,
             Finish(x, pc, token)
      PROVE  \A y \in Slot : PathStep(y)
  <2>1. x \in Slot
    BY Slots
  <2>2. slow'[x] = NoSlow /\ \A y \in Slot : y # x => slow'[y] = slow[y]
    BY <1>1, <1>6, <2>1, FinishIs
  <2> QED
    BY <2>1, <2>2, NoSlowIs, OnlyOneSteps DEF PathStep, Ends
<1>7. ASSUME NEW x \in Refresher,
             \/ Load(x) \/ Send(x) \/ StopCancelled(x) \/ Exchange(x)
             \/ WriteBack(x) \/ WriteBackRaises(x) \/ Retry(x) \/ LosesTo(x)
      PROVE  \A y \in Slot : PathStep(y)
  <2>1. x \in Slot
    BY Slots
  <2>2. CASE Load(x)
    <3>1. \/ Finish(x, "denied", 0) \/ Finish(x, "served", stored.token)
          \/ /\ Loaded(x, "ready")
             /\ slow[x].kind = "force" => stored.token = slow[x].sent
      BY <2>2, Numbers DEF Load, Going
    <3>2. slow[x].pc = "loading"
      BY <2>2 DEF Load
    <3>3. ASSUME Loaded(x, "ready"), slow[x].kind = "force" => stored.token = slow[x].sent
          PROVE  \A y \in Slot : PathStep(y)
      <4>1. /\ slow'[x].pc = "ready" /\ slow'[x].kind = slow[x].kind
            /\ slow'[x].sent = slow[x].sent /\ slow'[x].token = stored.token
            /\ slow'[x].got = slow[x].got /\ \A y \in Slot : y # x => slow'[y] = slow[y]
        BY <1>1, <2>1, <3>3, LoadedIs DEF SlowPc
      <4> QED
        BY <2>1, <3>2, <3>3, <4>1, OnlyOneSteps DEF PathStep, GoesOn
    <3> QED
      BY <1>2, <1>6, <3>1, <3>3
  <2>3. ASSUME NEW pc \in {"sending", "failed", "refused"}, SlowAt(x, pc),
               slow[x].pc \in {"ready", "sending"}
        PROVE  \A y \in Slot : PathStep(y)
    BY <1>1, <2>1, <2>3, SlowMoves, OnlyOneSteps DEF PathStep, GoesOn, SlowPc, LoadedPc
  <2>4. CASE Send(x)
    BY <2>3, <2>4 DEF Send
  <2>5. CASE StopCancelled(x)
    BY <1>2, <1>6, <2>5 DEF StopCancelled
  <2>6. CASE Exchange(x)
    <3>1. /\ slow[x].pc = "sending"
          /\ \/ slow[x].token = issued /\ issued < MaxTokens /\ IssuesTo(x)
             \/ \E pc \in {"failed", "refused"} : SlowAt(x, pc)
      BY <2>6 DEF Exchange, IssuesTo
    <3>2. ASSUME slow[x].token = issued, issued < MaxTokens, IssuesTo(x)
          PROVE  \A y \in Slot : PathStep(y)
      <4>1. /\ slow'[x].pc = "issued" /\ slow'[x].kind = slow[x].kind
            /\ slow'[x].sent = slow[x].sent /\ slow'[x].token = slow[x].token
            /\ slow'[x].got = issued + 1 /\ \A y \in Slot : y # x => slow'[y] = slow[y]
        BY <1>1, <2>1, <3>2, IssuedIs
      <4> QED
        BY <2>1, <3>1, <3>2, <4>1, OnlyOneSteps DEF PathStep, GoesOn, LoadedPc
    <3> QED
      BY <2>3, <3>1, <3>2
  <2>7. CASE WriteBack(x)
    BY <1>6, <2>7, BackWrites
  <2>8. CASE Retry(x)
    <3>1. slow[x].pc = "failed"
      BY <2>8 DEF Retry
    <3> QED
      BY <1>1, <2>1, <2>8, <3>1, RetryIs, OnlyOneSteps DEF PathStep, GoesOn, LoadedPc
  <2>9. CASE LosesTo(x)
    BY <1>2, <1>6, <2>9 DEF LosesTo
  <2>10. CASE WriteBackRaises(x)
    BY <1>2, <1>6, <2>10, WriteBackRaisesIs
  <2> QED
    BY <1>7, <2>2, <2>4, <2>5, <2>6, <2>7, <2>8, <2>9, <2>10
<1>8. ASSUME NEW x \in Editor, StartEdit(x) \/ LoadEdit(x) \/ WriteEdit(x) \/ EditRaises(x)
      PROVE  \A y \in Slot : PathStep(y)
  <2>1. x \in Slot /\ x \notin Refresher
    BY Slots
  <2>2. CASE StartEdit(x)
    <3>1. slow[x].pc = "none" /\ (Starts(x, "edit", 0) \/ (issued < MaxTokens /\ Reconnects(x)))
      BY <2>2, NoSlowIs DEF StartEdit, Reconnects
    <3>2. CASE Starts(x, "edit", 0)
      <4>1. /\ slow'[x].pc = "queued" /\ slow'[x].kind = "edit" /\ slow'[x].token = 0
            /\ slow'[x].got = 0 /\ \A y \in Slot : y # x => slow'[y] = slow[y]
        BY <1>1, <1>2, <2>1, <3>2, StartsIs
      <4> QED
        BY <2>1, <3>1, <4>1, OnlyOneSteps DEF PathStep, Begins
    <3>3. CASE issued < MaxTokens /\ Reconnects(x)
      BY <1>1, <2>1, <3>1, <3>3, ReconnectsIs, OnlyOneSteps DEF PathStep, Begins
    <3> QED
      BY <3>1, <3>2, <3>3
  <2>3. CASE LoadEdit(x)
    <3>1. slow[x].pc = "loading" /\ slow[x].kind # "force" /\ Loaded(x, "editing")
      BY <2>3 DEF LoadEdit, Going
    <3>2. /\ slow'[x].pc = "editing" /\ slow'[x].kind = slow[x].kind
          /\ slow'[x].sent = slow[x].sent /\ slow'[x].token = stored.token
          /\ slow'[x].got = slow[x].got /\ \A y \in Slot : y # x => slow'[y] = slow[y]
      BY <1>1, <2>1, <3>1, LoadedIs DEF SlowPc
    <3> QED
      BY <2>1, <3>1, <3>2, OnlyOneSteps DEF PathStep, GoesOn
  <2>4. CASE WriteEdit(x)
    <3>1. slow[x].pc = "editing" /\ (EndEdit(x) \/ SlowAt(x, "loading"))
      BY <2>4 DEF WriteEdit
    <3>2. CASE EndEdit(x)
      BY <1>1, <2>1, <3>2, EndEditIs, OnlyOneSteps DEF PathStep, Ends
    <3>3. CASE SlowAt(x, "loading")
      BY <1>1, <2>1, <3>1, <3>3, SlowMoves, OnlyOneSteps DEF PathStep, GoesOn, SlowPc, LoadedPc
    <3> QED
      BY <3>1, <3>2, <3>3
  <2>5. CASE EditRaises(x)
    BY <1>1, <2>1, <2>5, EditRaisesIs, EndEditIs, OnlyOneSteps DEF PathStep, Ends
  <2> QED
    BY <1>8, <2>2, <2>3, <2>4, <2>5
<1>9. ASSUME NEW p \in Replica, CloseOwner(p) \/ ReplicaDies(p)
      PROVE  \A y \in Slot : PathStep(y)
  <2>1. \A y \in Slot : slow'[y] = NoSlow \/ slow'[y] = slow[y]
    BY <1>9 DEF CloseOwner, ReplicaDies
  <2> QED
    BY <2>1, NoSlowIs DEF PathStep, Ends
<1>10. CASE TokenExpires \/ LockLapses \/ Revoke
  BY <1>3, <1>10 DEF TokenExpires, LockLapses, Revoke
<1> QED
  BY <1>4, <1>5, <1>7, <1>8, <1>9, <1>10 DEF TokenNext, Refresher

-----------------------------------------------------------------------------
(* What a step writes down.                                                *)

WritesPair(x) ==
  /\ slow[x].pc = "issued" /\ x \in Refresher
  /\ slow[x].token = stored.token /\ stored'.token = slow[x].got
WritesConsent(x) ==
  Reconnecting(x) /\ slow'[x].pc = "none" /\ stored'.token = slow[x].got

(***************************************************************************)
(* The pair of the record only changes to one that a refresh or a consent  *)
(* was issued; a connection to be reconnected only by a consent.           *)
(***************************************************************************)
LEMMA StoredSteps ==
  ASSUME RecordInv, TokenNext
  PROVE  /\ \/ stored'.token = stored.token
            \/ \E x \in Slot : WritesPair(x) \/ WritesConsent(x)
         /\ stored.health = "reconnect" /\ stored'.health # "reconnect" =>
              \E x \in Editor : slow[x].kind = "reconnect" /\ stored'.token = slow[x].got
<1>1. CASE UNCHANGED stored
  BY <1>1
<1>2. ASSUME NEW x \in Refresher, Answered(x), PersistAnswer(x)
      PROVE  /\ stored'.token = stored.token \/ WritesPair(x)
             /\ stored.health # "reconnect"
  <2>1. x \in Slot /\ stored.blob = slow[x].blob /\ slow[x].pc \in LoadedPc
    BY <1>2, Slots, AnswerIs, PersistAnswerIs
  <2>2. slow[x].token = stored.token /\ stored.health # "reconnect"
    BY <2>1 DEF RecordInv, Path, Coherent
  <2>3. \/ slow[x].pc = "issued" /\ Persist(x, slow[x].got, "healthy")
        \/ \E health \in {"reconnect", "failing"} : Persist(x, slow[x].token, health)
    BY <1>2, PersistAnswerIs
  <2> QED
    BY <2>2, <2>3 DEF Persist, WritesPair
<1>3. ASSUME NEW x \in Editor, slow[x].pc = "editing", PersistEdit(x), EndEdit(x)
      PROVE  \/ stored'.token = stored.token /\ stored'.health = stored.health
             \/ WritesConsent(x)
  <2>1. x \in Slot
    BY Slots
  <2>2. slow'[x].pc = "none"
    BY <1>3, <2>1, EndEditIs DEF RecordInv
  <2> QED
    BY <1>3, <2>1, <2>2, EditWrites DEF WritesConsent, Reconnecting
<1>4. \/ UNCHANGED stored
      \/ \E x \in Refresher : WriteBack(x) \/ WriteBackRaises(x)
      \/ \E x \in Editor : WriteEdit(x) \/ EditRaises(x)
  BY DEF TokenNext, Refresher, Resolve, Refuse, ForceRefresh, CallerLeaves, Acquire, AcquireFails,
     Load, Send, StopCancelled, Exchange, Retry, LosesTo, StartEdit, LoadEdit, CloseOwner,
     ReplicaDies, TokenExpires, LockLapses, Revoke
<1>5. ASSUME NEW x \in Refresher, WriteBack(x) \/ WriteBackRaises(x)
      PROVE  UNCHANGED stored \/ (Answered(x) /\ PersistAnswer(x))
  BY <1>5, WriteBackRaisesIs DEF WriteBack
<1>6. ASSUME NEW x \in Editor, WriteEdit(x) \/ EditRaises(x)
      PROVE  \/ UNCHANGED stored
             \/ slow[x].pc = "editing" /\ PersistEdit(x) /\ EndEdit(x)
  BY <1>6, EditRaisesIs DEF WriteEdit
<1> QED
  BY <1>1, <1>2, <1>3, <1>4, <1>5, <1>6, Slots DEF WritesConsent, Reconnecting

(***************************************************************************)
(* With one consent at a time, the pair of a consent that is not stored    *)
(* yet is the newest there is.                                             *)
(***************************************************************************)
Consents ==
  \A e \in Editor :
    Reconnecting(e) =>
      /\ stored.token < slow[e].got
      /\ \A y \in Slot : /\ slow[y].token < slow[e].got
                         /\ y # e => slow[y].got < slow[e].got

LEMMA TokensGoForward ==
  ASSUME RecordInv, Consents, TokenNext
  PROVE  stored'.token >= stored.token
<1>1. stored.token \in Nat /\ \A x \in Slot : slow[x].got \in Nat /\ slow[x].token \in Nat
  BY Numbers, TokenBoundsAssumption
<1>2. ASSUME NEW x \in Slot, WritesPair(x) PROVE stored'.token >= stored.token
  <2>1. slow[x].token < slow[x].got
    BY <1>2 DEF WritesPair, RecordInv, Path, Older
  <2> QED
    BY <1>1, <1>2, <2>1 DEF WritesPair
<1>3. ASSUME NEW x \in Slot, WritesConsent(x) PROVE stored'.token >= stored.token
  <2>1. Reconnecting(x) /\ x \in Editor /\ stored'.token = slow[x].got
    BY <1>3 DEF WritesConsent, Reconnecting
  <2>2. stored.token < slow[x].got
    BY <2>1 DEF Consents
  <2> QED
    BY <1>1, <2>1, <2>2
<1>4. CASE stored'.token = stored.token
  BY <1>1, <1>4
<1> QED
  BY <1>2, <1>3, <1>4, StoredSteps

LEMMA ConsentsKept ==
  ASSUME RecordInv, OneEditor, Consents, TokenNext
  PROVE  Consents'
<1> SUFFICES ASSUME NEW e \in Editor, Reconnecting(e)'
             PROVE  /\ stored'.token < slow'[e].got
                    /\ \A y \in Slot : /\ slow'[y].token < slow'[e].got
                                       /\ y # e => slow'[y].got < slow'[e].got
  BY Zenon DEF Consents
<1>1. slow'[e].pc # "none" /\ slow'[e].kind = "reconnect"
  BY DEF Reconnecting
<1>2. e \in Slot /\ e \notin Refresher /\ \A y \in Slot : y # e => y \in Refresher
  BY Slots DEF OneEditor
<1>3. /\ stored.token \in Nat /\ issued \in Nat /\ stored.token <= issued
      /\ \A y \in Slot : /\ slow[y].got \in Nat /\ slow[y].token \in Nat
                         /\ slow[y].got <= issued /\ slow[y].token <= issued
  BY Numbers, TokenBoundsAssumption DEF RecordInv, Path, Older
<1>4. \A y \in Slot : PathStep(y)
  BY PathSteps
<1>5. CASE Reconnecting(e) /\ slow'[e].got = slow[e].got
  <2>1. /\ stored.token < slow[e].got /\ slow[e].got <= issued
        /\ \A y \in Slot : /\ slow[y].token < slow[e].got
                           /\ y # e => slow[y].got < slow[e].got
    BY <1>2, <1>3, <1>5 DEF Consents
  <2>2. stored'.token < slow[e].got
    <3>1. ASSUME NEW x \in Slot, WritesPair(x) PROVE stored'.token < slow[e].got
      BY <1>2, <2>1, <3>1 DEF WritesPair
    <3>2. ASSUME NEW x \in Slot, WritesConsent(x) PROVE FALSE
      <4>1. x = e
        BY <1>2, <3>2, Slots DEF WritesConsent, Reconnecting
      <4> QED
        BY <1>1, <3>2, <4>1 DEF WritesConsent
    <3> QED
      BY <2>1, <3>1, <3>2, StoredSteps
  <2>3. ASSUME NEW y \in Slot PROVE slow'[y].token < slow[e].got
    BY <1>2, <1>3, <1>4, <2>1 DEF PathStep, Ends, Begins, GoesOn
  <2>4. ASSUME NEW y \in Slot, y # e PROVE slow'[y].got < slow[e].got
    <3>1. y \in Refresher /\ y \notin Editor
      BY <1>2, <2>4, Slots
    <3>2. slow[y].token # issued
      BY <1>2, <1>3, <2>1
    <3>3. slow'[y].got = slow[y].got \/ slow'[y].got = 0
      BY <1>4, <3>1, <3>2 DEF PathStep, Ends, Begins, GoesOn
    <3> QED
      BY <1>2, <1>3, <2>1, <2>4, <3>3
  <2> QED
    BY <1>5, <2>2, <2>3, <2>4
<1>6. CASE /\ slow'[e].got = issued + 1 /\ slow'[e].token = 0 /\ slow[e].pc = "none"
           /\ \A z \in Slot : z # e => slow'[z] = slow[z]
  <2>1. stored'.token <= issued
    BY <1>3, StoredSteps DEF WritesPair, WritesConsent
  <2>2. ASSUME NEW y \in Slot
        PROVE  slow'[y].token < issued + 1 /\ (y # e => slow'[y].got < issued + 1)
    BY <1>3, <1>6
  <2>3. stored'.token \in Int
    BY <1>3, StoredSteps DEF WritesPair, WritesConsent
  <2> QED
    BY <1>3, <1>6, <2>1, <2>2, <2>3
<1>7. \/ slow'[e] = slow[e] \/ GoesOn(e)
      \/ /\ slow'[e].got = issued + 1 /\ slow'[e].token = 0 /\ slow[e].pc = "none"
         /\ \A z \in Slot : z # e => slow'[z] = slow[z]
  BY <1>1, <1>2, <1>4 DEF PathStep, Ends, Begins
<1>8. slow'[e] = slow[e] \/ GoesOn(e) => Reconnecting(e) /\ slow'[e].got = slow[e].got
  BY <1>1, <1>2 DEF Reconnecting, GoesOn
<1> QED
  BY <1>5, <1>6, <1>7, <1>8

-----------------------------------------------------------------------------
(* The callers.                                                            *)

Runs(x, c) ==
  /\ slow[x].pc # "none" /\ slow[x].sent = call[c].sent
  /\ slow[x].kind = IF call[c].sent = 0 THEN "resolve" ELSE "force"

(***************************************************************************)
(* Who owns a slow path, or runs it inline, runs the one it asked for.     *)
(***************************************************************************)
CallFits(c) ==
  /\ slow[c].pc # "none" => call[c].pc \in {"inline", "left"}
  /\ call[c].pc = "idle" => call[c].sent = 0
  /\ call[c].pc = "refused" => call[c].sent # 0
  /\ call[c].pc = "owning" => Runs(ReplicaOf[c], c)
  /\ call[c].pc = "inline" => Runs(c, c)

CallTokens(c) ==
  /\ call[c].sent <= stored.token
  /\ call[c].pc = "served" => call[c].token >= 1 /\ call[c].token <= stored.token

CallNewer(c) ==
  ~excused /\ call[c].pc = "served" /\ call[c].sent # 0 => call[c].token > call[c].sent

Calls == \A c \in Caller : CallFits(c) /\ CallTokens(c) /\ CallNewer(c)

(***************************************************************************)
(* A forced refresh gives away the token that failed.                      *)
(***************************************************************************)
Forces ==
  \A x \in Refresher :
    slow[x].kind = "force" /\ slow[x].pc # "none" =>
      slow[x].sent <= stored.token /\ (slow[x].pc \in LoadedPc => slow[x].token = slow[x].sent)

ForwardInv == Exclusive /\ Consents /\ Forces /\ Calls

LEMMA ForcesKept ==
  ASSUME RecordInv, RecordInv', ForwardInv, TokenNext
  PROVE  Forces'
<1> SUFFICES ASSUME NEW x \in Refresher, slow'[x].kind = "force", slow'[x].pc # "none"
             PROVE  /\ slow'[x].sent <= stored'.token
                    /\ slow'[x].pc \in LoadedPc => slow'[x].token = slow'[x].sent
  BY Zenon DEF Forces
<1>1. x \in Slot /\ x \notin Editor
  BY Slots
<1>2. PathStep(x)
  BY <1>1, PathSteps
<1>3. stored'.token >= stored.token
  BY TokensGoForward DEF ForwardInv
<1>4. /\ stored.token \in Nat /\ stored'.token \in Nat /\ slow[x].sent \in Nat
      /\ \A c \in Caller : call[c].sent \in Nat /\ call[c].sent <= stored.token
  <2>1. TokenTypeOK /\ TokenTypeOK'
    BY DEF RecordInv
  <2> QED
    BY <1>1, <2>1, TokenBoundsAssumption
    DEF ForwardInv, Calls, CallTokens, TokenTypeOK, SlowPath, Call
<1>5. CASE slow'[x] = slow[x]
  BY <1>3, <1>4, <1>5 DEF ForwardInv, Forces
<1>6. CASE Begins(x)
  BY <1>1, <1>3, <1>4, <1>6 DEF Begins, Asks, LoadedPc
<1>7. CASE GoesOn(x)
  <2>1. slow[x].kind = "force" /\ slow[x].pc # "none" /\ slow'[x].sent = slow[x].sent
    BY <1>7 DEF GoesOn
  <2>2. /\ slow[x].sent <= stored.token
        /\ slow[x].pc \in LoadedPc => slow[x].token = slow[x].sent
    BY <2>1 DEF ForwardInv, Forces
  <2> QED
    BY <1>3, <1>4, <1>7, <2>1, <2>2 DEF GoesOn
<1>8. ~Ends(x)
  BY DEF Ends
<1> QED
  BY <1>2, <1>5, <1>6, <1>7, <1>8 DEF PathStep

Same(x) ==
  \/ slow'[x] = slow[x]
  \/ /\ slow[x].pc # "none" /\ slow'[x].pc # "none"
     /\ slow'[x].kind = slow[x].kind /\ slow'[x].sent = slow[x].sent

LEMMA CallStays ==
  ASSUME RecordInv, RecordInv', Calls, NEW c \in Caller, call'[c] = call[c],
         Same(c), call[c].pc = "owning" => Same(ReplicaOf[c]),
         stored'.token >= stored.token, ~excused' => ~excused
  PROVE  CallFits(c)' /\ CallTokens(c)' /\ CallNewer(c)'
<1>1. CallFits(c) /\ CallTokens(c) /\ CallNewer(c)
  BY DEF Calls
<1>2. CallFits(c)'
  BY <1>1 DEF CallFits, Runs, Same
<1>3. CallTokens(c)'
  <2>1. TokenTypeOK
    BY DEF RecordInv
  <2>2. /\ stored.token \in Nat /\ stored'.token \in Nat
        /\ call[c].sent \in Nat /\ call[c].token \in Nat
    BY <2>1, Numbers, TokenBoundsAssumption DEF RecordInv, TokenTypeOK, Call
  <2> QED
    BY <1>1, <2>2 DEF CallTokens
<1>4. CallNewer(c)'
  BY <1>1, Zenon DEF CallNewer
<1> QED
  BY <1>2, <1>3, <1>4

(***************************************************************************)
(* A slow path ends with what its callers are served.                      *)
(***************************************************************************)
LEMMA FinishKeepsCalls ==
  ASSUME RecordInv, RecordInv', Calls, NEW x \in Refresher, slow[x].pc # "none",
         NEW pc \in {"served", "denied"}, NEW token \in 0..MaxTokens, Finish(x, pc, token),
         pc = "served" => token >= 1 /\ token <= stored'.token,
         \A c \in Caller : pc = "served" /\ Runs(x, c) /\ call[c].sent # 0 /\ ~excused' =>
                            token > call[c].sent,
         stored'.token >= stored.token, ~excused' => ~excused
  PROVE  Calls'
<1> SUFFICES ASSUME NEW c \in Caller
             PROVE  CallFits(c)' /\ CallTokens(c)' /\ CallNewer(c)'
  BY DEF Calls
<1>1. x \in Slot /\ TokenTypeOK /\ CallFits(c) /\ CallTokens(c)
  BY Slots DEF RecordInv, Calls
<1>2. /\ slow'[x].pc = "none" /\ \A y \in Slot : y # x => slow'[y] = slow[y]
      /\ call'[c].sent = call[c].sent
      /\ \/ /\ Reaches(c, x) /\ call[c].pc \in {"owning", "inline"}
            /\ call'[c].pc = pc /\ call'[c].token = token
         \/ /\ x = ReplicaOf[c] /\ call[c].pc = "joining"
            /\ call'[c].pc = Again(c) /\ call'[c].token = call[c].token
         \/ /\ ~(Reaches(c, x) /\ call[c].pc \in {"owning", "inline"})
            /\ call'[c] = call[c]
  BY <1>1, FinishIs, NoSlowIs
<1>3. /\ c \in Slot /\ ReplicaOf[c] \in Slot /\ ReplicaOf[c] \in Replica
      /\ ReplicaOf[c] \notin Caller
  BY ReplicaOfAssumption, SlotAssumption DEF Slot
<1>4. /\ stored.token \in Nat /\ stored'.token \in Nat
      /\ call[c].sent \in Nat /\ call[c].token \in Nat
  BY <1>1, Numbers, CallField, TokenBoundsAssumption DEF RecordInv, TokenTypeOK
<1>5. call'[c].sent <= stored'.token
  BY <1>1, <1>2, <1>4 DEF CallTokens
<1>6. ASSUME call[c].pc \notin {"inline", "left"} PROVE slow'[c].pc = "none"
  BY <1>1, <1>2, <1>3, <1>6 DEF CallFits
<1>7. CASE /\ Reaches(c, x) /\ call[c].pc \in {"owning", "inline"}
           /\ call'[c].pc = pc /\ call'[c].token = token
  <2>1. Runs(x, c)
    BY <1>1, <1>3, <1>7 DEF Reaches, CallFits
  <2>2. slow'[c].pc = "none"
    BY <1>1, <1>2, <1>3, <1>6, <1>7, SlotAssumption DEF Reaches
  <2>3. CallFits(c)'
    BY <1>7, <2>2 DEF CallFits
  <2>4. CallTokens(c)'
    BY <1>5, <1>7 DEF CallTokens
  <2>5. ASSUME ~excused', pc = "served", call[c].sent # 0 PROVE token > call[c].sent
    BY <2>1, <2>5
  <2>6. CallNewer(c)'
    BY <1>2, <1>7, <2>5, Zenon DEF CallNewer
  <2> QED
    BY <2>3, <2>4, <2>6
<1>8. CASE /\ x = ReplicaOf[c] /\ call[c].pc = "joining"
           /\ call'[c].pc = Again(c) /\ call'[c].token = call[c].token
  <2>1. slow'[c].pc = "none"
    BY <1>6, <1>8
  <2>2. call'[c].pc = IF call[c].sent = 0 THEN "idle" ELSE "refused"
    BY <1>8 DEF Again
  <2>3. CallFits(c)'
    BY <1>2, <2>1, <2>2 DEF CallFits
  <2>4. call'[c].pc # "served"
    BY <2>2
  <2>5. CallTokens(c)'
    BY <1>5, <2>4 DEF CallTokens
  <2>6. CallNewer(c)'
    BY <2>4, Zenon DEF CallNewer
  <2> QED
    BY <2>3, <2>5, <2>6
<1>9. CASE /\ ~(Reaches(c, x) /\ call[c].pc \in {"owning", "inline"})
           /\ call'[c] = call[c]
  <2>1. CASE c = x
    <3>1. call[c].pc \notin {"owning", "inline"} /\ slow'[c].pc = "none"
      BY <1>2, <1>9, <2>1 DEF Reaches
    <3>2. CallFits(c)'
      BY <1>1, <1>9, <3>1 DEF CallFits
    <3>3. CallTokens(c)'
      BY <1>1, <1>4, <1>9 DEF CallTokens
    <3>4. CallNewer(c)'
      BY <1>9, Zenon DEF CallNewer, Calls
    <3> QED
      BY <3>2, <3>3, <3>4
  <2>2. CASE c # x
    <3>1. Same(c)
      BY <1>2, <1>3, <2>2 DEF Same
    <3>2. call[c].pc = "owning" => Same(ReplicaOf[c])
      BY <1>2, <1>3, <1>9 DEF Same, Reaches
    <3> QED
      BY <1>9, <3>1, <3>2, CallStays
  <2> QED
    BY <2>1, <2>2
<1> QED
  BY <1>2, <1>7, <1>8, <1>9

LEMMA HandOverKeepsCalls ==
  ASSUME RecordInv, RecordInv', Calls, NEW c \in Caller, NEW kind \in {"resolve", "force"},
         HandOver(c, kind), stored' = stored, ~excused' => ~excused,
         \/ call[c].pc = "idle" /\ kind = "resolve"
         \/ call[c].pc = "refused" /\ kind = "force"
  PROVE  Calls'
<1>1. TokenTypeOK /\ call[c].sent \in 0..MaxTokens /\ stored'.token >= stored.token
  BY CallField, Numbers DEF RecordInv
<1>2. /\ call'[c].sent = call[c].sent /\ call'[c].token = call[c].token
      /\ \A d \in Caller : d # c => call'[d] = call[d]
      /\ \/ call'[c].pc = "inline" /\ Starts(c, kind, call[c].sent)
         \/ /\ call'[c].pc = "owning" /\ slow[ReplicaOf[c]].pc = "none"
            /\ Starts(ReplicaOf[c], kind, call[c].sent)
         \/ call'[c].pc = "joining" /\ UNCHANGED slow
  BY <1>1, HandOverIs
<1>3. /\ \A d \in Caller : /\ d \in Slot /\ ReplicaOf[d] \in Slot
                           /\ ReplicaOf[d] \in Replica /\ ReplicaOf[d] \notin Caller
  BY ReplicaOfAssumption, SlotAssumption DEF Slot
<1>4. CallFits(c) /\ CallTokens(c) /\ slow[c].pc = "none"
      /\ kind = IF call[c].sent = 0 THEN "resolve" ELSE "force"
  BY DEF Calls, CallFits
<1>5. CallTokens(c)' /\ CallNewer(c)'
  <2>1. call'[c].pc # "served"
    BY <1>2
  <2>2. CallTokens(c)'
    BY <1>2, <1>4, <2>1 DEF CallTokens
  <2> QED
    BY <2>1, <2>2, Zenon DEF CallNewer
<1>6. CallFits(c)' /\ \A d \in Caller : d # c =>
        Same(d) /\ (call[d].pc = "owning" => Same(ReplicaOf[d]))
  <2>1. ASSUME NEW x \in Slot, Starts(x, kind, call[c].sent)
        PROVE  /\ slow'[x].pc = "queued" /\ slow'[x].kind = kind
               /\ slow'[x].sent = call[c].sent
               /\ \A y \in Slot : y # x => slow'[y] = slow[y]
    BY <1>1, <2>1, StartsIs
  <2>2. CASE call'[c].pc = "inline" /\ Starts(c, kind, call[c].sent)
    <3>1. CallFits(c)'
      BY <1>2, <1>3, <1>4, <2>1, <2>2 DEF CallFits, Runs
    <3> QED
      BY <1>3, <2>1, <2>2, <3>1 DEF Same
  <2>3. CASE /\ call'[c].pc = "owning" /\ slow[ReplicaOf[c]].pc = "none"
             /\ Starts(ReplicaOf[c], kind, call[c].sent)
    <3>1. CallFits(c)'
      BY <1>2, <1>3, <1>4, <2>1, <2>3 DEF CallFits, Runs
    <3>2. ASSUME NEW d \in Caller, call[d].pc = "owning" PROVE ReplicaOf[d] # ReplicaOf[c]
      BY <2>3, <3>2 DEF Calls, CallFits, Runs
    <3> QED
      BY <1>3, <2>1, <2>3, <3>1, <3>2 DEF Same
  <2>4. CASE call'[c].pc = "joining" /\ UNCHANGED slow
    BY <1>4, <2>4 DEF CallFits, Same
  <2> QED
    BY <1>2, <2>2, <2>3, <2>4
<1>7. ASSUME NEW d \in Caller, d # c PROVE CallFits(d)' /\ CallTokens(d)' /\ CallNewer(d)'
  BY <1>1, <1>2, <1>6, <1>7, CallStays
<1> QED
  BY <1>5, <1>6, <1>7 DEF Calls

(***************************************************************************)
(* A caller goes to another pc.                                            *)
(***************************************************************************)
CallAt(c, pc) == call' = [call EXCEPT ![c].pc = pc]

LEMMA CallMoves ==
  ASSUME TokenTypeOK, NEW c \in Caller, NEW pc, CallAt(c, pc)
  PROVE  /\ call'[c].pc = pc /\ call'[c].sent = call[c].sent
         /\ \A d \in Caller : d # c => call'[d] = call[d]
  BY DEF CallAt, TokenTypeOK, Call

LEMMA CallersKeepCalls ==
  ASSUME RecordInv, RecordInv', Calls, NEW c \in Caller, ~excused' => ~excused,
         Resolve(c) \/ Refuse(c) \/ ForceRefresh(c) \/ CallerLeaves(c)
  PROVE  Calls'
<1>1. TokenTypeOK /\ stored' = stored /\ stored'.token >= stored.token
      /\ stored.token \in 1..MaxTokens
  BY Numbers DEF RecordInv, Resolve, Refuse, ForceRefresh, CallerLeaves
<1>2. CallFits(c) /\ CallTokens(c)
  BY DEF Calls
<1>3. ASSUME UNCHANGED slow, \A d \in Caller : d # c => call'[d] = call[d],
             CallFits(c)', CallTokens(c)', CallNewer(c)'
      PROVE  Calls'
  <2>1. ASSUME NEW d \in Caller, d # c PROVE CallFits(d)' /\ CallTokens(d)' /\ CallNewer(d)'
    BY <1>1, <1>3, <2>1, CallStays DEF Same
  <2> QED
    BY <1>3, <2>1 DEF Calls
<1>4. ASSUME NEW pc \in {"denied", "left"}, CallAt(c, pc), UNCHANGED slow,
             call[c].pc \in {"idle", "owning", "inline"},
             pc = "denied" => call[c].pc = "idle"
      PROVE  Calls'
  <2>1. /\ call'[c].pc = pc /\ call'[c].sent = call[c].sent
        /\ \A d \in Caller : d # c => call'[d] = call[d]
    BY <1>1, <1>4, CallMoves
  <2>2. CallFits(c)'
    BY <1>2, <1>4, <2>1 DEF CallFits
  <2>3. CallTokens(c)'
    BY <1>1, <1>2, <1>4, <2>1 DEF CallTokens
  <2>4. CallNewer(c)'
    BY <1>4, <2>1, Zenon DEF CallNewer
  <2> QED
    BY <1>3, <1>4, <2>1, <2>2, <2>3, <2>4
<1>5. CASE Resolve(c)
  <2>1. /\ call[c].pc = "idle"
        /\ \/ CallAt(c, "denied") /\ UNCHANGED slow
           \/ Serves(c, stored.token) /\ UNCHANGED slow
           \/ HandOver(c, "resolve")
    BY <1>5 DEF Resolve, Serves, CallAt
  <2>2. CASE Serves(c, stored.token) /\ UNCHANGED slow
    <3>1. /\ call'[c].pc = "served" /\ call'[c].token = stored.token
          /\ call'[c].sent = call[c].sent
          /\ \A d \in Caller : d # c => call'[d] = call[d]
      BY <1>1, <2>2, ServedIs
    <3>2. CallFits(c)' /\ call'[c].sent = 0
      BY <1>2, <2>1, <2>2, <3>1 DEF CallFits
    <3>3. CallTokens(c)'
      BY <1>1, <1>2, <3>1 DEF CallTokens
    <3>4. CallNewer(c)'
      BY <3>2, Zenon DEF CallNewer
    <3> QED
      BY <1>3, <2>2, <3>1, <3>2, <3>3, <3>4
  <2>3. CASE HandOver(c, "resolve")
    BY <1>1, <2>1, <2>3, HandOverKeepsCalls
  <2> QED
    BY <1>4, <2>1, <2>2, <2>3
<1>6. CASE Refuse(c)
  <2>1. /\ call'[c].pc = "refused" /\ call'[c].sent = call[c].token
        /\ \A d \in Caller : d # c => call'[d] = call[d]
    BY <1>1, <1>6, RefusedIs
  <2>2. call[c].pc = "served" /\ UNCHANGED slow
    BY <1>6 DEF Refuse
  <2>3. call[c].token >= 1 /\ call[c].token <= stored.token
    BY <1>2, <2>2 DEF CallTokens
  <2>4. CallFits(c)'
    BY <1>2, <2>1, <2>2, <2>3 DEF CallFits
  <2>5. CallTokens(c)'
    BY <1>1, <2>1, <2>3 DEF CallTokens
  <2>6. CallNewer(c)'
    BY <2>1, Zenon DEF CallNewer
  <2> QED
    BY <1>3, <2>1, <2>2, <2>4, <2>5, <2>6
<1>7. CASE ForceRefresh(c)
  BY <1>1, <1>7, HandOverKeepsCalls DEF ForceRefresh
<1>8. CASE CallerLeaves(c)
  BY <1>4, <1>8 DEF CallerLeaves, CallAt
<1> QED
  BY <1>5, <1>6, <1>7, <1>8

(***************************************************************************)
(* Unless something excused it, nobody loses a compare-and-set.            *)
(***************************************************************************)
LEMMA NobodyLoses ==
  ASSUME Exclusive, ~excused, NEW x \in Slot, slow[x].pc \in LoadedPc
  PROVE  slow[x].blob = stored.blob
  BY DEF Exclusive, Guarded, InSection, LoadedPc

LEMMA RefreshersKeepCalls ==
  ASSUME RecordInv, RecordInv', ForwardInv, NEW x \in Refresher, TokenNext,
         \/ Load(x) \/ Send(x) \/ StopCancelled(x) \/ Exchange(x)
         \/ WriteBack(x) \/ WriteBackRaises(x) \/ Retry(x) \/ LosesTo(x)
  PROVE  Calls'
<1>1. TokenTypeOK /\ Calls /\ x \in Slot /\ \A y \in Slot : PathStep(y)
  BY Slots, PathSteps DEF RecordInv, ForwardInv
<1>2. /\ stored'.token >= stored.token
      /\ stored.token \in 1..MaxTokens /\ 0 \in 0..MaxTokens
  BY Numbers, TokensGoForward, TokenBoundsAssumption DEF ForwardInv
<1>3. ~excused' => ~excused
  BY ExcusedStays, Zenon
<1>4. \A c \in Caller : c \in Slot /\ ReplicaOf[c] \in Slot /\ call[c].sent \in Nat
  BY <1>1, CallField, ReplicaOfAssumption, TokenBoundsAssumption DEF Slot
<1>5. ASSUME UNCHANGED call, \A y \in Slot : y # x => slow'[y] = slow[y],
             slow[x].pc # "none", slow'[x].pc # "none",
             slow'[x].kind = slow[x].kind, slow'[x].sent = slow[x].sent
      PROVE  Calls'
  <2>1. ASSUME NEW c \in Caller PROVE CallFits(c)' /\ CallTokens(c)' /\ CallNewer(c)'
    BY <1>1, <1>2, <1>3, <1>4, <1>5, CallStays DEF Same
  <2> QED
    BY <2>1 DEF Calls
<1>6. ASSUME slow[x].pc # "none", Finish(x, "denied", 0) PROVE Calls'
  BY <1>1, <1>2, <1>3, <1>6, FinishKeepsCalls
<1>7. ASSUME slow[x].pc # "none", NEW token \in 1..MaxTokens, Finish(x, "served", token),
             token <= stored'.token,
             slow[x].kind = "force" /\ ~excused' => token > slow[x].sent
      PROVE  Calls'
  <2>1. ASSUME NEW c \in Caller, Runs(x, c), call[c].sent # 0, ~excused'
        PROVE  token > call[c].sent
    BY <1>7, <2>1 DEF Runs
  <2> QED
    BY <1>1, <1>2, <1>3, <1>7, <2>1, FinishKeepsCalls
<1>8. CASE Load(x)
  <2>1. slow[x].pc = "loading" /\ slow[x].kind \in {"resolve", "force"} /\ UNCHANGED stored
    BY <1>8 DEF Load
  <2>2. \/ Finish(x, "denied", 0)
        \/ /\ Finish(x, "served", stored.token)
           /\ slow[x].kind = "force" => stored.token # slow[x].sent
        \/ Loaded(x, "ready") /\ UNCHANGED call
    BY <2>1, <1>8 DEF Load, Going
  <2>3. CASE /\ Finish(x, "served", stored.token)
             /\ slow[x].kind = "force" => stored.token # slow[x].sent
    <3>1. slow[x].kind = "force" => slow[x].sent <= stored.token
      BY <2>1 DEF ForwardInv, Forces
    <3>2. slow[x].kind = "force" => stored.token > slow[x].sent
      <4>1. slow[x].sent \in 0..MaxTokens
        BY <1>1, Numbers
      <4> QED
        BY <1>2, <2>3, <3>1, <4>1, TokenBoundsAssumption
    <3> QED
      BY <1>2, <1>7, <2>1, <2>3, <3>2
  <2>4. CASE Loaded(x, "ready") /\ UNCHANGED call
    <3>1. /\ slow'[x].pc = "ready" /\ slow'[x].kind = slow[x].kind
          /\ slow'[x].sent = slow[x].sent /\ \A y \in Slot : y # x => slow'[y] = slow[y]
      BY <1>1, <2>4, LoadedIs DEF SlowPc
    <3> QED
      BY <1>5, <2>1, <2>4, <3>1
  <2> QED
    BY <1>6, <2>1, <2>2, <2>3, <2>4
<1>9. ASSUME NEW pc \in {"sending", "failed", "refused"}, SlowAt(x, pc),
             slow[x].pc \in {"ready", "sending"}, UNCHANGED call
      PROVE  Calls'
  <2>1. /\ slow'[x].pc = pc /\ slow'[x].kind = slow[x].kind /\ slow'[x].sent = slow[x].sent
        /\ \A y \in Slot : y # x => slow'[y] = slow[y]
    BY <1>1, <1>9, SlowMoves DEF SlowPc
  <2> QED
    BY <1>5, <1>9, <2>1
<1>10. CASE Send(x)
  BY <1>9, <1>10 DEF Send
<1>11. CASE StopCancelled(x)
  BY <1>6, <1>11 DEF StopCancelled
<1>12. CASE Exchange(x)
  <2>1. /\ slow[x].pc = "sending" /\ UNCHANGED call
        /\ \/ issued < MaxTokens /\ IssuesTo(x)
           \/ \E pc \in {"failed", "refused"} : SlowAt(x, pc)
    BY <1>12 DEF Exchange, IssuesTo
  <2>2. ASSUME issued < MaxTokens, IssuesTo(x) PROVE Calls'
    BY <1>1, <1>5, <2>1, <2>2, IssuedIs
  <2> QED
    BY <1>9, <2>1, <2>2
<1>13. CASE WriteBack(x)
  <2>1. \/ /\ slow[x].pc = "issued" /\ stored'.token = slow[x].got
           /\ Finish(x, "served", slow[x].got)
        \/ slow[x].pc # "none" /\ Finish(x, "denied", 0)
    BY <1>13, AnswerIs, PersistAnswerIs DEF WriteBack, Persist
  <2>2. CASE /\ slow[x].pc = "issued" /\ stored'.token = slow[x].got
             /\ Finish(x, "served", slow[x].got)
    <3>1. /\ slow[x].token < slow[x].got /\ slow[x].token \in 0..MaxTokens
          /\ slow[x].got \in 0..MaxTokens
      BY <1>1, <2>2, Numbers DEF RecordInv, Path, Older
    <3>2. slow[x].got \in 1..MaxTokens /\ slow[x].got <= stored'.token
      BY <2>2, <3>1, TokenBoundsAssumption
    <3>3. slow[x].kind = "force" => slow[x].token = slow[x].sent
      BY <2>2 DEF ForwardInv, Forces, LoadedPc
    <3>4. slow[x].kind = "force" => slow[x].got > slow[x].sent
      BY <3>1, <3>3, TokenBoundsAssumption
    <3> QED
      BY <1>7, <2>2, <3>2, <3>4
  <2> QED
    BY <1>6, <2>1, <2>2
<1>14. CASE Retry(x)
  <2>1. slow[x].pc = "failed" /\ UNCHANGED call
    BY <1>14 DEF Retry
  <2> QED
    BY <1>1, <1>5, <1>14, <2>1, RetryIs
<1>15. CASE LosesTo(x)
  <2>1. /\ slow[x].pc \in LoadedPc /\ slow[x].pc # "none" /\ slow[x].blob # stored.blob
        /\ Finish(x, "served", stored.token) \/ Finish(x, "denied", 0)
    BY <1>15, AnswerIs DEF LosesTo
  <2>2. ASSUME ~excused' PROVE FALSE
    BY <1>1, <1>3, <2>1, <2>2, NobodyLoses DEF ForwardInv
  <2> QED
    BY <1>2, <1>6, <1>7, <2>1, <2>2
<1>16. CASE WriteBackRaises(x)
  BY <1>6, <1>16, WriteBackRaisesIs, AnswerIs
<1> QED
  BY <1>8, <1>10, <1>11, <1>12, <1>13, <1>14, <1>15, <1>16

LEMMA CallsKept ==
  ASSUME RecordInv, RecordInv', ForwardInv, TokenNext
  PROVE  Calls'
<1>1. TokenTypeOK /\ Calls /\ stored'.token >= stored.token
  BY TokensGoForward DEF RecordInv, ForwardInv
<1>2. ~excused' => ~excused
  BY ExcusedStays, Zenon
<1>3. \A c \in Caller : /\ c \in Slot /\ c \in Refresher
                        /\ ReplicaOf[c] \in Slot /\ ReplicaOf[c] \in Refresher
                        /\ ReplicaOf[c] \in Replica /\ ReplicaOf[c] \notin Caller
  BY ReplicaOfAssumption, SlotAssumption DEF Slot, Refresher
<1>4. ASSUME NEW c \in Caller, call'[c] = call[c], Same(c), Same(ReplicaOf[c])
      PROVE  CallFits(c)' /\ CallTokens(c)' /\ CallNewer(c)'
  BY <1>1, <1>2, <1>4, CallStays
<1>5. ASSUME UNCHANGED <<call, slow>> PROVE Calls'
  BY <1>4, <1>5 DEF Calls, Same
<1>6. ASSUME NEW x \in Slot, Acquire(x) \/ AcquireFails(x) PROVE Calls'
  <2>1. slow[x].pc = "queued" /\ SlowAt(x, "loading") /\ UNCHANGED call
    BY <1>6 DEF Acquire, AcquireFails
  <2>2. \A y \in Slot : Same(y)
    BY <1>1, <2>1, SlowMoves DEF Same, SlowPc
  <2> QED
    BY <1>3, <1>4, <2>1, <2>2 DEF Calls
<1>7. ASSUME NEW x \in Editor, StartEdit(x) \/ LoadEdit(x) \/ WriteEdit(x) \/ EditRaises(x)
      PROVE  Calls'
  <2>1. UNCHANGED call /\ x \in Slot /\ x \notin Refresher
    <3>1. CASE StartEdit(x)
      BY <3>1, Slots DEF StartEdit
    <3>2. CASE LoadEdit(x)
      BY <3>2, Slots DEF LoadEdit, Going
    <3>3. CASE WriteEdit(x) \/ EditRaises(x)
      BY <3>3, Slots DEF WriteEdit, EditRaises
    <3> QED
      BY <1>7, <3>1, <3>2, <3>3
  <2>2. \A y \in Slot : y # x => slow'[y] = slow[y]
    <3>1. CASE StartEdit(x)
      BY <1>1, <3>1 DEF TokenTypeOK, StartEdit, Starts
    <3>2. CASE LoadEdit(x)
      BY <1>1, <3>2 DEF TokenTypeOK, LoadEdit, Going, Loaded
    <3>3. CASE WriteEdit(x) \/ EditRaises(x)
      BY <1>1, <3>3 DEF TokenTypeOK, WriteEdit, EditRaises, EndEdit, SlowAt
    <3> QED
      BY <1>7, <3>1, <3>2, <3>3
  <2> QED
    BY <1>3, <1>4, <2>1, <2>2 DEF Calls, Same
<1>8. ASSUME NEW p \in Replica, CloseOwner(p) PROVE Calls'
  BY <1>5, <1>8 DEF CloseOwner
<1>9. ASSUME NEW p \in Replica, ReplicaDies(p) PROVE Calls'
  <2> SUFFICES ASSUME NEW c \in Caller
               PROVE  CallFits(c)' /\ CallTokens(c)' /\ CallNewer(c)'
    BY DEF Calls
  <2>1. stored' = stored
    BY <1>9 DEF ReplicaDies
  <2>2. CASE ReplicaOf[c] = p
    <3>1. call'[c] = [call[c] EXCEPT !.pc = "left"]
      BY <1>9, <2>2 DEF ReplicaDies
    <3>2. call'[c].pc = "left" /\ call'[c].sent = call[c].sent
      BY <1>1, <3>1 DEF TokenTypeOK, Call
    <3>3. CallFits(c)'
      BY <3>2 DEF CallFits
    <3>4. CallTokens(c)'
      BY <1>1, <2>1, <3>2 DEF Calls, CallTokens
    <3>5. CallNewer(c)'
      BY <3>2, Zenon DEF CallNewer
    <3> QED
      BY <3>3, <3>4, <3>5
  <2>3. CASE ReplicaOf[c] # p
    <3>1. c \notin Mine(p) /\ ReplicaOf[c] \notin Mine(p)
      BY <1>3, <2>3 DEF Mine, HomeOf
    <3>2. /\ call'[c] = call[c] /\ slow'[c] = slow[c]
          /\ slow'[ReplicaOf[c]] = slow[ReplicaOf[c]]
      BY <1>3, <1>9, <2>3, <3>1 DEF ReplicaDies
    <3> QED
      BY <1>4, <3>2 DEF Same
  <2> QED
    BY <2>2, <2>3
<1>10. CASE TokenExpires \/ LockLapses \/ Revoke
  BY <1>5, <1>10 DEF TokenExpires, LockLapses, Revoke
<1> QED
  BY <1>1, <1>2, <1>6, <1>7, <1>8, <1>9, <1>10, CallersKeepCalls, RefreshersKeepCalls
  DEF TokenNext, Refresher

-----------------------------------------------------------------------------
(* The grant.                                                              *)

(***************************************************************************)
(* A pair that is not written down yet is not dropped.                     *)
(***************************************************************************)
LEMMA PairsAreWritten ==
  ASSUME RecordInv, ForwardInv, TokenNext, ~excused', NEW x \in Slot,
         slow[x].got # 0, slow'[x].got # slow[x].got
  PROVE  stored'.token = slow[x].got
<1>1. TokenTypeOK /\ Calls /\ Exclusive /\ Fits(x)
  BY DEF RecordInv, Path, ForwardInv
<1>2. ~excused
  BY ExcusedStays
<1>3. \/ x \in Refresher /\ x \notin Editor /\ slow[x].pc = "issued"
      \/ x \in Editor /\ x \notin Refresher /\ Reconnecting(x)
  BY <1>1, Slots DEF Fits
<1>4. slow[x].pc # "none"
  BY <1>3 DEF Reconnecting
<1>5. ASSUME NEW c \in Caller, NEW kind \in {"resolve", "force"}, HandOver(c, kind),
             call[c].pc \in {"idle", "refused"}
      PROVE  FALSE
  <2>1. slow[c].pc = "none"
    BY <1>1, <1>5 DEF Calls, CallFits
  <2>2. \/ Starts(c, kind, call[c].sent)
        \/ /\ slow[ReplicaOf[c]].pc = "none" /\ Starts(ReplicaOf[c], kind, call[c].sent)
        \/ UNCHANGED slow
    BY <1>1, <1>5, HandOverIs
  <2> QED
    BY <1>1, <1>4, <2>1, <2>2 DEF Starts, TokenTypeOK
<1>6. ASSUME NEW c \in Caller, Resolve(c) \/ Refuse(c) \/ ForceRefresh(c) \/ CallerLeaves(c)
      PROVE  FALSE
  BY <1>5, <1>6 DEF Resolve, Refuse, ForceRefresh, CallerLeaves
<1>7. ASSUME NEW y \in Slot, NEW pc \in SlowPc, SlowAt(y, pc) PROVE FALSE
  BY <1>1, <1>7, SlowMoves
<1>8. ASSUME NEW y \in Slot, NEW pc \in SlowPc, Loaded(y, pc) PROVE FALSE
  BY <1>1, <1>8, LoadedIs
<1>9. ASSUME NEW y \in Slot, NEW pc, NEW token, Finish(y, pc, token) PROVE x = y
  BY <1>1, <1>9 DEF Finish, TokenTypeOK
<1>10. ASSUME NEW y \in Refresher,
              \/ Load(y) \/ Send(y) \/ StopCancelled(y) \/ Exchange(y)
              \/ WriteBack(y) \/ WriteBackRaises(y) \/ Retry(y) \/ LosesTo(y)
       PROVE  stored'.token = slow[x].got
  <2>1. y \in Slot
    BY Slots
  <2>2. CASE Load(y)
    <3>1. slow[y].pc = "loading"
          /\ (Finish(y, "denied", 0) \/ Finish(y, "served", stored.token) \/ Loaded(y, "ready"))
      BY <2>2 DEF Load, Going
    <3> QED
      BY <1>3, <1>8, <1>9, <1>10, <2>1, <3>1 DEF SlowPc
  <2>3. CASE Send(y)
    BY <1>7, <2>1, <2>3 DEF Send, SlowPc
  <2>4. CASE StopCancelled(y)
    BY <1>3, <1>9, <1>10, <2>1, <2>4 DEF StopCancelled
  <2>5. CASE Exchange(y)
    <3>1. /\ slow[y].pc = "sending"
          /\ \/ issued < MaxTokens /\ IssuesTo(y)
             \/ \E pc \in {"failed", "refused"} : SlowAt(y, pc)
      BY <2>5 DEF Exchange, IssuesTo
    <3>2. ASSUME issued < MaxTokens, IssuesTo(y) PROVE FALSE
      BY <1>1, <1>3, <1>10, <2>1, <3>1, <3>2, IssuedIs
    <3> QED
      BY <1>7, <2>1, <3>1, <3>2 DEF SlowPc
  <2>6. CASE WriteBack(y)
    <3>1. \/ slow[y].pc = "issued" /\ stored'.token = slow[y].got /\ Finish(y, "served", slow[y].got)
          \/ slow[y].pc # "issued" /\ Finish(y, "denied", 0)
      BY <2>6, PersistAnswerIs DEF WriteBack, Persist
    <3> QED
      BY <1>3, <1>9, <1>10, <2>1, <3>1
  <2>7. CASE Retry(y)
    BY <1>1, <2>1, <2>7, RetryIs
  <2>8. CASE LosesTo(y)
    <3>1. slow[y].pc \in LoadedPc /\ slow[y].blob # stored.blob
      BY <2>8, AnswerIs DEF LosesTo
    <3> QED
      BY <1>1, <1>2, <2>1, <3>1, NobodyLoses
  <2>9. CASE WriteBackRaises(y)
    <3>1. /\ Answered(y) /\ Finish(y, "denied", 0)
          /\ PersistAnswer(y) \/ slow[y].pc # "issued"
      BY <1>10, <2>9, WriteBackRaisesIs
    <3>2. x = y
      BY <1>9, <2>1, <3>1
    <3>3. slow[y].pc = "issued"
      BY <1>3, <1>10, <3>2
    <3> QED
      BY <3>1, <3>2, <3>3, PersistAnswerIs DEF Persist
  <2> QED
    BY <1>10, <2>2, <2>3, <2>4, <2>5, <2>6, <2>7, <2>8, <2>9
<1>11. ASSUME NEW y \in Editor, StartEdit(y) \/ LoadEdit(y) \/ WriteEdit(y) \/ EditRaises(y)
       PROVE  stored'.token = slow[x].got
  <2>1. y \in Slot
    BY Slots
  <2>2. CASE StartEdit(y)
    <3>1. slow[y].pc = "none" /\ \A z \in Slot : z # y => slow'[z] = slow[z]
      BY <1>1, <2>2, NoSlowIs DEF StartEdit, Starts, TokenTypeOK
    <3> QED
      BY <1>4, <3>1
  <2>3. CASE LoadEdit(y)
    BY <1>8, <2>1, <2>3 DEF LoadEdit, Going, SlowPc
  <2>4. CASE WriteEdit(y)
    <3>1. slow[y].pc = "editing"
      BY <2>4 DEF WriteEdit
    <3>2. stored.blob = slow[y].blob
      BY <1>1, <1>2, <2>1, <3>1, NobodyLoses DEF LoadedPc
    <3>3. EndEdit(y) /\ (slow[y].kind = "reconnect" => stored'.token = slow[y].got)
      BY <2>4, <3>1, <3>2, EditWrites DEF WriteEdit
    <3>4. x = y
      BY <3>3 DEF EndEdit
    <3> QED
      BY <1>3, <1>11, <3>3, <3>4 DEF Reconnecting
  <2>5. CASE EditRaises(y)
    <3>1. /\ EndEdit(y) /\ slow[y].pc = "editing"
          /\ PersistEdit(y) \/ slow[y].kind # "reconnect"
      BY <1>11, <2>5, EditRaisesIs
    <3>2. x = y
      BY <3>1 DEF EndEdit
    <3>3. slow[y].kind = "reconnect"
      BY <1>3, <1>11, <3>2 DEF Reconnecting
    <3> QED
      BY <1>11, <3>1, <3>2, <3>3, EditWrites
  <2> QED
    BY <1>11, <2>2, <2>3, <2>4, <2>5
<1>12. ASSUME NEW y \in Slot, Acquire(y) \/ AcquireFails(y) PROVE FALSE
  BY <1>7, <1>12 DEF Acquire, AcquireFails, SlowPc
<1>13. ASSUME NEW p \in Replica, CloseOwner(p) PROVE FALSE
  BY <1>13 DEF CloseOwner
<1>14. ASSUME NEW p \in Replica, ReplicaDies(p) PROVE FALSE
  <2>1. slow' = [y \in Slot |-> IF y \in Mine(p) THEN NoSlow ELSE slow[y]]
    BY <1>14 DEF ReplicaDies
  <2>2. ~\E y \in Mine(p) : slow[y].pc = "issued"
    BY <1>14, Zenon DEF ReplicaDies
  <2>3. x \in Mine(p)
    BY <2>1
  <2> QED
    BY <1>3, <2>2, <2>3 DEF Mine, Refresher
<1>15. CASE TokenExpires \/ LockLapses \/ Revoke
  BY <1>15 DEF TokenExpires, LockLapses, Revoke
<1> QED
  BY <1>6, <1>10, <1>11, <1>12, <1>13, <1>14, <1>15 DEF TokenNext, Refresher

LEMMA IssuesAreNoted ==
  ASSUME RecordInv, TokenNext, ~excused', issued' # issued
  PROVE  \E x \in Slot : slow'[x].got = issued'
<1>1. TokenTypeOK
  BY DEF RecordInv
<1>2. ASSUME NEW x \in Refresher, Exchange(x) PROVE slow'[x].got = issued'
  <2>1. issued' = issued + 1 /\ issued < MaxTokens
        /\ (IssuesTo(x) \/ excused' = TRUE)
    BY <1>2 DEF Exchange, IssuesTo
  <2>2. IssuesTo(x)
    BY <2>1
  <2> QED
    BY <1>1, <2>1, <2>2, IssuedIs, Slots
<1>3. ASSUME NEW x \in Editor, StartEdit(x) PROVE slow'[x].got = issued'
  <2>1. issued' = issued + 1 /\ issued < MaxTokens /\ Reconnects(x)
    BY <1>3 DEF StartEdit, Reconnects
  <2> QED
    BY <1>1, <2>1, ReconnectsIs, Slots
<1>4. CASE Revoke
  <2>1. excused'
    BY <1>4, Zenon DEF Revoke
  <2> QED
    BY <2>1
<1>5. \/ \E x \in Refresher : Exchange(x)
      \/ \E x \in Editor : StartEdit(x)
      \/ Revoke
  BY DEF TokenNext, Refresher, Resolve, Refuse, ForceRefresh, CallerLeaves, Acquire, AcquireFails,
     Load, Send, StopCancelled, WriteBack, WriteBackRaises, Retry, LosesTo, LoadEdit, WriteEdit,
     EditRaises, CloseOwner, ReplicaDies, TokenExpires, LockLapses
<1> QED
  BY <1>2, <1>3, <1>4, <1>5, Slots

Granted == ~excused => stored.token = issued \/ \E x \in Slot : slow[x].got = issued

LEMMA GrantedKept ==
  ASSUME RecordInv, RecordInv', ForwardInv, Granted, TokenNext
  PROVE  Granted'
<1> SUFFICES ASSUME ~excused'
             PROVE  stored'.token = issued' \/ \E x \in Slot : slow'[x].got = issued'
  BY Zenon DEF Granted
<1>1. stored.token = issued \/ \E x \in Slot : slow[x].got = issued
  BY ExcusedStays, Zenon DEF Granted
<1>2. /\ stored'.token >= stored.token /\ stored'.token <= issued'
      /\ stored'.token \in Int /\ issued \in Int /\ issued # 0
  <2>1. TokenTypeOK'
    BY DEF RecordInv
  <2> QED
    BY <2>1, TokensGoForward, Numbers, TokenBoundsAssumption DEF RecordInv, ForwardInv, TokenTypeOK
<1>3. CASE issued' # issued
  BY <1>3, IssuesAreNoted
<1>4. CASE issued' = issued /\ stored.token = issued
  BY <1>2, <1>4
<1>5. ASSUME issued' = issued, NEW x \in Slot, slow[x].got = issued
      PROVE  stored'.token = issued' \/ slow'[x].got = issued'
  BY <1>2, <1>5, PairsAreWritten
<1> QED
  BY <1>1, <1>3, <1>4, <1>5

-----------------------------------------------------------------------------
(* The theorems.                                                           *)

LEMMA ForwardInit ==
  ASSUME TokenInit
  PROVE  ForwardInv /\ Granted
<1>1. PICK away \in SUBSET (Caller \cup Editor) : TokenStart(away)
  BY DEF TokenInit
<1>2. \A x \in Slot : slow[x].pc = "none"
  BY <1>1 DEF TokenStart, NoSlow
<1>3. \A c \in Caller : call[c].pc \in {"left", "idle"} /\ call[c].sent = 0
  BY <1>1 DEF TokenStart
<1>4. stored.token = 1 /\ issued = 1
  BY <1>1 DEF TokenStart
<1>5. \A c \in Caller : c \in Slot
  BY DEF Slot
<1>6. Exclusive
  BY <1>2 DEF Exclusive, Guarded, InSection
<1>7. Consents
  BY <1>2, Slots DEF Consents, Reconnecting
<1>8. Forces
  BY <1>2, Slots DEF Forces
<1>9. Calls
  <2>1. ASSUME NEW c \in Caller PROVE CallFits(c) /\ CallTokens(c)
    BY <1>2, <1>3, <1>4, <1>5 DEF CallFits, CallTokens
  <2>2. ASSUME NEW c \in Caller PROVE CallNewer(c)
    BY <1>3 DEF CallNewer
  <2> QED
    BY <2>1, <2>2 DEF Calls
<1>10. Granted
  BY <1>4 DEF Granted
<1> QED
  BY <1>6, <1>7, <1>8, <1>9, <1>10 DEF ForwardInv

LEMMA ForwardKept ==
  ASSUME RecordInv, OneEditor, ForwardInv, Granted, [TokenNext]_tokenVars
  PROVE  ForwardInv' /\ Granted'
<1>1. CASE TokenNext
  BY <1>1, RecordKept, ExclusiveKept, ConsentsKept, ForcesKept, CallsKept, GrantedKept
  DEF ForwardInv
<1>2. CASE UNCHANGED tokenVars
  <2>1. Exclusive' /\ Granted'
    BY <1>2, Zenon DEF tokenVars, ForwardInv, Exclusive, Guarded, InSection, Granted
  <2>2. Consents' /\ Forces'
    BY <1>2 DEF tokenVars, ForwardInv, Consents, Reconnecting, Forces
  <2>3. Calls'
    BY <1>2, Zenon DEF tokenVars, ForwardInv, Calls, CallFits, CallTokens, CallNewer, Runs
  <2> QED
    BY <2>1, <2>2, <2>3 DEF ForwardInv
<1> QED
  BY <1>1, <1>2

LEMMA RecordInvariant == TokenSpec => []RecordInv
<1>1. TokenInit => RecordInv
  BY TokenInitHolds
<1>2. RecordInv /\ [TokenNext]_tokenVars => RecordInv'
  BY RecordKept
<1> QED
  BY <1>1, <1>2, PTL DEF TokenSpec

LEMMA ForwardInvariant == OneEditor /\ TokenSpec => [](RecordInv /\ ForwardInv /\ Granted)
<1> SUFFICES ASSUME OneEditor PROVE TokenSpec => [](RecordInv /\ ForwardInv /\ Granted)
  OBVIOUS
<1>1. TokenInit => ForwardInv /\ Granted
  BY ForwardInit
<1>2. RecordInv /\ ForwardInv /\ Granted /\ [TokenNext]_tokenVars => (ForwardInv /\ Granted)'
  BY ForwardKept
<1> QED
  BY <1>1, <1>2, RecordInvariant, PTL DEF TokenSpec

(***************************************************************************)
(* The records, the lock, the slow paths and the calls keep their shape.   *)
(***************************************************************************)
THEOREM TokenTypeCorrect == TokenSpec => []TokenTypeOK
<1>1. RecordInv => TokenTypeOK
  BY DEF RecordInv
<1> QED
  BY <1>1, RecordInvariant, PTL

(***************************************************************************)
(* A connection whose user has to reconnect stays so until a reconnect,    *)
(* for any number of editors and with or without the lock.                 *)
(***************************************************************************)
THEOREM OnlyReconnectsRevive == TokenSpec => RevivedByReconnect
<1>1. RecordInv /\ [TokenNext]_tokenVars =>
        [stored.health = "reconnect" /\ stored'.health # "reconnect" =>
           \E x \in Editor : slow[x].kind = "reconnect" /\ stored'.token = slow[x].got]_tokenVars
  BY StoredSteps
<1> QED
  BY <1>1, RecordInvariant, PTL DEF TokenSpec, RevivedByReconnect

(***************************************************************************)
(* With one consent at a time, a slow refresh never puts an older pair     *)
(* over a newer one, whether or not it holds the lock.                     *)
(***************************************************************************)
THEOREM TokensOnlyGoForward == OneEditor /\ TokenSpec => TokensNeverGoBack
<1>1. RecordInv /\ ForwardInv /\ Granted /\ [TokenNext]_tokenVars =>
        [stored'.token >= stored.token]_tokenVars
  BY TokensGoForward DEF ForwardInv
<1> QED
  BY <1>1, ForwardInvariant, PTL DEF TokenSpec, TokensNeverGoBack

(***************************************************************************)
(* With one consent at a time, the grant the provider accepts is stored or *)
(* about to be written down, unless a section ran without its lock, or a   *)
(* crash, a lost answer, a failed write of the new pair or the provider    *)
(* dropped it.                                                             *)
(***************************************************************************)
THEOREM GrantIsKept == OneEditor /\ TokenSpec => []GrantKept
<1>1. Granted => GrantKept
  BY Zenon DEF Granted, GrantKept
<1> QED
  BY <1>1, ForwardInvariant, PTL

(***************************************************************************)
(* With one consent at a time, who forces a refresh because a token failed *)
(* is never served that token again, unless a section ran without its      *)
(* lock.                                                                   *)
(***************************************************************************)
THEOREM ForcedRefreshServesNewer == OneEditor /\ TokenSpec => []ForcedServesNewer
<1>1. Calls => ForcedServesNewer
  BY Zenon DEF Calls, CallNewer, ForcedServesNewer
<1>2. ForwardInv => Calls
  BY DEF ForwardInv
<1> QED
  BY <1>1, <1>2, ForwardInvariant, PTL
=============================================================================
