-------------------------- MODULE StateOutboxProofs --------------------------
(***************************************************************************)
(* Theorems about the outbox of pending state saves, for every set of      *)
(* saves, subjects, tasks and runs and any number of faults.               *)
(***************************************************************************)
EXTENDS StateOutbox, FiniteSetTheorems, WellFoundedInduction, TLAPS

-----------------------------------------------------------------------------
(* Types of what the outbox keeps.                                         *)

RowRecord == [status : RowStatus, done : Nat, attempts : Nat,
              claim : Applier \cup {NoApplier}, lapsed : BOOLEAN, recorded : BOOLEAN]

Applying == {"locking", "writing", "unrecorded"}
TaskPc == {"idle", "down"} \cup Applying \cup Running
TaskRecord == [pc : TaskPc, stack : Seq(Saves), call : Saves \cup {NoSave}, index : Nat,
               error : {"none", "transient", "lasting"}, scope : Saves \cup {NoSave},
               left : SUBSET Saves, chain : Seq(Saves)]
RunPc == {"idle", "away", "draining", "refused", "in"}
RunRecord == [pc : RunPc, left : SUBSET Saves, chain : Seq(Saves), seen : SUBSET Saves]

Typed ==
  /\ row \in [Saves -> RowRecord]
  /\ task \in [Applier -> TaskRecord]
  /\ run \in [RootRun -> RunRecord]
  /\ before \in [Saves -> SUBSET Saves]
  /\ DOMAIN starts = Saves /\ \A s \in Saves : starts[s] \in [1..Calls[s] -> Nat]
  /\ DOMAIN leave = Saves /\ \A s \in Saves : leave[s] \in [1..Calls[s] -> Nat]

-----------------------------------------------------------------------------
(* The inductive invariant.                                                *)

(***************************************************************************)
(* A row.  Rows take their ids in order, and what a row is ordered behind  *)
(* was committed with a smaller one.  Records are written once the row     *)
(* leaves "pending", and only a row with records is ever there.            *)
(***************************************************************************)
Early == {"absent", "inserting", "pending"}

RowOK(s) ==
  /\ \A q \in before[s] : q < s /\ q \in Committed
  /\ Status(s) = "absent" => \A q \in Saves : q > s => Status(q) \in {"absent", "refused"}
  /\ Status(s) \in Early => ~row[s].recorded
  /\ Status(s) \in {"calls", "running", "applied"} => row[s].recorded
  /\ Status(s) \in {"pending", "failed"} /\ ~row[s].recorded => RecordKeys[s] # {}
  /\ row[s].claim # NoApplier <=> Status(s) = "running"
  /\ row[s].done <= Calls[s]

(***************************************************************************)
(* What a row is ordered behind has its records, or is gone for good.      *)
(***************************************************************************)
RecordsBehind(s) ==
  \A q \in before[s] : SameRecord(q, s) => row[q].recorded \/ Status(q) = "discarded"
CallsBehind(s) ==
  \A q \in before[s] : SameSubject(q, s) => Status(q) \in Gone

(***************************************************************************)
(* A task.  One that writes a row's records found it pending with nothing  *)
(* unapplied before it; one that runs a row's calls found nothing          *)
(* outstanding before it, and as long as the claim is its own it is at     *)
(* the call the row is at.                                                 *)
(***************************************************************************)
TaskOK(t) ==
  /\ task[t].pc \in Applying => task[t].stack # <<>>
  /\ task[t].pc = "writing" => LET s == Last(task[t].stack)
                               IN Status(s) = "pending" /\ RecordsBehind(s)
  /\ task[t].pc \in Running =>
       LET s == task[t].call
       IN /\ s \in Saves /\ Status(s) # "absent" /\ CallsBehind(s)
          /\ task[t].index <= Calls[s]
          /\ row[s].claim = t => task[t].index = row[s].done
  /\ task[t].pc \in {"calling", "called", "raised"} => task[t].index < Calls[task[t].call]
  /\ task[t].pc = "calling" =>
       \A i \in DOMAIN task[t].chain :
         task[t].scope # NoSave => task[t].chain[i] # task[t].scope

(***************************************************************************)
(* Two tasks never write the records of one row: the row's lock.           *)
(***************************************************************************)
OneWriter ==
  \A t, u \in Applier :
    t # u /\ task[t].pc = "writing" /\ task[u].pc = "writing"
    => Last(task[t].stack) # Last(task[u].stack)

StartedInOrder ==
  \A s \in Saves : (\E c \in 1..Calls[s] : starts[s][c] > 0) =>
    Status(s) # "absent" /\ CallsBehind(s)

RecordedInOrder ==
  \A s \in Saves : row[s].recorded /\ RecordKeys[s] # {} => RecordsBehind(s)

(***************************************************************************)
(* What a run found is finished, or still on its list.                     *)
(***************************************************************************)
DrainOK(r) ==
  /\ run[r].pc = "draining" => \A s \in run[r].seen : s \in run[r].left \/ Status(s) \in Gone
  /\ run[r].pc = "in" => \A s \in run[r].seen : Status(s) \in Gone

OutboxInv ==
  /\ Typed
  /\ \A s \in Saves : RowOK(s)
  /\ \A t \in Applier : TaskOK(t)
  /\ OneWriter
  /\ StartedInOrder
  /\ RecordedInOrder
  /\ \A r \in RootRun : DrainOK(r)

(***************************************************************************)
(* Each start of a call that may not be run again is paid for: by the      *)
(* first one, a reported failure or a retry.  A runner about to start the  *)
(* call has paid, one that will not because it heard nothing of the call   *)
(* before it as well, and so has a row whose next claim will bring one.    *)
(***************************************************************************)
AtStart(s, c) ==
  {t \in Applier : /\ task[t].pc \in {"ready", "unheard"}
                   /\ task[t].call = s /\ task[t].index + 1 = c}
Owes(s, c) ==
  \/ c > row[s].done + 1
  \/ c = row[s].done + 1 /\ (Status(s) = "calls" \/ ~row[s].recorded)
Credit(s, c) == IF Owes(s, c) THEN 1 ELSE 0

PaidFor(s, c) ==
  /\ IsFiniteSet(AtStart(s, c))
  /\ starts[s][c] + Cardinality(AtStart(s, c)) + Credit(s, c) <= 1 + leave[s][c]

PaidInv == \A s \in Saves \ Resumable : \A c \in 1..Calls[s] : PaidFor(s, c)

-----------------------------------------------------------------------------
(* Records and sequences.                                                  *)

USE DEF Status, Turn, Fault, NoSave

LEMMA SavesAreNumbers == \A s \in Saves : s \in Nat /\ s # 0
  BY SavesAssumption

(***************************************************************************)
(* A set of numbers that is not empty has a smallest one.                  *)
(***************************************************************************)
LEMMA OldestIn ==
  ASSUME NEW S \in SUBSET Saves, S # {}
  PROVE  Oldest(S) \in S /\ \A q \in S : Oldest(S) <= q
<1>1. S \subseteq Nat
  BY SavesAssumption
<1>2. \E x \in S : \A y \in S : ~(<<y, x>> \in OpToRel(<, Nat))
  BY <1>1, NatLessThanWellFounded, WFMin
<1>3. \A x, y \in Nat : <<y, x>> \in OpToRel(<, Nat) <=> y < x
  BY DEF OpToRel
<1>4. PICK x \in S : \A y \in S : ~(y < x)
  BY <1>1, <1>2, <1>3
<1>5. \A y \in S : x <= y
  BY <1>1, <1>4
<1> QED
  BY <1>5 DEF Oldest

LEMMA LastFront ==
  ASSUME NEW c \in Seq(Saves), c # <<>>
  PROVE  /\ Last(c) \in Saves /\ Front(c) \in Seq(Saves)
         /\ Len(c) \in Nat /\ Len(c) # 0 /\ Len(Front(c)) = Len(c) - 1
         /\ Len(c) # 1 => Front(c) # <<>>
         /\ \A i \in DOMAIN Front(c) : i \in DOMAIN c /\ Front(c)[i] = c[i]
         /\ \E i \in DOMAIN c : Last(c) = c[i]
<1>1. Len(c) \in Nat /\ Len(c) # 0 /\ DOMAIN c = 1..Len(c)
  OBVIOUS
<1>2. Last(c) = c[Len(c)] /\ Len(c) \in DOMAIN c
  BY <1>1 DEF Last
<1>3. \A i \in 1..Len(c) : c[i] \in Saves
  OBVIOUS
<1>4. Front(c) = SubSeq(c, 1, Len(c) - 1)
  BY DEF Front
<1>5. /\ SubSeq(c, 1, Len(c) - 1) \in Seq(Saves)
      /\ Len(SubSeq(c, 1, Len(c) - 1)) = Len(c) - 1
      /\ \A i \in 1..(Len(c) - 1) : SubSeq(c, 1, Len(c) - 1)[i] = c[i]
  BY <1>1, <1>3
<1>6. DOMAIN SubSeq(c, 1, Len(c) - 1) = 1..(Len(c) - 1)
  BY <1>1, <1>5
<1>7. Len(c) # 1 => SubSeq(c, 1, Len(c) - 1) # <<>>
  <2>1. Len(<<>>) = 0
    OBVIOUS
  <2>2. Len(c) # 1 => Len(SubSeq(c, 1, Len(c) - 1)) # 0
    BY <1>1, <1>5
  <2> QED
    BY <2>1, <2>2, Zenon
<1> QED
  BY <1>1, <1>2, <1>3, <1>4, <1>5, <1>6, <1>7

LEMMA Appended ==
  ASSUME NEW c \in Seq(Saves), NEW s \in Saves
  PROVE  /\ Append(c, s) \in Seq(Saves) /\ Append(c, s) # <<>>
         /\ Last(Append(c, s)) = s
         /\ \A i \in DOMAIN Append(c, s) :
              (i \in DOMAIN c /\ Append(c, s)[i] = c[i]) \/ Append(c, s)[i] = s
  BY DEF Last

LEMMA PcNames ==
  /\ Running \subseteq TaskPc /\ Applying \subseteq TaskPc
  /\ {"idle", "down", "locking", "writing", "unrecorded", "ready", "calling", "called",
      "raised", "unheard", "interrupted"} = TaskPc
  /\ \A pc \in Running : pc \notin Applying /\ pc \notin {"idle", "down"}
  /\ \A pc \in {"idle", "down"} : pc \notin Applying /\ pc \notin Running
  BY DEF TaskPc, Running, Applying

LEMMA EmptySequence == <<>> \in Seq(Saves)
  OBVIOUS

LEMMA IdleFacts ==
  /\ Idle \in TaskRecord
  /\ Idle.pc = "idle" /\ Idle.stack = <<>> /\ Idle.chain = <<>> /\ Idle.error = "none"
<1>1. /\ Idle.pc = "idle" /\ Idle.stack = <<>> /\ Idle.chain = <<>>
      /\ Idle.error = "none"
  BY DEF Idle
<1>2. \A empty \in Seq(Saves) :
        [pc |-> "idle", stack |-> empty, call |-> NoSave, index |-> 0, error |-> "none",
         scope |-> NoSave, left |-> {}, chain |-> empty] \in TaskRecord
  BY DEF TaskRecord, TaskPc
<1> QED
  BY <1>1, <1>2, EmptySequence DEF Idle

LEMMA AtFacts ==
  ASSUME NEW pc \in TaskPc
  PROVE  /\ At(pc) \in TaskRecord
         /\ At(pc).pc = pc /\ At(pc).stack = <<>> /\ At(pc).chain = <<>>
<1>1. \A r \in TaskRecord : /\ [r EXCEPT !.pc = pc] \in TaskRecord
                            /\ [r EXCEPT !.pc = pc].pc = pc
                            /\ [r EXCEPT !.pc = pc].stack = r.stack
                            /\ [r EXCEPT !.pc = pc].chain = r.chain
  BY DEF TaskRecord
<1> QED
  BY <1>1, IdleFacts DEF At

LEMMA AtCallFacts ==
  ASSUME NEW pc \in TaskPc, NEW s \in Saves, NEW i \in Nat
  PROVE  /\ AtCall(pc, s, i) \in TaskRecord
         /\ AtCall(pc, s, i).pc = pc /\ AtCall(pc, s, i).call = s
         /\ AtCall(pc, s, i).index = i /\ AtCall(pc, s, i).chain = <<>>
         /\ AtCall(pc, s, i).error = "none"
<1>1. \A r \in TaskRecord :
        LET b == [r EXCEPT !.pc = pc, !.call = s, !.index = i]
        IN b \in TaskRecord /\ b.pc = pc /\ b.call = s /\ b.index = i
           /\ b.chain = r.chain /\ b.error = r.error
  BY DEF TaskRecord
<1> QED
  BY <1>1, IdleFacts DEF AtCall

LEMMA StackAt ==
  ASSUME NEW pc \in TaskPc, NEW c \in Seq(Saves)
  PROVE  /\ [At(pc) EXCEPT !.stack = c] \in TaskRecord
         /\ [At(pc) EXCEPT !.stack = c].pc = pc
         /\ [At(pc) EXCEPT !.stack = c].stack = c
<1>1. \A r \in TaskRecord :
        /\ [r EXCEPT !.stack = c] \in TaskRecord
        /\ [r EXCEPT !.stack = c].pc = r.pc
        /\ [r EXCEPT !.stack = c].stack = c
  BY DEF TaskRecord
<1> QED
  BY <1>1, AtFacts

LEMMA RaisedStack ==
  ASSUME NEW c \in Seq(Saves), NEW error \in {"transient", "lasting"}
  PROVE  /\ [At("unrecorded") EXCEPT !.stack = c, !.error = error] \in TaskRecord
         /\ [At("unrecorded") EXCEPT !.stack = c, !.error = error].pc = "unrecorded"
         /\ [At("unrecorded") EXCEPT !.stack = c, !.error = error].stack = c
<1>1. \A r \in TaskRecord : /\ [r EXCEPT !.stack = c, !.error = error] \in TaskRecord
                            /\ [r EXCEPT !.stack = c, !.error = error].pc = r.pc
                            /\ [r EXCEPT !.stack = c, !.error = error].stack = c
  BY DEF TaskRecord
<1>2. "unrecorded" \in TaskPc
  BY PcNames
<1> QED
  BY <1>1, <1>2, AtFacts

LEMMA OneOnStack ==
  ASSUME NEW s \in Saves
  PROVE  \E c \in Seq(Saves) : c = <<s>> /\ c # <<>>
<1>1. <<s>> \in Seq(Saves)
  OBVIOUS
<1>2. Len(<<s>>) = 1 /\ Len(<<>>) = 0
  OBVIOUS
<1>3. <<s>> # <<>>
  BY <1>2
<1> QED
  BY <1>1, <1>3

LEMMA TaskFields ==
  ASSUME Typed, NEW t \in Applier
  PROVE  /\ task[t] \in TaskRecord
         /\ task[t].pc \in TaskPc /\ task[t].stack \in Seq(Saves)
         /\ task[t].call \in Saves \cup {NoSave} /\ task[t].index \in Nat
         /\ task[t].error \in {"none", "transient", "lasting"}
         /\ task[t].scope \in Saves \cup {NoSave}
         /\ task[t].left \in SUBSET Saves /\ task[t].chain \in Seq(Saves)
  BY DEF Typed, TaskRecord

LEMMA RowFields ==
  ASSUME Typed, NEW s \in Saves
  PROVE  /\ row[s] \in RowRecord
         /\ row[s].status \in RowStatus /\ row[s].done \in Nat /\ row[s].attempts \in Nat
         /\ row[s].claim \in Applier \cup {NoApplier}
         /\ row[s].lapsed \in BOOLEAN /\ row[s].recorded \in BOOLEAN
  BY DEF Typed, RowRecord

LEMMA StatusNames ==
  /\ RowStatus = {"absent", "inserting", "pending", "calls", "running", "failed",
                  "applied", "discarded", "refused"}
  /\ Outstanding = {"pending", "calls", "running", "failed"}
  /\ Gone = {"applied", "discarded", "refused"}
  BY DEF RowStatus, Outstanding, Gone

LEMMA ConstantTypes ==
  \A s \in Saves : /\ Calls[s] \in Nat /\ RecordKeys[s] \in SUBSET Subject
                   /\ SubjectKeys[s] \in SUBSET Subject
                   /\ SameRecord(s, s) <=> RecordKeys[s] # {}
  BY KeysAssumption DEF SameRecord

-----------------------------------------------------------------------------
(* What every step leaves of the rows.                                     *)

(***************************************************************************)
(* Rows only move on: a committed row stays, one that is gone stays gone,  *)
(* records stay written, and what a row is ordered behind does not change. *)
(***************************************************************************)
Moved == Outstanding \cup {"applied", "discarded"}
RowOnward(a, b) ==
  /\ a.status \in Gone => b.status = a.status
  /\ a.status \in Moved => b.status \in Moved
  /\ a.recorded => b.recorded

Onward ==
  /\ \A s \in Saves : RowOnward(row[s], row'[s])
  /\ \A s \in Saves : Status(s) # "absent" =>
       Status(s)' # "absent" /\ before'[s] = before[s]
  /\ \A q \in Saves : Status(q) = "absent" =>
       Status(q)' = "absent" \/ \A s \in Saves : s < q => Status(s) # "absent"

LEMMA OnwardSame ==
  ASSUME Typed, UNCHANGED <<row, before>>
  PROVE  Onward
  BY RowFields, StatusNames DEF Onward, RowOnward, Typed

LEMMA OnwardOne ==
  ASSUME Typed, NEW s \in Saves, NEW new \in RowRecord, UNCHANGED before,
         row' = [row EXCEPT ![s] = new], row[s].status # "absent",
         new.status # "absent", RowOnward(row[s], new)
  PROVE  Onward
  BY RowFields DEF Onward, RowOnward, Typed

LEMMA BehindKept ==
  ASSUME Typed, Onward, NEW s \in Saves, Status(s) # "absent"
  PROVE  /\ CallsBehind(s) => CallsBehind(s)'
         /\ RecordsBehind(s) => RecordsBehind(s)'
<1>1. before'[s] = before[s] /\ before[s] \subseteq Saves
  BY DEF Onward, Typed
<1>2. \A q \in before[s] :
        /\ Status(q) \in Gone => Status(q)' \in Gone
        /\ row[q].recorded => row'[q].recorded
        /\ Status(q) = "discarded" => Status(q)' = "discarded"
  BY <1>1, StatusNames DEF Onward, RowOnward
<1> QED
  BY <1>1, <1>2 DEF CallsBehind, RecordsBehind

(***************************************************************************)
(* A row that does not move.                                               *)
(***************************************************************************)
LEMMA RowKept ==
  ASSUME OutboxInv, Onward, NEW s \in Saves, row'[s] = row[s], before'[s] = before[s]
  PROVE  RowOK(s)'
<1>0. RowOK(s) /\ Typed
  BY DEF OutboxInv
<1>1. \A q \in before'[s] : q < s /\ q \in Committed'
  BY <1>0 DEF RowOK, Onward, RowOnward, Committed, Moved, Typed
<1>2. ASSUME Status(s) = "absent", NEW q \in Saves, q > s
      PROVE  Status(q)' \in {"absent", "refused"}
  <2>1. Status(q) \in {"absent", "refused"}
    BY <1>0, <1>2 DEF RowOK
  <2> QED
    BY <1>2, <2>1, StatusNames, SavesAreNumbers DEF Onward, RowOnward
<1> QED
  BY <1>0, <1>1, <1>2 DEF RowOK

(***************************************************************************)
(* A row that moves, itself.                                               *)
(***************************************************************************)
RowFacts(s, r) ==
  /\ r.status # "absent"
  /\ r.status \in Early => ~r.recorded
  /\ r.status \in {"calls", "running", "applied"} => r.recorded
  /\ r.status \in {"pending", "failed"} /\ ~r.recorded => RecordKeys[s] # {}
  /\ r.claim # NoApplier <=> r.status = "running"
  /\ r.done <= Calls[s]

LEMMA RowMoved ==
  ASSUME OutboxInv, Onward, NEW s \in Saves, Status(s) # "absent", RowFacts(s, row'[s])
  PROVE  RowOK(s)'
<1>0. RowOK(s) /\ Typed
  BY DEF OutboxInv
<1>1. \A q \in before'[s] : q < s /\ q \in Committed'
  BY <1>0 DEF RowOK, Onward, RowOnward, Committed, Moved, Typed
<1> QED
  BY <1>1 DEF RowOK, RowFacts

(***************************************************************************)
(* A task that does not move.                                              *)
(***************************************************************************)
LEMMA TaskKept ==
  ASSUME OutboxInv, Onward, NEW t \in Applier, task'[t] = task[t],
         task[t].pc = "writing" => row'[Last(task[t].stack)].status = "pending",
         task[t].pc \in Running /\ row'[task[t].call].claim = t =>
           /\ row[task[t].call].claim = t
           /\ row'[task[t].call].done = row[task[t].call].done
  PROVE  TaskOK(t)'
<1>0. TaskOK(t) /\ Typed
  BY DEF OutboxInv
<1>1. ASSUME task[t].pc = "writing" PROVE RecordsBehind(Last(task[t].stack))'
  <2>1. Last(task[t].stack) \in Saves
    BY <1>0, <1>1, TaskFields, LastFront DEF TaskOK, Applying
  <2>2. Status(Last(task[t].stack)) = "pending" /\ RecordsBehind(Last(task[t].stack))
    BY <1>0, <1>1 DEF TaskOK
  <2> QED
    BY <1>0, <2>1, <2>2, BehindKept
<1>2. ASSUME task[t].pc \in Running
      PROVE  Status(task[t].call)' # "absent" /\ CallsBehind(task[t].call)'
  <2>1. /\ task[t].call \in Saves /\ Status(task[t].call) # "absent"
        /\ CallsBehind(task[t].call)
    BY <1>0, <1>2 DEF TaskOK
  <2> QED
    BY <1>0, <2>1, BehindKept DEF Onward
<1> QED
  BY <1>0, <1>1, <1>2 DEF TaskOK

(***************************************************************************)
(* What a step owes to the orders when it starts no call.                  *)
(***************************************************************************)
LEMMA OrdersKept ==
  ASSUME OutboxInv, Onward, UNCHANGED <<starts, run>>,
         \A s \in Saves : row'[s].recorded /\ ~row[s].recorded /\ RecordKeys[s] # {} =>
           Status(s) # "absent" /\ RecordsBehind(s)
  PROVE  StartedInOrder' /\ RecordedInOrder' /\ \A r \in RootRun : DrainOK(r)'
<1>0. Typed /\ StartedInOrder /\ RecordedInOrder /\ \A s \in Saves : RowOK(s)
  BY DEF OutboxInv
<1>1. StartedInOrder'
  BY <1>0, BehindKept DEF StartedInOrder, Onward
<1>2. ASSUME NEW s \in Saves, row'[s].recorded, RecordKeys[s] # {}
      PROVE  RecordsBehind(s)'
  <2>1. Status(s) # "absent" /\ RecordsBehind(s)
    BY <1>0, <1>2 DEF RecordedInOrder, RowOK, Early
  <2> QED
    BY <1>0, <2>1, BehindKept
<1>3. ASSUME NEW r \in RootRun PROVE DrainOK(r)'
  <2>1. run[r] \in RunRecord /\ run[r].seen \subseteq Saves
    BY <1>0 DEF Typed, RunRecord
  <2>2. \A s \in run[r].seen : Status(s) \in Gone => Status(s)' \in Gone
    BY <2>1 DEF Onward, RowOnward
  <2> QED
    BY <2>1, <2>2 DEF DrainOK, OutboxInv
<1> QED
  BY <1>1, <1>2, <1>3 DEF RecordedInOrder

(***************************************************************************)
(* A step that moves one row.                                              *)
(***************************************************************************)
LEMMA OneRow ==
  ASSUME OutboxInv, NEW s \in Saves, NEW new \in RowRecord, UNCHANGED before,
         row' = [row EXCEPT ![s] = new], row[s].status # "absent",
         RowFacts(s, new), RowOnward(row[s], new)
  PROVE  /\ Onward /\ row' \in [Saves -> RowRecord] /\ row'[s] = new
         /\ \A q \in Saves : q # s => row'[q] = row[q]
         /\ \A q \in Saves : RowOK(q)'
<1>0. Typed
  BY DEF OutboxInv
<1>1. /\ row' \in [Saves -> RowRecord] /\ row'[s] = new
      /\ \A q \in Saves : q # s => row'[q] = row[q]
  BY <1>0 DEF Typed
<1>2. Onward
  BY <1>0, OnwardOne DEF RowFacts
<1>3. \A q \in Saves : RowOK(q)'
  BY <1>0, <1>1, <1>2, RowKept, RowMoved DEF Typed
<1> QED
  BY <1>1, <1>2, <1>3

(***************************************************************************)
(* What a step on a row leaves of a task that does not take it.            *)
(***************************************************************************)
Undisturbed(u) ==
  /\ task[u].pc = "writing" => row'[Last(task[u].stack)].status = "pending"
  /\ task[u].pc \in Running /\ row'[task[u].call].claim = u =>
       /\ row[task[u].call].claim = u
       /\ row'[task[u].call].done = row[task[u].call].done

LEMMA UndisturbedSame ==
  ASSUME OutboxInv, UNCHANGED row, NEW u \in Applier
  PROVE  Undisturbed(u)
  BY DEF OutboxInv, TaskOK, Undisturbed

LEMMA UndisturbedBy ==
  ASSUME OutboxInv, NEW u \in Applier, NEW s \in Saves,
         \A q \in Saves : q # s => row'[q] = row[q],
         task[u].pc = "writing" /\ Last(task[u].stack) = s => Status(s)' = "pending",
         row'[s].claim # u \/ (row'[s].claim = row[s].claim /\ row'[s].done = row[s].done)
  PROVE  Undisturbed(u)
<1>0. Typed /\ TaskOK(u)
  BY DEF OutboxInv
<1>1. task[u].pc = "writing" => Last(task[u].stack) \in Saves
  BY <1>0, TaskFields, LastFront DEF TaskOK, Applying
<1>2. task[u].pc \in Running => task[u].call \in Saves
  BY <1>0 DEF TaskOK
<1> QED
  BY <1>0, <1>1, <1>2 DEF Undisturbed, TaskOK

(***************************************************************************)
(* A step of one task, that starts no call.                                *)
(***************************************************************************)
RecordsCome(s) ==
  row'[s].recorded /\ ~row[s].recorded /\ RecordKeys[s] # {} =>
    Status(s) # "absent" /\ RecordsBehind(s)

LEMMA TaskSteps ==
  ASSUME OutboxInv, Onward, \A s \in Saves : RowOK(s)' /\ RecordsCome(s),
         row' \in [Saves -> RowRecord], UNCHANGED <<before, starts, run>>,
         DOMAIN leave' = Saves, \A s \in Saves : leave'[s] \in [1..Calls[s] -> Nat],
         NEW t \in Applier, NEW to \in TaskRecord, task' = [task EXCEPT ![t] = to],
         TaskOK(t)', \A u \in Applier : u # t => Undisturbed(u),
         to.pc = "writing" => \A u \in Applier : u # t /\ task[u].pc = "writing" =>
                                Last(task[u].stack) # Last(to.stack)
  PROVE  OutboxInv'
<1>0. Typed /\ OneWriter /\ \A u \in Applier : TaskOK(u)
  BY DEF OutboxInv
<1>1. /\ task' \in [Applier -> TaskRecord] /\ task'[t] = to
      /\ \A u \in Applier : u # t => task'[u] = task[u]
  BY <1>0 DEF Typed
<1>2. Typed'
  BY <1>0, <1>1 DEF Typed
<1>3. \A u \in Applier : TaskOK(u)'
  BY <1>1, TaskKept DEF Undisturbed
<1>4. OneWriter'
  BY <1>0, <1>1 DEF OneWriter
<1>5. StartedInOrder' /\ RecordedInOrder' /\ \A r \in RootRun : DrainOK(r)'
  BY OrdersKept DEF RecordsCome
<1> QED
  BY <1>2, <1>3, <1>4, <1>5 DEF OutboxInv

LEMMA TaskAlone ==
  ASSUME OutboxInv, UNCHANGED <<row, before, starts, leave, run>>,
         NEW t \in Applier, NEW to \in TaskRecord, task' = [task EXCEPT ![t] = to],
         TaskOK(t)',
         to.pc = "writing" => \A u \in Applier : u # t /\ task[u].pc = "writing" =>
                                Last(task[u].stack) # Last(to.stack)
  PROVE  OutboxInv'
<1>0. Typed
  BY DEF OutboxInv
<1>1. Onward
  BY <1>0, OnwardSame
<1>2. \A s \in Saves : RowOK(s)' /\ RecordsCome(s)
  BY <1>1, RowKept DEF RecordsCome
<1>3. \A u \in Applier : Undisturbed(u)
  BY UndisturbedSame
<1> QED
  BY <1>0, <1>1, <1>2, <1>3, TaskSteps DEF Typed

LEMMA TaskOnRow ==
  ASSUME OutboxInv, UNCHANGED <<before, starts, run>>,
         DOMAIN leave' = Saves, \A q \in Saves : leave'[q] \in [1..Calls[q] -> Nat],
         NEW s \in Saves, NEW new \in RowRecord, row' = [row EXCEPT ![s] = new],
         row[s].status # "absent", RowFacts(s, new), RowOnward(row[s], new),
         new.recorded /\ ~row[s].recorded /\ RecordKeys[s] # {} => RecordsBehind(s),
         NEW t \in Applier, NEW to \in TaskRecord, task' = [task EXCEPT ![t] = to],
         TaskOK(t)', to.pc # "writing",
         \A u \in Applier : u # t /\ task[u].pc = "writing" /\ Last(task[u].stack) = s =>
           new.status = "pending",
         \A u \in Applier : u # t =>
           new.claim # u \/ (new.claim = row[s].claim /\ new.done = row[s].done)
  PROVE  OutboxInv'
<1>1. /\ Onward /\ row' \in [Saves -> RowRecord] /\ row'[s] = new
      /\ \A q \in Saves : q # s => row'[q] = row[q]
      /\ \A q \in Saves : RowOK(q)'
  BY OneRow
<1>2. \A q \in Saves : RecordsCome(q)
  BY <1>1 DEF RecordsCome
<1>3. \A u \in Applier : u # t => Undisturbed(u)
  BY <1>1, UndisturbedBy
<1> QED
  BY <1>1, <1>2, <1>3, TaskSteps

(***************************************************************************)
(* A step on one row, of no task.                                          *)
(***************************************************************************)
LEMMA RowAlone ==
  ASSUME OutboxInv, UNCHANGED <<before, starts, run, task>>,
         DOMAIN leave' = Saves, \A q \in Saves : leave'[q] \in [1..Calls[q] -> Nat],
         NEW s \in Saves, NEW new \in RowRecord, row' = [row EXCEPT ![s] = new],
         row[s].status # "absent", RowFacts(s, new), RowOnward(row[s], new),
         new.recorded /\ ~row[s].recorded => RecordKeys[s] = {},
         row[s].status = "pending" => new.status = "pending",
         new.claim = row[s].claim /\ new.done = row[s].done
  PROVE  OutboxInv'
<1>0. Typed /\ OneWriter /\ \A u \in Applier : TaskOK(u)
  BY DEF OutboxInv
<1>1. /\ Onward /\ row' \in [Saves -> RowRecord] /\ row'[s] = new
      /\ \A q \in Saves : q # s => row'[q] = row[q]
      /\ \A q \in Saves : RowOK(q)'
  BY OneRow
<1>2. \A q \in Saves : RecordsCome(q)
  BY <1>1 DEF RecordsCome
<1>3. \A u \in Applier : Undisturbed(u)
  BY <1>0, <1>1, UndisturbedBy DEF TaskOK
<1>4. Typed'
  BY <1>0, <1>1 DEF Typed
<1>5. \A u \in Applier : TaskOK(u)'
  BY <1>1, <1>3, TaskKept DEF Undisturbed
<1>6. OneWriter'
  BY <1>0 DEF OneWriter
<1>7. StartedInOrder' /\ RecordedInOrder' /\ \A r \in RootRun : DrainOK(r)'
  BY <1>1, <1>2, OrdersKept DEF RecordsCome
<1> QED
  BY <1>1, <1>4, <1>5, <1>6, <1>7 DEF OutboxInv

-----------------------------------------------------------------------------
(* The steps on the rows.                                                  *)

LEMMA TakeIdKeeps ==
  ASSUME OutboxInv, NEW s \in Saves, TakeId(s)
  PROVE  OutboxInv'
<1>0. /\ Typed /\ OneWriter /\ \A u \in Applier : TaskOK(u)
      /\ \A q \in Saves : RowOK(q)
  BY DEF OutboxInv
<1>1. /\ row' = [row EXCEPT ![s] = [row[s] EXCEPT !.status = "inserting"]]
      /\ before' = [before EXCEPT ![s] = Committed]
      /\ Status(s) = "absent" /\ \A q \in Saves : q < s => Status(q) # "absent"
      /\ UNCHANGED <<task, run, starts, leave>>
  BY DEF TakeId
<1> DEFINE new == [row[s] EXCEPT !.status = "inserting"]
<1>2. /\ new \in RowRecord /\ new.status = "inserting" /\ new.done = row[s].done
      /\ new.claim = row[s].claim /\ new.recorded = row[s].recorded
  BY <1>0, RowFields, StatusNames DEF RowRecord
<1> HIDE DEF new
<1>3. /\ row' \in [Saves -> RowRecord] /\ row'[s] = new
      /\ \A q \in Saves : q # s => row'[q] = row[q] /\ before'[q] = before[q]
      /\ before' \in [Saves -> SUBSET Saves] /\ before'[s] = Committed
  BY <1>0, <1>1, <1>2 DEF Typed, new, Committed
<1>4. Onward
  BY <1>0, <1>1, <1>2, <1>3, RowFields, StatusNames DEF Onward, RowOnward, Moved
<1>5. ASSUME NEW q \in Committed PROVE q < s /\ q \in Committed'
  <2>1. q \in Saves /\ Status(q) \notin {"absent", "refused"} /\ q # s
    BY <1>1, StatusNames DEF Committed
  <2>2. ~(q > s)
    BY <1>0, <1>1, <2>1 DEF RowOK
  <2> QED
    BY <1>3, <2>1, <2>2, SavesAreNumbers DEF Committed
<1>6. RowOK(s)'
  BY <1>0, <1>1, <1>2, <1>3, <1>5 DEF RowOK, Early
<1>7. \A q \in Saves : RowOK(q)'
  BY <1>3, <1>4, <1>6, RowKept
<1>8. ASSUME NEW u \in Applier PROVE TaskOK(u)'
  BY <1>0, <1>1, <1>2, <1>3, <1>4, UndisturbedBy, TaskKept DEF Undisturbed, TaskOK
<1>9. \A q \in Saves : RecordsCome(q)
  BY <1>2, <1>3 DEF RecordsCome
<1>10. StartedInOrder' /\ RecordedInOrder' /\ \A r \in RootRun : DrainOK(r)'
  BY <1>1, <1>4, <1>9, OrdersKept DEF RecordsCome
<1>11. Typed' /\ OneWriter'
  BY <1>0, <1>1, <1>3 DEF Typed, OneWriter
<1> QED
  BY <1>7, <1>8, <1>10, <1>11 DEF OutboxInv

LEMMA CommitInsertKeeps ==
  ASSUME OutboxInv, NEW s \in Saves, CommitInsert(s)
  PROVE  OutboxInv'
<1>0. Typed /\ RowOK(s)
  BY DEF OutboxInv
<1> DEFINE new == [row[s] EXCEPT
                     !.status = IF RecordKeys[s] = {} THEN "calls" ELSE "pending",
                     !.recorded = RecordKeys[s] = {}]
<1>1. /\ row' = [row EXCEPT ![s] = new] /\ row[s].status = "inserting"
      /\ UNCHANGED <<task, run, before, starts, leave>>
  BY DEF CommitInsert
<1>2. /\ new \in RowRecord /\ new.done = row[s].done /\ new.claim = row[s].claim
      /\ new.status = IF RecordKeys[s] = {} THEN "calls" ELSE "pending"
      /\ new.recorded <=> RecordKeys[s] = {}
  BY <1>0, RowFields, StatusNames DEF RowRecord
<1> HIDE DEF new
<1>3. RowFacts(s, new) /\ RowOnward(row[s], new) /\ ~row[s].recorded
  BY <1>0, <1>1, <1>2, StatusNames DEF RowFacts, RowOnward, RowOK, Moved, Early
<1> QED
  BY <1>0, <1>1, <1>2, <1>3, RowAlone DEF Typed

LEMMA AbortInsertKeeps ==
  ASSUME OutboxInv, NEW s \in Saves, AbortInsert(s)
  PROVE  OutboxInv'
<1>0. Typed /\ RowOK(s)
  BY DEF OutboxInv
<1> DEFINE new == [row[s] EXCEPT !.status = "refused"]
<1>1. /\ row' = [row EXCEPT ![s] = new] /\ row[s].status = "inserting"
      /\ UNCHANGED <<task, run, before, starts, leave>>
  BY DEF AbortInsert
<1>2. /\ new \in RowRecord /\ new.done = row[s].done /\ new.claim = row[s].claim
      /\ new.status = "refused" /\ new.recorded = row[s].recorded
  BY <1>0, RowFields, StatusNames DEF RowRecord
<1> HIDE DEF new
<1>3. RowFacts(s, new) /\ RowOnward(row[s], new)
  BY <1>0, <1>1, <1>2, StatusNames DEF RowFacts, RowOnward, RowOK, Moved, Early
<1> QED
  BY <1>0, <1>1, <1>2, <1>3, RowAlone DEF Typed

(***************************************************************************)
(* The lease of a claim lapses, or a heartbeat makes up for it.            *)
(***************************************************************************)
LEMMA LapsedKeeps ==
  ASSUME OutboxInv, NEW s \in Saves, NEW lapsed \in BOOLEAN, Status(s) = "running",
         row' = [row EXCEPT ![s].lapsed = lapsed],
         UNCHANGED <<task, run, before, starts, leave>>
  PROVE  OutboxInv'
<1>0. Typed /\ RowOK(s)
  BY DEF OutboxInv
<1> DEFINE new == [row[s] EXCEPT !.lapsed = lapsed]
<1>1. row' = [row EXCEPT ![s] = new]
  OBVIOUS
<1>2. /\ new \in RowRecord /\ new.done = row[s].done /\ new.claim = row[s].claim
      /\ new.status = row[s].status /\ new.recorded = row[s].recorded
  BY <1>0, RowFields DEF RowRecord
<1> HIDE DEF new
<1>3. RowFacts(s, new) /\ RowOnward(row[s], new)
  BY <1>0, <1>1, <1>2, StatusNames DEF RowFacts, RowOnward, RowOK, Moved, Early
<1> QED
  BY <1>0, <1>1, <1>2, <1>3, RowAlone DEF Typed

(***************************************************************************)
(* Starts of a call, and leaves to start one again, are counted.           *)
(***************************************************************************)
LEMMA CountedTyped ==
  ASSUME NEW f, DOMAIN f = Saves, \A q \in Saves : f[q] \in [1..Calls[q] -> Nat],
         NEW s \in Saves, NEW c \in Nat,
         NEW g, g = [f EXCEPT ![s] = [f[s] EXCEPT ![c] = f[s][c] + 1]]
  PROVE  /\ DOMAIN g = Saves /\ \A q \in Saves : g[q] \in [1..Calls[q] -> Nat]
         /\ \A q \in Saves : q # s => g[q] = f[q]
<1>1. [f[s] EXCEPT ![c] = f[s][c] + 1] \in [1..Calls[s] -> Nat]
  <2>1. f[s] \in [1..Calls[s] -> Nat]
    OBVIOUS
  <2>2. CASE c \in 1..Calls[s]
    <3>0. f[s][c] \in Nat
      BY <2>1, <2>2, Zenon
    <3>1. f[s][c] + 1 \in Nat
      BY <3>0
    <3>2. \A n \in Nat : [f[s] EXCEPT ![c] = n] \in [1..Calls[s] -> Nat]
      BY <2>1, <2>2
    <3> QED
      BY <3>1, <3>2
  <2>3. CASE c \notin 1..Calls[s]
    <3>1. [f[s] EXCEPT ![c] = f[s][c] + 1] = f[s]
      BY <2>1, <2>3
    <3> QED
      BY <2>1, <3>1
  <2> QED
    BY <2>2, <2>3
<1> QED
  BY <1>1

LEMMA LeaveCounted ==
  ASSUME Typed, NEW s \in Saves, NEW c \in Nat, NEW g,
         g = [leave EXCEPT ![s] = [leave[s] EXCEPT ![c] = leave[s][c] + 1]]
  PROVE  DOMAIN g = Saves /\ \A q \in Saves : g[q] \in [1..Calls[q] -> Nat]
<1>1. DOMAIN leave = Saves /\ \A q \in Saves : leave[q] \in [1..Calls[q] -> Nat]
  BY DEF Typed
<1> QED
  BY <1>1, CountedTyped

LEMMA LeaveType ==
  ASSUME Typed, NEW s \in Saves, NEW c \in Nat,
         leave' = [leave EXCEPT ![s][c] = @ + 1] \/ UNCHANGED leave
  PROVE  DOMAIN leave' = Saves /\ \A q \in Saves : leave'[q] \in [1..Calls[q] -> Nat]
<1>1. DOMAIN leave = Saves /\ \A q \in Saves : leave[q] \in [1..Calls[q] -> Nat]
  BY DEF Typed
<1>2. CASE UNCHANGED leave
  BY <1>1, <1>2
<1>3. CASE leave' = [leave EXCEPT ![s][c] = @ + 1]
  <2>1. PICK g : g = [leave EXCEPT ![s] = [leave[s] EXCEPT ![c] = leave[s][c] + 1]]
    OBVIOUS
  <2>2. DOMAIN g = Saves /\ \A q \in Saves : g[q] \in [1..Calls[q] -> Nat]
    BY <2>1, LeaveCounted
  <2> QED
    BY <1>3, <2>1, <2>2
<1> QED
  BY <1>2, <1>3

LEMMA RetryKeeps ==
  ASSUME OutboxInv, NEW s \in Saves, RetryPendingSave(s)
  PROVE  OutboxInv'
<1>0. Typed /\ RowOK(s)
  BY DEF OutboxInv
<1> DEFINE new == [row[s] EXCEPT !.status = IF row[s].recorded THEN "calls" ELSE "pending",
                                 !.attempts = 0]
<1>1. /\ row' = [row EXCEPT ![s] = new] /\ row[s].status = "failed"
      /\ UNCHANGED <<task, run, before, starts>>
  BY DEF RetryPendingSave
<1>2. /\ new \in RowRecord /\ new.done = row[s].done /\ new.claim = row[s].claim
      /\ new.status = IF row[s].recorded THEN "calls" ELSE "pending"
      /\ new.recorded = row[s].recorded
  BY <1>0, RowFields, StatusNames DEF RowRecord
<1> HIDE DEF new
<1>3. RowFacts(s, new) /\ RowOnward(row[s], new)
  BY <1>0, <1>1, <1>2, StatusNames DEF RowFacts, RowOnward, RowOK, Moved, Early
<1>4. DOMAIN leave' = Saves /\ \A q \in Saves : leave'[q] \in [1..Calls[q] -> Nat]
  <2>1. row[s].done + 1 \in Nat
    BY <1>0, RowFields
  <2>2. leave' = [leave EXCEPT ![s][row[s].done + 1] = @ + 1] \/ UNCHANGED leave
    BY DEF RetryPendingSave
  <2> QED
    BY <1>0, <2>1, <2>2, LeaveType
<1> QED
  BY <1>0, <1>1, <1>2, <1>3, <1>4, RowAlone

LEMMA DiscardKeeps ==
  ASSUME OutboxInv, NEW s \in Saves, DiscardPendingSave(s)
  PROVE  OutboxInv'
<1>0. Typed /\ RowOK(s)
  BY DEF OutboxInv
<1> DEFINE new == [row[s] EXCEPT !.status = "discarded"]
<1>1. /\ row' = [row EXCEPT ![s] = new] /\ row[s].status = "failed"
      /\ UNCHANGED <<task, run, before, starts, leave>>
  BY DEF DiscardPendingSave
<1>2. /\ new \in RowRecord /\ new.done = row[s].done /\ new.claim = row[s].claim
      /\ new.status = "discarded" /\ new.recorded = row[s].recorded
  BY <1>0, RowFields, StatusNames DEF RowRecord
<1> HIDE DEF new
<1>3. RowFacts(s, new) /\ RowOnward(row[s], new)
  BY <1>0, <1>1, <1>2, StatusNames DEF RowFacts, RowOnward, RowOK, Moved, Early
<1> QED
  BY <1>0, <1>1, <1>2, <1>3, RowAlone DEF Typed

-----------------------------------------------------------------------------
(* The steps of the tasks: applying a row's records.                       *)

LEMMA IdleOK ==
  ASSUME NEW t \in Applier, task'[t].pc \in {"idle", "down"}
  PROVE  TaskOK(t)'
  BY PcNames DEF TaskOK

LEMMA TaskIs ==
  ASSUME OutboxInv, NEW t \in Applier, NEW to, task' = [task EXCEPT ![t] = to]
  PROVE  task'[t] = to /\ \A u \in Applier : u # t => task'[u] = task[u]
  BY DEF OutboxInv, Typed

LEMMA TaskRests ==
  ASSUME OutboxInv, UNCHANGED <<row, before, starts, leave, run>>,
         NEW t \in Applier, task' = [task EXCEPT ![t] = Idle]
  PROVE  OutboxInv'
<1>1. task'[t].pc = "idle"
  BY TaskIs, IdleFacts
<1> QED
  BY <1>1, IdleOK, IdleFacts, TaskAlone

(***************************************************************************)
(* A task that works on a stack of rows, with nothing written yet.         *)
(***************************************************************************)
LEMMA StackOK ==
  ASSUME NEW t \in Applier, task'[t].pc \in {"locking", "unrecorded"},
         task'[t].stack # <<>>
  PROVE  TaskOK(t)'
  BY PcNames DEF TaskOK, Running

LEMMA StackOf ==
  ASSUME OutboxInv, NEW t \in Applier, task[t].pc \in Applying
  PROVE  /\ task[t].stack \in Seq(Saves) /\ task[t].stack # <<>>
         /\ Last(task[t].stack) \in Saves
  BY TaskFields, LastFront DEF OutboxInv, TaskOK

LEMMA StartApplyKeeps ==
  ASSUME OutboxInv, NEW t \in Applier, NEW s \in Saves, StartApply(t, s)
  PROVE  OutboxInv'
<1>1. PICK c \in Seq(Saves) : c = <<s>> /\ c # <<>>
  BY OneOnStack
<1>5. c # <<>>
  BY <1>1
<1> DEFINE to == [At("locking") EXCEPT !.stack = c]
<1>2. to \in TaskRecord /\ to.pc = "locking" /\ to.stack # <<>>
  BY <1>5, PcNames, StackAt
<1>3. task' = [task EXCEPT ![t] = to] /\ UNCHANGED <<row, before, starts, leave, run>>
  BY <1>1 DEF StartApply
<1> HIDE DEF to
<1>4. TaskOK(t)'
  BY <1>2, <1>3, TaskIs, StackOK
<1> QED
  BY <1>2, <1>3, <1>4, TaskAlone

(***************************************************************************)
(* What a row that waits for no other is ordered behind has its records.   *)
(***************************************************************************)
LEMMA NothingOlder ==
  ASSUME OutboxInv, NEW s \in Saves, OlderUnapplied(s) = {}
  PROVE  RecordsBehind(s)
<1>0. /\ \A q \in Saves : RowOK(q)
      /\ before[s] \subseteq Saves
  BY DEF OutboxInv, Typed
<1>1. ASSUME NEW q \in before[s], SameRecord(q, s)
      PROVE  row[q].recorded \/ Status(q) = "discarded"
  <2>1. q \in Saves /\ q < s /\ ~Unapplied(q)
    BY <1>0, <1>1 DEF RowOK, OlderUnapplied
  <2>2. Status(q) \in {"pending", "calls", "running", "failed", "applied", "discarded"}
    BY <1>0, StatusNames DEF RowOK, Committed
  <2> QED
    BY <1>0, <2>1, <2>2 DEF RowOK, Unapplied
<1> QED
  BY <1>1 DEF RecordsBehind

LEMMA RowDoneFacts ==
  ASSUME OutboxInv, NEW t \in Applier, task[t].pc \in Applying
  PROVE  /\ RowDone(t) \in TaskRecord
         /\ RowDone(t).pc \in {"idle", "locking"}
         /\ RowDone(t).pc = "locking" => RowDone(t).stack # <<>>
<1>1. task[t].stack \in Seq(Saves) /\ task[t].stack # <<>>
  BY StackOf
<1>2. CASE Len(task[t].stack) = 1
  <2>1. RowDone(t) = Idle
    BY <1>2 DEF RowDone
  <2> QED
    BY <2>1, IdleFacts
<1>3. CASE Len(task[t].stack) # 1
  <2>1. Front(task[t].stack) \in Seq(Saves) /\ Front(task[t].stack) # <<>>
    BY <1>1, <1>3, LastFront
  <2>2. RowDone(t) = [At("locking") EXCEPT !.stack = Front(task[t].stack)]
    BY <1>3 DEF RowDone
  <2>3. "locking" \in TaskPc
    BY PcNames
  <2>4. /\ RowDone(t) \in TaskRecord /\ RowDone(t).pc = "locking"
        /\ RowDone(t).stack = Front(task[t].stack)
    BY <2>1, <2>2, <2>3, StackAt
  <2> QED
    BY <2>1, <2>4
<1> QED
  BY <1>2, <1>3

LEMMA RowDoneOK ==
  ASSUME OutboxInv, NEW t \in Applier, task[t].pc \in Applying, task'[t] = RowDone(t)
  PROVE  TaskOK(t)'
  BY RowDoneFacts, IdleOK, StackOK

LEMMA ApplyOnceKeeps ==
  ASSUME OutboxInv, NEW t \in Applier, ApplyOnce(t)
  PROVE  OutboxInv'
<1>a. task[t].pc \in Applying
  BY DEF ApplyOnce, Applying
<1> PICK s \in Saves : s = Last(task[t].stack)
  BY <1>a, StackOf
<1> DEFINE older == OlderUnapplied(s)
<1>0. /\ task[t].pc = "locking" /\ UNCHANGED <<row, run, before, starts, leave>>
      /\ \A u \in Applier \ {t} : Locked(u) \cap RecordKeys[s] = {}
      /\ task' = [task EXCEPT ![t] =
                    IF older # {}
                    THEN IF Status(Oldest(older)) = "failed" THEN Idle
                         ELSE [task[t] EXCEPT !.stack = Append(@, Oldest(older))]
                    ELSE IF Status(s) # "pending" THEN RowDone(t)
                    ELSE [task[t] EXCEPT !.pc = "writing"]]
  BY DEF ApplyOnce
<1>1. /\ task[t].pc \in Applying /\ task[t] \in TaskRecord /\ s \in Saves
      /\ task[t].stack \in Seq(Saves) /\ task[t].stack # <<>>
  BY <1>0, StackOf, TaskFields DEF Applying, OutboxInv
<1>2. CASE older # {} /\ Status(Oldest(older)) = "failed"
  BY <1>0, <1>2, TaskRests
<1>3. CASE older # {} /\ Status(Oldest(older)) # "failed"
  <2> DEFINE to == [task[t] EXCEPT !.stack = Append(task[t].stack, Oldest(older))]
  <2>1. Oldest(older) \in Saves
    BY <1>3, OldestIn DEF OlderUnapplied
  <2>2. /\ Append(task[t].stack, Oldest(older)) \in Seq(Saves)
        /\ Append(task[t].stack, Oldest(older)) # <<>>
    BY <1>1, <2>1, Appended
  <2>3. to \in TaskRecord /\ to.pc = "locking" /\ to.stack # <<>>
    BY <1>0, <1>1, <2>2 DEF TaskRecord
  <2>4. task' = [task EXCEPT ![t] = to]
    BY <1>0, <1>3
  <2> HIDE DEF to
  <2>5. TaskOK(t)'
    BY <2>3, <2>4, TaskIs, StackOK
  <2> QED
    BY <1>0, <2>3, <2>4, <2>5, TaskAlone
<1>4. CASE older = {} /\ Status(s) # "pending"
  <2>1. task' = [task EXCEPT ![t] = RowDone(t)]
    BY <1>0, <1>4
  <2>2. TaskOK(t)'
    BY <1>1, <2>1, TaskIs, RowDoneOK
  <2>3. RowDone(t) \in TaskRecord /\ RowDone(t).pc # "writing"
    BY <1>1, RowDoneFacts
  <2> QED
    BY <1>0, <2>1, <2>2, <2>3, TaskAlone
<1>5. CASE older = {} /\ Status(s) = "pending"
  <2> DEFINE to == [task[t] EXCEPT !.pc = "writing"]
  <2>1. to \in TaskRecord /\ to.pc = "writing" /\ to.stack = task[t].stack
    BY <1>1, PcNames DEF TaskRecord
  <2>2. task' = [task EXCEPT ![t] = to]
    BY <1>0, <1>5
  <2> HIDE DEF to
  <2>3. RecordsBehind(s)
    BY <1>1, <1>5, NothingOlder
  <2>4. RecordKeys[s] # {}
    BY <1>1, <1>5 DEF OutboxInv, RowOK, Early
  <2>5. \A u \in Applier : u # t /\ task[u].pc = "writing" => Last(task[u].stack) # s
    BY <1>0, <2>4 DEF Locked
  <2>6. task'[t] = to
    BY <2>2, TaskIs
  <2>7. RecordsBehind(s)'
    BY <1>0, <2>3 DEF RecordsBehind
  <2>8. TaskOK(t)'
    BY <1>0, <1>1, <1>5, <2>1, <2>6, <2>7, PcNames DEF TaskOK, Running
  <2> QED
    BY <1>0, <2>1, <2>2, <2>5, <2>8, TaskAlone
<1> QED
  BY <1>2, <1>3, <1>4, <1>5

LEMMA CommitRecordsKeeps ==
  ASSUME OutboxInv, NEW t \in Applier, CommitRecords(t)
  PROVE  OutboxInv'
<1>a. task[t].pc \in Applying
  BY DEF CommitRecords, Applying
<1> PICK s \in Saves : s = Last(task[t].stack)
  BY <1>a, StackOf
<1> DEFINE new == [row[s] EXCEPT !.status = IF Calls[s] = 0 THEN "applied" ELSE "calls",
                                 !.attempts = 0, !.recorded = TRUE]
<1>0. /\ task[t].pc = "writing" /\ UNCHANGED <<run, before, starts, leave>>
      /\ row' = [row EXCEPT ![s] = new] /\ task' = [task EXCEPT ![t] = RowDone(t)]
  BY DEF CommitRecords
<1>1. task[t].pc \in Applying /\ s \in Saves
  BY <1>0, StackOf DEF Applying
<1>2. /\ Typed /\ OneWriter /\ RowOK(s)
      /\ row[s].status = "pending" /\ RecordsBehind(s)
  BY <1>0, <1>1 DEF OutboxInv, TaskOK
<1>3. /\ new \in RowRecord /\ new.status \in {"applied", "calls"} /\ new.recorded
      /\ new.claim = row[s].claim /\ new.done = row[s].done
  BY <1>1, <1>2, RowFields, StatusNames DEF RowRecord
<1>4. \A u \in Applier : u # t /\ task[u].pc = "writing" => Last(task[u].stack) # s
  BY <1>0, <1>2 DEF OneWriter
<1>5. TaskOK(t)' /\ RowDone(t) \in TaskRecord /\ RowDone(t).pc # "writing"
  BY <1>0, <1>1, TaskIs, RowDoneFacts, RowDoneOK
<1> HIDE DEF new
<1>6. RowFacts(s, new) /\ RowOnward(row[s], new)
  BY <1>2, <1>3, StatusNames DEF RowFacts, RowOnward, RowOK, Moved, Early
<1> QED
  BY <1>0, <1>1, <1>2, <1>3, <1>4, <1>5, <1>6, TaskOnRow DEF Typed

LEMMA RecordsRaiseKeeps ==
  ASSUME OutboxInv, NEW t \in Applier, NEW error \in {"transient", "lasting"},
         RecordsRaise(t, error)
  PROVE  OutboxInv'
<1>1. task[t].pc \in Applying
  BY DEF RecordsRaise, Applying
<1>2. PICK c \in Seq(Saves) : c = <<Last(task[t].stack)>> /\ c # <<>>
  BY <1>1, StackOf, OneOnStack
<1>5. c # <<>>
  BY <1>2
<1> DEFINE to == [At("unrecorded") EXCEPT !.stack = c, !.error = error]
<1>0. /\ UNCHANGED <<row, run, before, starts, leave>>
      /\ task' = [task EXCEPT ![t] = to]
  BY <1>2 DEF RecordsRaise
<1>3. to \in TaskRecord /\ to.pc = "unrecorded" /\ to.stack # <<>>
  <2>1. to \in TaskRecord
    BY RaisedStack
  <2>2. to.pc = "unrecorded"
    BY RaisedStack
  <2>3. to.stack = c
    BY RaisedStack
  <2> QED
    BY <1>5, <2>1, <2>2, <2>3
<1> HIDE DEF to
<1>4. TaskOK(t)'
  BY <1>0, <1>3, TaskIs, StackOK
<1> QED
  BY <1>0, <1>3, <1>4, TaskAlone

(***************************************************************************)
(* A task that leaves a row and rests.                                     *)
(***************************************************************************)
LEMMA RowRests ==
  ASSUME OutboxInv, UNCHANGED <<before, starts, run>>,
         DOMAIN leave' = Saves, \A q \in Saves : leave'[q] \in [1..Calls[q] -> Nat],
         NEW s \in Saves, NEW new \in RowRecord, row' = [row EXCEPT ![s] = new],
         row[s].status # "absent", RowFacts(s, new), RowOnward(row[s], new),
         new.recorded = row[s].recorded, new.done = row[s].done,
         new.claim \in {row[s].claim, NoApplier},
         NEW t \in Applier, task' = [task EXCEPT ![t] = Idle],
         \A u \in Applier : task[u].pc = "writing" => Last(task[u].stack) # s
  PROVE  OutboxInv'
<1>1. TaskOK(t)'
  BY TaskIs, IdleFacts, IdleOK
<1>2. \A u \in Applier : u # t =>
        new.claim # u \/ (new.claim = row[s].claim /\ new.done = row[s].done)
  BY ApplierAssumption
<1>3. Idle \in TaskRecord /\ Idle.pc # "writing"
  BY IdleFacts
<1>4. /\ Onward /\ row' \in [Saves -> RowRecord] /\ row'[s] = new
      /\ \A q \in Saves : q # s => row'[q] = row[q]
      /\ \A q \in Saves : RowOK(q)'
  BY OneRow
<1>5. \A q \in Saves : RecordsCome(q)
  BY <1>4 DEF RecordsCome
<1>6. \A u \in Applier : u # t => Undisturbed(u)
  BY <1>2, <1>4, UndisturbedBy
<1> QED
  BY <1>1, <1>3, <1>4, <1>5, <1>6, TaskSteps

LEMMA RecordApplyFailureKeeps ==
  ASSUME OutboxInv, NEW t \in Applier, RecordApplyFailure(t)
  PROVE  OutboxInv'
<1>a. task[t].pc \in Applying
  BY DEF RecordApplyFailure, Applying
<1> PICK s \in Saves : s = Last(task[t].stack)
  BY <1>a, StackOf
<1>b. PICK status \in {"pending", "failed"} :
        status = IF task[t].error = "transient" /\ row[s].attempts + 1 < MaxAttempts
                 THEN "pending" ELSE "failed"
  OBVIOUS
<1>c. PICK n \in Nat : n = row[s].attempts + 1
  BY RowFields DEF OutboxInv
<1> DEFINE new == [row[s] EXCEPT !.status = status, !.attempts = n]
<1>0. /\ task[t].pc = "unrecorded" /\ UNCHANGED <<run, before, starts, leave>>
      /\ \A u \in Applier : task[u].pc = "writing" => Last(task[u].stack) # s
      /\ row' = IF Status(s) # "pending" THEN row ELSE [row EXCEPT ![s] = new]
      /\ task' = [task EXCEPT ![t] = Idle]
  BY <1>b, <1>c DEF RecordApplyFailure
<1>1. s \in Saves
  OBVIOUS
<1>2. Typed /\ RowOK(s)
  BY DEF OutboxInv
<1>3. /\ new \in RowRecord /\ new.status \in {"pending", "failed"}
      /\ new.recorded = row[s].recorded
      /\ new.claim = row[s].claim /\ new.done = row[s].done
  BY <1>1, <1>2, RowFields, StatusNames DEF RowRecord
<1> HIDE DEF new
<1>5. CASE Status(s) = "pending"
  <2>1. RowFacts(s, new) /\ RowOnward(row[s], new)
    BY <1>2, <1>3, <1>5, StatusNames DEF RowFacts, RowOnward, RowOK, Moved, Early
  <2>2. row' = [row EXCEPT ![s] = new] /\ row[s].status # "absent"
    BY <1>0, <1>5
  <2>3. DOMAIN leave' = Saves /\ \A q \in Saves : leave'[q] \in [1..Calls[q] -> Nat]
    BY <1>0, <1>2 DEF Typed
  <2> QED
    BY <1>0, <1>3, <2>1, <2>2, <2>3, RowRests
<1>6. CASE Status(s) # "pending"
  BY <1>0, <1>6, TaskRests
<1> QED
  BY <1>5, <1>6

-----------------------------------------------------------------------------
(* The steps of the tasks: a row's calls.                                  *)

(***************************************************************************)
(* Only a pending row has its records written.                             *)
(***************************************************************************)
LEMMA NoWriter ==
  ASSUME OutboxInv, NEW s \in Saves, Status(s) # "pending"
  PROVE  \A u \in Applier : task[u].pc = "writing" => Last(task[u].stack) # s
  BY DEF OutboxInv, TaskOK

LEMMA CallOf ==
  ASSUME OutboxInv, NEW t \in Applier, task[t].pc \in Running
  PROVE  \E s \in Saves :
           /\ s = task[t].call /\ Status(s) # "absent" /\ CallsBehind(s)
           /\ task[t].index \in Nat /\ task[t].index <= Calls[s]
           /\ row[s].claim = t => task[t].index = row[s].done
           /\ row[s].claim = t => Status(s) = "running" /\ row[s].recorded
           /\ task[t].pc \in {"calling", "called", "raised"} => task[t].index < Calls[s]
<1>1. /\ Typed /\ TaskOK(t) /\ \A s \in Saves : RowOK(s)
  BY DEF OutboxInv
<1>2. task[t].index \in Nat
  BY <1>1, TaskFields
<1>3. \A s \in Saves : row[s].claim = t => Status(s) = "running" /\ row[s].recorded
  BY <1>1, ApplierAssumption DEF RowOK
<1> QED
  BY <1>1, <1>2, <1>3 DEF TaskOK

LEMMA CallPcs ==
  /\ {"ready", "calling", "called", "raised", "unheard", "interrupted"} = Running
  /\ \A pc \in Running : pc \in TaskPc /\ pc # "writing"
  BY DEF Running, TaskPc

(***************************************************************************)
(* A task at a call of a row that nothing outstanding comes before.        *)
(***************************************************************************)
LEMMA AtCallOK ==
  ASSUME NEW t \in Applier, NEW s \in Saves, task'[t].pc \in Running,
         task'[t].call = s, Status(s)' # "absent", CallsBehind(s)',
         task'[t].index <= Calls[s], row'[s].claim = t => task'[t].index = row'[s].done,
         task'[t].pc \in {"calling", "called", "raised"} => task'[t].index < Calls[s],
         task'[t].pc = "calling" =>
           \A i \in DOMAIN task'[t].chain :
             task'[t].scope # NoSave => task'[t].chain[i] # task'[t].scope
  PROVE  TaskOK(t)'
<1>1. task'[t].pc \notin Applying /\ task'[t].pc # "writing"
  BY PcNames DEF Applying
<1>2. CallsBehind(task[t].call)'
  BY DEF CallsBehind
<1> QED
  BY <1>1, <1>2 DEF TaskOK

LEMMA CallGoesOn ==
  ASSUME OutboxInv, NEW t \in Applier, task[t].pc \in Running, UNCHANGED <<row, before>>,
         task'[t].pc \in Running, task'[t].call = task[t].call,
         task'[t].index = task[t].index,
         task'[t].pc \in {"calling", "called", "raised"} =>
           task[t].index < Calls[task[t].call],
         task'[t].pc = "calling" =>
           \A i \in DOMAIN task'[t].chain :
             task'[t].scope # NoSave => task'[t].chain[i] # task'[t].scope
  PROVE  TaskOK(t)'
<1>1. PICK s \in Saves :
        /\ s = task[t].call /\ Status(s) # "absent" /\ CallsBehind(s)
        /\ task[t].index <= Calls[s]
        /\ row[s].claim = t => task[t].index = row[s].done
  BY CallOf
<1>2. CallsBehind(s)' /\ Status(s)' # "absent"
  BY <1>1 DEF CallsBehind
<1>3. task'[t].call = s /\ task'[t].index = task[t].index /\ row'[s] = row[s]
  BY <1>1
<1>4. /\ task'[t].pc \in {"calling", "called", "raised"} => task'[t].index < Calls[s]
      /\ task'[t].index <= Calls[s]
      /\ row'[s].claim = t => task'[t].index = row'[s].done
  BY <1>1, <1>3
<1> QED
  BY <1>1, <1>2, <1>3, <1>4, AtCallOK

(***************************************************************************)
(* What a row that nothing outstanding comes before is ordered behind is   *)
(* gone.                                                                   *)
(***************************************************************************)
LEMMA NothingBlocks ==
  ASSUME OutboxInv, NEW s \in Saves, Blockers(s) = {}
  PROVE  CallsBehind(s)
<1>1. before[s] \subseteq Saves /\ RowOK(s)
  BY DEF OutboxInv, Typed
<1> QED
  BY <1>1, StatusNames DEF RowOK, Committed, Blockers, CallsBehind

(***************************************************************************)
(* What the claim of a row changes of it.                                  *)
(***************************************************************************)
LEMMA DoneEdited ==
  ASSUME NEW r \in RowRecord, NEW n \in Nat
  PROVE  /\ [r EXCEPT !.done = n] \in RowRecord
         /\ [r EXCEPT !.done = n].done = n
         /\ [r EXCEPT !.done = n].status = r.status
         /\ [r EXCEPT !.done = n].claim = r.claim
         /\ [r EXCEPT !.done = n].recorded = r.recorded
  BY DEF RowRecord

LEMMA ClaimEdited ==
  ASSUME NEW r \in RowRecord, NEW status \in RowStatus
  PROVE  \E new \in RowRecord :
           /\ new = [r EXCEPT !.status = status, !.claim = NoApplier, !.lapsed = FALSE]
           /\ new.status = status /\ new.claim = NoApplier
           /\ new.done = r.done /\ new.recorded = r.recorded
<1> DEFINE new == [r EXCEPT !.status = status, !.claim = NoApplier, !.lapsed = FALSE]
<1>1. \A claim \in Applier \cup {NoApplier} :
        [r EXCEPT !.status = status, !.claim = claim, !.lapsed = FALSE] \in RowRecord
  BY DEF RowRecord
<1>2. new \in RowRecord
  BY <1>1
<1>3. new.status = status
  BY DEF RowRecord
<1>4. new.claim = NoApplier
  BY DEF RowRecord
<1>5. new.done = r.done /\ new.recorded = r.recorded
  BY DEF RowRecord
<1> QED
  BY <1>2, <1>3, <1>4, <1>5

(***************************************************************************)
(* A task at a call of a row whose claim it holds.                         *)
(***************************************************************************)
LEMMA RowAtCall ==
  ASSUME OutboxInv, UNCHANGED <<before, starts, leave, run>>,
         NEW s \in Saves, NEW new \in RowRecord, row' = [row EXCEPT ![s] = new],
         row[s].status \in {"calls", "running"}, RowFacts(s, new), RowOnward(row[s], new),
         new.recorded = row[s].recorded, CallsBehind(s),
         NEW t \in Applier, NEW to \in TaskRecord, task' = [task EXCEPT ![t] = to],
         to.pc \in {"ready", "unheard", "interrupted"}, to.call = s, to.index = new.done,
         new.claim = t
  PROVE  OutboxInv'
<1>0. Typed
  BY DEF OutboxInv
<1>1. /\ Onward /\ row' \in [Saves -> RowRecord] /\ row'[s] = new
      /\ \A q \in Saves : q # s => row'[q] = row[q]
      /\ \A q \in Saves : RowOK(q)'
  BY OneRow
<1>2. CallsBehind(s)' /\ Status(s)' # "absent"
  BY <1>0, <1>1, BehindKept DEF RowFacts
<1>3. task'[t] = to /\ to.pc \in Running /\ to.pc # "writing"
  BY TaskIs, CallPcs
<1>4. TaskOK(t)'
  BY <1>1, <1>2, <1>3, AtCallOK DEF RowFacts
<1>5. \A q \in Saves : RecordsCome(q)
  BY <1>1 DEF RecordsCome
<1>6. \A u \in Applier : task[u].pc = "writing" => Last(task[u].stack) # s
  BY NoWriter
<1>7. \A u \in Applier : u # t => Undisturbed(u)
  BY <1>1, <1>6, UndisturbedBy
<1>8. DOMAIN leave' = Saves /\ \A q \in Saves : leave'[q] \in [1..Calls[q] -> Nat]
  BY <1>0 DEF Typed
<1> QED
  BY <1>1, <1>3, <1>4, <1>5, <1>7, <1>8, TaskSteps

LEMMA ClaimCallsKeeps ==
  ASSUME OutboxInv, NEW t \in Applier, NEW s \in Saves, ClaimCalls(t, s)
  PROVE  OutboxInv'
<1>a. PICK n \in Nat : n = row[s].attempts + 1
  BY RowFields DEF OutboxInv
<1>b. PICK pc \in {"ready", "interrupted"} :
        pc = IF Status(s) = "running" /\ row[s].done < Calls[s] /\ s \notin Resumable
             THEN "interrupted" ELSE "ready"
  OBVIOUS
<1> DEFINE new == [row[s] EXCEPT !.status = "running", !.claim = t, !.lapsed = FALSE,
                                 !.attempts = n]
<1> DEFINE to == AtCall(pc, s, row[s].done)
<1>0. /\ row' = [row EXCEPT ![s] = new] /\ task' = [task EXCEPT ![t] = to]
      /\ Status(s) \in {"calls", "running"} /\ Blockers(s) = {}
      /\ UNCHANGED <<before, run, starts, leave>>
  BY <1>a, <1>b DEF ClaimCalls
<1>1. Typed /\ RowOK(s)
  BY DEF OutboxInv
<1>2. /\ new \in RowRecord /\ new.status = "running" /\ new.claim = t
      /\ new.done = row[s].done /\ new.recorded = row[s].recorded
  BY <1>1, RowFields, StatusNames DEF RowRecord
<1>3. row[s].done \in Nat /\ pc \in TaskPc /\ pc \in Running
  BY <1>1, RowFields, CallPcs
<1>4. /\ to \in TaskRecord /\ to.pc = pc /\ to.call = s /\ to.index = row[s].done
  BY <1>3, AtCallFacts
<1> HIDE DEF new, to
<1>5. RowFacts(s, new) /\ RowOnward(row[s], new)
  BY <1>0, <1>1, <1>2, ApplierAssumption, StatusNames
     DEF RowFacts, RowOnward, RowOK, Moved, Early
<1>7. CallsBehind(s)
  BY <1>0, NothingBlocks
<1> QED
  BY <1>0, <1>2, <1>3, <1>4, <1>5, <1>7, RowAtCall

LEMMA FailInterruptedKeeps ==
  ASSUME OutboxInv, NEW t \in Applier, FailInterrupted(t)
  PROVE  OutboxInv'
<1>a. task[t].pc \in Running
  BY CallPcs DEF FailInterrupted
<1> PICK s \in Saves : s = task[t].call
  BY <1>a, CallOf
<1>0. /\ row' = IF UnderClaim(t, s)
                 THEN [row EXCEPT ![s] = [row[s] EXCEPT !.status = "failed",
                                            !.claim = NoApplier, !.lapsed = FALSE]]
                 ELSE row
      /\ task' = [task EXCEPT ![t] = Idle] /\ UNCHANGED <<before, run, starts, leave>>
  BY DEF FailInterrupted
<1>1. CASE ~UnderClaim(t, s)
  BY <1>0, <1>1, TaskRests
<1>2. CASE UnderClaim(t, s)
  <2>1. Typed /\ RowOK(s) /\ Status(s) = "running"
    BY <1>2 DEF OutboxInv, UnderClaim
  <2>2. PICK new \in RowRecord :
          /\ new = [row[s] EXCEPT !.status = "failed", !.claim = NoApplier, !.lapsed = FALSE]
          /\ new.status = "failed" /\ new.claim = NoApplier
          /\ new.done = row[s].done /\ new.recorded = row[s].recorded
    <3>1. "failed" \in RowStatus /\ row[s] \in RowRecord
      BY <2>1, RowFields, StatusNames
    <3> QED
      BY <3>1, ClaimEdited
  <2>3. row' = [row EXCEPT ![s] = new]
    BY <1>0, <1>2, <2>2
  <2>4. RowFacts(s, new) /\ RowOnward(row[s], new) /\ row[s].status # "absent"
    BY <2>1, <2>2, StatusNames DEF RowFacts, RowOnward, RowOK, Moved, Early
  <2>5. DOMAIN leave' = Saves /\ \A q \in Saves : leave'[q] \in [1..Calls[q] -> Nat]
    BY <1>0, <2>1 DEF Typed
  <2>6. \A u \in Applier : task[u].pc = "writing" => Last(task[u].stack) # s
    BY <2>1, NoWriter
  <2> QED
    BY <1>0, <2>2, <2>3, <2>4, <2>5, <2>6, RowRests
<1> QED
  BY <1>1, <1>2

LEMMA DeleteClaimedKeeps ==
  ASSUME OutboxInv, NEW t \in Applier, DeleteClaimed(t)
  PROVE  OutboxInv'
<1>a. task[t].pc \in Running
  BY CallPcs DEF DeleteClaimed
<1> PICK s \in Saves : /\ s = task[t].call
                       /\ row[s].claim = t => Status(s) = "running" /\ row[s].recorded
  BY <1>a, CallOf
<1> DEFINE new == [row[s] EXCEPT !.status = "applied", !.claim = NoApplier,
                                 !.lapsed = FALSE]
<1>0. /\ row' = IF row[s].claim = t THEN [row EXCEPT ![s] = new] ELSE row
      /\ task' = [task EXCEPT ![t] = Idle] /\ UNCHANGED <<before, run, starts, leave>>
  BY DEF DeleteClaimed
<1>1. CASE row[s].claim # t
  BY <1>0, <1>1, TaskRests
<1>2. CASE row[s].claim = t
  <2>1. Typed /\ RowOK(s) /\ Status(s) = "running"
    BY <1>2 DEF OutboxInv
  <2>2. /\ new \in RowRecord /\ new.status = "applied" /\ new.claim = NoApplier
        /\ new.done = row[s].done /\ new.recorded = row[s].recorded
    BY <2>1, RowFields, StatusNames DEF RowRecord
  <2>3. row' = [row EXCEPT ![s] = new]
    BY <1>0, <1>2
  <2> HIDE DEF new
  <2>4. RowFacts(s, new) /\ RowOnward(row[s], new) /\ row[s].status # "absent"
    BY <2>1, <2>2, StatusNames DEF RowFacts, RowOnward, RowOK, Moved, Early
  <2>5. DOMAIN leave' = Saves /\ \A q \in Saves : leave'[q] \in [1..Calls[q] -> Nat]
    BY <1>0, <2>1 DEF Typed
  <2>6. \A u \in Applier : task[u].pc = "writing" => Last(task[u].stack) # s
    BY <2>1, NoWriter
  <2> QED
    BY <1>0, <2>2, <2>3, <2>4, <2>5, <2>6, RowRests
<1> QED
  BY <1>1, <1>2

LEMMA RecordCallFailureKeeps ==
  ASSUME OutboxInv, NEW t \in Applier, RecordCallFailure(t)
  PROVE  OutboxInv'
<1>a. task[t].pc \in Running
  <2>1. task[t].pc \in {"raised", "unheard"}
    BY DEF RecordCallFailure
  <2> QED
    BY <2>1, CallPcs
<1> PICK s \in Saves : s = task[t].call
  BY <1>a, CallOf
<1>b. PICK status \in {"calls", "failed"} :
        status = IF task[t].error = "transient" /\ row[s].attempts < MaxAttempts
                 THEN "calls" ELSE "failed"
  OBVIOUS
<1> DEFINE new == [row[s] EXCEPT !.status = status, !.claim = NoApplier, !.lapsed = FALSE]
<1>0. /\ IF UnderClaim(t, s) THEN row' = [row EXCEPT ![s] = new]
                             ELSE UNCHANGED <<row, leave>>
      /\ task' = [task EXCEPT ![t] = Idle] /\ UNCHANGED <<before, run, starts>>
      /\ leave' = [leave EXCEPT ![s][row[s].done + 1] = @ + 1] \/ UNCHANGED leave
  BY <1>b DEF RecordCallFailure
<1>1. CASE ~UnderClaim(t, s)
  BY <1>0, <1>1, TaskRests
<1>2. CASE UnderClaim(t, s)
  <2>1. Typed /\ RowOK(s) /\ Status(s) = "running"
    BY <1>2 DEF OutboxInv, UnderClaim
  <2>2. /\ new \in RowRecord /\ new.status \in {"calls", "failed"}
        /\ new.claim = NoApplier
        /\ new.done = row[s].done /\ new.recorded = row[s].recorded
    BY <2>1, RowFields, StatusNames DEF RowRecord
  <2>3. row' = [row EXCEPT ![s] = new]
    BY <1>0, <1>2
  <2> HIDE DEF new
  <2>4. RowFacts(s, new) /\ RowOnward(row[s], new) /\ row[s].status # "absent"
    BY <2>1, <2>2, StatusNames DEF RowFacts, RowOnward, RowOK, Moved, Early
  <2>5. DOMAIN leave' = Saves /\ \A q \in Saves : leave'[q] \in [1..Calls[q] -> Nat]
    <3>1. row[s].done + 1 \in Nat
      BY <2>1, RowFields
    <3> QED
      BY <1>0, <2>1, <3>1, LeaveType
  <2>6. \A u \in Applier : task[u].pc = "writing" => Last(task[u].stack) # s
    BY <2>1, NoWriter
  <2> QED
    BY <1>0, <2>2, <2>3, <2>4, <2>5, <2>6, RowRests
<1> QED
  BY <1>1, <1>2

(***************************************************************************)
(* A runner that is to record a failure.                                   *)
(***************************************************************************)
LEMMA RaisedCall ==
  ASSUME NEW pc \in {"raised", "unheard"}, NEW s \in Saves, NEW i \in Nat,
         NEW error \in {"transient", "lasting"}
  PROVE  \E to \in TaskRecord :
           /\ to = [AtCall(pc, s, i) EXCEPT !.error = error]
           /\ to.pc = pc /\ to.call = s /\ to.index = i
<1>1. \A r \in TaskRecord :
        /\ [r EXCEPT !.error = error] \in TaskRecord
        /\ [r EXCEPT !.error = error].pc = r.pc
        /\ [r EXCEPT !.error = error].call = r.call
        /\ [r EXCEPT !.error = error].index = r.index
  BY DEF TaskRecord
<1>a. pc \in TaskPc
  BY CallPcs
<1>2. /\ AtCall(pc, s, i) \in TaskRecord /\ AtCall(pc, s, i).pc = pc
      /\ AtCall(pc, s, i).call = s /\ AtCall(pc, s, i).index = i
  BY <1>a, AtCallFacts
<1> QED
  BY <1>1, <1>2

(***************************************************************************)
(* The row says that a call is done, and its runner heard of it or not.    *)
(***************************************************************************)
NotesDone(t, s, to) ==
  /\ task[t].pc = "called" /\ s = task[t].call /\ row[s].claim = t
  /\ row' = [row EXCEPT ![s].done = @ + 1] /\ task' = [task EXCEPT ![t] = to]
  /\ UNCHANGED <<before, run, starts, leave>>
  /\ to.pc \in {"ready", "unheard"} /\ to.call = s /\ to.index = row[s].done + 1

LEMMA DoneIsNoted ==
  ASSUME OutboxInv, NEW t \in Applier, CallDone(t), row[task[t].call].claim = t
  PROVE  \E s \in Saves, to \in TaskRecord : NotesDone(t, s, to)
<1>a. task[t].pc \in Running /\ task[t].pc = "called"
  BY CallPcs DEF CallDone
<1>b. PICK s \in Saves : s = task[t].call /\ task[t].index = row[s].done
                         /\ task[t].index \in Nat
  BY <1>a, CallOf
<1>c. PICK n \in Nat : n = row[s].done + 1
  BY <1>b
<1>1. "ready" \in TaskPc
  BY CallPcs
<1>2. PICK to \in TaskRecord : /\ to = AtCall("ready", s, n)
                               /\ to.pc = "ready" /\ to.call = s /\ to.index = n
  BY <1>1, AtCallFacts
<1>3. /\ row' = [row EXCEPT ![s].done = @ + 1] /\ task' = [task EXCEPT ![t] = to]
      /\ UNCHANGED <<before, run, starts, leave>>
  BY <1>b, <1>c, <1>2 DEF CallDone
<1> QED
  BY <1>a, <1>b, <1>c, <1>2, <1>3 DEF NotesDone

LEMMA UnheardIsNoted ==
  ASSUME OutboxInv, NEW t \in Applier, NEW error \in {"transient", "lasting"},
         CallDoneUnheard(t, error)
  PROVE  \E s \in Saves, to \in TaskRecord : NotesDone(t, s, to)
<1>a. task[t].pc \in Running /\ task[t].pc = "called"
  BY CallPcs DEF CallDoneUnheard
<1>b. PICK s \in Saves : /\ s = task[t].call /\ row[s].claim = t
                         /\ task[t].index = row[s].done /\ task[t].index \in Nat
  <2>1. row[task[t].call].claim = t
    BY DEF CallDoneUnheard
  <2> QED
    BY <1>a, <2>1, CallOf
<1>c. PICK n \in Nat : n = row[s].done + 1
  BY <1>b
<1>2. PICK to \in TaskRecord :
        /\ to = [AtCall("unheard", s, n) EXCEPT !.error = error]
        /\ to.pc = "unheard" /\ to.call = s /\ to.index = n
  BY RaisedCall
<1>3. /\ row' = [row EXCEPT ![s].done = @ + 1] /\ task' = [task EXCEPT ![t] = to]
      /\ UNCHANGED <<before, run, starts, leave>>
  BY <1>b, <1>c, <1>2 DEF CallDoneUnheard
<1> QED
  BY <1>a, <1>b, <1>c, <1>2, <1>3 DEF NotesDone

LEMMA NotesDoneKeeps ==
  ASSUME OutboxInv, NEW t \in Applier, NEW s \in Saves, NEW to \in TaskRecord,
         NotesDone(t, s, to)
  PROVE  OutboxInv'
<1>a. task[t].pc \in Running /\ task[t].pc = "called" /\ s = task[t].call
      /\ row[s].claim = t
  BY CallPcs DEF NotesDone
<1>b. /\ Status(s) # "absent" /\ CallsBehind(s)
      /\ task[t].index \in Nat /\ task[t].index < Calls[s]
      /\ task[t].index = row[s].done
  BY <1>a, CallOf
<1>c. PICK n \in Nat : n = row[s].done + 1 /\ n <= Calls[s]
  BY <1>b, ConstantTypes
<1> DEFINE new == [row[s] EXCEPT !.done = n]
<1>0. /\ row' = [row EXCEPT ![s] = new] /\ task' = [task EXCEPT ![t] = to]
      /\ UNCHANGED <<before, run, starts, leave>>
      /\ to.pc \in {"ready", "unheard"} /\ to.call = s /\ to.index = n
  BY <1>c DEF NotesDone
<1>1. Typed /\ RowOK(s) /\ Status(s) = "running" /\ row[s] \in RowRecord
  BY <1>a, CallOf, RowFields DEF OutboxInv
<1>2. /\ new \in RowRecord /\ new.status = row[s].status /\ new.claim = row[s].claim
      /\ new.done = n /\ new.recorded = row[s].recorded
  BY <1>1, DoneEdited
<1> HIDE DEF new
<1>3. RowFacts(s, new) /\ RowOnward(row[s], new)
  BY <1>c, <1>1, <1>2, StatusNames DEF RowFacts, RowOnward, RowOK, Moved, Early
<1>4. to.pc \in {"ready", "unheard", "interrupted"} /\ to.index = new.done /\ new.claim = t
  BY <1>0, <1>a, <1>2
<1> QED
  BY <1>b, <1>0, <1>1, <1>2, <1>3, <1>4, RowAtCall

LEMMA CallDoneKeeps ==
  ASSUME OutboxInv, NEW t \in Applier, CallDone(t)
  PROVE  OutboxInv'
<1>1. CASE row[task[t].call].claim # t
  <2>1. task' = [task EXCEPT ![t] = Idle] /\ UNCHANGED <<row, before, run, starts, leave>>
    BY <1>1 DEF CallDone
  <2> QED
    BY <2>1, TaskRests
<1>2. CASE row[task[t].call].claim = t
  BY <1>2, DoneIsNoted, NotesDoneKeeps
<1> QED
  BY <1>1, <1>2

LEMMA CallDoneUnheardKeeps ==
  ASSUME OutboxInv, NEW t \in Applier, NEW error \in {"transient", "lasting"},
         CallDoneUnheard(t, error)
  PROVE  OutboxInv'
  BY UnheardIsNoted, NotesDoneKeeps

LEMMA CallMoves ==
  ASSUME OutboxInv, NEW t \in Applier, task[t].pc \in Running,
         NEW to \in TaskRecord, task' = [task EXCEPT ![t] = to],
         UNCHANGED <<row, before, starts, leave, run>>,
         to.pc \in Running, to.call = task[t].call, to.index = task[t].index,
         to.pc \in {"calling", "called", "raised"} => task[t].index < Calls[task[t].call],
         to.pc = "calling" =>
           \A i \in DOMAIN to.chain : to.scope # NoSave => to.chain[i] # to.scope
  PROVE  OutboxInv'
<1>1. task'[t] = to
  BY TaskIs
<1>2. TaskOK(t)'
  BY <1>1, CallGoesOn
<1>3. to.pc # "writing"
  BY CallPcs
<1> QED
  BY <1>2, <1>3, TaskAlone

LEMMA FinishCallKeeps ==
  ASSUME OutboxInv, NEW t \in Applier, FinishCall(t)
  PROVE  OutboxInv'
<1>a. task[t].pc \in Running /\ task[t].pc = "calling"
  BY CallPcs DEF FinishCall
<1> PICK s \in Saves : /\ s = task[t].call /\ task[t].index \in Nat
                       /\ task[t].index < Calls[s]
  BY <1>a, CallOf
<1> DEFINE to == AtCall("called", s, task[t].index)
<1>1. task' = [task EXCEPT ![t] = to] /\ UNCHANGED <<row, before, starts, leave, run>>
  BY DEF FinishCall
<1>2. /\ to \in TaskRecord /\ to.pc = "called" /\ to.call = s /\ to.index = task[t].index
      /\ "called" \in Running
  BY CallPcs, AtCallFacts
<1> HIDE DEF to
<1> QED
  BY <1>a, <1>1, <1>2, CallMoves

LEMMA CallRaisesKeeps ==
  ASSUME OutboxInv, NEW t \in Applier, NEW error \in {"transient", "lasting"},
         CallRaises(t, error)
  PROVE  OutboxInv'
<1>a. task[t].pc \in Running /\ task[t].pc \in {"calling", "called"}
  BY CallPcs DEF CallRaises
<1>b. PICK s \in Saves : /\ s = task[t].call /\ task[t].index \in Nat
                         /\ task[t].index < Calls[s]
  BY <1>a, CallOf
<1>c. PICK to \in TaskRecord :
        /\ to = [AtCall("raised", s, task[t].index) EXCEPT !.error = error]
        /\ to.pc = "raised" /\ to.call = s /\ to.index = task[t].index
  BY <1>b, RaisedCall
<1>1. task' = [task EXCEPT ![t] = to] /\ UNCHANGED <<row, before, starts, leave, run>>
  BY <1>b, <1>c DEF CallRaises
<1>2. to.pc \in Running /\ to.pc # "calling" /\ to.call = task[t].call
      /\ to.index = task[t].index /\ task[t].index < Calls[task[t].call]
  BY <1>b, <1>c, CallPcs
<1> QED
  BY <1>a, <1>1, <1>2, CallMoves

LEMMA DeleteRaisesKeeps ==
  ASSUME OutboxInv, NEW t \in Applier, NEW error \in {"transient", "lasting"},
         DeleteRaises(t, error)
  PROVE  OutboxInv'
<1>a. task[t].pc \in Running
  BY CallPcs DEF DeleteRaises
<1>b. PICK s \in Saves : s = task[t].call /\ task[t].index \in Nat
  BY <1>a, CallOf
<1>c. PICK to \in TaskRecord :
        /\ to = [AtCall("unheard", s, task[t].index) EXCEPT !.error = error]
        /\ to.pc = "unheard" /\ to.call = s /\ to.index = task[t].index
  BY <1>b, RaisedCall
<1>1. task' = [task EXCEPT ![t] = to] /\ UNCHANGED <<row, before, starts, leave, run>>
  BY <1>b, <1>c DEF DeleteRaises
<1>2. to.pc \in Running /\ to.pc \notin {"calling", "called", "raised"}
      /\ to.call = task[t].call
  BY <1>b, <1>c, CallPcs
<1> QED
  BY <1>a, <1>c, <1>1, <1>2, CallMoves

(***************************************************************************)
(* A call starts: the row is at it, and nothing outstanding comes before.  *)
(***************************************************************************)
LEMMA StartedTask ==
  ASSUME OutboxInv, NEW t \in Applier, StartCall(t)
  PROVE  \E s \in Saves, i \in Nat, to \in TaskRecord :
           /\ s = task[t].call /\ i = task[t].index /\ i < Calls[s]
           /\ Status(s) # "absent" /\ CallsBehind(s)
           /\ starts' = [starts EXCEPT ![s][i + 1] = @ + 1]
           /\ UNCHANGED <<row, run, before, leave>>
           /\ task' = [task EXCEPT ![t] = to] /\ to.pc \in {"raised", "calling"}
           /\ to.call = s /\ to.index = i
           /\ to.pc = "calling" => to.chain = <<>>
<1>a. task[t].pc \in Running /\ task[t].pc = "ready"
  BY CallPcs DEF StartCall
<1>b. PICK s \in Saves :
        /\ s = task[t].call /\ Status(s) # "absent" /\ CallsBehind(s)
        /\ task[t].index \in Nat
  BY <1>a, CallOf
<1>c. PICK i \in Nat : i = task[t].index
  BY <1>b
<1>d. i < Calls[s]
  BY <1>b, <1>c DEF StartCall
<1>e. PICK scope \in Saves \cup {NoSave} : scope = IF UnderClaim(t, s) THEN s ELSE NoSave
  OBVIOUS
<1>f. PICK left \in SUBSET Saves : left = Listed(CallDrains[s]) \ {scope}
  BY DEF Listed
<1>g. /\ starts' = [starts EXCEPT ![s][i + 1] = @ + 1]
      /\ \/ task' = [task EXCEPT ![t] = [AtCall("raised", s, i) EXCEPT !.error = "lasting"]]
         \/ task' = [task EXCEPT ![t] = [AtCall("calling", s, i) EXCEPT !.scope = scope,
                                                                        !.left = left]]
      /\ UNCHANGED <<row, run, before, leave>>
  BY <1>b, <1>c, <1>e, <1>f DEF StartCall
<1>h. PICK to \in TaskRecord :
        /\ task' = [task EXCEPT ![t] = to] /\ to.pc \in {"raised", "calling"}
        /\ to.call = s /\ to.index = i
        /\ to.pc = "calling" => to.chain = <<>>
  <2>1. CASE task' = [task EXCEPT ![t] = [AtCall("raised", s, i) EXCEPT !.error = "lasting"]]
    <3>1. PICK to \in TaskRecord :
            /\ to = [AtCall("raised", s, i) EXCEPT !.error = "lasting"]
            /\ to.pc = "raised" /\ to.call = s /\ to.index = i
      BY RaisedCall
    <3>2. task' = [task EXCEPT ![t] = to] /\ to.pc # "calling"
      BY <2>1, <3>1
    <3> QED
      BY <3>1, <3>2
  <2>2. CASE task' = [task EXCEPT ![t] = [AtCall("calling", s, i) EXCEPT !.scope = scope,
                                                                         !.left = left]]
    <3>1. PICK r \in TaskRecord :
            /\ r = AtCall("calling", s, i)
            /\ r.pc = "calling" /\ r.call = s /\ r.index = i /\ r.chain = <<>>
      <4>1. "calling" \in TaskPc
        BY CallPcs
      <4> QED
        BY <4>1, AtCallFacts
    <3>2. PICK to : to = [r EXCEPT !.scope = scope, !.left = left]
      OBVIOUS
    <3>3. to \in TaskRecord
      BY <3>2 DEF TaskRecord
    <3>4. to.pc = r.pc /\ to.call = r.call /\ to.index = r.index /\ to.chain = r.chain
      BY <3>2 DEF TaskRecord
    <3>5. task' = [task EXCEPT ![t] = to]
      BY <2>2, <3>1, <3>2
    <3> QED
      BY <3>1, <3>3, <3>4, <3>5
  <2> QED
    BY <1>g, <2>1, <2>2
<1> QED
  BY <1>b, <1>c, <1>d, <1>g, <1>h

LEMMA StartCallKeeps ==
  ASSUME OutboxInv, NEW t \in Applier, StartCall(t)
  PROVE  OutboxInv'
<1>a. task[t].pc \in Running
  BY CallPcs DEF StartCall
<1>0. PICK s \in Saves, i \in Nat, to \in TaskRecord :
        /\ s = task[t].call /\ i = task[t].index /\ i < Calls[s]
        /\ Status(s) # "absent" /\ CallsBehind(s)
        /\ starts' = [starts EXCEPT ![s][i + 1] = @ + 1]
        /\ UNCHANGED <<row, run, before, leave>>
        /\ task' = [task EXCEPT ![t] = to] /\ to.pc \in {"raised", "calling"}
        /\ to.call = s /\ to.index = i
        /\ to.pc = "calling" => to.chain = <<>>
  BY StartedTask
<1>1. Typed /\ OneWriter /\ StartedInOrder /\ RecordedInOrder
  BY DEF OutboxInv
<1>2. /\ task' \in [Applier -> TaskRecord] /\ task'[t] = to
      /\ \A u \in Applier : u # t => task'[u] = task[u]
  BY <1>1, <1>0 DEF Typed
<1>3. Onward
  BY <1>1, <1>0, OnwardSame
<1>4. TaskOK(t)'
  <2>1. to.pc \in Running
    BY <1>0, CallPcs
  <2>2. /\ task'[t].call = task[t].call /\ task'[t].index = task[t].index
        /\ task[t].index < Calls[task[t].call]
    BY <1>0, <1>2
  <2>3. \A j \in DOMAIN <<>> : FALSE
    OBVIOUS
  <2>4. task'[t].pc = "calling" =>
          \A j \in DOMAIN task'[t].chain :
            task'[t].scope # NoSave => task'[t].chain[j] # task'[t].scope
    BY <1>0, <1>2, <2>3
  <2> QED
    BY <1>a, <1>0, <1>2, <2>1, <2>2, <2>4, CallGoesOn
<1>5. \A u \in Applier : TaskOK(u)'
  <2>1. \A u \in Applier : Undisturbed(u)
    BY <1>0, UndisturbedSame
  <2> QED
    BY <1>2, <1>3, <1>4, <2>1, TaskKept DEF Undisturbed
<1>6. OneWriter'
  BY <1>1, <1>0, <1>2 DEF OneWriter
<1>7. /\ DOMAIN starts' = Saves /\ \A q \in Saves : starts'[q] \in [1..Calls[q] -> Nat]
      /\ \A q \in Saves : q # s => starts'[q] = starts[q]
  <2>1. i + 1 \in Nat
    OBVIOUS
  <2>2. starts' = [starts EXCEPT ![s] = [starts[s] EXCEPT ![i + 1] = starts[s][i + 1] + 1]]
    BY <1>0
  <2>3. DOMAIN starts = Saves /\ \A q \in Saves : starts[q] \in [1..Calls[q] -> Nat]
    BY <1>1 DEF Typed
  <2> QED
    BY <2>1, <2>2, <2>3, CountedTyped
<1>8. Typed'
  BY <1>1, <1>0, <1>2, <1>7 DEF Typed
<1>9. StartedInOrder'
  BY <1>1, <1>0, <1>0, <1>7 DEF StartedInOrder, CallsBehind
<1>10. RecordedInOrder'
  BY <1>1, <1>0 DEF RecordedInOrder, RecordsBehind
<1>11. \A q \in Saves : RowOK(q)'
  BY <1>3, <1>0, RowKept
<1>12. \A r \in RootRun : DrainOK(r)'
  BY <1>0 DEF OutboxInv, DrainOK
<1> QED
  BY <1>5, <1>6, <1>8, <1>9, <1>10, <1>11, <1>12 DEF OutboxInv

-----------------------------------------------------------------------------
(* The drains.                                                             *)

Avoids(chain, scope) == \A i \in DOMAIN chain : chain[i] # scope

(***************************************************************************)
(* A drain passes over what is gone, or what waits for the save whose call *)
(* it belongs to.  It never comes to that save, and a drain that belongs   *)
(* to no call passes over nothing else.                                    *)
(***************************************************************************)
LEMMA DrainGoesOn ==
  ASSUME OutboxInv, NEW scope \in Saves \cup {NoSave}, NEW left \in SUBSET Saves,
         left # {}, NEW chain \in Seq(Saves), NEW d \in DrainStep(scope, left, chain)
  PROVE  /\ d.left \in SUBSET Saves /\ d.chain \in Seq(Saves)
         /\ scope # NoSave /\ Avoids(chain, scope) => Avoids(d.chain, scope)
         /\ scope = NoSave => \A s \in left : s \in d.left \/ Status(s) \in Gone
<1>a. \A i \in DOMAIN <<>> : FALSE
  OBVIOUS
<1>1. PICK empty \in Seq(Saves) : empty = <<>> /\ \A i \in DOMAIN empty : FALSE
  BY <1>a, EmptySequence
<1>2. PICK oldest \in left : oldest = Oldest(left)
  BY OldestIn
<1>3. PICK s \in Saves : s = Top(left, chain) /\ (chain = <<>> => s = oldest)
  <2>1. CASE chain = <<>>
    BY <1>2, <2>1 DEF Top
  <2>2. CASE chain # <<>>
    BY <2>2, LastFront DEF Top
  <2> QED
    BY <2>1, <2>2
<1>4. PICK b : b = Oldest(Blockers(s))
  OBVIOUS
<1>5. Blockers(s) # {} => b \in Saves
  BY <1>4, OldestIn DEF Blockers
<1>6. \/ d = [left |-> left \ {oldest}, chain |-> empty] /\ Skips(scope, s)
      \/ d = [left |-> left \ {oldest}, chain |-> empty] /\ chain = <<>> /\ Status(s) \in Gone
      \/ d = [left |-> left, chain |-> Front(chain)] /\ chain # <<>>
      \/ /\ d = [left |-> left, chain |-> Append(chain, b)]
         /\ ~Skips(scope, s) /\ Blockers(s) # {} /\ Status(b) \in {"calls", "running"}
  BY <1>1, <1>2, <1>3, <1>4, Zenon DEF DrainStep
<1>7. scope = NoSave => ~Skips(scope, s)
  BY <1>4, <1>5, SavesAreNumbers DEF Skips, WaitsOn
<1>8. CASE d = [left |-> left \ {oldest}, chain |-> empty] /\ Skips(scope, s)
  BY <1>1, <1>7, <1>8 DEF Avoids
<1>9. CASE d = [left |-> left \ {oldest}, chain |-> empty] /\ chain = <<>> /\ Status(s) \in Gone
  BY <1>1, <1>3, <1>9 DEF Avoids
<1>10. CASE d = [left |-> left, chain |-> Front(chain)] /\ chain # <<>>
  <2>1. /\ Front(chain) \in Seq(Saves)
        /\ \A i \in DOMAIN Front(chain) : i \in DOMAIN chain /\ Front(chain)[i] = chain[i]
    BY <1>10, LastFront
  <2> QED
    BY <1>10, <2>1 DEF Avoids
<1>11. CASE /\ d = [left |-> left, chain |-> Append(chain, b)]
            /\ ~Skips(scope, s) /\ Blockers(s) # {} /\ Status(b) \in {"calls", "running"}
  <2>1. b \in Saves /\ b # scope
    BY <1>4, <1>5, <1>11 DEF Skips
  <2>2. /\ Append(chain, b) \in Seq(Saves)
        /\ \A i \in DOMAIN Append(chain, b) :
             (i \in DOMAIN chain /\ Append(chain, b)[i] = chain[i]) \/ Append(chain, b)[i] = b
    BY <2>1, Appended
  <2> QED
    BY <1>11, <2>1, <2>2 DEF Avoids
<1> QED
  BY <1>6, <1>8, <1>9, <1>10, <1>11

LEMMA CallDrainKeeps ==
  ASSUME OutboxInv, NEW t \in Applier, CallDrain(t)
  PROVE  OutboxInv'
<1>a. task[t].pc \in Running /\ task[t].pc = "calling" /\ task[t].left # {}
  BY CallPcs DEF CallDrain
<1>b. PICK s \in Saves : s = task[t].call /\ task[t].index < Calls[s]
  BY <1>a, CallOf
<1>c. PICK scope \in Saves \cup {NoSave}, left \in SUBSET Saves, chain \in Seq(Saves) :
        /\ scope = task[t].scope /\ left = task[t].left /\ chain = task[t].chain
        /\ left # {} /\ task[t] \in TaskRecord
  BY <1>a, TaskFields DEF OutboxInv
<1>1. PICK d \in DrainStep(scope, left, chain) :
        task' = [task EXCEPT ![t] = [task[t] EXCEPT !.left = d.left, !.chain = d.chain]]
  BY <1>c DEF CallDrain
<1>2. task[t] \in TaskRecord
  BY <1>c
<1>3. /\ d.left \in SUBSET Saves /\ d.chain \in Seq(Saves)
      /\ scope # NoSave /\ Avoids(chain, scope) => Avoids(d.chain, scope)
  <2>1. d.left \in SUBSET Saves
    BY <1>c, DrainGoesOn
  <2>2. d.chain \in Seq(Saves)
    BY <1>c, DrainGoesOn
  <2>3. scope # NoSave /\ Avoids(chain, scope) => Avoids(d.chain, scope)
    BY <1>c, DrainGoesOn
  <2> QED
    BY <2>1, <2>2, <2>3
<1>4. scope # NoSave => Avoids(chain, scope)
  BY <1>a, <1>c DEF OutboxInv, TaskOK, Avoids
<1> DEFINE to == [task[t] EXCEPT !.left = d.left, !.chain = d.chain]
<1>5. to \in TaskRecord
  BY <1>2, <1>3 DEF TaskRecord
<1>6. /\ to.pc = "calling" /\ to.call = task[t].call /\ to.index = task[t].index
      /\ to.chain = d.chain /\ to.scope = scope
  BY <1>a, <1>c, <1>2 DEF TaskRecord
<1>7. task' = [task EXCEPT ![t] = to] /\ UNCHANGED <<row, before, starts, leave, run>>
  BY <1>1 DEF CallDrain
<1> HIDE DEF to
<1>8. \A i \in DOMAIN to.chain : to.scope # NoSave => to.chain[i] # to.scope
  BY <1>3, <1>4, <1>6 DEF Avoids
<1>9. to.pc \in Running /\ task[t].index < Calls[task[t].call]
  BY <1>a, <1>b, <1>6
<1> QED
  BY <1>a, <1>5, <1>6, <1>7, <1>8, <1>9, CallMoves

(***************************************************************************)
(* A run that no call entered.                                             *)
(***************************************************************************)
LEMMA RunMoves ==
  ASSUME OutboxInv, UNCHANGED <<row, task, before, starts, leave>>,
         NEW r \in RootRun, NEW to \in RunRecord, run' = [run EXCEPT ![r] = to],
         to.pc = "draining" => \A s \in to.seen : s \in to.left \/ Status(s) \in Gone,
         to.pc = "in" => \A s \in to.seen : Status(s) \in Gone
  PROVE  OutboxInv'
<1>1. /\ Typed /\ OneWriter /\ StartedInOrder /\ RecordedInOrder
      /\ \A q \in RootRun : DrainOK(q)
  BY DEF OutboxInv
<1>2. /\ run' \in [RootRun -> RunRecord] /\ run'[r] = to
      /\ \A q \in RootRun : q # r => run'[q] = run[q]
  BY <1>1 DEF Typed
<1>3. \A q \in RootRun : DrainOK(q)'
  BY <1>1, <1>2 DEF DrainOK
<1>4. Onward
  BY <1>1, OnwardSame
<1>5. \A s \in Saves : RowOK(s)'
  BY <1>4, RowKept
<1>6. \A t \in Applier : TaskOK(t)'
  BY <1>4, TaskKept DEF OutboxInv, TaskOK
<1>7. Typed' /\ OneWriter'
  BY <1>1, <1>2 DEF Typed, OneWriter
<1>8. StartedInOrder' /\ RecordedInOrder'
  BY <1>1 DEF StartedInOrder, RecordedInOrder, CallsBehind, RecordsBehind
<1> QED
  BY <1>3, <1>5, <1>6, <1>7, <1>8 DEF OutboxInv

LEMMA RunStepKeeps ==
  ASSUME OutboxInv, NEW r \in RootRun, RunStep(r)
  PROVE  OutboxInv'
<1>0. /\ run[r] \in RunRecord /\ DrainOK(r) /\ UNCHANGED <<row, task, before, starts, leave>>
  BY DEF OutboxInv, Typed, RunStep, EnterRun, RunDrain, RunRefused, RunBegins
<1>1. CASE EnterRun(r)
  <2>1. PICK listed \in SUBSET Saves : listed = Listed(RunSubject[r])
    BY DEF Listed
  <2> DEFINE refused == [run[r] EXCEPT !.pc = "refused"]
             draining == [run[r] EXCEPT !.pc = "draining", !.left = listed, !.seen = listed]
  <2>2. /\ refused \in RunRecord /\ refused.pc = "refused"
        /\ draining \in RunRecord /\ draining.pc = "draining"
        /\ draining.left = listed /\ draining.seen = listed
    BY <1>0, <2>1 DEF RunRecord, RunPc
  <2>3. run' = [run EXCEPT ![r] = refused] \/ run' = [run EXCEPT ![r] = draining]
    BY <1>1, <2>1 DEF EnterRun
  <2> HIDE DEF refused, draining
  <2> QED
    BY <1>0, <2>2, <2>3, RunMoves
<1>2. CASE RunDrain(r)
  <2>1. /\ run[r].pc = "draining" /\ run[r].left \in SUBSET Saves /\ run[r].left # {}
        /\ run[r].chain \in Seq(Saves) /\ run[r].seen \in SUBSET Saves
    BY <1>0, <1>2 DEF RunDrain, RunRecord
  <2>2. PICK d \in DrainStep(NoSave, run[r].left, run[r].chain) :
          run' = [run EXCEPT ![r] = [run[r] EXCEPT !.left = d.left, !.chain = d.chain]]
    BY <1>2 DEF RunDrain
  <2>3. /\ d.left \in SUBSET Saves /\ d.chain \in Seq(Saves)
        /\ \A s \in run[r].left : s \in d.left \/ Status(s) \in Gone
    <3>1. NoSave \in Saves \cup {NoSave}
      OBVIOUS
    <3> QED
      BY <2>1, <2>2, <3>1, DrainGoesOn
  <2> DEFINE to == [run[r] EXCEPT !.left = d.left, !.chain = d.chain]
  <2>4. /\ to \in RunRecord /\ to.pc = "draining" /\ to.left = d.left
        /\ to.seen = run[r].seen
    BY <1>0, <2>1, <2>3 DEF RunRecord
  <2>5. run' = [run EXCEPT ![r] = to]
    BY <2>2
  <2> HIDE DEF to
  <2>6. \A s \in to.seen : s \in to.left \/ Status(s) \in Gone
    BY <1>0, <2>1, <2>3, <2>4 DEF DrainOK
  <2>7. to.pc # "in"
    BY <2>4
  <2> QED
    BY <1>0, <2>4, <2>5, <2>6, <2>7, RunMoves
<1>3. CASE RunRefused(r)
  <2>1. PICK empty \in Seq(Saves) : empty = <<>>
    BY EmptySequence
  <2> DEFINE to == [run[r] EXCEPT !.pc = "refused", !.left = {}, !.chain = empty]
  <2>2. to \in RunRecord /\ to.pc = "refused"
    BY <1>0 DEF RunRecord, RunPc
  <2>3. run' = [run EXCEPT ![r] = to]
    BY <1>3, <2>1 DEF RunRefused
  <2> HIDE DEF to
  <2> QED
    BY <1>0, <2>2, <2>3, RunMoves
<1>4. CASE RunBegins(r)
  <2> DEFINE to == [run[r] EXCEPT !.pc = "in"]
  <2>1. /\ to \in RunRecord /\ to.pc = "in" /\ to.seen = run[r].seen
    BY <1>0 DEF RunRecord, RunPc
  <2>2. /\ run' = [run EXCEPT ![r] = to]
        /\ run[r].pc = "draining" /\ run[r].left = {}
    BY <1>4 DEF RunBegins
  <2> HIDE DEF to
  <2>3. \A s \in to.seen : Status(s) \in Gone
    BY <1>0, <2>1, <2>2 DEF DrainOK
  <2>4. to.pc # "draining"
    BY <2>1
  <2> QED
    BY <1>0, <2>1, <2>2, <2>3, <2>4, RunMoves
<1> QED
  BY <1>1, <1>2, <1>3, <1>4 DEF RunStep

-----------------------------------------------------------------------------
(* Every reachable state.                                                  *)

LEMMA FaultKeeps ==
  ASSUME OutboxInv, NEW t \in Applier, TaskFault(t)
  PROVE  OutboxInv'
<1>1. CASE LockTimesOut(t)
  BY <1>1, TaskRests DEF LockTimesOut
<1>2. CASE HeartbeatLost(t)
  BY <1>2, TaskRests DEF HeartbeatLost
<1>3. CASE TaskDies(t)
  BY <1>3, TaskRests DEF TaskDies
<1>4. CASE Heartbeat(t)
  <2>1. task[t].pc \in Running
    BY <1>4, CallPcs DEF Heartbeat
  <2>2. PICK s \in Saves : s = task[t].call
    BY <2>1, CallOf
  <2>3. /\ Status(s) = "running" /\ row' = [row EXCEPT ![s].lapsed = FALSE]
        /\ UNCHANGED <<task, run, before, starts, leave>>
    BY <1>4, <2>2 DEF Heartbeat, UnderClaim
  <2> QED
    BY <2>3, LapsedKeeps
<1>5. CASE \E error \in {"transient", "lasting"} : RecordsRaise(t, error)
  BY <1>5, RecordsRaiseKeeps
<1>6. CASE \E error \in {"transient", "lasting"} : CallRaises(t, error)
  BY <1>6, CallRaisesKeeps
<1>7. CASE \E error \in {"transient", "lasting"} : CallDoneUnheard(t, error)
  BY <1>7, CallDoneUnheardKeeps
<1>8. CASE \E error \in {"transient", "lasting"} : DeleteRaises(t, error)
  BY <1>8, DeleteRaisesKeeps
<1> QED
  BY <1>1, <1>2, <1>3, <1>4, <1>5, <1>6, <1>7, <1>8 DEF TaskFault

LEMMA CallStepKeeps ==
  ASSUME OutboxInv, NEW t \in Applier, CallStep(t)
  PROVE  OutboxInv'
<1>1. CASE CallDrainRefused(t)
  BY <1>1, CallRaisesKeeps DEF CallDrainRefused
<1> QED
  BY <1>1, FailInterruptedKeeps, StartCallKeeps, CallDrainKeeps, FinishCallKeeps,
     CallDoneKeeps, DeleteClaimedKeeps, RecordCallFailureKeeps DEF CallStep

LEMMA SaveStepKeeps ==
  ASSUME OutboxInv, NEW s \in Saves, SaveStep(s)
  PROVE  OutboxInv'
<1>1. CASE LeaseLapses(s)
  <2>1. /\ Status(s) = "running" /\ row' = [row EXCEPT ![s].lapsed = TRUE]
        /\ UNCHANGED <<task, run, before, starts, leave>>
    BY <1>1 DEF LeaseLapses
  <2> QED
    BY <2>1, LapsedKeeps
<1> QED
  BY <1>1, TakeIdKeeps, CommitInsertKeeps, AbortInsertKeeps, RetryKeeps, DiscardKeeps
     DEF SaveStep

LEMMA OutboxInvStep == OutboxInv /\ [OutboxNext]_outboxVars => OutboxInv'
<1> SUFFICES ASSUME OutboxInv, [OutboxNext]_outboxVars
             PROVE  OutboxInv'
  OBVIOUS
<1>1. ASSUME NEW t \in Applier, ApplyStep(t) PROVE OutboxInv'
  BY <1>1, ApplyOnceKeeps, CommitRecordsKeeps, RecordApplyFailureKeeps DEF ApplyStep
<1>2. ASSUME NEW t \in Applier, CallStep(t) PROVE OutboxInv'
  BY <1>2, CallStepKeeps
<1>3. ASSUME NEW t \in Applier, TaskFault(t) PROVE OutboxInv'
  BY <1>3, FaultKeeps
<1>4. ASSUME NEW t \in Applier, NEW s \in Saves, StartApply(t, s) PROVE OutboxInv'
  BY <1>4, StartApplyKeeps
<1>5. ASSUME NEW t \in Applier, NEW s \in Saves, ClaimCalls(t, s) PROVE OutboxInv'
  BY <1>5, ClaimCallsKeeps
<1>6. ASSUME NEW s \in Saves, SaveStep(s) PROVE OutboxInv'
  BY <1>6, SaveStepKeeps
<1>7. ASSUME NEW r \in RootRun, RunStep(r) PROVE OutboxInv'
  BY <1>7, RunStepKeeps
<1>8. CASE UNCHANGED outboxVars
  <2>1. UNCHANGED <<row, task, run, before, starts, leave>>
    BY <1>8 DEF outboxVars
  <2> QED
    BY <2>1 DEF OutboxInv, Typed, RowOK, TaskOK, OneWriter, StartedInOrder, RecordedInOrder,
                DrainOK, CallsBehind, RecordsBehind, Committed
<1> QED
  BY <1>1, <1>2, <1>3, <1>4, <1>5, <1>6, <1>7, <1>8 DEF OutboxNext

LEMMA OutboxInvInit == OutboxInit => OutboxInv
<1> SUFFICES ASSUME OutboxInit PROVE OutboxInv
  OBVIOUS
<1>0. PICK never \in SUBSET Saves, down \in SUBSET Applier, away \in SUBSET RootRun,
           spent \in 0..MaxFaults : OutboxStart(never, down, away, spent)
  BY DEF OutboxInit
<1>1. \A s \in Saves :
        /\ row[s] \in RowRecord /\ row[s].status \in {"refused", "absent"} /\ row[s].done = 0
        /\ row[s].claim = NoApplier /\ ~row[s].recorded /\ before[s] = {}
  BY <1>0, StatusNames DEF OutboxStart, RowRecord
<1>2. \A t \in Applier : task[t] \in TaskRecord /\ task[t].pc \in {"idle", "down"}
  <2>1. "down" \in TaskPc
    BY PcNames
  <2>2. \A t \in Applier : task[t] = At("down") \/ task[t] = Idle
    BY <1>0 DEF OutboxStart
  <2> QED
    BY <2>1, <2>2, AtFacts, IdleFacts
<1>3. \A r \in RootRun : run[r] \in RunRecord /\ run[r].pc \in {"idle", "away"}
  <2>1. PICK empty \in Seq(Saves) : empty = <<>>
    BY EmptySequence
  <2> QED
    BY <1>0, <2>1 DEF OutboxStart, RunRecord, RunPc
<1>4. \A s \in Saves :
        /\ starts[s] = [c \in 1..Calls[s] |-> 0] /\ leave[s] = [c \in 1..Calls[s] |-> 0]
        /\ starts[s] \in [1..Calls[s] -> Nat] /\ leave[s] \in [1..Calls[s] -> Nat]
  BY <1>0 DEF OutboxStart
<1>5. Typed
  <2>1. /\ row \in [Saves -> RowRecord] /\ task \in [Applier -> TaskRecord]
        /\ run \in [RootRun -> RunRecord] /\ before \in [Saves -> SUBSET Saves]
    BY <1>0, <1>1, <1>2, <1>3 DEF OutboxStart
  <2>2. DOMAIN starts = Saves /\ DOMAIN leave = Saves
    BY <1>0 DEF OutboxStart
  <2> QED
    BY <1>4, <2>1, <2>2 DEF Typed
<1>6. \A s \in Saves : RowOK(s)
  BY <1>1, ConstantTypes DEF RowOK
<1>7. \A t \in Applier : TaskOK(t)
  BY <1>2, PcNames DEF TaskOK
<1>8. OneWriter
  BY <1>2 DEF OneWriter
<1>9. StartedInOrder
  <2>1. \A s \in Saves : \A c \in 1..Calls[s] : starts[s][c] = 0
    BY <1>4
  <2> QED
    BY <2>1 DEF StartedInOrder
<1>10. RecordedInOrder
  BY <1>1 DEF RecordedInOrder
<1>11. \A r \in RootRun : DrainOK(r)
  BY <1>3 DEF DrainOK
<1> QED
  BY <1>5, <1>6, <1>7, <1>8, <1>9, <1>10, <1>11 DEF OutboxInv

LEMMA OutboxInvariant == OutboxSpec => []OutboxInv
  BY OutboxInvInit, OutboxInvStep, PTL DEF OutboxSpec

(***************************************************************************)
(* The type invariant of the outbox: rows, claims and what tasks work on.  *)
(***************************************************************************)
THEOREM OutboxIsTyped == OutboxSpec => []OutboxTypeOK
<1>1. OutboxInv => OutboxTypeOK
  <2> SUFFICES ASSUME OutboxInv PROVE OutboxTypeOK
    OBVIOUS
  <2>1. Typed /\ \A s \in Saves : RowOK(s)
    BY DEF OutboxInv
  <2>2. row \in [Saves -> [status : RowStatus, done : Nat, attempts : Nat,
                           claim : Applier \cup {NoApplier}, lapsed : BOOLEAN,
                           recorded : BOOLEAN]]
    BY <2>1 DEF Typed, RowRecord
  <2>3. \A s \in Saves : row[s].done <= Calls[s] /\ before[s] \subseteq Saves
    BY <2>1 DEF Typed, RowOK
  <2>4. \A t \in Applier : /\ task[t].left \subseteq Saves
                           /\ \A i \in DOMAIN task[t].stack : task[t].stack[i] \in Saves
    BY <2>1, TaskFields
  <2>5. \A s \in Saves : (row[s].claim # NoApplier) <=> (Status(s) = "running")
    BY <2>1 DEF RowOK
  <2> QED
    BY <2>2, <2>3, <2>4, <2>5 DEF OutboxTypeOK
<1> QED
  BY <1>1, OutboxInvariant, PTL

(***************************************************************************)
(* Records are applied in the order of the saves, whatever fast paths,     *)
(* sweeps and retries do to them in between.                               *)
(***************************************************************************)
THEOREM RecordsApplyInOrder == OutboxSpec => []RecordsInOrder
<1>1. OutboxInv => RecordsInOrder
  BY DEF OutboxInv, RecordedInOrder, RecordsBehind, RecordsInOrder
<1> QED
  BY <1>1, OutboxInvariant, PTL

(***************************************************************************)
(* The deferred calls of a subject start in the order of its saves.        *)
(***************************************************************************)
THEOREM CallsStartInOrder == OutboxSpec => []CallsInOrder
<1>1. OutboxInv => CallsInOrder
  BY DEF OutboxInv, StartedInOrder, CallsBehind, CallsInOrder
<1> QED
  BY <1>1, OutboxInvariant, PTL

(***************************************************************************)
(* A run begins once the saves that it found are finished.                 *)
(***************************************************************************)
THEOREM RunsFindSavesFinished == OutboxSpec => []RunsWaitForSaves
<1>1. OutboxInv => RunsWaitForSaves
  BY DEF OutboxInv, DrainOK, RunsWaitForSaves
<1> QED
  BY <1>1, OutboxInvariant, PTL

(***************************************************************************)
(* The drain of a deferred call never comes to the call's own save.        *)
(***************************************************************************)
THEOREM CallsPassThemselves == OutboxSpec => []NoCallWaitsForItself
<1>1. OutboxInv => NoCallWaitsForItself
  BY DEF OutboxInv, TaskOK, NoCallWaitsForItself
<1> QED
  BY <1>1, OutboxInvariant, PTL

-----------------------------------------------------------------------------
(* Every start of a call is paid for.                                      *)

LEMMA FewerCount ==
  ASSUME NEW S, NEW U, IsFiniteSet(S), U \subseteq S
  PROVE  /\ IsFiniteSet(U) /\ Cardinality(U) \in Nat /\ Cardinality(S) \in Nat
         /\ Cardinality(U) <= Cardinality(S)
  BY FS_Subset, FS_CardinalityType

LEMMA OneLessCount ==
  ASSUME NEW S, NEW U, NEW x \in S, IsFiniteSet(S), U \subseteq S \ {x}
  PROVE  /\ IsFiniteSet(U) /\ Cardinality(U) \in Nat /\ Cardinality(S) \in Nat
         /\ Cardinality(U) + 1 <= Cardinality(S)
<1>1. IsFiniteSet(S \ {x}) /\ Cardinality(S \ {x}) = Cardinality(S) - 1
  BY FS_RemoveElement
<1>2. /\ IsFiniteSet(U) /\ Cardinality(U) \in Nat
      /\ Cardinality(U) <= Cardinality(S \ {x})
  BY <1>1, FewerCount
<1>3. Cardinality(S) \in Nat
  BY FS_CardinalityType
<1> QED
  BY <1>1, <1>2, <1>3

LEMMA OneMoreCount ==
  ASSUME NEW S, NEW U, NEW x, IsFiniteSet(S), U \subseteq S \cup {x}
  PROVE  /\ IsFiniteSet(U) /\ Cardinality(U) \in Nat /\ Cardinality(S) \in Nat
         /\ Cardinality(U) <= Cardinality(S) + 1
<1>1. Cardinality(S) \in Nat
  BY FS_CardinalityType
<1>2. IsFiniteSet(S \cup {x}) /\ Cardinality(S \cup {x}) <= Cardinality(S) + 1
  BY <1>1, FS_AddElement
<1>3. /\ IsFiniteSet(U) /\ Cardinality(U) \in Nat /\ Cardinality(S \cup {x}) \in Nat
      /\ Cardinality(U) <= Cardinality(S \cup {x})
  BY <1>2, FewerCount
<1> QED
  BY <1>1, <1>2, <1>3

LEMMA CountsAre ==
  ASSUME Typed, Typed', NEW s \in Saves, NEW c \in 1..Calls[s]
  PROVE  /\ starts[s][c] \in Nat /\ starts'[s][c] \in Nat
         /\ leave[s][c] \in Nat /\ leave'[s][c] \in Nat
<1>1. /\ starts[s] \in [1..Calls[s] -> Nat] /\ starts'[s] \in [1..Calls[s] -> Nat]
      /\ leave[s] \in [1..Calls[s] -> Nat] /\ leave'[s] \in [1..Calls[s] -> Nat]
  BY DEF Typed
<1>2. starts[s][c] \in Nat
  BY <1>1, Zenon
<1>3. starts'[s][c] \in Nat
  BY <1>1, Zenon
<1>4. leave[s][c] \in Nat
  BY <1>1, Zenon
<1>5. leave'[s][c] \in Nat
  BY <1>1, Zenon
<1> QED
  BY <1>2, <1>3, <1>4, <1>5

(***************************************************************************)
(* How a step balances: it adds nothing; a runner that comes to the call   *)
(* takes the row's credit; a start takes the runner's; a reported failure  *)
(* or a retry pays for the row's next claim.                               *)
(***************************************************************************)
LEMMA NothingAdded ==
  ASSUME Typed, Typed', NEW s \in Saves, NEW c \in 1..Calls[s], PaidFor(s, c),
         AtStart(s, c)' \subseteq AtStart(s, c), Owes(s, c)' => Owes(s, c),
         starts'[s][c] = starts[s][c], leave'[s][c] = leave[s][c]
  PROVE  PaidFor(s, c)'
<1>1. IsFiniteSet(AtStart(s, c))
  BY DEF PaidFor
<1>2. /\ IsFiniteSet(AtStart(s, c)') /\ Cardinality(AtStart(s, c)') \in Nat
      /\ Cardinality(AtStart(s, c)) \in Nat
      /\ Cardinality(AtStart(s, c)') <= Cardinality(AtStart(s, c))
  BY <1>1, FewerCount
<1>3. starts[s][c] \in Nat /\ leave[s][c] \in Nat
  BY CountsAre
<1>4. Credit(s, c)' \in {0, 1} /\ Credit(s, c) \in {0, 1} /\ Credit(s, c)' <= Credit(s, c)
  BY DEF Credit
<1>5. starts[s][c] + Cardinality(AtStart(s, c)) + Credit(s, c) <= 1 + leave[s][c]
  BY DEF PaidFor
<1>6. starts'[s][c] + Cardinality(AtStart(s, c)') + Credit(s, c)' <= 1 + leave'[s][c]
  BY <1>2, <1>3, <1>4, <1>5
<1> QED
  BY <1>2, <1>6 DEF PaidFor

LEMMA CreditTaken ==
  ASSUME Typed, Typed', NEW s \in Saves, NEW c \in 1..Calls[s], PaidFor(s, c),
         NEW t, AtStart(s, c)' \subseteq AtStart(s, c) \cup {t},
         Owes(s, c), ~Owes(s, c)',
         starts'[s][c] = starts[s][c], leave'[s][c] = leave[s][c]
  PROVE  PaidFor(s, c)'
<1>1. IsFiniteSet(AtStart(s, c))
  BY DEF PaidFor
<1>2. /\ IsFiniteSet(AtStart(s, c)') /\ Cardinality(AtStart(s, c)') \in Nat
      /\ Cardinality(AtStart(s, c)) \in Nat
      /\ Cardinality(AtStart(s, c)') <= Cardinality(AtStart(s, c)) + 1
  BY <1>1, OneMoreCount
<1>3. starts[s][c] \in Nat /\ leave[s][c] \in Nat
  BY CountsAre
<1>4. Credit(s, c)' = 0 /\ Credit(s, c) = 1
  BY DEF Credit
<1>5. starts[s][c] + Cardinality(AtStart(s, c)) + Credit(s, c) <= 1 + leave[s][c]
  BY DEF PaidFor
<1>6. starts'[s][c] + Cardinality(AtStart(s, c)') + Credit(s, c)' <= 1 + leave'[s][c]
  BY <1>2, <1>3, <1>4, <1>5
<1> QED
  BY <1>2, <1>6 DEF PaidFor

LEMMA StartTaken ==
  ASSUME Typed, Typed', NEW s \in Saves, NEW c \in 1..Calls[s], PaidFor(s, c),
         NEW t \in AtStart(s, c), AtStart(s, c)' \subseteq AtStart(s, c) \ {t},
         Owes(s, c)' => Owes(s, c),
         starts'[s][c] = starts[s][c] + 1, leave'[s][c] = leave[s][c]
  PROVE  PaidFor(s, c)'
<1>1. IsFiniteSet(AtStart(s, c))
  BY DEF PaidFor
<1>2. /\ IsFiniteSet(AtStart(s, c)') /\ Cardinality(AtStart(s, c)') \in Nat
      /\ Cardinality(AtStart(s, c)) \in Nat
      /\ Cardinality(AtStart(s, c)') + 1 <= Cardinality(AtStart(s, c))
  BY <1>1, OneLessCount
<1>3. starts[s][c] \in Nat /\ leave[s][c] \in Nat
  BY CountsAre
<1>4. Credit(s, c)' \in {0, 1} /\ Credit(s, c) \in {0, 1} /\ Credit(s, c)' <= Credit(s, c)
  BY DEF Credit
<1>5. starts[s][c] + Cardinality(AtStart(s, c)) + Credit(s, c) <= 1 + leave[s][c]
  BY DEF PaidFor
<1>6. starts'[s][c] + Cardinality(AtStart(s, c)') + Credit(s, c)' <= 1 + leave'[s][c]
  BY <1>2, <1>3, <1>4, <1>5
<1> QED
  BY <1>2, <1>6 DEF PaidFor

LEMMA CreditGiven ==
  ASSUME Typed, Typed', NEW s \in Saves, NEW c \in 1..Calls[s], PaidFor(s, c),
         NEW t \in AtStart(s, c), AtStart(s, c)' \subseteq AtStart(s, c) \ {t},
         starts'[s][c] = starts[s][c], leave'[s][c] = leave[s][c], ~Owes(s, c)
  PROVE  PaidFor(s, c)'
<1>1. IsFiniteSet(AtStart(s, c))
  BY DEF PaidFor
<1>2. /\ IsFiniteSet(AtStart(s, c)') /\ Cardinality(AtStart(s, c)') \in Nat
      /\ Cardinality(AtStart(s, c)) \in Nat
      /\ Cardinality(AtStart(s, c)') + 1 <= Cardinality(AtStart(s, c))
  BY <1>1, OneLessCount
<1>3. starts[s][c] \in Nat /\ leave[s][c] \in Nat
  BY CountsAre
<1>4. Credit(s, c)' \in {0, 1} /\ Credit(s, c) = 0
  BY DEF Credit
<1>5. starts[s][c] + Cardinality(AtStart(s, c)) + Credit(s, c) <= 1 + leave[s][c]
  BY DEF PaidFor
<1>6. starts'[s][c] + Cardinality(AtStart(s, c)') + Credit(s, c)' <= 1 + leave'[s][c]
  BY <1>2, <1>3, <1>4, <1>5
<1> QED
  BY <1>2, <1>6 DEF PaidFor

LEMMA LeavePaid ==
  ASSUME Typed, Typed', NEW s \in Saves, NEW c \in 1..Calls[s], PaidFor(s, c),
         AtStart(s, c)' \subseteq AtStart(s, c),
         starts'[s][c] = starts[s][c], leave'[s][c] = leave[s][c] + 1
  PROVE  PaidFor(s, c)'
<1>1. IsFiniteSet(AtStart(s, c))
  BY DEF PaidFor
<1>2. /\ IsFiniteSet(AtStart(s, c)') /\ Cardinality(AtStart(s, c)') \in Nat
      /\ Cardinality(AtStart(s, c)) \in Nat
      /\ Cardinality(AtStart(s, c)') <= Cardinality(AtStart(s, c))
  BY <1>1, FewerCount
<1>3. starts[s][c] \in Nat /\ leave[s][c] \in Nat
  BY CountsAre
<1>4. Credit(s, c)' \in {0, 1} /\ Credit(s, c) \in {0, 1}
  BY DEF Credit
<1>5. starts[s][c] + Cardinality(AtStart(s, c)) + Credit(s, c) <= 1 + leave[s][c]
  BY DEF PaidFor
<1>6. starts'[s][c] + Cardinality(AtStart(s, c)') + Credit(s, c)' <= 1 + leave'[s][c]
  BY <1>2, <1>3, <1>4, <1>5
<1> QED
  BY <1>2, <1>6 DEF PaidFor

(***************************************************************************)
(* A step that brings no runner to a call and no row to its calls.         *)
(***************************************************************************)
NoneComes(t) ==
  /\ task'[t].pc \notin {"ready", "unheard"}
  /\ \A u \in Applier : u # t => task'[u] = task[u]
RowStays(s) ==
  /\ row'[s].done = row[s].done
  /\ Status(s)' = "calls" \/ ~row'[s].recorded => Status(s) = "calls" \/ ~row[s].recorded

LEMMA RowStaysOwes ==
  ASSUME NEW s \in Saves, RowStays(s), NEW c
  PROVE  Owes(s, c)' => Owes(s, c)
  BY DEF RowStays, Owes

LEMMA NoneComesFewer ==
  ASSUME NEW t \in Applier, NoneComes(t), NEW s, NEW c
  PROVE  AtStart(s, c)' \subseteq AtStart(s, c)
  BY DEF NoneComes, AtStart

LEMMA PaidKept ==
  ASSUME Typed, Typed', PaidInv, \A s \in Saves : RowStays(s),
         UNCHANGED task \/ \E t \in Applier : NoneComes(t), UNCHANGED <<starts, leave>>
  PROVE  PaidInv'
<1> SUFFICES ASSUME NEW s \in Saves \ Resumable, NEW c \in 1..Calls[s]
             PROVE  PaidFor(s, c)'
  BY DEF PaidInv
<1>1. PaidFor(s, c)
  BY DEF PaidInv
<1>2. AtStart(s, c)' \subseteq AtStart(s, c)
  BY NoneComesFewer DEF AtStart
<1>3. Owes(s, c)' => Owes(s, c)
  BY RowStaysOwes
<1> QED
  BY <1>1, <1>2, <1>3, NothingAdded

(***************************************************************************)
(* A reported failure or a retry.                                          *)
(***************************************************************************)
LeaveRises(s) ==
  \A q \in Saves : \A c \in 1..Calls[q] :
    leave'[q][c] = IF q = s /\ c = row[s].done + 1 THEN leave[q][c] + 1 ELSE leave[q][c]

LEMMA LeaveRisesBy ==
  ASSUME Typed, NEW s \in Saves, NEW n \in Nat, n = row[s].done + 1,
         leave' = [leave EXCEPT ![s][n] = @ + 1]
  PROVE  LeaveRises(s)
<1>1. /\ DOMAIN leave = Saves /\ \A p \in Saves : DOMAIN leave[p] = 1..Calls[p]
  BY DEF Typed
<1>2. leave' = [leave EXCEPT ![s] = [leave[s] EXCEPT ![n] = leave[s][n] + 1]]
  OBVIOUS
<1>3. leave'[s] = [leave[s] EXCEPT ![n] = leave[s][n] + 1]
  BY <1>1, <1>2
<1>4. \A q \in Saves : q # s => leave'[q] = leave[q]
  BY <1>1, <1>2
<1>5. \A c \in 1..Calls[s] :
        leave'[s][c] = IF c = n THEN leave[s][c] + 1 ELSE leave[s][c]
  <2>1. DOMAIN leave[s] = 1..Calls[s]
    BY <1>1
  <2> QED
    BY <1>3, <2>1
<1> QED
  BY <1>4, <1>5 DEF LeaveRises

LEMMA PaidByLeave ==
  ASSUME Typed, Typed', PaidInv, NEW s \in Saves,
         \A q \in Saves : q # s => row'[q] = row[q], row'[s].done = row[s].done,
         row'[s].recorded, LeaveRises(s),
         UNCHANGED task \/ \E t \in Applier : NoneComes(t), UNCHANGED starts
  PROVE  PaidInv'
<1> SUFFICES ASSUME NEW q \in Saves \ Resumable, NEW c \in 1..Calls[q]
             PROVE  PaidFor(q, c)'
  BY DEF PaidInv
<1>1. PaidFor(q, c)
  BY DEF PaidInv
<1>2. AtStart(q, c)' \subseteq AtStart(q, c)
  BY NoneComesFewer DEF AtStart
<1>3. PICK n \in Nat : n = row[s].done + 1
  BY RowFields
<1>6. CASE q = s /\ c = n
  <2>1. leave'[q][c] = leave[q][c] + 1
    BY <1>3, <1>6 DEF LeaveRises
  <2> QED
    BY <1>1, <1>2, <2>1, LeavePaid
<1>7. CASE q # s \/ c # n
  <2>1. leave'[q][c] = leave[q][c]
    BY <1>3, <1>7 DEF LeaveRises
  <2>2. c \in Nat
    OBVIOUS
  <2>3. Owes(q, c)' => Owes(q, c)
    BY <1>3, <1>7, <2>2 DEF Owes
  <2> QED
    BY <1>1, <1>2, <2>1, <2>3, NothingAdded
<1> QED
  BY <1>6, <1>7

LEMMA RowsStay ==
  ASSUME NEW s \in Saves, \A q \in Saves : q # s => row'[q] = row[q], RowStays(s)
  PROVE  \A q \in Saves : RowStays(q)
  BY DEF RowStays

LEMMA RowsSame ==
  ASSUME UNCHANGED row
  PROVE  \A q \in Saves : RowStays(q)
  BY DEF RowStays

(***************************************************************************)
(* A step that sets one row to another.                                    *)
(***************************************************************************)
LEMMA RowSet ==
  ASSUME Typed, NEW s \in Saves, NEW new, row' = [row EXCEPT ![s] = new]
  PROVE  row'[s] = new /\ \A q \in Saves : q # s => row'[q] = row[q]
  BY DEF Typed

LEMMA SavePays ==
  ASSUME OutboxInv, OutboxInv', PaidInv, NEW s \in Saves, SaveStep(s)
  PROVE  PaidInv'
<1>0. /\ Typed /\ Typed' /\ RowOK(s) /\ UNCHANGED <<task, starts>>
      /\ row[s] \in RowRecord /\ row[s].done \in Nat
  BY RowFields DEF OutboxInv, SaveStep, TakeId, CommitInsert, AbortInsert, LeaseLapses,
     RetryPendingSave, DiscardPendingSave
<1>1. CASE ~RetryPendingSave(s)
  <2>1. /\ UNCHANGED leave
        /\ \E new : /\ row' = [row EXCEPT ![s] = new]
                    /\ new.done = row[s].done
                    /\ new.status = "calls" \/ ~new.recorded =>
                         Status(s) = "calls" \/ ~row[s].recorded
    <3>1. CASE TakeId(s)
      <4> DEFINE new == [row[s] EXCEPT !.status = "inserting"]
      <4>1. row' = [row EXCEPT ![s] = new] /\ UNCHANGED leave
        BY <3>1 DEF TakeId
      <4>2. /\ new.done = row[s].done /\ new.status = "inserting"
            /\ new.recorded = row[s].recorded
        BY <1>0 DEF RowRecord
      <4> QED
        BY <4>1, <4>2
    <3>2. CASE CommitInsert(s)
      <4> DEFINE new == [row[s] EXCEPT
                           !.status = IF RecordKeys[s] = {} THEN "calls" ELSE "pending",
                           !.recorded = RecordKeys[s] = {}]
      <4>1. row' = [row EXCEPT ![s] = new] /\ UNCHANGED leave /\ Status(s) = "inserting"
        BY <3>2 DEF CommitInsert
      <4>2. new.done = row[s].done
        BY <1>0 DEF RowRecord
      <4>3. ~row[s].recorded
        BY <1>0, <4>1 DEF RowOK, Early
      <4> QED
        BY <4>1, <4>2, <4>3
    <3>3. CASE AbortInsert(s)
      <4> DEFINE new == [row[s] EXCEPT !.status = "refused"]
      <4>1. row' = [row EXCEPT ![s] = new] /\ UNCHANGED leave
        BY <3>3 DEF AbortInsert
      <4>2. /\ new.done = row[s].done /\ new.status = "refused"
            /\ new.recorded = row[s].recorded
        BY <1>0 DEF RowRecord
      <4> QED
        BY <4>1, <4>2
    <3>4. CASE LeaseLapses(s)
      <4> DEFINE new == [row[s] EXCEPT !.lapsed = TRUE]
      <4>1. row' = [row EXCEPT ![s] = new] /\ UNCHANGED leave
        BY <3>4 DEF LeaseLapses
      <4>2. /\ new.done = row[s].done /\ new.status = row[s].status
            /\ new.recorded = row[s].recorded
        BY <1>0 DEF RowRecord
      <4> QED
        BY <4>1, <4>2
    <3>5. CASE DiscardPendingSave(s)
      <4> DEFINE new == [row[s] EXCEPT !.status = "discarded"]
      <4>1. row' = [row EXCEPT ![s] = new] /\ UNCHANGED leave
        BY <3>5 DEF DiscardPendingSave
      <4>2. /\ new.done = row[s].done /\ new.status = "discarded"
            /\ new.recorded = row[s].recorded
        BY <1>0 DEF RowRecord
      <4> QED
        BY <4>1, <4>2
    <3> QED
      BY <1>1, <3>1, <3>2, <3>3, <3>4, <3>5 DEF SaveStep
  <2>2. PICK new : /\ row' = [row EXCEPT ![s] = new]
                   /\ new.done = row[s].done
                   /\ new.status = "calls" \/ ~new.recorded =>
                        Status(s) = "calls" \/ ~row[s].recorded
    BY <2>1
  <2>3. row'[s] = new /\ \A q \in Saves : q # s => row'[q] = row[q]
    BY <1>0, <2>2, RowSet
  <2>4. RowStays(s)
    BY <2>2, <2>3 DEF RowStays
  <2> QED
    BY <1>0, <2>1, <2>3, <2>4, RowsStay, PaidKept
<1>2. CASE RetryPendingSave(s)
  <2> DEFINE new == [row[s] EXCEPT !.status = IF row[s].recorded THEN "calls" ELSE "pending",
                                   !.attempts = 0]
  <2>1. /\ row' = [row EXCEPT ![s] = new]
        /\ leave' = IF row[s].recorded /\ row[s].done < Calls[s]
                    THEN [leave EXCEPT ![s][row[s].done + 1] = @ + 1]
                    ELSE leave
    BY <1>2 DEF RetryPendingSave
  <2>2. /\ new.done = row[s].done /\ new.recorded = row[s].recorded
        /\ new.status = IF row[s].recorded THEN "calls" ELSE "pending"
    BY <1>0 DEF RowRecord
  <2> HIDE DEF new
  <2>3. row'[s] = new /\ \A q \in Saves : q # s => row'[q] = row[q]
    BY <1>0, <2>1, RowSet
  <2>4. CASE ~row[s].recorded
    <3>1. RowStays(s)
      BY <2>2, <2>3, <2>4 DEF RowStays
    <3>2. UNCHANGED leave
      BY <2>1, <2>4
    <3> QED
      BY <1>0, <2>3, <3>1, <3>2, RowsStay, PaidKept
  <2>5. CASE row[s].recorded
    <3>1. PICK n \in Nat : n = row[s].done + 1
      BY <1>0
    <3>2. row[s].done <= Calls[s] /\ Calls[s] \in Nat
      BY <1>0, ConstantTypes DEF RowOK
    <3>3. LeaveRises(s)
      <4>1. CASE row[s].done < Calls[s]
        <5>1. leave' = [leave EXCEPT ![s][n] = @ + 1]
          BY <2>1, <2>5, <3>1, <4>1
        <5> QED
          BY <1>0, <3>1, <5>1, LeaveRisesBy
      <4>2. CASE row[s].done = Calls[s]
        <5>1. UNCHANGED leave
          BY <1>0, <2>1, <3>2, <4>2
        <5>2. \A c \in 1..Calls[s] : c # row[s].done + 1
          BY <3>2, <4>2
        <5> QED
          BY <5>1, <5>2 DEF LeaveRises
      <4> QED
        BY <1>0, <3>2, <4>1, <4>2
    <3> QED
      BY <1>0, <2>2, <2>3, <2>5, <3>3, PaidByLeave
  <2> QED
    BY <2>4, <2>5
<1> QED
  BY <1>1, <1>2

(***************************************************************************)
(* A step of one task that comes to no call.                               *)
(***************************************************************************)
LEMMA ComesToNone ==
  ASSUME Typed, NEW t \in Applier, NEW to, task' = [task EXCEPT ![t] = to],
         to.pc \notin {"ready", "unheard"}
  PROVE  NoneComes(t)
  BY DEF Typed, NoneComes

LEMMA RestPays ==
  ASSUME Typed, Typed', PaidInv, NEW t \in Applier, task' = [task EXCEPT ![t] = Idle],
         UNCHANGED <<row, starts, leave>>
  PROVE  PaidInv'
<1>1. NoneComes(t)
  BY IdleFacts, ComesToNone
<1> QED
  BY <1>1, RowsSame, PaidKept

LEMMA ApplyPays ==
  ASSUME OutboxInv, OutboxInv', PaidInv, NEW t \in Applier, ApplyStep(t)
  PROVE  PaidInv'
<1>0. /\ Typed /\ Typed' /\ UNCHANGED <<starts, leave>> /\ task[t] \in TaskRecord
      /\ task[t].pc \in Applying
  BY TaskFields DEF OutboxInv, ApplyStep, ApplyOnce, CommitRecords, RecordApplyFailure,
     Applying
<1>1. PICK s \in Saves : s = Last(task[t].stack)
  BY <1>0, StackOf
<1>2. row[s] \in RowRecord /\ RowOK(s) /\ row[s].done \in Nat
  BY <1>0, RowFields DEF OutboxInv
<1>3. RowDone(t).pc \notin {"ready", "unheard"}
  BY <1>0, RowDoneFacts
<1>4. CASE ApplyOnce(t)
  <2>1. task[t].pc = "locking" /\ UNCHANGED row
    BY <1>4 DEF ApplyOnce
  <2>2. PICK to : /\ task' = [task EXCEPT ![t] = to]
                /\ to.pc \notin {"ready", "unheard"}
    <3> DEFINE older == OlderUnapplied(s)
               longer == [task[t] EXCEPT !.stack = Append(task[t].stack, Oldest(older))]
               writing == [task[t] EXCEPT !.pc = "writing"]
    <3>1. longer.pc = "locking" /\ writing.pc = "writing" /\ Idle.pc = "idle"
      BY <1>0, <2>1, IdleFacts DEF TaskRecord
    <3>2. \/ task' = [task EXCEPT ![t] = Idle] \/ task' = [task EXCEPT ![t] = longer]
          \/ task' = [task EXCEPT ![t] = RowDone(t)] \/ task' = [task EXCEPT ![t] = writing]
      BY <1>1, <1>4 DEF ApplyOnce
    <3> HIDE DEF longer, writing
    <3> QED
      BY <1>3, <3>1, <3>2
  <2> QED
    BY <1>0, <2>1, <2>2, ComesToNone, RowsSame, PaidKept
<1>5. CASE CommitRecords(t)
  <2> DEFINE new == [row[s] EXCEPT !.status = IF Calls[s] = 0 THEN "applied" ELSE "calls",
                                   !.attempts = 0, !.recorded = TRUE]
  <2>1. /\ row' = [row EXCEPT ![s] = new] /\ task' = [task EXCEPT ![t] = RowDone(t)]
        /\ Status(s) = "pending"
    BY <1>1, <1>5 DEF CommitRecords, OutboxInv, TaskOK
  <2>2. new.done = row[s].done /\ ~row[s].recorded
    BY <1>2, <2>1 DEF RowRecord, RowOK, Early
  <2> HIDE DEF new
  <2>3. row'[s] = new /\ \A q \in Saves : q # s => row'[q] = row[q]
    BY <1>0, <2>1, RowSet
  <2>4. RowStays(s)
    BY <2>2, <2>3 DEF RowStays
  <2>5. NoneComes(t)
    BY <1>0, <1>3, <2>1, ComesToNone
  <2> QED
    BY <1>0, <2>3, <2>4, <2>5, RowsStay, PaidKept
<1>6. CASE RecordApplyFailure(t)
  <2>1. PICK new : /\ row' = IF Status(s) # "pending" THEN row ELSE [row EXCEPT ![s] = new]
                   /\ new.done = row[s].done /\ new.recorded = row[s].recorded
    <3>1. PICK status : row' = IF Status(s) # "pending" THEN row
                               ELSE [row EXCEPT ![s] = [row[s] EXCEPT !.status = status,
                                                          !.attempts = row[s].attempts + 1]]
      BY <1>1, <1>6 DEF RecordApplyFailure
    <3> DEFINE new == [row[s] EXCEPT !.status = status, !.attempts = row[s].attempts + 1]
    <3>2. new.done = row[s].done /\ new.recorded = row[s].recorded
      BY <1>2 DEF RowRecord
    <3> QED
      BY <3>1, <3>2
  <2>2. task' = [task EXCEPT ![t] = Idle]
    BY <1>6 DEF RecordApplyFailure
  <2>3. CASE Status(s) # "pending"
    BY <1>0, <2>1, <2>2, <2>3, RestPays
  <2>4. CASE Status(s) = "pending"
    <3>1. row' = [row EXCEPT ![s] = new] /\ ~row[s].recorded
      BY <1>2, <2>1, <2>4 DEF RowOK, Early
    <3>2. row'[s] = new /\ \A q \in Saves : q # s => row'[q] = row[q]
      BY <1>0, <3>1, RowSet
    <3>3. RowStays(s)
      BY <2>1, <3>1, <3>2 DEF RowStays
    <3>4. NoneComes(t)
      BY <1>0, <2>2, IdleFacts, ComesToNone
    <3> QED
      BY <1>0, <3>2, <3>3, <3>4, RowsStay, PaidKept
  <2> QED
    BY <2>3, <2>4
<1> QED
  BY <1>4, <1>5, <1>6 DEF ApplyStep

OthersStay(t) == \A u \in Applier : u # t => task'[u] = task[u]

LEMMA AtMostOneComes ==
  ASSUME NEW t \in Applier, OthersStay(t), NEW s, NEW c
  PROVE  AtStart(s, c)' \subseteq AtStart(s, c) \cup {t}
<1> SUFFICES ASSUME NEW u \in Applier, u # t, u \in AtStart(s, c)'
             PROVE  u \in AtStart(s, c)
  BY DEF AtStart
<1>1. task'[u] = task[u]
  BY DEF OthersStay
<1> QED
  BY <1>1 DEF AtStart

(***************************************************************************)
(* A claim of a row: the runner takes what the row's calls are owed.  A    *)
(* call that a lapsed claim interrupted is not run again.                  *)
(***************************************************************************)
LEMMA ClaimPays ==
  ASSUME OutboxInv, OutboxInv', PaidInv, NEW t \in Applier, NEW s \in Saves,
         ClaimCalls(t, s)
  PROVE  PaidInv'
<1>0. /\ Typed /\ Typed' /\ RowOK(s) /\ row[s] \in RowRecord /\ row[s].done \in Nat
      /\ UNCHANGED <<starts, leave>>
  BY RowFields DEF OutboxInv, ClaimCalls
<1>1. PICK pc \in {"ready", "interrupted"} :
        pc = IF Status(s) = "running" /\ row[s].done < Calls[s] /\ s \notin Resumable
             THEN "interrupted" ELSE "ready"
  OBVIOUS
<1>2. PICK to \in TaskRecord : /\ to = AtCall(pc, s, row[s].done)
                               /\ to.pc = pc /\ to.call = s /\ to.index = row[s].done
  <2>1. pc \in TaskPc
    BY CallPcs
  <2> QED
    BY <1>0, <2>1, AtCallFacts
<1>3. /\ task' = [task EXCEPT ![t] = to] /\ task[t].pc = "idle"
      /\ Status(s) \in {"calls", "running"}
  BY <1>1, <1>2 DEF ClaimCalls
<1>4. task'[t] = to /\ \A u \in Applier : u # t => task'[u] = task[u]
  BY <1>3, TaskIs
<1>5. /\ row'[s].done = row[s].done /\ row'[s].status = "running"
      /\ row'[s].recorded = row[s].recorded /\ row[s].recorded
      /\ \A q \in Saves : q # s => row'[q] = row[q]
  <2>1. PICK attempts, new : /\ row' = [row EXCEPT ![s] = new]
                             /\ new = [row[s] EXCEPT !.status = "running", !.claim = t,
                                         !.lapsed = FALSE, !.attempts = attempts]
    BY DEF ClaimCalls
  <2>2. new.done = row[s].done /\ new.status = "running" /\ new.recorded = row[s].recorded
    BY <1>0, <2>1 DEF RowRecord
  <2>3. row'[s] = new /\ \A q \in Saves : q # s => row'[q] = row[q]
    BY <1>0, <2>1, RowSet
  <2> QED
    BY <1>0, <1>3, <2>2, <2>3 DEF RowOK
<1> SUFFICES ASSUME NEW q \in Saves \ Resumable, NEW c \in 1..Calls[q]
             PROVE  PaidFor(q, c)'
  BY DEF PaidInv
<1>6. PaidFor(q, c) /\ starts'[q][c] = starts[q][c] /\ leave'[q][c] = leave[q][c]
  BY <1>0 DEF PaidInv
<1>7. \A p \in Saves, k \in Nat : Owes(p, k)' => Owes(p, k)
  BY <1>5 DEF Owes
<1>8. c \in Nat /\ Calls[q] \in Nat
  BY ConstantTypes
<1>9. CASE q = s /\ c = row[s].done + 1 /\ Status(s) = "calls"
  <2>1. AtStart(q, c)' \subseteq AtStart(q, c) \cup {t}
    <3>1. OthersStay(t)
      BY <1>4 DEF OthersStay
    <3> QED
      BY <3>1, AtMostOneComes
  <2>2. Owes(q, c)
    BY <1>9 DEF Owes
  <2>3. row'[s].recorded
    BY <1>5
  <2>4. ~Owes(q, c)'
    BY <1>0, <1>5, <1>9, <2>3 DEF Owes
  <2> QED
    BY <1>0, <1>6, <2>1, <2>2, <2>4, CreditTaken
<1>10. CASE ~(q = s /\ c = row[s].done + 1 /\ Status(s) = "calls")
  <2>1. ~(to.pc \in {"ready", "unheard"} /\ to.call = q /\ to.index + 1 = c)
    BY <1>0, <1>1, <1>2, <1>3, <1>8, <1>10
  <2>2. AtStart(q, c)' \subseteq AtStart(q, c)
    BY <1>4, <2>1 DEF AtStart
  <2> QED
    BY <1>0, <1>6, <1>7, <1>8, <2>2, NothingAdded
<1> QED
  BY <1>9, <1>10

(***************************************************************************)
(* The steps of a runner.  A start spends what the runner carries, and the *)
(* end of a call takes it on to what the next one is owed.                 *)
(***************************************************************************)
LEMMA StartPays ==
  ASSUME OutboxInv, OutboxInv', PaidInv, NEW t \in Applier, StartCall(t)
  PROVE  PaidInv'
<1>a. task[t].pc = "ready"
  BY DEF StartCall
<1>b. PICK s \in Saves, i \in Nat, to \in TaskRecord :
        /\ s = task[t].call /\ i = task[t].index /\ i < Calls[s]
        /\ Status(s) # "absent" /\ CallsBehind(s)
        /\ starts' = [starts EXCEPT ![s][i + 1] = @ + 1]
        /\ UNCHANGED <<row, run, before, leave>>
        /\ task' = [task EXCEPT ![t] = to] /\ to.pc \in {"raised", "calling"}
        /\ to.call = s /\ to.index = i
        /\ to.pc = "calling" => to.chain = <<>>
  BY StartedTask
<1>0. Typed /\ Typed' /\ UNCHANGED <<row, leave>>
  BY <1>b DEF OutboxInv
<1>1. NoneComes(t)
  <2>1. task' = [task EXCEPT ![t] = to] /\ to.pc \notin {"ready", "unheard"}
    BY <1>b
  <2> QED
    BY <1>0, <2>1, ComesToNone
<1>2. /\ \A c \in 1..Calls[s] :
           starts'[s][c] = IF c = i + 1 THEN starts[s][c] + 1 ELSE starts[s][c]
      /\ \A q \in Saves : q # s => starts'[q] = starts[q]
  <2>1. DOMAIN starts = Saves /\ DOMAIN starts[s] = 1..Calls[s]
    BY <1>0 DEF Typed
  <2>2. starts' = [starts EXCEPT ![s] = [starts[s] EXCEPT ![i + 1] = starts[s][i + 1] + 1]]
    BY <1>b
  <2>3. starts'[s] = [starts[s] EXCEPT ![i + 1] = starts[s][i + 1] + 1]
    BY <2>1, <2>2
  <2>4. \A q \in Saves : q # s => starts'[q] = starts[q]
    BY <2>1, <2>2
  <2>5. \A c \in 1..Calls[s] :
          starts'[s][c] = IF c = i + 1 THEN starts[s][c] + 1 ELSE starts[s][c]
    BY <2>1, <2>3
  <2> QED
    BY <2>4, <2>5
<1> SUFFICES ASSUME NEW q \in Saves \ Resumable, NEW c \in 1..Calls[q]
             PROVE  PaidFor(q, c)'
  BY DEF PaidInv
<1>3. PaidFor(q, c) /\ leave'[q][c] = leave[q][c] /\ (Owes(q, c)' => Owes(q, c))
  BY <1>0 DEF PaidInv, Owes
<1>4. CASE q = s /\ c = i + 1
  <2>1. t \in AtStart(q, c)
    BY <1>a, <1>b, <1>4 DEF AtStart
  <2>2. AtStart(q, c)' \subseteq AtStart(q, c) \ {t}
    BY <1>1 DEF NoneComes, AtStart
  <2>3. starts'[q][c] = starts[q][c] + 1
    BY <1>2, <1>4
  <2> QED
    BY <1>0, <1>3, <2>1, <2>2, <2>3, StartTaken
<1>5. CASE q # s \/ c # i + 1
  <2>1. starts'[q][c] = starts[q][c]
    BY <1>2, <1>5
  <2>2. AtStart(q, c)' \subseteq AtStart(q, c)
    BY <1>1, NoneComesFewer
  <2> QED
    BY <1>0, <1>3, <2>1, <2>2, NothingAdded
<1> QED
  BY <1>4, <1>5

LEMMA NotedPays ==
  ASSUME OutboxInv, OutboxInv', PaidInv, NEW t \in Applier, NEW s \in Saves,
         NEW to \in TaskRecord, NotesDone(t, s, to)
  PROVE  PaidInv'
<1>a. task[t].pc \in Running /\ s = task[t].call /\ row[s].claim = t
  BY CallPcs DEF NotesDone
<1>b. Status(s) = "running" /\ row[s].recorded
  BY <1>a, CallOf
<1>0. /\ Typed /\ Typed' /\ UNCHANGED <<starts, leave>>
      /\ row[s] \in RowRecord /\ row[s].done \in Nat
  BY RowFields DEF OutboxInv, NotesDone
<1>1. PICK n \in Nat : n = row[s].done + 1
  BY <1>0
<1> DEFINE new == [row[s] EXCEPT !.done = n]
<1>2. /\ row' = [row EXCEPT ![s] = new] /\ task' = [task EXCEPT ![t] = to]
      /\ to.call = s /\ to.index = n
  BY <1>1 DEF NotesDone
<1>3. new.done = n /\ new.status = row[s].status /\ new.recorded = row[s].recorded
  BY <1>0 DEF RowRecord
<1> HIDE DEF new
<1>4. row'[s] = new /\ \A q \in Saves : q # s => row'[q] = row[q]
  BY <1>0, <1>2, RowSet
<1>5. task'[t] = to /\ \A u \in Applier : u # t => task'[u] = task[u]
  BY <1>2, TaskIs
<1> SUFFICES ASSUME NEW q \in Saves \ Resumable, NEW c \in 1..Calls[q]
             PROVE  PaidFor(q, c)'
  BY DEF PaidInv
<1>6. PaidFor(q, c) /\ starts'[q][c] = starts[q][c] /\ leave'[q][c] = leave[q][c]
  BY <1>0 DEF PaidInv
<1>7. c \in Nat /\ Calls[q] \in Nat
  BY ConstantTypes
<1>8. Owes(q, c)' => Owes(q, c)
  BY <1>b, <1>0, <1>1, <1>3, <1>4, <1>7 DEF Owes
<1>9. CASE q = s /\ c = n + 1
  <2>1. AtStart(q, c)' \subseteq AtStart(q, c) \cup {t}
    <3>1. OthersStay(t)
      BY <1>5 DEF OthersStay
    <3> QED
      BY <3>1, AtMostOneComes
  <2>2. Owes(q, c)
    BY <1>0, <1>1, <1>9 DEF Owes
  <2>3. row'[s].done = n /\ row'[s].recorded /\ Status(s)' = "running"
    BY <1>b, <1>3, <1>4
  <2>4. ~Owes(q, c)'
    BY <1>1, <1>9, <2>3 DEF Owes
  <2> QED
    BY <1>0, <1>6, <2>1, <2>2, <2>4, CreditTaken
<1>10. CASE q # s \/ c # n + 1
  <2>1. ~(to.call = q /\ to.index + 1 = c)
    BY <1>2, <1>10
  <2>2. AtStart(q, c)' \subseteq AtStart(q, c)
    BY <1>5, <2>1 DEF AtStart
  <2> QED
    BY <1>0, <1>6, <1>8, <2>2, NothingAdded
<1> QED
  BY <1>9, <1>10

LEMMA DonePays ==
  ASSUME OutboxInv, OutboxInv', PaidInv, NEW t \in Applier, CallDone(t)
  PROVE  PaidInv'
<1>1. CASE row[task[t].call].claim # t
  <2>1. task' = [task EXCEPT ![t] = Idle] /\ UNCHANGED <<row, starts, leave>>
    BY <1>1 DEF CallDone
  <2> QED
    BY <2>1, RestPays DEF OutboxInv
<1>2. CASE row[task[t].call].claim = t
  BY <1>2, DoneIsNoted, NotedPays
<1> QED
  BY <1>1, <1>2

(***************************************************************************)
(* Steps that end a runner's call, or leave the row to another.            *)
(***************************************************************************)
LEMMA FailurePays ==
  ASSUME OutboxInv, OutboxInv', PaidInv, NEW t \in Applier, RecordCallFailure(t)
  PROVE  PaidInv'
<1>a. task[t].pc \in {"raised", "unheard"} /\ task[t].pc \in Running
  BY CallPcs DEF RecordCallFailure
<1>b. PICK s \in Saves : /\ s = task[t].call
                         /\ row[s].claim = t => task[t].index = row[s].done
  BY <1>a, CallOf
<1>0. /\ Typed /\ Typed' /\ RowOK(s) /\ row[s] \in RowRecord /\ row[s].done \in Nat
      /\ UNCHANGED starts /\ task' = [task EXCEPT ![t] = Idle]
  BY RowFields DEF OutboxInv, RecordCallFailure
<1>1. CASE ~UnderClaim(t, s)
  <2>1. UNCHANGED <<row, leave>>
    BY <1>b, <1>1 DEF RecordCallFailure
  <2> QED
    BY <1>0, <2>1, RestPays
<1>2. CASE UnderClaim(t, s)
  <2>1. row[s].recorded /\ Status(s) = "running" /\ task[t].index = row[s].done
    BY <1>b, <1>0, <1>2 DEF RowOK, UnderClaim
  <2>2. PICK status \in {"calls", "failed"} :
          /\ row' = [row EXCEPT ![s] = [row[s] EXCEPT !.status = status,
                                          !.claim = NoApplier, !.lapsed = FALSE]]
          /\ status = "calls" /\ task[t].pc = "raised" =>
               leave' = [leave EXCEPT ![s][row[s].done + 1] = @ + 1]
          /\ status = "failed" \/ task[t].pc = "unheard" => UNCHANGED leave
    BY <1>a, <1>b, <1>2 DEF RecordCallFailure
  <2> DEFINE new == [row[s] EXCEPT !.status = status, !.claim = NoApplier, !.lapsed = FALSE]
  <2>3. new.done = row[s].done /\ new.status = status /\ new.recorded = row[s].recorded
    BY <1>0 DEF RowRecord
  <2>4. row' = [row EXCEPT ![s] = new]
    BY <2>2
  <2> HIDE DEF new
  <2>5. row'[s] = new /\ \A q \in Saves : q # s => row'[q] = row[q]
    BY <1>0, <2>4, RowSet
  <2>6. NoneComes(t)
    BY <1>0, IdleFacts, ComesToNone
  <2>7. CASE status = "calls" /\ task[t].pc = "raised"
    <3>1. PICK n \in Nat : n = row[s].done + 1
      BY <1>0
    <3>2. leave' = [leave EXCEPT ![s][n] = @ + 1]
      BY <2>2, <2>7, <3>1
    <3>3. LeaveRises(s)
      BY <1>0, <3>1, <3>2, LeaveRisesBy
    <3> QED
      BY <1>0, <2>1, <2>3, <2>5, <2>6, <3>3, PaidByLeave
  <2>8. CASE status = "failed"
    <3>1. RowStays(s) /\ UNCHANGED leave
      BY <2>1, <2>2, <2>3, <2>5, <2>8 DEF RowStays
    <3> QED
      BY <1>0, <2>5, <2>6, <3>1, RowsStay, PaidKept
  <2>9. CASE task[t].pc = "unheard"
    <3> SUFFICES ASSUME NEW q \in Saves \ Resumable, NEW c \in 1..Calls[q]
                 PROVE  PaidFor(q, c)'
      BY DEF PaidInv
    <3>1. /\ PaidFor(q, c) /\ starts'[q][c] = starts[q][c] /\ leave'[q][c] = leave[q][c]
          /\ c \in Nat
      BY <1>0, <2>2, <2>9 DEF PaidInv
    <3>2. CASE q = s /\ c = row[s].done + 1
      <4>1. t \in AtStart(q, c)
        BY <1>a, <1>b, <2>1, <2>9, <3>2 DEF AtStart
      <4>2. AtStart(q, c)' \subseteq AtStart(q, c) \ {t}
        BY <2>6 DEF NoneComes, AtStart
      <4>3. ~Owes(q, c)
        BY <1>0, <2>1, <3>2 DEF Owes
      <4> QED
        BY <1>0, <3>1, <4>1, <4>2, <4>3, CreditGiven
    <3>3. CASE q # s \/ c # row[s].done + 1
      <4>1. Owes(q, c)' => Owes(q, c)
        BY <1>0, <2>3, <2>5, <3>1, <3>3 DEF Owes
      <4>2. AtStart(q, c)' \subseteq AtStart(q, c)
        BY <2>6, NoneComesFewer
      <4> QED
        BY <1>0, <3>1, <4>1, <4>2, NothingAdded
    <3> QED
      BY <3>2, <3>3
  <2> QED
    BY <1>a, <2>7, <2>8, <2>9
<1> QED
  BY <1>1, <1>2

LEMMA EndPays ==
  ASSUME OutboxInv, OutboxInv', PaidInv, NEW t \in Applier,
         FailInterrupted(t) \/ DeleteClaimed(t)
  PROVE  PaidInv'
<1>a. task[t].pc \in Running
  BY CallPcs DEF FailInterrupted, DeleteClaimed
<1>b. PICK s \in Saves : /\ s = task[t].call
                         /\ row[s].claim = t => Status(s) = "running" /\ row[s].recorded
  BY <1>a, CallOf
<1>0. /\ Typed /\ Typed' /\ row[s] \in RowRecord
      /\ UNCHANGED <<starts, leave>> /\ task' = [task EXCEPT ![t] = Idle]
  BY RowFields DEF OutboxInv, FailInterrupted, DeleteClaimed
<1>1. NoneComes(t)
  BY <1>0, IdleFacts, ComesToNone
<1>2. CASE UNCHANGED row
  BY <1>0, <1>2, RestPays
<1>3. CASE ~UNCHANGED row
  <2>1. PICK status \in {"failed", "applied"} :
          /\ row[s].claim = t
          /\ row' = [row EXCEPT ![s] = [row[s] EXCEPT !.status = status,
                                          !.claim = NoApplier, !.lapsed = FALSE]]
    BY <1>b, <1>3 DEF FailInterrupted, DeleteClaimed, UnderClaim
  <2> DEFINE new == [row[s] EXCEPT !.status = status, !.claim = NoApplier, !.lapsed = FALSE]
  <2>2. new.done = row[s].done /\ new.status = status /\ new.recorded = row[s].recorded
    BY <1>0 DEF RowRecord
  <2>3. row' = [row EXCEPT ![s] = new]
    BY <2>1
  <2> HIDE DEF new
  <2>4. row'[s] = new /\ \A q \in Saves : q # s => row'[q] = row[q]
    BY <1>0, <2>3, RowSet
  <2>5. RowStays(s)
    BY <1>b, <2>1, <2>2, <2>4 DEF RowStays
  <2> QED
    BY <1>0, <1>1, <2>4, <2>5, RowsStay, PaidKept
<1> QED
  BY <1>2, <1>3

(***************************************************************************)
(* A task that goes on with its call, its drain or its rows.               *)
(***************************************************************************)
LEMMA MovePays ==
  ASSUME Typed, Typed', PaidInv, NEW t \in Applier, NEW to, task' = [task EXCEPT ![t] = to],
         to.pc \notin {"ready", "unheard"}, UNCHANGED <<row, starts, leave>>
  PROVE  PaidInv'
<1>1. NoneComes(t)
  BY ComesToNone
<1> QED
  BY <1>1, RowsSame, PaidKept

LEMMA RaisePays ==
  ASSUME OutboxInv, OutboxInv', PaidInv, NEW t \in Applier,
         NEW error \in {"transient", "lasting"}, CallRaises(t, error)
  PROVE  PaidInv'
<1>a. task[t].pc \in Running
  BY CallPcs DEF CallRaises
<1>b. PICK s \in Saves : s = task[t].call /\ task[t].index \in Nat
  BY <1>a, CallOf
<1>c. PICK to \in TaskRecord :
        /\ to = [AtCall("raised", s, task[t].index) EXCEPT !.error = error]
        /\ to.pc = "raised"
  BY <1>b, RaisedCall
<1>1. task' = [task EXCEPT ![t] = to] /\ UNCHANGED <<row, starts, leave>>
  BY <1>b, <1>c DEF CallRaises
<1> QED
  BY <1>c, <1>1, MovePays DEF OutboxInv

(***************************************************************************)
(* A delete that fails leaves its runner where it was, past every call.    *)
(***************************************************************************)
LEMMA DeleteRaisesPays ==
  ASSUME OutboxInv, OutboxInv', PaidInv, NEW t \in Applier,
         NEW error \in {"transient", "lasting"}, DeleteRaises(t, error)
  PROVE  PaidInv'
<1>a. task[t].pc \in Running /\ task[t].pc = "ready"
  BY CallPcs DEF DeleteRaises
<1>b. PICK s \in Saves : s = task[t].call /\ task[t].index \in Nat
  BY <1>a, CallOf
<1>c. PICK to \in TaskRecord :
        /\ to = [AtCall("unheard", s, task[t].index) EXCEPT !.error = error]
        /\ to.pc = "unheard" /\ to.call = s /\ to.index = task[t].index
  BY <1>b, RaisedCall
<1>0. Typed /\ Typed'
  BY DEF OutboxInv
<1>1. task' = [task EXCEPT ![t] = to] /\ UNCHANGED <<row, starts, leave>>
  BY <1>b, <1>c DEF DeleteRaises
<1>2. task'[t] = to /\ \A u \in Applier : u # t => task'[u] = task[u]
  BY <1>1, TaskIs
<1> SUFFICES ASSUME NEW q \in Saves \ Resumable, NEW c \in 1..Calls[q]
             PROVE  PaidFor(q, c)'
  BY DEF PaidInv
<1>3. AtStart(q, c)' \subseteq AtStart(q, c)
  BY <1>a, <1>b, <1>c, <1>2 DEF AtStart
<1>4. /\ PaidFor(q, c) /\ starts'[q][c] = starts[q][c] /\ leave'[q][c] = leave[q][c]
      /\ Owes(q, c)' => Owes(q, c)
  BY <1>1 DEF PaidInv, Owes
<1> QED
  BY <1>0, <1>3, <1>4, NothingAdded

LEMMA CallPays ==
  ASSUME OutboxInv, OutboxInv', PaidInv, NEW t \in Applier, CallStep(t)
  PROVE  PaidInv'
<1>0. Typed /\ Typed' /\ task[t] \in TaskRecord
  BY TaskFields DEF OutboxInv
<1>1. CASE CallDrain(t)
  <2>1. PICK left, chain :
          task' = [task EXCEPT ![t] = [task[t] EXCEPT !.left = left, !.chain = chain]]
    BY <1>1 DEF CallDrain
  <2> DEFINE to == [task[t] EXCEPT !.left = left, !.chain = chain]
  <2>2. to.pc = task[t].pc
    BY <1>0 DEF TaskRecord
  <2>3. /\ task' = [task EXCEPT ![t] = to] /\ UNCHANGED <<row, starts, leave>>
        /\ task[t].pc = "calling"
    BY <1>1, <2>1 DEF CallDrain
  <2> HIDE DEF to
  <2> QED
    BY <1>0, <2>2, <2>3, MovePays
<1>2. CASE FinishCall(t)
  <2>1. task[t].pc \in Running
    BY <1>2, CallPcs DEF FinishCall
  <2>2. PICK s \in Saves : s = task[t].call /\ task[t].index \in Nat
    BY <2>1, CallOf
  <2>3. "called" \in TaskPc
    BY CallPcs
  <2>4. PICK to : to = AtCall("called", s, task[t].index) /\ to.pc = "called"
    BY <2>2, <2>3, AtCallFacts
  <2>5. task' = [task EXCEPT ![t] = to] /\ UNCHANGED <<row, starts, leave>>
    BY <1>2, <2>2, <2>4 DEF FinishCall
  <2> QED
    BY <1>0, <2>4, <2>5, MovePays
<1>3. CASE CallDrainRefused(t)
  BY <1>3, RaisePays DEF CallDrainRefused
<1> QED
  BY <1>1, <1>2, <1>3, EndPays, StartPays, DonePays, FailurePays DEF CallStep

LEMMA FaultPays ==
  ASSUME OutboxInv, OutboxInv', PaidInv, NEW t \in Applier, TaskFault(t)
  PROVE  PaidInv'
<1>0. Typed /\ Typed'
  BY DEF OutboxInv
<1>1. CASE LockTimesOut(t) \/ HeartbeatLost(t) \/ TaskDies(t)
  <2>1. task' = [task EXCEPT ![t] = Idle] /\ UNCHANGED <<row, starts, leave>>
    BY <1>1 DEF LockTimesOut, HeartbeatLost, TaskDies
  <2> QED
    BY <1>0, <2>1, RestPays
<1>2. CASE Heartbeat(t)
  <2>1. task[t].pc \in Running
    BY <1>2, CallPcs DEF Heartbeat
  <2>2. PICK s \in Saves : s = task[t].call
    BY <2>1, CallOf
  <2>3. row[s] \in RowRecord
    BY <1>0, RowFields
  <2> DEFINE new == [row[s] EXCEPT !.lapsed = FALSE]
  <2>4. /\ new.done = row[s].done /\ new.status = row[s].status
        /\ new.recorded = row[s].recorded
    BY <2>3 DEF RowRecord
  <2>5. row' = [row EXCEPT ![s] = new] /\ UNCHANGED <<task, starts, leave>>
    BY <1>2, <2>2 DEF Heartbeat
  <2> HIDE DEF new
  <2>6. row'[s] = new /\ \A q \in Saves : q # s => row'[q] = row[q]
    BY <1>0, <2>5, RowSet
  <2>7. RowStays(s)
    BY <2>4, <2>6 DEF RowStays
  <2> QED
    BY <1>0, <2>5, <2>6, <2>7, RowsStay, PaidKept
<1>3. ASSUME NEW error \in {"transient", "lasting"}, RecordsRaise(t, error)
      PROVE  PaidInv'
  <2>1. task[t].pc \in Applying
    BY <1>3 DEF RecordsRaise, Applying
  <2>2. PICK c \in Seq(Saves) : c = <<Last(task[t].stack)>> /\ c # <<>>
    BY <2>1, StackOf, OneOnStack
  <2>3. PICK to : /\ to = [At("unrecorded") EXCEPT !.stack = c, !.error = error]
                  /\ to.pc = "unrecorded"
    BY RaisedStack
  <2>4. task' = [task EXCEPT ![t] = to] /\ UNCHANGED <<row, starts, leave>>
    BY <1>3, <2>2, <2>3 DEF RecordsRaise
  <2> QED
    BY <1>0, <2>3, <2>4, MovePays
<1>4. ASSUME NEW error \in {"transient", "lasting"}, CallRaises(t, error)
      PROVE  PaidInv'
  BY <1>4, RaisePays
<1>5. ASSUME NEW error \in {"transient", "lasting"}, CallDoneUnheard(t, error)
      PROVE  PaidInv'
  BY <1>5, UnheardIsNoted, NotedPays
<1>6. ASSUME NEW error \in {"transient", "lasting"}, DeleteRaises(t, error)
      PROVE  PaidInv'
  BY <1>6, DeleteRaisesPays
<1> QED
  BY <1>1, <1>2, <1>3, <1>4, <1>5, <1>6 DEF TaskFault

LEMMA PaidStep == OutboxInv /\ OutboxInv' /\ PaidInv /\ [OutboxNext]_outboxVars => PaidInv'
<1> SUFFICES ASSUME OutboxInv, OutboxInv', PaidInv, [OutboxNext]_outboxVars
             PROVE  PaidInv'
  OBVIOUS
<1>0. Typed /\ Typed'
  BY DEF OutboxInv
<1>1. ASSUME NEW t \in Applier, NEW s \in Saves, StartApply(t, s) PROVE PaidInv'
  <2>1. PICK c \in Seq(Saves) : c = <<s>> /\ c # <<>>
    BY OneOnStack
  <2>2. "locking" \in TaskPc
    BY PcNames
  <2>3. PICK to : to = [At("locking") EXCEPT !.stack = c] /\ to.pc = "locking"
    BY <2>2, StackAt
  <2>4. task' = [task EXCEPT ![t] = to] /\ UNCHANGED <<row, starts, leave>>
    BY <1>1, <2>1, <2>3 DEF StartApply
  <2> QED
    BY <1>0, <2>3, <2>4, MovePays
<1>2. ASSUME NEW r \in RootRun, RunStep(r) PROVE PaidInv'
  <2>1. UNCHANGED <<row, task, starts, leave>>
    BY <1>2 DEF RunStep, EnterRun, RunDrain, RunRefused, RunBegins
  <2> QED
    BY <1>0, <2>1, RowsSame, PaidKept
<1>3. CASE UNCHANGED outboxVars
  <2>1. UNCHANGED <<row, task, starts, leave>>
    BY <1>3 DEF outboxVars
  <2> QED
    BY <1>0, <2>1, RowsSame, PaidKept
<1> QED
  BY <1>1, <1>2, <1>3, ApplyPays, CallPays, FaultPays, ClaimPays, SavePays DEF OutboxNext

LEMMA PaidInit == OutboxInit => PaidInv
<1> SUFFICES ASSUME OutboxInit PROVE PaidInv
  OBVIOUS
<1>0. PICK never \in SUBSET Saves, down \in SUBSET Applier, away \in SUBSET RootRun,
           spent \in 0..MaxFaults : OutboxStart(never, down, away, spent)
  BY DEF OutboxInit
<1>1. \A t \in Applier : task[t].pc \in {"idle", "down"}
  <2>1. "down" \in TaskPc
    BY PcNames
  <2>2. \A t \in Applier : task[t] = At("down") \/ task[t] = Idle
    BY <1>0 DEF OutboxStart
  <2> QED
    BY <2>1, <2>2, AtFacts, IdleFacts
<1> SUFFICES ASSUME NEW s \in Saves \ Resumable, NEW c \in 1..Calls[s]
             PROVE  PaidFor(s, c)
  BY DEF PaidInv
<1>2. starts[s][c] = 0 /\ leave[s][c] = 0
  BY <1>0 DEF OutboxStart
<1>3. AtStart(s, c) = {}
  BY <1>1 DEF AtStart
<1>4. IsFiniteSet({}) /\ Cardinality({}) = 0
  BY FS_EmptySet
<1>5. Credit(s, c) \in {0, 1}
  BY DEF Credit
<1>6. IsFiniteSet(AtStart(s, c)) /\ Cardinality(AtStart(s, c)) = 0
  BY <1>3, <1>4
<1> QED
  BY <1>2, <1>5, <1>6 DEF PaidFor

(***************************************************************************)
(* A call that may not be run again starts once, and once more for each    *)
(* failure its runner recorded as passing (of the call, or of the write    *)
(* that notes it done) and each retry of an operator.  A crash, a lapsed   *)
(* claim, and a failure to note an earlier call or to delete the row start *)
(* none again.                                                             *)
(***************************************************************************)
THEOREM StartsArePaidFor == OutboxSpec => []InterruptedCallsStay
<1>1. OutboxInv /\ PaidInv => InterruptedCallsStay
  <2> SUFFICES ASSUME OutboxInv, PaidInv, NEW s \in Saves \ Resumable, NEW c \in 1..Calls[s]
               PROVE  starts[s][c] <= 1 + leave[s][c]
    BY DEF InterruptedCallsStay
  <2>1. starts[s] \in [1..Calls[s] -> Nat] /\ leave[s] \in [1..Calls[s] -> Nat]
    BY DEF OutboxInv, Typed
  <2>2. starts[s][c] \in Nat
    BY <2>1, Zenon
  <2>3. leave[s][c] \in Nat
    BY <2>1, Zenon
  <2>4. Cardinality(AtStart(s, c)) \in Nat /\ Credit(s, c) \in {0, 1}
    BY FS_CardinalityType DEF PaidInv, PaidFor, Credit
  <2>5. starts[s][c] + Cardinality(AtStart(s, c)) + Credit(s, c) <= 1 + leave[s][c]
    BY DEF PaidInv, PaidFor
  <2> QED
    BY <2>2, <2>3, <2>4, <2>5
<1>2. OutboxInit => OutboxInv /\ PaidInv
  BY OutboxInvInit, PaidInit
<1>3. (OutboxInv /\ PaidInv) /\ [OutboxNext]_outboxVars => (OutboxInv /\ PaidInv)'
  BY OutboxInvStep, PaidStep
<1> QED
  BY <1>1, <1>2, <1>3, PTL DEF OutboxSpec

-----------------------------------------------------------------------------
(* The outbox implements the queue of saves.                               *)

(***************************************************************************)
(* A runner is at a call of a save whose records are applied, at the one   *)
(* that is due or at an earlier one, and a call it is past the start of    *)
(* was started.                                                            *)
(***************************************************************************)
AtDueCall(t) ==
  LET s == task[t].call
  IN /\ row[s].recorded
     /\ task[t].index <= row[s].done
     /\ task[t].pc \in {"calling", "called", "raised"} => starts[s][task[t].index + 1] > 0

RunInv == \A t \in Applier : task[t].pc \in Running => AtDueCall(t)

(***************************************************************************)
(* Rows keep their records and their calls stay done and started.          *)
(***************************************************************************)
Grows(s) ==
  /\ row[s].recorded => row'[s].recorded
  /\ row[s].done <= row'[s].done
  /\ \A c \in 1..Calls[s] : starts[s][c] > 0 => starts'[s][c] > 0

LEMMA RunnerKept ==
  ASSUME OutboxInv, Typed', RunInv, \A s \in Saves : Grows(s),
         NEW t \in Applier, task'[t] = task[t], task[t].pc \in Running
  PROVE  AtDueCall(t)'
<1>1. PICK s \in Saves :
        /\ s = task[t].call /\ task[t].index \in Nat
        /\ task[t].pc \in {"calling", "called", "raised"} => task[t].index < Calls[s]
  BY CallOf
<1>2. AtDueCall(t) /\ Grows(s) /\ row[s].done \in Nat /\ row'[s].done \in Nat
  BY RowFields DEF RunInv, OutboxInv, Typed, RowRecord
<1>3. Calls[s] \in Nat
  BY ConstantTypes
<1>4. PICK i \in Nat : i = task[t].index
  BY <1>1
<1>5. i < Calls[s] => i + 1 \in 1..Calls[s]
  BY <1>3
<1>6. task'[t].call = s /\ task'[t].index = i /\ task'[t].pc = task[t].pc
  BY <1>1, <1>4
<1>7. row'[s].recorded /\ i <= row'[s].done
  BY <1>1, <1>2, <1>4 DEF AtDueCall, Grows
<1>8. ASSUME task[t].pc \in {"calling", "called", "raised"}
      PROVE  starts'[s][i + 1] > 0
  <2>1. starts[s][i + 1] > 0
    BY <1>1, <1>2, <1>4, <1>8 DEF AtDueCall
  <2> QED
    BY <1>1, <1>2, <1>4, <1>5, <1>8, <2>1 DEF Grows
<1> QED
  BY <1>6, <1>7, <1>8 DEF AtDueCall

LEMMA RunnersKept ==
  ASSUME OutboxInv, Typed', RunInv, \A s \in Saves : Grows(s),
         NEW t \in Applier, OthersStay(t), task'[t].pc \in Running => AtDueCall(t)'
  PROVE  RunInv'
<1> SUFFICES ASSUME NEW u \in Applier, task'[u].pc \in Running
             PROVE  AtDueCall(u)'
  BY DEF RunInv
<1>1. CASE u # t
  BY <1>1, RunnerKept DEF OthersStay
<1> QED
  BY <1>1

LEMMA RunnersSame ==
  ASSUME OutboxInv, Typed', RunInv, \A s \in Saves : Grows(s), UNCHANGED task
  PROVE  RunInv'
  BY RunnerKept DEF RunInv

LEMMA NothingGrows ==
  ASSUME OutboxInv, UNCHANGED <<row, starts>>
  PROVE  \A s \in Saves : Grows(s)
<1>1. \A s \in Saves : row[s].done \in Nat
  BY RowFields DEF OutboxInv
<1> QED
  BY <1>1 DEF Grows

LEMMA OneGrows ==
  ASSUME OutboxInv, NEW s \in Saves, \A q \in Saves : q # s => row'[q] = row[q],
         row[s].recorded => row'[s].recorded, row[s].done <= row'[s].done, UNCHANGED starts
  PROVE  \A q \in Saves : Grows(q)
<1>1. \A q \in Saves : row[q].done \in Nat
  BY RowFields DEF OutboxInv
<1> QED
  BY <1>1 DEF Grows

(***************************************************************************)
(* What the queue sees of the outbox.                                      *)
(***************************************************************************)
StageMap == [s \in Saves |-> StageOf(s)]
RecordedMap == {s \in Saves : row[s].recorded}
ProgressMap == [s \in Saves |-> row[s].done]
EntryMap == [r \in RootRun |-> EntryOf(r)]
FoundMap == [r \in RootRun |-> run[r].seen]

QueueStep == Queue!QueueNext \/ UNCHANGED Queue!queueVars

LEMMA StagesSame ==
  ASSUME \A q \in Saves : StageOf(q)' = StageOf(q)
  PROVE  UNCHANGED StageMap
  BY DEF StageMap

LEMMA RecordedSame ==
  ASSUME \A q \in Saves : row'[q].recorded <=> row[q].recorded
  PROVE  UNCHANGED RecordedMap
  BY DEF RecordedMap

LEMMA ProgressSame ==
  ASSUME \A q \in Saves : row'[q].done = row[q].done
  PROVE  UNCHANGED ProgressMap
  BY DEF ProgressMap

LEMMA RunsSame ==
  ASSUME UNCHANGED run
  PROVE  UNCHANGED <<EntryMap, FoundMap>>
  BY DEF EntryMap, FoundMap, EntryOf

LEMMA OtherStages ==
  ASSUME NEW q \in Saves, row'[q] = row[q]
  PROVE  StageOf(q)' = StageOf(q)
  BY DEF StageOf

LEMMA StageBecomes ==
  ASSUME NEW s \in Saves, \A q \in Saves : q # s => row'[q] = row[q]
  PROVE  StageMap' = [StageMap EXCEPT ![s] = StageOf(s)']
<1>1. \A q \in Saves : q # s => StageOf(q)' = StageOf(q)
  BY OtherStages
<1> QED
  BY <1>1 DEF StageMap

LEMMA Stutters ==
  ASSUME UNCHANGED <<StageMap, RecordedMap, ProgressMap, starts, leave, before,
                     EntryMap, FoundMap>>
  PROVE  QueueStep
<1>1. UNCHANGED Queue!queueVars
  BY DEF Queue!queueVars, StageMap, RecordedMap, ProgressMap, EntryMap, FoundMap
<1> QED
  BY <1>1 DEF QueueStep

(***************************************************************************)
(* A step that the queue does not see leaves every save where it is.       *)
(***************************************************************************)
SaveStays(q) ==
  /\ StageOf(q)' = StageOf(q)
  /\ row'[q].recorded <=> row[q].recorded
  /\ row'[q].done = row[q].done

LEMMA Unseen ==
  ASSUME \A q \in Saves : SaveStays(q), UNCHANGED <<run, starts, leave, before>>
  PROVE  QueueStep
<1>1. \A q \in Saves : /\ StageOf(q)' = StageOf(q)
                       /\ row'[q].recorded <=> row[q].recorded
                       /\ row'[q].done = row[q].done
  BY DEF SaveStays
<1> QED
  BY <1>1, StagesSame, RecordedSame, ProgressSame, RunsSame, Stutters

LEMMA RowsUnseen ==
  ASSUME UNCHANGED <<row, run, starts, leave, before>>
  PROVE  QueueStep
<1>1. \A q \in Saves : SaveStays(q)
  BY DEF SaveStays, StageOf
<1> QED
  BY <1>1, Unseen

LEMMA RowUnseen ==
  ASSUME NEW s \in Saves, \A q \in Saves : q # s => row'[q] = row[q], SaveStays(s),
         UNCHANGED <<run, starts, leave, before>>
  PROVE  QueueStep
<1>1. \A q \in Saves : SaveStays(q)
  BY OtherStages DEF SaveStays
<1> QED
  BY <1>1, Unseen

LEMMA CommittedMap ==
  ASSUME Typed
  PROVE  Queue!Committed = Committed
<1>0. \A s \in Saves : row[s].status \in RowStatus
  BY RowFields
<1>1. \A s \in Saves : StageMap[s] \in {"open", "failed"} \cup {"applied", "discarded"}
                       <=> Status(s) \in Outstanding \cup {"applied", "discarded"}
  BY <1>0, StatusNames DEF StageMap, StageOf
<1> QED
  BY <1>1 DEF Queue!Committed, Queue!Outstanding, Committed, StageMap

(***************************************************************************)
(* A move of one save is one of the queue's.                               *)
(***************************************************************************)
LEMMA SaveMoves ==
  ASSUME NEW s \in Saves,
         Queue!Number(s) \/ Queue!Entering(s) \/ Queue!Working(s) \/ Queue!Mending(s)
           \/ Queue!Calling(s)
  PROVE  QueueStep
<1>1. Queue!SaveMoves(s)
  BY DEF Queue!SaveMoves
<1> QED
  BY <1>1 DEF QueueStep, Queue!QueueNext

-----------------------------------------------------------------------------
(* The steps on the rows.                                                  *)

LEMMA StageFacts ==
  ASSUME Typed, NEW s \in Saves
  PROVE  /\ StageMap[s] = StageOf(s) /\ ProgressMap[s] = row[s].done
         /\ s \in RecordedMap <=> row[s].recorded
         /\ StageOf(s) = "open" <=> Status(s) \in {"pending", "calls", "running"}
         /\ \A st \in {"absent", "inserting", "failed", "applied", "discarded", "refused"} :
              StageOf(s) = st <=> Status(s) = st
<1>1. row[s].status \in RowStatus
  BY RowFields
<1> QED
  BY <1>1, StatusNames DEF StageMap, ProgressMap, RecordedMap, StageOf

(***************************************************************************)
(* What a step on one row changes of what the queue sees.                  *)
(***************************************************************************)
SetsRow(s, new) == row' = [row EXCEPT ![s] = new]
StageMoves(s) == StageMap' = [StageMap EXCEPT ![s] = StageOf(s)']

LEMMA RowChanges ==
  ASSUME OutboxInv, NEW s \in Saves, NEW new, SetsRow(s, new)
  PROVE  /\ row'[s] = new /\ \A q \in Saves : q # s => row'[q] = row[q]
         /\ StageMoves(s)
         /\ (new.recorded <=> row[s].recorded) => UNCHANGED RecordedMap
         /\ new.recorded => RecordedMap' = RecordedMap \cup {s}
         /\ new.done = row[s].done => UNCHANGED ProgressMap
         /\ UNCHANGED starts /\ (row[s].recorded => new.recorded) /\ row[s].done <= new.done
              => \A q \in Saves : Grows(q)
<1>0. Typed
  BY DEF OutboxInv
<1>1. row'[s] = new /\ \A q \in Saves : q # s => row'[q] = row[q]
  BY <1>0, RowSet DEF SetsRow
<1>2. StageMoves(s)
  BY <1>1, StageBecomes DEF StageMoves
<1>3. (new.recorded <=> row[s].recorded) => UNCHANGED RecordedMap
  BY <1>1, RecordedSame
<1>4. new.recorded => RecordedMap' = RecordedMap \cup {s}
  BY <1>1 DEF RecordedMap
<1>5. new.done = row[s].done => UNCHANGED ProgressMap
  BY <1>1, ProgressSame
<1>6. UNCHANGED starts /\ (row[s].recorded => new.recorded) /\ row[s].done <= new.done
        => \A q \in Saves : Grows(q)
  BY <1>1, OneGrows
<1> QED
  BY <1>1, <1>2, <1>3, <1>4, <1>5, <1>6

LEMMA TakeIdNumbers ==
  ASSUME OutboxInv, NEW s \in Saves, TakeId(s)
  PROVE  QueueStep /\ \A q \in Saves : Grows(q)
<1>0. Typed /\ row[s] \in RowRecord /\ row[s].done \in Nat
  BY RowFields DEF OutboxInv
<1>1. PICK new : /\ SetsRow(s, new)
                 /\ new = [row[s] EXCEPT !.status = "inserting"]
  BY DEF TakeId, SetsRow
<1>2. /\ new.status = "inserting" /\ new.done = row[s].done
      /\ new.recorded = row[s].recorded
  BY <1>0, <1>1 DEF RowRecord
<1>3. /\ Status(s) = "absent" /\ \A q \in Saves : q < s => Status(q) # "absent"
      /\ before' = [before EXCEPT ![s] = Committed]
      /\ UNCHANGED <<run, starts, leave>>
  BY DEF TakeId
<1>a. SetsRow(s, new) /\ row[s].done <= new.done
  BY <1>0, <1>1, <1>2
<1>4. /\ StageMoves(s) /\ row'[s] = new
      /\ UNCHANGED <<RecordedMap, ProgressMap, EntryMap, FoundMap>>
      /\ \A q \in Saves : Grows(q)
  BY <1>a, <1>2, <1>3, RowChanges, RunsSame
<1>5. StageOf(s)' = "inserting"
  BY <1>2, <1>4 DEF StageOf
<1>6. /\ StageMap[s] = "absent"
      /\ \A q \in Saves : q < s => StageMap[q] # "absent"
  BY <1>0, <1>3, StageFacts
<1>7. Queue!Number(s)
  BY <1>0, <1>3, <1>4, <1>5, <1>6, CommittedMap
     DEF Queue!Number, Queue!Become, StageMoves, StageMap, RecordedMap, ProgressMap,
         EntryMap, FoundMap
<1> QED
  BY <1>4, <1>6, <1>7, SaveMoves

LEMMA CommitInsertCommits ==
  ASSUME OutboxInv, NEW s \in Saves, CommitInsert(s)
  PROVE  QueueStep /\ \A q \in Saves : Grows(q)
<1>0. Typed /\ row[s] \in RowRecord /\ row[s].done \in Nat /\ RowOK(s)
  BY RowFields DEF OutboxInv
<1>1. PICK new :
        /\ SetsRow(s, new)
        /\ new = [row[s] EXCEPT !.status = IF RecordKeys[s] = {} THEN "calls" ELSE "pending",
                                !.recorded = RecordKeys[s] = {}]
  BY DEF CommitInsert, SetsRow
<1>2. /\ new.status \in {"calls", "pending"} /\ new.done = row[s].done
      /\ new.recorded <=> RecordKeys[s] = {}
  BY <1>0, <1>1 DEF RowRecord
<1>3. Status(s) = "inserting" /\ UNCHANGED <<run, before, starts, leave>>
  BY DEF CommitInsert
<1>4. ~row[s].recorded
  BY <1>0, <1>3 DEF RowOK, Early
<1>a. SetsRow(s, new) /\ row[s].done <= new.done
  BY <1>0, <1>1, <1>2
<1>5. /\ StageMoves(s) /\ row'[s] = new
      /\ RecordKeys[s] # {} => UNCHANGED RecordedMap
      /\ RecordKeys[s] = {} => RecordedMap' = RecordedMap \cup {s}
      /\ UNCHANGED <<ProgressMap, EntryMap, FoundMap>>
      /\ \A q \in Saves : Grows(q)
  BY <1>a, <1>2, <1>3, <1>4, RowChanges, RunsSame
<1>6. StageOf(s)' = "open"
  BY <1>2, <1>5 DEF StageOf
<1>7. StageMap[s] = "inserting"
  BY <1>0, <1>3, StageFacts
<1>8. RecordedMap' = IF RecordKeys[s] = {} THEN RecordedMap \cup {s} ELSE RecordedMap
  BY <1>5
<1>9. Queue!Commit(s)
  BY <1>3, <1>5, <1>6, <1>7, <1>8
     DEF Queue!Commit, Queue!Become, StageMoves, StageMap, RecordedMap, ProgressMap,
         EntryMap, FoundMap
<1>10. Queue!Entering(s)
  BY <1>7, <1>9 DEF Queue!Entering, StageMap
<1> QED
  BY <1>5, <1>7, <1>10, SaveMoves

LEMMA AbortInsertRefuses ==
  ASSUME OutboxInv, NEW s \in Saves, AbortInsert(s)
  PROVE  QueueStep /\ \A q \in Saves : Grows(q)
<1>0. Typed /\ row[s] \in RowRecord /\ row[s].done \in Nat
  BY RowFields DEF OutboxInv
<1>1. PICK new : /\ SetsRow(s, new)
                 /\ new = [row[s] EXCEPT !.status = "refused"]
  BY DEF AbortInsert, SetsRow
<1>2. /\ new.status = "refused" /\ new.done = row[s].done
      /\ new.recorded = row[s].recorded
  BY <1>0, <1>1 DEF RowRecord
<1>3. Status(s) = "inserting" /\ UNCHANGED <<run, before, starts, leave>>
  BY DEF AbortInsert
<1>a. SetsRow(s, new) /\ row[s].done <= new.done
  BY <1>0, <1>1, <1>2
<1>4. /\ StageMoves(s) /\ row'[s] = new
      /\ UNCHANGED <<RecordedMap, ProgressMap, EntryMap, FoundMap>>
      /\ \A q \in Saves : Grows(q)
  BY <1>a, <1>2, <1>3, RowChanges, RunsSame
<1>5. StageOf(s)' = "refused"
  BY <1>2, <1>4 DEF StageOf
<1>6. StageMap[s] = "inserting"
  BY <1>0, <1>3, StageFacts
<1>7. Queue!Refuse(s)
  BY <1>3, <1>4, <1>5, <1>6
     DEF Queue!Refuse, Queue!Become, StageMoves, StageMap, RecordedMap, ProgressMap,
         EntryMap, FoundMap
<1>8. Queue!Entering(s)
  BY <1>6, <1>7 DEF Queue!Entering, StageMap
<1> QED
  BY <1>4, <1>6, <1>8, SaveMoves

LEMMA DiscardDiscards ==
  ASSUME OutboxInv, NEW s \in Saves, DiscardPendingSave(s)
  PROVE  QueueStep /\ \A q \in Saves : Grows(q)
<1>0. Typed /\ row[s] \in RowRecord /\ row[s].done \in Nat
  BY RowFields DEF OutboxInv
<1>1. PICK new : /\ SetsRow(s, new)
                 /\ new = [row[s] EXCEPT !.status = "discarded"]
  BY DEF DiscardPendingSave, SetsRow
<1>2. /\ new.status = "discarded" /\ new.done = row[s].done
      /\ new.recorded = row[s].recorded
  BY <1>0, <1>1 DEF RowRecord
<1>3. Status(s) = "failed" /\ UNCHANGED <<run, before, starts, leave>>
  BY DEF DiscardPendingSave
<1>a. SetsRow(s, new) /\ row[s].done <= new.done
  BY <1>0, <1>1, <1>2
<1>4. /\ StageMoves(s) /\ row'[s] = new
      /\ UNCHANGED <<RecordedMap, ProgressMap, EntryMap, FoundMap>>
      /\ \A q \in Saves : Grows(q)
  BY <1>a, <1>2, <1>3, RowChanges, RunsSame
<1>5. StageOf(s)' = "discarded"
  BY <1>2, <1>4 DEF StageOf
<1>6. StageMap[s] = "failed"
  BY <1>0, <1>3, StageFacts
<1>7. Queue!Discard(s)
  BY <1>3, <1>4, <1>5, <1>6
     DEF Queue!Discard, Queue!Become, StageMoves, StageMap, RecordedMap, ProgressMap,
         EntryMap, FoundMap
<1>8. Queue!Mending(s)
  BY <1>6, <1>7 DEF Queue!Mending, StageMap
<1> QED
  BY <1>4, <1>6, <1>8, SaveMoves

(***************************************************************************)
(* A retry of a save whose records are applied lets its call start again.  *)
(***************************************************************************)
LEMMA Excused ==
  ASSUME Typed, NEW s \in Saves, leave' = [leave EXCEPT ![s][row[s].done + 1] = @ + 1]
  PROVE  Queue!Excuse(s)
<1>1. ProgressMap[s] = row[s].done
  BY StageFacts
<1> QED
  BY <1>1 DEF Queue!Excuse, ProgressMap

LEMMA RetryRetries ==
  ASSUME OutboxInv, NEW s \in Saves, RetryPendingSave(s)
  PROVE  QueueStep /\ \A q \in Saves : Grows(q)
<1>0. Typed /\ row[s] \in RowRecord /\ row[s].done \in Nat
  BY RowFields DEF OutboxInv
<1>1. PICK new :
        /\ SetsRow(s, new)
        /\ new = [row[s] EXCEPT !.status = IF row[s].recorded THEN "calls" ELSE "pending",
                                !.attempts = 0]
  BY DEF RetryPendingSave, SetsRow
<1>2. /\ new.status \in {"calls", "pending"} /\ new.done = row[s].done
      /\ new.recorded = row[s].recorded
  BY <1>0, <1>1 DEF RowRecord
<1>3. /\ Status(s) = "failed" /\ UNCHANGED <<run, before, starts>>
      /\ IF row[s].recorded /\ row[s].done < Calls[s]
         THEN leave' = [leave EXCEPT ![s][row[s].done + 1] = @ + 1]
         ELSE UNCHANGED leave
  BY DEF RetryPendingSave
<1>a. SetsRow(s, new) /\ row[s].done <= new.done
  BY <1>0, <1>1, <1>2
<1>4. /\ StageMoves(s) /\ row'[s] = new
      /\ UNCHANGED <<RecordedMap, ProgressMap, EntryMap, FoundMap>>
      /\ \A q \in Saves : Grows(q)
  BY <1>a, <1>2, <1>3, RowChanges, RunsSame
<1>5. StageOf(s)' = "open"
  BY <1>2, <1>4 DEF StageOf
<1>6. /\ StageMap[s] = "failed" /\ (s \in RecordedMap <=> row[s].recorded)
      /\ ProgressMap[s] = row[s].done
  BY <1>0, <1>3, StageFacts
<1>7. IF s \in RecordedMap /\ ProgressMap[s] < Calls[s]
      THEN Queue!Excuse(s) ELSE UNCHANGED leave
  BY <1>0, <1>3, <1>6, Excused
<1>8. Queue!Retry(s)
  BY <1>3, <1>4, <1>5, <1>6, <1>7
     DEF Queue!Retry, Queue!Become, StageMoves, StageMap, RecordedMap, ProgressMap,
         EntryMap, FoundMap
<1>9. Queue!Mending(s)
  BY <1>6, <1>8 DEF Queue!Mending, StageMap
<1> QED
  BY <1>4, <1>6, <1>9, SaveMoves

(***************************************************************************)
(* The lease of a claim is nothing the queue sees.                         *)
(***************************************************************************)
LEMMA LeaseUnseen ==
  ASSUME OutboxInv, NEW s \in Saves, NEW lapsed \in BOOLEAN,
         row' = [row EXCEPT ![s].lapsed = lapsed], UNCHANGED <<run, before, starts, leave>>
  PROVE  QueueStep /\ \A q \in Saves : Grows(q)
<1>0. Typed /\ row[s] \in RowRecord /\ row[s].done \in Nat
  BY RowFields DEF OutboxInv
<1>1. PICK new : SetsRow(s, new) /\ new = [row[s] EXCEPT !.lapsed = lapsed]
  BY DEF SetsRow
<1>2. /\ new.status = row[s].status /\ new.done = row[s].done
      /\ new.recorded = row[s].recorded
  BY <1>0, <1>1 DEF RowRecord
<1>a. SetsRow(s, new) /\ row[s].done <= new.done
  BY <1>0, <1>1, <1>2
<1>3. /\ row'[s] = new /\ \A q \in Saves : q # s => row'[q] = row[q]
      /\ \A q \in Saves : Grows(q)
  BY <1>a, <1>2, RowChanges
<1>4. SaveStays(s)
  BY <1>2, <1>3 DEF SaveStays, StageOf
<1> QED
  BY <1>3, <1>4, RowUnseen

LEMMA SaveStepImplements ==
  ASSUME OutboxInv, OutboxInv', RunInv, NEW s \in Saves, SaveStep(s)
  PROVE  QueueStep /\ RunInv'
<1>1. QueueStep /\ \A q \in Saves : Grows(q)
  <2>1. CASE LeaseLapses(s)
    BY <2>1, LeaseUnseen DEF LeaseLapses
  <2> QED
    BY <2>1, TakeIdNumbers, CommitInsertCommits, AbortInsertRefuses, RetryRetries,
       DiscardDiscards DEF SaveStep
<1>2. UNCHANGED task
  BY DEF SaveStep, TakeId, CommitInsert, AbortInsert, LeaseLapses, RetryPendingSave,
     DiscardPendingSave
<1> QED
  BY <1>1, <1>2, RunnersSame DEF OutboxInv

-----------------------------------------------------------------------------
(* The steps of the tasks: applying a row's records.                       *)

(***************************************************************************)
(* A task that is at no call afterwards.                                   *)
(***************************************************************************)
LEMMA NoRunner ==
  ASSUME OutboxInv, OutboxInv', RunInv, \A s \in Saves : Grows(s),
         NEW t \in Applier, NEW to, task' = [task EXCEPT ![t] = to], to.pc \notin Running
  PROVE  RunInv'
<1>1. task'[t] = to /\ OthersStay(t)
  BY TaskIs DEF OthersStay
<1> QED
  BY <1>1, RunnersKept DEF OutboxInv

LEMMA RestImplements ==
  ASSUME OutboxInv, OutboxInv', RunInv, NEW t \in Applier, NEW to,
         task' = [task EXCEPT ![t] = to], to.pc \notin Running,
         UNCHANGED <<row, run, before, starts, leave>>
  PROVE  QueueStep /\ RunInv'
<1>1. \A s \in Saves : Grows(s)
  BY NothingGrows
<1> QED
  BY <1>1, NoRunner, RowsUnseen

LEMMA OffCalls ==
  /\ "idle" \notin Running
  /\ \A pc \in Applying : pc \notin Running
  BY PcNames, IdleFacts

LEMMA IdleImplements ==
  ASSUME OutboxInv, OutboxInv', RunInv, NEW t \in Applier,
         task' = [task EXCEPT ![t] = Idle], UNCHANGED <<row, run, before, starts, leave>>
  PROVE  QueueStep /\ RunInv'
<1>1. Idle.pc \notin Running
  BY IdleFacts, OffCalls
<1> QED
  BY <1>1, RestImplements

LEMMA ApplyOnceImplements ==
  ASSUME OutboxInv, OutboxInv', RunInv, NEW t \in Applier, ApplyOnce(t)
  PROVE  QueueStep /\ RunInv'
<1>1. /\ task[t].pc = "locking" /\ task[t].pc \in Applying
      /\ UNCHANGED <<row, run, before, starts, leave>>
  BY DEF ApplyOnce, Applying
<1>2. task[t] \in TaskRecord
  BY TaskFields DEF OutboxInv
<1>3. PICK s \in Saves : s = Last(task[t].stack)
  BY <1>1, StackOf
<1>4. PICK to : task' = [task EXCEPT ![t] = to] /\ to.pc \in {"idle"} \cup Applying
  <2> DEFINE older == OlderUnapplied(s)
             longer == [task[t] EXCEPT !.stack = Append(task[t].stack, Oldest(older))]
             writing == [task[t] EXCEPT !.pc = "writing"]
  <2>1. longer.pc = "locking" /\ writing.pc = "writing" /\ Idle.pc = "idle"
    BY <1>1, <1>2, IdleFacts DEF TaskRecord
  <2>2. \/ task' = [task EXCEPT ![t] = Idle] \/ task' = [task EXCEPT ![t] = longer]
        \/ task' = [task EXCEPT ![t] = RowDone(t)] \/ task' = [task EXCEPT ![t] = writing]
    BY <1>3 DEF ApplyOnce
  <2>3. RowDone(t).pc \in {"idle", "locking"}
    BY <1>1, RowDoneFacts
  <2> HIDE DEF longer, writing
  <2> QED
    BY <2>1, <2>2, <2>3 DEF Applying
<1>5. to.pc \notin Running
  BY <1>4, OffCalls
<1> QED
  BY <1>1, <1>4, <1>5, RestImplements

LEMMA CommitRecordsApplies ==
  ASSUME OutboxInv, OutboxInv', RunInv, NEW t \in Applier, CommitRecords(t)
  PROVE  QueueStep /\ RunInv'
<1>1. /\ task[t].pc = "writing" /\ task[t].pc \in Applying
      /\ UNCHANGED <<run, before, starts, leave>> /\ task' = [task EXCEPT ![t] = RowDone(t)]
  BY DEF CommitRecords, Applying
<1>2. PICK s \in Saves : s = Last(task[t].stack)
  BY <1>1, StackOf
<1>3. Status(s) = "pending" /\ RecordsBehind(s)
  BY <1>1, <1>2 DEF OutboxInv, TaskOK
<1>0. /\ Typed /\ row[s] \in RowRecord /\ row[s].done \in Nat /\ RowOK(s)
      /\ before[s] \subseteq Saves
  BY RowFields DEF OutboxInv, Typed
<1>4. PICK new :
        /\ SetsRow(s, new)
        /\ new = [row[s] EXCEPT !.status = IF Calls[s] = 0 THEN "applied" ELSE "calls",
                                !.attempts = 0, !.recorded = TRUE]
  BY <1>2 DEF CommitRecords, SetsRow
<1>5. /\ new.status = IF Calls[s] = 0 THEN "applied" ELSE "calls"
      /\ new.done = row[s].done /\ new.recorded
  BY <1>0, <1>4 DEF RowRecord
<1>6. SetsRow(s, new) /\ row[s].done <= new.done
  BY <1>0, <1>4, <1>5
<1>7. /\ StageMoves(s) /\ row'[s] = new /\ RecordedMap' = RecordedMap \cup {s}
      /\ UNCHANGED <<ProgressMap, EntryMap, FoundMap>>
      /\ \A q \in Saves : Grows(q)
  BY <1>1, <1>5, <1>6, RowChanges, RunsSame
<1>8. StageOf(s)' = IF Calls[s] = 0 THEN "applied" ELSE "open"
  BY <1>5, <1>7 DEF StageOf
<1>9. StageMap[s] = "open" /\ s \notin RecordedMap
  BY <1>0, <1>3, StageFacts DEF RowOK, Early
<1>10. \A q \in before[s] : Queue!SameRecord(q, s) =>
         q \in RecordedMap \/ StageMap[q] = "discarded"
  BY <1>0, <1>3, StageFacts DEF RecordsBehind, SameRecord, Queue!SameRecord
<1>11. Queue!Apply(s)
  BY <1>1, <1>7, <1>8, <1>9, <1>10
     DEF Queue!Apply, Queue!Become, StageMoves, StageMap, RecordedMap, ProgressMap,
         EntryMap,
         FoundMap
<1>12. Queue!Working(s)
  BY <1>9, <1>11 DEF Queue!Working, StageMap
<1>13. RowDone(t).pc \notin Running
  <2>1. RowDone(t).pc \in {"idle", "locking"}
    BY <1>1, RowDoneFacts
  <2> QED
    BY <2>1, OffCalls DEF Applying
<1>14. RunInv'
  BY <1>1, <1>7, <1>13, NoRunner
<1> QED
  BY <1>9, <1>12, <1>14, SaveMoves

(***************************************************************************)
(* A row of which only the status moves, and its attempts and its claim.   *)
(***************************************************************************)
LEMMA FailsOrStays ==
  ASSUME OutboxInv, NEW s \in Saves, NEW new, SetsRow(s, new), new.done = row[s].done,
         new.recorded = row[s].recorded, UNCHANGED <<run, before, starts, leave>>,
         Status(s) \in {"pending", "calls", "running"},
         new.status \in {"pending", "calls", "running", "failed"}
  PROVE  QueueStep /\ \A q \in Saves : Grows(q)
<1>0. Typed /\ row[s].done \in Nat
  BY RowFields DEF OutboxInv
<1>1. SetsRow(s, new) /\ row[s].done <= new.done
  BY <1>0
<1>2. /\ StageMoves(s) /\ row'[s] = new /\ \A q \in Saves : q # s => row'[q] = row[q]
      /\ UNCHANGED <<RecordedMap, ProgressMap, EntryMap, FoundMap>>
      /\ \A q \in Saves : Grows(q)
  BY <1>1, RowChanges, RunsSame
<1>3. StageMap[s] = "open" /\ StageOf(s) = "open"
  BY <1>0, StageFacts
<1>4. CASE new.status = "failed"
  <2>1. StageOf(s)' = "failed"
    BY <1>2, <1>4 DEF StageOf
  <2>2. Queue!Fail(s)
    BY <1>2, <1>3, <2>1
       DEF Queue!Fail, Queue!Become, StageMoves, StageMap, RecordedMap, ProgressMap,
           EntryMap, FoundMap
  <2>3. Queue!Working(s)
    BY <1>3, <2>2 DEF Queue!Working, StageMap
  <2> QED
    BY <1>2, <1>3, <2>3, SaveMoves
<1>5. CASE new.status # "failed"
  <2>1. StageOf(s)' = "open"
    BY <1>2, <1>5 DEF StageOf
  <2>2. SaveStays(s)
    BY <1>2, <1>3, <2>1 DEF SaveStays
  <2> QED
    BY <1>2, <2>2, RowUnseen
<1> QED
  BY <1>4, <1>5

LEMMA ApplyFailureImplements ==
  ASSUME OutboxInv, OutboxInv', RunInv, NEW t \in Applier, RecordApplyFailure(t)
  PROVE  QueueStep /\ RunInv'
<1>1. /\ task[t].pc \in Applying
      /\ UNCHANGED <<run, before, starts, leave>> /\ task' = [task EXCEPT ![t] = Idle]
  BY DEF RecordApplyFailure, Applying
<1>2. PICK s \in Saves : s = Last(task[t].stack)
  BY <1>1, StackOf
<1>3. CASE Status(s) # "pending"
  <2>1. UNCHANGED row
    BY <1>2, <1>3 DEF RecordApplyFailure
  <2> QED
    BY <1>1, <2>1, IdleImplements
<1>4. CASE Status(s) = "pending"
  <2> DEFINE Set(status) ==
        [row[s] EXCEPT !.status = status, !.attempts = row[s].attempts + 1]
  <2>1. PICK status \in {"pending", "failed"} : SetsRow(s, Set(status))
    BY <1>2, <1>4 DEF RecordApplyFailure, SetsRow
  <2> DEFINE new == Set(status)
  <2>2. row[s] \in RowRecord
    BY RowFields DEF OutboxInv
  <2>3. /\ new.done = row[s].done /\ new.recorded = row[s].recorded
        /\ new.status = status
    BY <2>1, <2>2 DEF RowRecord
  <2>4. SetsRow(s, new) /\ new.status \in {"pending", "calls", "running", "failed"}
    BY <2>1, <2>3
  <2>5. QueueStep /\ \A q \in Saves : Grows(q)
    BY <1>1, <1>4, <2>3, <2>4, FailsOrStays
  <2>6. Idle.pc \notin Running
    BY IdleFacts, OffCalls
  <2> QED
    BY <1>1, <2>5, <2>6, NoRunner
<1> QED
  BY <1>3, <1>4

-----------------------------------------------------------------------------
(* The steps of the tasks: claiming a row and making its calls.            *)

LEMMA ClaimImplements ==
  ASSUME OutboxInv, OutboxInv', RunInv, NEW t \in Applier, NEW s \in Saves, ClaimCalls(t, s)
  PROVE  QueueStep /\ RunInv'
<1>0. /\ row[s] \in RowRecord /\ row[s].done \in Nat /\ RowOK(s)
  BY RowFields DEF OutboxInv
<1>1. PICK pc \in {"ready", "interrupted"} :
        task' = [task EXCEPT ![t] = AtCall(pc, s, row[s].done)]
  BY DEF ClaimCalls
<1>2. PICK to : /\ task' = [task EXCEPT ![t] = to]
                /\ to.pc = pc /\ to.call = s /\ to.index = row[s].done
  <2>1. pc \in TaskPc
    BY CallPcs
  <2>2. /\ AtCall(pc, s, row[s].done).pc = pc /\ AtCall(pc, s, row[s].done).call = s
        /\ AtCall(pc, s, row[s].done).index = row[s].done
    BY <1>0, <2>1, AtCallFacts
  <2> QED
    BY <1>1, <2>2
<1>3. task'[t] = to /\ OthersStay(t)
  BY <1>2, TaskIs DEF OthersStay
<1>4. PICK attempts, new :
        /\ SetsRow(s, new)
        /\ new = [row[s] EXCEPT !.status = "running", !.claim = t, !.lapsed = FALSE,
                                !.attempts = attempts]
  BY DEF ClaimCalls, SetsRow
<1>5. new.status = "running" /\ new.done = row[s].done /\ new.recorded = row[s].recorded
  BY <1>0, <1>4 DEF RowRecord
<1>6. Status(s) \in {"calls", "running"} /\ UNCHANGED <<run, before, starts, leave>>
  BY DEF ClaimCalls
<1>7. SetsRow(s, new) /\ new.status \in {"pending", "calls", "running", "failed"}
  BY <1>4, <1>5
<1>8. QueueStep /\ \A q \in Saves : Grows(q)
  BY <1>5, <1>6, <1>7, FailsOrStays
<1>9. row'[s] = new /\ row[s].recorded
  BY <1>0, <1>6, <1>7, RowSet DEF SetsRow, RowOK, OutboxInv
<1>10. AtDueCall(t)'
  <2>1. new.recorded
    BY <1>5, <1>9
  <2>2. task'[t].call = s /\ task'[t].index <= row'[s].done
    BY <1>0, <1>2, <1>3, <1>5, <1>9
  <2>3. task'[t].pc \notin {"calling", "called", "raised"}
    BY <1>1, <1>2, <1>3
  <2> QED
    BY <1>9, <2>1, <2>2, <2>3 DEF AtDueCall
<1> QED
  BY <1>3, <1>8, <1>10, RunnersKept DEF OutboxInv

LEMMA InterruptedImplements ==
  ASSUME OutboxInv, OutboxInv', RunInv, NEW t \in Applier, FailInterrupted(t)
  PROVE  QueueStep /\ RunInv'
<1>1. /\ task[t].pc \in Running
      /\ UNCHANGED <<run, before, starts, leave>> /\ task' = [task EXCEPT ![t] = Idle]
  BY CallPcs DEF FailInterrupted
<1>2. PICK s \in Saves : s = task[t].call
  BY <1>1, CallOf
<1>3. CASE ~UnderClaim(t, s)
  <2>1. UNCHANGED row
    BY <1>2, <1>3 DEF FailInterrupted
  <2> QED
    BY <1>1, <2>1, IdleImplements
<1>4. CASE UnderClaim(t, s)
  <2>1. PICK new :
          /\ SetsRow(s, new)
          /\ new = [row[s] EXCEPT !.status = "failed", !.claim = NoApplier, !.lapsed = FALSE]
    BY <1>2, <1>4 DEF FailInterrupted, SetsRow
  <2>2. row[s] \in RowRecord
    BY RowFields DEF OutboxInv
  <2>3. /\ new.done = row[s].done /\ new.recorded = row[s].recorded
        /\ new.status = "failed"
    BY <2>1, <2>2 DEF RowRecord
  <2>4. SetsRow(s, new) /\ Status(s) = "running"
    BY <1>4, <2>1 DEF UnderClaim
  <2>5. QueueStep /\ \A q \in Saves : Grows(q)
    BY <1>1, <2>3, <2>4, FailsOrStays
  <2>6. Idle.pc \notin Running
    BY IdleFacts, OffCalls
  <2> QED
    BY <1>1, <2>5, <2>6, NoRunner
<1> QED
  BY <1>3, <1>4

(***************************************************************************)
(* The calls of a save that a runner is at are due, or were.               *)
(***************************************************************************)
LEMMA CallsAreDue ==
  ASSUME OutboxInv, RunInv, NEW t \in Applier, task[t].pc \in Running
  PROVE  \E s \in Saves :
           /\ s = task[t].call /\ row[s].recorded /\ Queue!CallsDue(s)
           /\ task[t].index \in Nat /\ row[s].done \in Nat /\ task[t].index <= row[s].done
<1>1. PICK s \in Saves : /\ s = task[t].call /\ CallsBehind(s) /\ task[t].index \in Nat
  BY CallOf
<1>2. row[s].recorded /\ task[t].index <= row[s].done
  BY <1>1 DEF RunInv, AtDueCall
<1>3. Typed /\ row[s].done \in Nat /\ before[s] \subseteq Saves
  BY RowFields DEF OutboxInv, Typed
<1>4. \A q \in before[s] : Queue!SameSubject(q, s) => StageMap[q] \in Gone
  BY <1>1, <1>3, StageFacts, StatusNames DEF CallsBehind, SameSubject, Queue!SameSubject
<1>5. s \in RecordedMap
  BY <1>2 DEF RecordedMap
<1>6. Queue!CallsDue(s)
  BY <1>4, <1>5, StatusNames DEF Queue!CallsDue, Queue!Gone, StageMap, RecordedMap
<1> QED
  BY <1>1, <1>2, <1>3, <1>6

(***************************************************************************)
(* A runner that starts a call that may not be run again has paid for it.  *)
(***************************************************************************)
LEMMA StartPaid ==
  ASSUME Typed, PaidInv, NEW t \in Applier, NEW s \in Saves \ Resumable,
         NEW c \in 1..Calls[s], t \in AtStart(s, c)
  PROVE  starts[s][c] <= leave[s][c]
<1>1. PaidFor(s, c)
  BY DEF PaidInv
<1>2. {} \subseteq AtStart(s, c) \ {t}
  OBVIOUS
<1>3. /\ Cardinality({}) \in Nat /\ Cardinality(AtStart(s, c)) \in Nat
      /\ Cardinality({}) + 1 <= Cardinality(AtStart(s, c))
  BY <1>1, <1>2, OneLessCount DEF PaidFor
<1>4. starts[s] \in [1..Calls[s] -> Nat] /\ leave[s] \in [1..Calls[s] -> Nat]
  BY DEF Typed
<1>5. starts[s][c] \in Nat
  BY <1>4, Zenon
<1>6. leave[s][c] \in Nat
  BY <1>4, Zenon
<1>7. Credit(s, c) \in {0, 1}
  BY DEF Credit
<1>8. starts[s][c] + Cardinality(AtStart(s, c)) + Credit(s, c) <= 1 + leave[s][c]
  BY <1>1 DEF PaidFor
<1> QED
  BY <1>3, <1>5, <1>6, <1>7, <1>8

LEMMA StartsGrow ==
  ASSUME OutboxInv, NEW s \in Saves, NEW i \in Nat, i + 1 \in 1..Calls[s],
         starts' = [starts EXCEPT ![s][i + 1] = @ + 1], UNCHANGED row
  PROVE  starts'[s][i + 1] > 0 /\ \A q \in Saves : Grows(q)
<1>1. /\ DOMAIN starts = Saves /\ DOMAIN starts[s] = 1..Calls[s]
      /\ starts[s] \in [1..Calls[s] -> Nat]
  BY DEF OutboxInv, Typed
<1>2. starts[s][i + 1] \in Nat
  BY <1>1, Zenon
<1>3. starts' = [starts EXCEPT ![s] = [starts[s] EXCEPT ![i + 1] = starts[s][i + 1] + 1]]
  OBVIOUS
<1>4. starts'[s] = [starts[s] EXCEPT ![i + 1] = starts[s][i + 1] + 1]
  BY <1>1, <1>3
<1>5. \A q \in Saves : q # s => starts'[q] = starts[q]
  BY <1>1, <1>3
<1>6. starts'[s][i + 1] > 0
  BY <1>1, <1>2, <1>4
<1>7. \A c \in 1..Calls[s] : starts[s][c] > 0 => starts'[s][c] > 0
  BY <1>1, <1>2, <1>4
<1>8. \A q \in Saves : row[q].done \in Nat
  BY RowFields DEF OutboxInv
<1> QED
  BY <1>5, <1>6, <1>7, <1>8 DEF Grows

LEMMA StartCallStarts ==
  ASSUME OutboxInv, OutboxInv', PaidInv, RunInv, NEW t \in Applier, StartCall(t)
  PROVE  QueueStep /\ RunInv'
<1>1. task[t].pc = "ready" /\ task[t].pc \in Running
  BY CallPcs DEF StartCall
<1>2. PICK s \in Saves, i \in Nat, to \in TaskRecord :
        /\ s = task[t].call /\ i = task[t].index /\ i < Calls[s]
        /\ starts' = [starts EXCEPT ![s][i + 1] = @ + 1]
        /\ UNCHANGED <<row, run, before, leave>>
        /\ task' = [task EXCEPT ![t] = to] /\ to.pc \in {"raised", "calling"}
        /\ to.call = s /\ to.index = i
  BY StartedTask
<1>3. row[s].recorded /\ Queue!CallsDue(s) /\ row[s].done \in Nat /\ i <= row[s].done
  BY <1>1, <1>2, CallsAreDue
<1>0. Typed /\ RowOK(s) /\ Calls[s] \in Nat
  BY ConstantTypes DEF OutboxInv
<1>4. PICK c \in 1..Calls[s] : c = i + 1
  BY <1>0, <1>2
<1>5. starts'[s][i + 1] > 0 /\ \A q \in Saves : Grows(q)
  BY <1>2, <1>4, StartsGrow
<1>6. ASSUME s \notin Resumable PROVE starts[s][c] <= leave[s][c]
  <2>1. t \in AtStart(s, c)
    BY <1>1, <1>2, <1>4 DEF AtStart
  <2> QED
    BY <1>0, <1>6, <2>1, StartPaid
<1>7. /\ UNCHANGED <<StageMap, RecordedMap, ProgressMap, EntryMap, FoundMap>>
  <2>1. \A q \in Saves : SaveStays(q)
    BY <1>2 DEF SaveStays, StageOf
  <2> QED
    BY <1>2, <2>1, StagesSame, RecordedSame, ProgressSame, RunsSame DEF SaveStays
<1>8. c <= ProgressMap[s] + 1
  BY <1>0, <1>3, <1>4, StageFacts
<1>9. starts' = [starts EXCEPT ![s][c] = @ + 1]
  BY <1>2, <1>4
<1>10. Queue!Start(s, c)
  BY <1>2, <1>3, <1>6, <1>7, <1>8, <1>9
     DEF Queue!Start, StageMap, RecordedMap, ProgressMap, EntryMap, FoundMap
<1>11. Queue!Calling(s)
  BY <1>10 DEF Queue!Calling
<1>12. task'[t] = to /\ OthersStay(t)
  BY <1>2, TaskIs DEF OthersStay
<1>13. AtDueCall(t)'
  BY <1>2, <1>3, <1>5, <1>12 DEF AtDueCall
<1> QED
  BY <1>5, <1>11, <1>12, <1>13, SaveMoves, RunnersKept DEF OutboxInv

LEMMA NotedImplements ==
  ASSUME OutboxInv, OutboxInv', RunInv, NEW t \in Applier, NEW s \in Saves,
         NEW to \in TaskRecord, NotesDone(t, s, to)
  PROVE  QueueStep /\ RunInv'
<1>1. /\ task[t].pc = "called" /\ task[t].pc \in Running /\ s = task[t].call
      /\ row[s].claim = t /\ UNCHANGED <<run, before, starts, leave>>
  BY CallPcs DEF NotesDone
<1>2. row[s].recorded /\ task[t].index \in Nat /\ row[s].done \in Nat
  BY <1>1, CallsAreDue
<1>3. /\ task[t].index = row[s].done /\ Status(s) = "running"
      /\ task[t].index < Calls[s]
  BY <1>1, CallOf
<1>4. starts[s][task[t].index + 1] > 0
  BY <1>1 DEF RunInv, AtDueCall
<1>0. Typed /\ row[s] \in RowRecord
  BY RowFields DEF OutboxInv
<1>5. PICK n \in Nat : n = row[s].done + 1
  BY <1>2
<1>6. /\ task' = [task EXCEPT ![t] = to]
      /\ to.pc \in {"ready", "unheard"} /\ to.call = s /\ to.index = n
  BY <1>5 DEF NotesDone
<1>7. PICK new : SetsRow(s, new) /\ new = [row[s] EXCEPT !.done = n]
  BY <1>5 DEF NotesDone, SetsRow
<1>8. new.done = n /\ new.status = row[s].status /\ new.recorded = row[s].recorded
  BY <1>0, <1>7 DEF RowRecord
<1>9. SetsRow(s, new) /\ row[s].done <= new.done
  BY <1>2, <1>5, <1>7, <1>8
<1>10. /\ row'[s] = new /\ \A q \in Saves : q # s => row'[q] = row[q]
       /\ UNCHANGED RecordedMap /\ \A q \in Saves : Grows(q)
  BY <1>1, <1>8, <1>9, RowChanges
<1>11. UNCHANGED StageMap
  <2>1. StageOf(s)' = StageOf(s)
    BY <1>8, <1>10 DEF StageOf
  <2> QED
    BY <1>10, <2>1, OtherStages, StagesSame
<1>12. ProgressMap' = [ProgressMap EXCEPT ![s] = ProgressMap[s] + 1]
  BY <1>5, <1>8, <1>10 DEF ProgressMap
<1>13. StageMap[s] = "open" /\ ProgressMap[s] = row[s].done
  BY <1>0, <1>3, StageFacts
<1>14. Queue!CallEnds(s)
  BY <1>3, <1>4, <1>13 DEF Queue!CallEnds, StageMap, ProgressMap
<1>15. UNCHANGED <<EntryMap, FoundMap>>
  BY <1>1, RunsSame
<1>16. Queue!Done(s)
  BY <1>1, <1>10, <1>11, <1>12, <1>14, <1>15
     DEF Queue!Done, StageMap, RecordedMap, ProgressMap, EntryMap, FoundMap
<1>17. Queue!Working(s)
  BY <1>13, <1>16 DEF Queue!Working, StageMap
<1>18. task'[t] = to /\ OthersStay(t)
  BY <1>6, TaskIs DEF OthersStay
<1>19. AtDueCall(t)'
  <2>1. new.recorded
    BY <1>2, <1>8
  <2> QED
    BY <1>6, <1>8, <1>10, <1>18, <2>1 DEF AtDueCall
<1> QED
  BY <1>10, <1>17, <1>18, <1>19, SaveMoves, RunnersKept DEF OutboxInv

LEMMA CallDoneImplements ==
  ASSUME OutboxInv, OutboxInv', RunInv, NEW t \in Applier, CallDone(t)
  PROVE  QueueStep /\ RunInv'
<1>1. CASE row[task[t].call].claim # t
  <2>1. /\ task' = [task EXCEPT ![t] = Idle]
        /\ UNCHANGED <<row, run, before, starts, leave>>
    BY <1>1 DEF CallDone
  <2> QED
    BY <2>1, IdleImplements
<1>2. CASE row[task[t].call].claim = t
  BY <1>2, DoneIsNoted, NotedImplements
<1> QED
  BY <1>1, <1>2

LEMMA DeleteImplements ==
  ASSUME OutboxInv, OutboxInv', RunInv, NEW t \in Applier, DeleteClaimed(t)
  PROVE  QueueStep /\ RunInv'
<1>1. /\ task[t].pc \in Running /\ task' = [task EXCEPT ![t] = Idle]
      /\ UNCHANGED <<run, before, starts, leave>>
  BY CallPcs DEF DeleteClaimed
<1>2. PICK s \in Saves : s = task[t].call /\ Queue!CallsDue(s) /\ row[s].done \in Nat
  BY <1>1, CallsAreDue
<1>3. /\ row[s].claim = t => task[t].index = row[s].done
      /\ row[s].claim = t => Status(s) = "running"
      /\ task[t].index = Calls[s]
  BY <1>1, <1>2, CallOf DEF DeleteClaimed
<1>0. Typed /\ row[s] \in RowRecord
  BY RowFields DEF OutboxInv
<1>4. CASE row[s].claim # t
  <2>1. UNCHANGED row
    BY <1>2, <1>4 DEF DeleteClaimed
  <2> QED
    BY <1>1, <2>1, IdleImplements
<1>5. CASE row[s].claim = t
  <2>1. PICK new :
          /\ SetsRow(s, new)
          /\ new = [row[s] EXCEPT !.status = "applied", !.claim = NoApplier, !.lapsed = FALSE]
    BY <1>2, <1>5 DEF DeleteClaimed, SetsRow
  <2>2. new.status = "applied" /\ new.done = row[s].done /\ new.recorded = row[s].recorded
    BY <1>0, <2>1 DEF RowRecord
  <2>3. SetsRow(s, new) /\ row[s].done <= new.done
    BY <1>2, <2>1, <2>2
  <2>4. /\ StageMoves(s) /\ row'[s] = new
        /\ UNCHANGED <<RecordedMap, ProgressMap, EntryMap, FoundMap>>
        /\ \A q \in Saves : Grows(q)
    BY <1>1, <2>2, <2>3, RowChanges, RunsSame
  <2>5. StageOf(s)' = "applied"
    BY <2>2, <2>4 DEF StageOf
  <2>6. StageMap[s] = "open" /\ ProgressMap[s] = Calls[s]
    BY <1>0, <1>3, <1>5, StageFacts
  <2>7. Queue!Finish(s)
    BY <1>1, <1>2, <2>4, <2>5, <2>6
       DEF Queue!Finish, Queue!Become, StageMoves, StageMap, RecordedMap, ProgressMap,
           EntryMap, FoundMap
  <2>8. Queue!Working(s)
    BY <2>6, <2>7 DEF Queue!Working, StageMap
  <2>9. Idle.pc \notin Running
    BY IdleFacts, OffCalls
  <2> QED
    BY <1>1, <2>4, <2>8, <2>9, SaveMoves, NoRunner
<1> QED
  BY <1>4, <1>5

LEMMA CallFailureImplements ==
  ASSUME OutboxInv, OutboxInv', RunInv, NEW t \in Applier, RecordCallFailure(t)
  PROVE  QueueStep /\ RunInv'
<1>1. /\ task[t].pc \in {"raised", "unheard"} /\ task[t].pc \in Running
      /\ task' = [task EXCEPT ![t] = Idle] /\ UNCHANGED <<run, before, starts>>
  BY CallPcs DEF RecordCallFailure
<1>2. PICK s \in Saves : /\ s = task[t].call /\ row[s].done \in Nat /\ row[s].recorded
                         /\ task[t].index \in Nat
  BY <1>1, CallsAreDue
<1>3. /\ row[s].claim = t => task[t].index = row[s].done
      /\ task[t].pc = "raised" => task[t].index < Calls[s]
  BY <1>1, <1>2, CallOf
<1>4. task[t].pc = "raised" => starts[s][task[t].index + 1] > 0
  BY <1>1, <1>2 DEF RunInv, AtDueCall
<1>0. Typed /\ row[s] \in RowRecord
  BY RowFields DEF OutboxInv
<1>5. CASE ~UnderClaim(t, s)
  <2>1. UNCHANGED <<row, leave>>
    BY <1>2, <1>5 DEF RecordCallFailure
  <2> QED
    BY <1>1, <2>1, IdleImplements
<1>6. CASE UnderClaim(t, s)
  <2>1. PICK status \in {"calls", "failed"} :
          /\ row' = [row EXCEPT ![s] = [row[s] EXCEPT !.status = status,
                                          !.claim = NoApplier, !.lapsed = FALSE]]
          /\ status = "calls" /\ task[t].pc = "raised" =>
               leave' = [leave EXCEPT ![s][row[s].done + 1] = @ + 1]
          /\ status = "failed" \/ task[t].pc = "unheard" => UNCHANGED leave
    BY <1>1, <1>2, <1>6 DEF RecordCallFailure
  <2>a. PICK new :
          /\ SetsRow(s, new)
          /\ new = [row[s] EXCEPT !.status = status, !.claim = NoApplier, !.lapsed = FALSE]
    BY <2>1 DEF SetsRow
  <2>2. new.status = status /\ new.done = row[s].done /\ new.recorded = row[s].recorded
    BY <1>0, <2>a DEF RowRecord
  <2>3. SetsRow(s, new) /\ row[s].done <= new.done
    BY <1>2, <2>a, <2>2
  <2>4. /\ row'[s] = new /\ \A q \in Saves : q # s => row'[q] = row[q]
        /\ UNCHANGED <<RecordedMap, ProgressMap, EntryMap, FoundMap>>
        /\ \A q \in Saves : Grows(q)
    BY <1>1, <2>2, <2>3, RowChanges, RunsSame
  <2>5. Idle.pc \notin Running
    BY IdleFacts, OffCalls
  <2>6. RunInv'
    BY <1>1, <2>4, <2>5, NoRunner
  <2>7. CASE status = "failed" \/ task[t].pc = "unheard"
    <3>1. SetsRow(s, new) /\ UNCHANGED leave
      BY <2>a, <2>1, <2>7
    <3>2. Status(s) = "running" /\ new.status \in {"pending", "calls", "running", "failed"}
      BY <1>6, <2>2 DEF UnderClaim
    <3>3. QueueStep
      BY <1>1, <2>2, <3>1, <3>2, FailsOrStays
    <3> QED
      BY <2>6, <3>3
  <2>8. CASE status = "calls" /\ task[t].pc = "raised"
    <3>1. StageMap[s] = "open" /\ ProgressMap[s] = row[s].done /\ StageOf(s) = "open"
      BY <1>0, <1>6, StageFacts DEF UnderClaim
    <3>2. StageOf(s)' = "open"
      BY <2>2, <2>4, <2>8 DEF StageOf
    <3>3. UNCHANGED StageMap
      BY <2>4, <3>1, <3>2, OtherStages, StagesSame
    <3>4. Queue!CallEnds(s)
      BY <1>3, <1>4, <1>6, <2>8, <3>1 DEF Queue!CallEnds, UnderClaim, StageMap, ProgressMap
    <3>5. Queue!Excuse(s)
      BY <1>0, <2>1, <2>8, Excused
    <3>6. Queue!TryAgain(s)
      BY <1>1, <2>4, <3>3, <3>4, <3>5
         DEF Queue!TryAgain, StageMap, RecordedMap, ProgressMap, EntryMap, FoundMap
    <3>7. Queue!Working(s)
      BY <3>1, <3>6 DEF Queue!Working, StageMap
    <3> QED
      BY <2>6, <3>7, SaveMoves
  <2> QED
    BY <1>1, <2>7, <2>8
<1> QED
  BY <1>5, <1>6

(***************************************************************************)
(* A call that is under way, or over, is a step the queue does not see.    *)
(***************************************************************************)
LEMMA CallGoesOnUnseen ==
  ASSUME OutboxInv, OutboxInv', RunInv, NEW t \in Applier, NEW to,
         task' = [task EXCEPT ![t] = to], task[t].pc \in Running,
         to.call = task[t].call, to.index = task[t].index,
         to.pc = "unheard" \/ task[t].pc \in {"calling", "called"},
         UNCHANGED <<row, run, before, starts, leave>>
  PROVE  QueueStep /\ RunInv'
<1>1. task'[t] = to /\ OthersStay(t)
  BY TaskIs DEF OthersStay
<1>2. AtDueCall(t)
  BY DEF RunInv
<1>3. AtDueCall(t)'
  BY <1>1, <1>2 DEF AtDueCall
<1>4. \A s \in Saves : Grows(s)
  BY NothingGrows
<1> QED
  BY <1>1, <1>3, <1>4, RunnersKept, RowsUnseen DEF OutboxInv

LEMMA RaisesUnseen ==
  ASSUME OutboxInv, OutboxInv', RunInv, NEW t \in Applier,
         NEW error \in {"transient", "lasting"}, CallRaises(t, error)
  PROVE  QueueStep /\ RunInv'
<1>1. task[t].pc \in Running /\ task[t].pc \in {"calling", "called"}
  BY CallPcs DEF CallRaises
<1>2. PICK s \in Saves : s = task[t].call /\ task[t].index \in Nat
  BY <1>1, CallOf
<1>3. PICK to \in TaskRecord :
        /\ to = [AtCall("raised", s, task[t].index) EXCEPT !.error = error]
        /\ to.call = s /\ to.index = task[t].index
  BY <1>2, RaisedCall
<1>4. /\ task' = [task EXCEPT ![t] = to] /\ UNCHANGED <<row, run, before, starts, leave>>
      /\ to.call = task[t].call
  BY <1>2, <1>3 DEF CallRaises
<1> QED
  BY <1>1, <1>3, <1>4, CallGoesOnUnseen

LEMMA DeleteRaisesUnseen ==
  ASSUME OutboxInv, OutboxInv', RunInv, NEW t \in Applier,
         NEW error \in {"transient", "lasting"}, DeleteRaises(t, error)
  PROVE  QueueStep /\ RunInv'
<1>1. task[t].pc \in Running
  BY CallPcs DEF DeleteRaises
<1>2. PICK s \in Saves : s = task[t].call /\ task[t].index \in Nat
  BY <1>1, CallOf
<1>3. PICK to \in TaskRecord :
        /\ to = [AtCall("unheard", s, task[t].index) EXCEPT !.error = error]
        /\ to.pc = "unheard" /\ to.call = s /\ to.index = task[t].index
  BY <1>2, RaisedCall
<1>4. /\ task' = [task EXCEPT ![t] = to] /\ UNCHANGED <<row, run, before, starts, leave>>
      /\ to.call = task[t].call
  BY <1>2, <1>3 DEF DeleteRaises
<1> QED
  BY <1>1, <1>3, <1>4, CallGoesOnUnseen

LEMMA FinishUnseen ==
  ASSUME OutboxInv, OutboxInv', RunInv, NEW t \in Applier, FinishCall(t)
  PROVE  QueueStep /\ RunInv'
<1>1. task[t].pc \in Running /\ task[t].pc = "calling"
  BY CallPcs DEF FinishCall
<1>2. PICK s \in Saves : s = task[t].call /\ task[t].index \in Nat
  BY <1>1, CallOf
<1>3. "called" \in TaskPc
  BY CallPcs
<1>4. PICK to : /\ to = AtCall("called", s, task[t].index)
                /\ to.call = s /\ to.index = task[t].index
  BY <1>2, <1>3, AtCallFacts
<1>5. /\ task' = [task EXCEPT ![t] = to] /\ UNCHANGED <<row, run, before, starts, leave>>
      /\ to.call = task[t].call
  BY <1>2, <1>4 DEF FinishCall
<1> QED
  BY <1>1, <1>4, <1>5, CallGoesOnUnseen

LEMMA DrainUnseen ==
  ASSUME OutboxInv, OutboxInv', RunInv, NEW t \in Applier, CallDrain(t)
  PROVE  QueueStep /\ RunInv'
<1>1. PICK left, chain :
        task' = [task EXCEPT ![t] = [task[t] EXCEPT !.left = left, !.chain = chain]]
  BY DEF CallDrain
<1> DEFINE to == [task[t] EXCEPT !.left = left, !.chain = chain]
<1>2. task[t] \in TaskRecord
  BY TaskFields DEF OutboxInv
<1>3. to.call = task[t].call /\ to.index = task[t].index
  BY <1>2 DEF TaskRecord
<1>4. /\ task' = [task EXCEPT ![t] = to] /\ UNCHANGED <<row, run, before, starts, leave>>
      /\ task[t].pc = "calling" /\ task[t].pc \in Running
  BY <1>1, CallPcs DEF CallDrain
<1> HIDE DEF to
<1> QED
  BY <1>3, <1>4, CallGoesOnUnseen

LEMMA CallStepImplements ==
  ASSUME OutboxInv, OutboxInv', PaidInv, RunInv, NEW t \in Applier, CallStep(t)
  PROVE  QueueStep /\ RunInv'
<1>1. CASE CallDrainRefused(t)
  BY <1>1, RaisesUnseen DEF CallDrainRefused
<1> QED
  BY <1>1, InterruptedImplements, StartCallStarts, DrainUnseen, FinishUnseen,
     CallDoneImplements, DeleteImplements, CallFailureImplements DEF CallStep

LEMMA ApplyStepImplements ==
  ASSUME OutboxInv, OutboxInv', RunInv, NEW t \in Applier, ApplyStep(t)
  PROVE  QueueStep /\ RunInv'
  BY ApplyOnceImplements, CommitRecordsApplies, ApplyFailureImplements DEF ApplyStep

LEMMA FaultImplements ==
  ASSUME OutboxInv, OutboxInv', RunInv, NEW t \in Applier, TaskFault(t)
  PROVE  QueueStep /\ RunInv'
<1>1. CASE LockTimesOut(t) \/ HeartbeatLost(t) \/ TaskDies(t)
  <2>1. task' = [task EXCEPT ![t] = Idle] /\ UNCHANGED <<row, run, before, starts, leave>>
    BY <1>1 DEF LockTimesOut, HeartbeatLost, TaskDies
  <2> QED
    BY <2>1, IdleImplements
<1>2. CASE Heartbeat(t)
  <2>1. task[t].pc \in Running
    BY <1>2, CallPcs DEF Heartbeat
  <2>2. PICK s \in Saves : s = task[t].call
    BY <2>1, CallOf
  <2>3. /\ row' = [row EXCEPT ![s].lapsed = FALSE]
        /\ UNCHANGED <<task, run, before, starts, leave>>
    BY <1>2, <2>2 DEF Heartbeat
  <2>4. QueueStep /\ \A q \in Saves : Grows(q)
    BY <2>3, LeaseUnseen
  <2> QED
    BY <2>3, <2>4, RunnersSame DEF OutboxInv
<1>3. ASSUME NEW error \in {"transient", "lasting"}, RecordsRaise(t, error)
      PROVE  QueueStep /\ RunInv'
  <2>1. task[t].pc \in Applying
    BY <1>3 DEF RecordsRaise, Applying
  <2>2. PICK c \in Seq(Saves) : c = <<Last(task[t].stack)>> /\ c # <<>>
    BY <2>1, StackOf, OneOnStack
  <2>3. PICK to : /\ to = [At("unrecorded") EXCEPT !.stack = c, !.error = error]
                  /\ to.pc = "unrecorded"
    BY RaisedStack
  <2>4. /\ task' = [task EXCEPT ![t] = to] /\ UNCHANGED <<row, run, before, starts, leave>>
    BY <1>3, <2>2, <2>3 DEF RecordsRaise
  <2>5. to.pc \notin Running
    BY <2>3, OffCalls DEF Applying
  <2> QED
    BY <2>4, <2>5, RestImplements
<1>4. ASSUME NEW error \in {"transient", "lasting"}, CallRaises(t, error)
      PROVE  QueueStep /\ RunInv'
  BY <1>4, RaisesUnseen
<1>5. ASSUME NEW error \in {"transient", "lasting"}, CallDoneUnheard(t, error)
      PROVE  QueueStep /\ RunInv'
  BY <1>5, UnheardIsNoted, NotedImplements
<1>6. ASSUME NEW error \in {"transient", "lasting"}, DeleteRaises(t, error)
      PROVE  QueueStep /\ RunInv'
  BY <1>6, DeleteRaisesUnseen
<1> QED
  BY <1>1, <1>2, <1>3, <1>4, <1>5, <1>6 DEF TaskFault

LEMMA StartApplyUnseen ==
  ASSUME OutboxInv, OutboxInv', RunInv, NEW t \in Applier, NEW s \in Saves, StartApply(t, s)
  PROVE  QueueStep /\ RunInv'
<1>1. PICK c \in Seq(Saves) : c = <<s>> /\ c # <<>>
  BY OneOnStack
<1>2. "locking" \in TaskPc /\ "locking" \in Applying
  BY PcNames DEF Applying
<1>3. PICK to : to = [At("locking") EXCEPT !.stack = c] /\ to.pc = "locking"
  BY <1>2, StackAt
<1>4. /\ task' = [task EXCEPT ![t] = to] /\ UNCHANGED <<row, run, before, starts, leave>>
  BY <1>1, <1>3 DEF StartApply
<1>5. to.pc \notin Running
  BY <1>2, <1>3, OffCalls
<1> QED
  BY <1>4, <1>5, RestImplements

-----------------------------------------------------------------------------
(* The steps of the runs.                                                  *)

LEMMA RunFields ==
  ASSUME Typed, NEW r \in RootRun
  PROVE  /\ run[r] \in RunRecord /\ run[r].pc \in RunPc
         /\ EntryMap[r] = EntryOf(r) /\ FoundMap[r] = run[r].seen
         /\ EntryOf(r) = "out" <=> run[r].pc = "idle"
         /\ EntryOf(r) = "draining" <=> run[r].pc = "draining"
<1>1. run[r] \in RunRecord /\ run[r].pc \in RunPc
  BY DEF Typed, RunRecord
<1> QED
  BY <1>1 DEF EntryMap, FoundMap, EntryOf, RunPc

EntryMoves(r) == EntryMap' = [EntryMap EXCEPT ![r] = EntryOf(r)']
FoundMoves(r) == FoundMap' = [FoundMap EXCEPT ![r] = run'[r].seen]

LEMMA FoundsMove ==
  ASSUME NEW r \in RootRun, \A p \in RootRun : p # r => run'[p].seen = run[p].seen
  PROVE  FoundMoves(r)
<1>1. FoundMap' = [p \in RootRun |-> run'[p].seen]
  BY DEF FoundMap
<1>2. [FoundMap EXCEPT ![r] = run'[r].seen]
        = [p \in RootRun |-> IF p = r THEN run'[r].seen ELSE run[p].seen]
  BY DEF FoundMap
<1> QED
  BY <1>1, <1>2 DEF FoundMoves

LEMMA RunChanges ==
  ASSUME OutboxInv, NEW r \in RootRun, NEW at, run' = [run EXCEPT ![r] = at]
  PROVE  /\ run'[r] = at /\ EntryMoves(r) /\ FoundMoves(r)
         /\ at.seen = run[r].seen => UNCHANGED FoundMap
<1>1. run'[r] = at /\ \A p \in RootRun : p # r => run'[p] = run[p]
  BY DEF OutboxInv, Typed
<1>2. \A p \in RootRun : p # r => EntryOf(p)' = EntryOf(p)
  BY <1>1 DEF EntryOf
<1>3. EntryMoves(r)
  BY <1>2 DEF EntryMap, EntryMoves
<1>4. FoundMoves(r)
  <2>1. \A p \in RootRun : p # r => run'[p].seen = run[p].seen
    BY <1>1
  <2> QED
    BY <2>1, FoundsMove
<1>5. at.seen = run[r].seen => UNCHANGED FoundMap
  BY <1>1 DEF FoundMap
<1> QED
  BY <1>1, <1>3, <1>4, <1>5

(***************************************************************************)
(* What a run lists are the outstanding saves of its subjects.             *)
(***************************************************************************)
LEMMA ListedMap ==
  ASSUME Typed, NEW keys
  PROVE  /\ Listed(keys) = {s \in Saves : /\ SubjectKeys[s] \cap keys # {}
                                          /\ StageMap[s] \in {"open", "failed"}}
         /\ \A s \in Listed(keys) :
              s \in Saves /\ (StageMap[s] = "failed" <=> Status(s) = "failed")
<1>1. \A s \in Saves : /\ StageMap[s] \in {"open", "failed"} <=> Status(s) \in Outstanding
                       /\ StageMap[s] = "failed" <=> Status(s) = "failed"
  BY StageFacts, StatusNames
<1> QED
  BY <1>1 DEF Listed

LEMMA EnterEnters ==
  ASSUME OutboxInv, NEW r \in RootRun, EnterRun(r)
  PROVE  QueueStep
<1>0. Typed /\ run[r] \in RunRecord /\ EntryMap[r] = "out"
  BY RunFields DEF OutboxInv, EnterRun
<1>1. PICK listed : listed = Listed(RunSubject[r])
  OBVIOUS
<1>2. listed = {s \in Saves : /\ SubjectKeys[s] \cap RunSubject[r] # {}
                              /\ StageMap[s] \in {"open", "failed"}}
  BY <1>0, <1>1, ListedMap
<1>3. \A s \in listed : s \in Saves /\ (StageMap[s] = "failed" <=> Status(s) = "failed")
  BY <1>0, <1>1, ListedMap
<1>4. UNCHANGED <<row, before, starts, leave>>
  BY DEF EnterRun
<1>5. UNCHANGED <<StageMap, RecordedMap, ProgressMap>>
  <2>1. \A q \in Saves : SaveStays(q)
    BY <1>4 DEF SaveStays, StageOf
  <2> QED
    BY <2>1, StagesSame, RecordedSame, ProgressSame DEF SaveStays
<1>6. CASE \E q \in listed : StageMap[q] = "failed"
  <2>1. PICK at : run' = [run EXCEPT ![r] = at] /\ at = [run[r] EXCEPT !.pc = "refused"]
    BY <1>1, <1>3, <1>6 DEF EnterRun
  <2>2. at.pc = "refused" /\ at.seen = run[r].seen
    BY <1>0, <2>1 DEF RunRecord
  <2>3. /\ run'[r] = at /\ EntryMoves(r)
        /\ UNCHANGED FoundMap
    BY <2>1, <2>2, RunChanges
  <2>4. EntryOf(r)' = "refused"
    BY <2>2, <2>3 DEF EntryOf
  <2>5. Queue!Enter(r)
    BY <1>0, <1>2, <1>4, <1>5, <1>6, <2>3, <2>4
       DEF Queue!Enter, Queue!Outstanding, EntryMoves, StageMap, RecordedMap, ProgressMap,
           EntryMap, FoundMap
  <2> QED
    BY <2>5 DEF QueueStep, Queue!QueueNext
<1>7. CASE ~\E q \in listed : StageMap[q] = "failed"
  <2>1. PICK at : /\ run' = [run EXCEPT ![r] = at]
                  /\ at = [run[r] EXCEPT !.pc = "draining", !.left = listed, !.seen = listed]
    BY <1>1, <1>3, <1>7 DEF EnterRun
  <2>2. at.pc = "draining" /\ at.seen = listed
    BY <1>0, <2>1 DEF RunRecord
  <2>3. /\ run'[r] = at /\ EntryMoves(r) /\ FoundMoves(r)
    BY <2>1, RunChanges
  <2>4. EntryOf(r)' = "draining"
    BY <2>2, <2>3 DEF EntryOf
  <2>5. Queue!Enter(r)
    BY <1>0, <1>2, <1>4, <1>5, <1>7, <2>2, <2>3, <2>4
       DEF Queue!Enter, Queue!Outstanding, EntryMoves, FoundMoves, StageMap, RecordedMap,
           ProgressMap, EntryMap, FoundMap
  <2> QED
    BY <2>5 DEF QueueStep, Queue!QueueNext
<1> QED
  BY <1>6, <1>7

(***************************************************************************)
(* A run that goes on draining, is refused, or begins.                     *)
(***************************************************************************)
LEMMA RunGoesOn ==
  ASSUME OutboxInv, NEW r \in RootRun, RunDrain(r) \/ RunRefused(r) \/ RunBegins(r)
  PROVE  QueueStep
<1>0. Typed /\ run[r] \in RunRecord /\ run[r].pc = "draining" /\ EntryMap[r] = "draining"
  BY RunFields DEF OutboxInv, RunDrain, RunRefused, RunBegins
<1>1. UNCHANGED <<row, before, starts, leave>>
  BY DEF RunDrain, RunRefused, RunBegins
<1>2. UNCHANGED <<StageMap, RecordedMap, ProgressMap>>
  <2>1. \A q \in Saves : SaveStays(q)
    BY <1>1 DEF SaveStays, StageOf
  <2> QED
    BY <2>1, StagesSame, RecordedSame, ProgressSame DEF SaveStays
<1>3. CASE RunDrain(r)
  <2>1. PICK left, chain : run' = [run EXCEPT ![r].left = left, ![r].chain = chain]
    BY <1>3 DEF RunDrain
  <2>2. PICK at : /\ run' = [run EXCEPT ![r] = at]
                  /\ at = [run[r] EXCEPT !.left = left, !.chain = chain]
    BY <2>1
  <2>3. at.pc = run[r].pc /\ at.seen = run[r].seen
    BY <1>0, <2>2 DEF RunRecord
  <2>4. /\ run'[r] = at /\ EntryMoves(r)
        /\ UNCHANGED FoundMap
    BY <2>2, <2>3, RunChanges
  <2>5. EntryOf(r)' = EntryOf(r) /\ EntryMap[r] = EntryOf(r)
    BY <2>3, <2>4 DEF EntryOf, EntryMap
  <2>6. UNCHANGED EntryMap
    BY <2>4, <2>5 DEF EntryMap, EntryMoves
  <2> QED
    BY <1>1, <1>2, <2>4, <2>6, Stutters
<1>4. CASE RunRefused(r)
  <2>1. PICK at : /\ run' = [run EXCEPT ![r] = at]
                  /\ at = [run[r] EXCEPT !.pc = "refused", !.left = {}, !.chain = <<>>]
    BY <1>4 DEF RunRefused
  <2>2. at.pc = "refused" /\ at.seen = run[r].seen
    BY <1>0, <2>1 DEF RunRecord
  <2>3. /\ run'[r] = at /\ EntryMoves(r)
        /\ UNCHANGED FoundMap
    BY <2>1, <2>2, RunChanges
  <2>4. EntryOf(r)' = "refused"
    BY <2>2, <2>3 DEF EntryOf
  <2>5. Queue!TurnAway(r)
    BY <1>0, <1>1, <1>2, <2>3, <2>4
       DEF Queue!TurnAway, EntryMoves, StageMap, RecordedMap, ProgressMap, EntryMap,
           FoundMap
  <2> QED
    BY <2>5 DEF QueueStep, Queue!QueueNext
<1>5. CASE RunBegins(r)
  <2>1. PICK at : run' = [run EXCEPT ![r] = at] /\ at = [run[r] EXCEPT !.pc = "in"]
    BY <1>5 DEF RunBegins
  <2>2. at.pc = "in" /\ at.seen = run[r].seen
    BY <1>0, <2>1 DEF RunRecord
  <2>3. /\ run'[r] = at /\ EntryMoves(r)
        /\ UNCHANGED FoundMap
    BY <2>1, <2>2, RunChanges
  <2>4. EntryOf(r)' = "in"
    BY <2>2, <2>3 DEF EntryOf
  <2>5. \A s \in run[r].seen : s \in Saves /\ Status(s) \in Gone
    BY <1>0, <1>5 DEF RunBegins, OutboxInv, DrainOK, RunRecord
  <2>6. \A s \in FoundMap[r] : StageMap[s] \in Gone
    BY <1>0, <2>5, StageFacts, StatusNames DEF FoundMap
  <2>7. Queue!Begin(r)
    BY <1>0, <1>1, <1>2, <2>3, <2>4, <2>6, StatusNames
       DEF Queue!Begin, Queue!Gone, EntryMoves, StageMap, RecordedMap, ProgressMap,
           EntryMap, FoundMap
  <2> QED
    BY <2>7 DEF QueueStep, Queue!QueueNext
<1> QED
  BY <1>3, <1>4, <1>5

LEMMA RunStepImplements ==
  ASSUME OutboxInv, OutboxInv', RunInv, NEW r \in RootRun, RunStep(r)
  PROVE  QueueStep /\ RunInv'
<1>1. QueueStep
  BY EnterEnters, RunGoesOn DEF RunStep
<1>2. UNCHANGED <<row, task, starts>>
  BY DEF RunStep, EnterRun, RunDrain, RunRefused, RunBegins
<1>3. \A s \in Saves : Grows(s)
  BY <1>2, NothingGrows
<1> QED
  BY <1>1, <1>2, <1>3, RunnersSame DEF OutboxInv

-----------------------------------------------------------------------------
(* The refinement.                                                         *)

LEMMA QueueInvStep ==
  OutboxInv /\ OutboxInv' /\ PaidInv /\ RunInv /\ [OutboxNext]_outboxVars
    => QueueStep /\ RunInv'
<1> SUFFICES ASSUME OutboxInv, OutboxInv', PaidInv, RunInv, [OutboxNext]_outboxVars
             PROVE  QueueStep /\ RunInv'
  OBVIOUS
<1>1. CASE UNCHANGED outboxVars
  <2>1. UNCHANGED <<row, task, run, before, starts, leave>>
    BY <1>1 DEF outboxVars
  <2>2. \A s \in Saves : Grows(s)
    BY <2>1, NothingGrows
  <2> QED
    BY <2>1, <2>2, RunnersSame, RowsUnseen DEF OutboxInv
<1>2. ASSUME NEW t \in Applier, ApplyStep(t) \/ CallStep(t) \/ TaskFault(t)
      PROVE  QueueStep /\ RunInv'
  BY <1>2, ApplyStepImplements, CallStepImplements, FaultImplements
<1>3. ASSUME NEW t \in Applier, NEW s \in Saves, StartApply(t, s) \/ ClaimCalls(t, s)
      PROVE  QueueStep /\ RunInv'
  BY <1>3, StartApplyUnseen, ClaimImplements
<1>4. ASSUME NEW s \in Saves, SaveStep(s) PROVE QueueStep /\ RunInv'
  BY <1>4, SaveStepImplements
<1>5. ASSUME NEW r \in RootRun, RunStep(r) PROVE QueueStep /\ RunInv'
  BY <1>5, RunStepImplements
<1> QED
  BY <1>1, <1>2, <1>3, <1>4, <1>5 DEF OutboxNext

LEMMA QueueInitImplemented == OutboxInit => RunInv /\ Queue!QueueInit
<1> SUFFICES ASSUME OutboxInit PROVE RunInv /\ Queue!QueueInit
  OBVIOUS
<1>0. PICK never \in SUBSET Saves, down \in SUBSET Applier, away \in SUBSET RootRun,
           spent \in 0..MaxFaults : OutboxStart(never, down, away, spent)
  BY DEF OutboxInit
<1>1. RunInv
  <2>1. \A t \in Applier : task[t].pc \in {"idle", "down"}
    <3>1. "down" \in TaskPc
      BY PcNames
    <3>2. \A t \in Applier : task[t] = At("down") \/ task[t] = Idle
      BY <1>0 DEF OutboxStart
    <3> QED
      BY <3>1, <3>2, AtFacts, IdleFacts
  <2> QED
    BY <2>1, PcNames DEF RunInv
<1>2. /\ \A s \in Saves : /\ StageOf(s) \in {"absent", "refused"}
                          /\ ~row[s].recorded /\ row[s].done = 0
      /\ \A r \in RootRun : EntryOf(r) \in {"out", "away"} /\ run[r].seen = {}
      /\ before = [s \in Saves |-> {}]
      /\ starts = [s \in Saves |-> [c \in 1..Calls[s] |-> 0]]
      /\ leave = [s \in Saves |-> [c \in 1..Calls[s] |-> 0]]
  BY <1>0 DEF OutboxStart, StageOf, EntryOf
<1>3. /\ StageMap \in [Saves -> {"absent", "refused"}] /\ RecordedMap = {}
      /\ ProgressMap = [s \in Saves |-> 0]
      /\ EntryMap \in [RootRun -> {"out", "away"}] /\ FoundMap = [r \in RootRun |-> {}]
  BY <1>2 DEF StageMap, RecordedMap, ProgressMap, EntryMap, FoundMap
<1> QED
  BY <1>1, <1>2, <1>3
     DEF Queue!QueueInit, StageMap, RecordedMap, ProgressMap, EntryMap, FoundMap

(***************************************************************************)
(* The outbox implements the queue of saves: with its rows and tasks, its  *)
(* claims that lapse and are taken over, its writes that fail or are not   *)
(* heard of, its crashes and its drains, it numbers, commits, applies,     *)
(* calls, retries and discards saves, and lets runs in, only as the queue  *)
(* does.  The queue starts a call again when its end could not be noted.   *)
(***************************************************************************)
THEOREM OutboxImplementsQueue == OutboxSpec => ImplementsQueue
<1> DEFINE Inv == OutboxInv /\ PaidInv /\ RunInv
<1>1. OutboxInit => Inv /\ Queue!QueueInit
  BY OutboxInvInit, PaidInit, QueueInitImplemented
<1>2. Inv /\ [OutboxNext]_outboxVars => Inv'
  BY OutboxInvStep, PaidStep, QueueInvStep
<1>3. Inv /\ [OutboxNext]_outboxVars => [Queue!QueueNext]_(Queue!queueVars)
  BY OutboxInvStep, QueueInvStep DEF QueueStep
<1> HIDE DEF Inv
<1>4. OutboxSpec => [][Queue!QueueNext]_(Queue!queueVars)
  BY <1>1, <1>2, <1>3, PTL DEF OutboxSpec
<1>5. OutboxSpec => Queue!QueueInit
  BY <1>1 DEF OutboxSpec
<1> QED
  BY <1>4, <1>5 DEF ImplementsQueue, Queue!QueueSpec
=============================================================================
