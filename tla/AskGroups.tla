----------------------------- MODULE AskGroups -----------------------------
(***************************************************************************)
(* Blocking asks in the interactions store (ask/persist.py, ask/wait.py,   *)
(* store/writes.py, store/writes_answers.py): an ask reserves a place      *)
(* under max_concurrent, adds its question to a group, and blocks; an      *)
(* answer, the asker and a reader each end it in an optimistic transaction *)
(* over the question's state and the count of its group.                   *)
(***************************************************************************)
EXTENDS Integers, FiniteSets

CONSTANTS
  Question, AskGroup,
  GroupOf,      \* [Question -> AskGroup]
  MaxOpen,      \* max_concurrent
  MaxAskFaults  \* bound: askers that die, refused adds, lapses of keys

ASSUME QuestionAssumption == IsFiniteSet(Question)
ASSUME GroupOfAssumption == GroupOf \in [Question -> AskGroup]
ASSUME AskBoundsAssumption == MaxOpen \in Nat \ {0} /\ MaxAskFaults \in Nat
NoGroup == "none"

VARIABLES
  ask,        \* [Question -> what its asker is at]
  question,   \* [Question -> its state hash]
  late,       \* questions whose deadline has passed
  openIndex,  \* open_key: the places taken
  count,      \* [AskGroup -> Nat], count_key, 0 when there is none
  listed,     \* pending_key: the groups a reader looks into
  dated,      \* [AskGroup -> the questions behind its pending-deadline score]
  stream,     \* groups whose stream exists
  txn,        \* [Question -> [door -> the remaining count it read, or NoTxn]]
  lister,     \* the reader of the pending list
  swept,      \* history: questions added while a reader was dropping their group
  askFaults

askVars == <<ask, question, late, openIndex, count, listed, dated, stream, txn, lister,
             swept, askFaults>>
indexVars == <<openIndex, count, listed, dated, stream>>

EndDoor == {"answer", "prune"}
NoTxn == -1
Group(g) == {q \in Question : GroupOf[q] = g}

(***************************************************************************)
(* Some questions are never asked, some asks were lost on their way into   *)
(* the store and still hold their places, the list may go unread, and some *)
(* of the bounded faults lie in the past.                                  *)
(***************************************************************************)
AskStart(never, lost, reading, spent) ==
  /\ ask = [q \in Question |-> IF q \in lost THEN "lost"
                              ELSE IF q \in never THEN "ended" ELSE "idle"]
  /\ question = [q \in Question |-> "absent"]
  /\ openIndex = lost
  /\ late = {} /\ listed = {} /\ stream = {}
  /\ count = [g \in AskGroup |-> 0]
  /\ dated = [g \in AskGroup |-> {}]
  /\ txn = [q \in Question |-> [d \in EndDoor |-> NoTxn]]
  /\ lister = [pc |-> reading, group |-> NoGroup]
  /\ swept = {}
  /\ askFaults = spent

AskInit ==
  \E never, lost \in SUBSET Question, reading \in {"idle", "away"}, spent \in 0..MaxAskFaults :
    /\ Cardinality(lost) <= spent /\ Cardinality(lost) <= MaxOpen
    /\ AskStart(never, lost, reading, spent)

AskFault == askFaults < MaxAskFaults /\ askFaults' = askFaults + 1
AskAt(q, pc) == ask' = [ask EXCEPT ![q] = pc]

\* Mutant of Dirtied: only the question's own state is watched.
DirtiedByState(q) ==
  [txn EXCEPT ![q] = [d \in EndDoor |-> NoTxn]]

(***************************************************************************)
(* A write to a question or to its group's count fails the EXEC of every   *)
(* transaction that watches them, which starts over.                       *)
(***************************************************************************)
Dirtied(q) ==
  [p \in Question |-> IF GroupOf[p] = GroupOf[q] THEN [d \in EndDoor |-> NoTxn] ELSE txn[p]]

-----------------------------------------------------------------------------
(* The asker.                                                              *)

\* Mutant of Reserve: one too many fits.
ReserveOneMore(q) ==
  LET fresh == openIndex \ late
  IN /\ ask[q] = "idle"
     /\ IF Cardinality(fresh) > MaxOpen
        THEN AskAt(q, "ended") /\ openIndex' = fresh
        ELSE AskAt(q, "reserved") /\ openIndex' = fresh \cup {q}
     /\ UNCHANGED <<question, late, count, listed, dated, stream, txn, lister, swept,
                    askFaults>>

(***************************************************************************)
(* _OPEN_RESERVE_LUA: the stale places are purged, then one is taken while *)
(* there are fewer than max_concurrent, or the ask is refused.             *)
(***************************************************************************)
Reserve(q) ==
  LET fresh == openIndex \ late
  IN /\ ask[q] = "idle"
     /\ IF Cardinality(fresh) >= MaxOpen
        THEN AskAt(q, "ended") /\ openIndex' = fresh
        ELSE AskAt(q, "reserved") /\ openIndex' = fresh \cup {q}
     /\ UNCHANGED <<question, late, count, listed, dated, stream, txn, lister, swept,
                    askFaults>>

(***************************************************************************)
(* _PENDING_PURGE_LUA: the groups whose last deadline has passed leave the *)
(* lists, the group of this add excepted.                                  *)
(***************************************************************************)
PurgeExpired(q) ==
  LET dead == {g \in AskGroup \ {GroupOf[q]} : dated[g] # {} /\ dated[g] \subseteq late}
  IN /\ ask[q] = "reserved"
     /\ AskAt(q, "purged")
     /\ listed' = listed \ dead
     /\ dated' = [g \in AskGroup |-> IF g \in dead THEN {} ELSE dated[g]]
     /\ UNCHANGED <<question, late, openIndex, count, stream, txn, lister, swept, askFaults>>

Dropping(g) == lister.pc \in {"unlist", "undate"} /\ lister.group = g

Stored(q) ==
  /\ ask[q] = "purged"
  /\ AskAt(q, "waiting")
  /\ question' = [question EXCEPT ![q] = "pending"]
  /\ openIndex' = openIndex \ late
  /\ count' = [count EXCEPT ![GroupOf[q]] = @ + 1]
  /\ stream' = stream \cup {GroupOf[q]}
  /\ txn' = Dirtied(q)
  /\ swept' = IF Dropping(GroupOf[q]) THEN swept \cup {q} ELSE swept
  /\ UNCHANGED <<late, lister, askFaults>>

\* Mutant of Add: a group is listed with its first question only.
AddListsOnce(q) ==
  /\ Stored(q)
  /\ listed' = IF GroupOf[q] \in stream THEN listed ELSE listed \cup {GroupOf[q]}
  /\ dated' = [dated EXCEPT ![GroupOf[q]] = @ \cup {q}]

(***************************************************************************)
(* The pipeline of add: the question and all its indexes at once, the      *)
(* group's deadline only ever later (ZADD GT).                             *)
(***************************************************************************)
Add(q) ==
  /\ Stored(q)
  /\ listed' = listed \cup {GroupOf[q]}
  /\ dated' = [dated EXCEPT ![GroupOf[q]] = @ \cup {q}]

(***************************************************************************)
(* The reply arrives.                                                      *)
(***************************************************************************)
TakeReply(q) ==
  /\ ask[q] = "waiting"
  /\ question[q] = "answered"
  /\ AskAt(q, "ended")
  /\ UNCHANGED <<question, late, txn, lister, swept, askFaults>> /\ UNCHANGED indexVars

(***************************************************************************)
(* The budget ends, the delivery fails for good, or the caller is          *)
(* cancelled: the question is pruned.                                      *)
(***************************************************************************)
GiveUp(q) ==
  /\ ask[q] = "waiting"
  /\ AskAt(q, "abandoned")
  /\ UNCHANGED <<question, late, txn, lister, swept, askFaults>> /\ UNCHANGED indexVars

(***************************************************************************)
(* The asker is lost, or add refuses or raises.  A place that has no       *)
(* question yet stays taken until the deadline.                            *)
(***************************************************************************)
AskerDies(q) ==
  /\ ask[q] \in {"reserved", "purged", "waiting", "abandoned"}
  /\ AskFault
  /\ AskAt(q, IF ask[q] \in {"reserved", "purged"} THEN "lost" ELSE "ended")
  /\ txn' = [txn EXCEPT ![q]["prune"] = NoTxn]
  /\ UNCHANGED <<question, late, lister, swept>> /\ UNCHANGED indexVars

-----------------------------------------------------------------------------
(* record_answer and prune_pending: WATCH, read, EXEC or start over.       *)

(***************************************************************************)
(* An asker prunes what it abandoned, a reader of the list what is overdue.*)
(***************************************************************************)
MayEnd(q, d) ==
  d = "prune" =>
    \/ ask[q] = "abandoned"
    \/ /\ lister.pc # "away"
       /\ q \in late
       /\ GroupOf[q] \in listed \cap stream

Watch(q, d) ==
  /\ txn[q][d] = NoTxn
  /\ question[q] = "pending"
  /\ count[GroupOf[q]] > 0
  /\ MayEnd(q, d)
  /\ txn' = [txn EXCEPT ![q][d] = count[GroupOf[q]] - 1]
  /\ UNCHANGED <<ask, question, late, lister, swept, askFaults>> /\ UNCHANGED indexVars

(***************************************************************************)
(* The asker's prune is done, or finds the question answered or gone.      *)
(***************************************************************************)
PruneReturns(q) ==
  /\ ask[q] = "abandoned"
  /\ question[q] # "pending"
  /\ AskAt(q, "ended")
  /\ UNCHANGED <<question, late, txn, lister, swept, askFaults>> /\ UNCHANGED indexVars

Ends(q, d) ==
  LET g == GroupOf[q]
      lastOne == txn[q][d] <= 0
  IN /\ txn[q][d] # NoTxn
     /\ question' = [question EXCEPT ![q] = IF d = "answer" THEN "answered" ELSE "gone"]
     /\ count' = [count EXCEPT ![g] = IF lastOne THEN 0 ELSE @ - 1]
     /\ listed' = IF lastOne THEN listed \ {g} ELSE listed
     /\ dated' = IF lastOne THEN [dated EXCEPT ![g] = {}] ELSE dated
     /\ txn' = Dirtied(q)
     /\ UNCHANGED <<ask, late, stream, lister, swept, askFaults>>

\* Mutant of Exec: the place is left to the purge of the stale ones.
ExecKeepsPlace(q, d) == Ends(q, d) /\ UNCHANGED openIndex

Exec(q, d) == Ends(q, d) /\ openIndex' = openIndex \ {q}

-----------------------------------------------------------------------------
(* Time, and the reader of the pending list.                               *)

DeadlinePasses(q) ==
  /\ ask[q] # "idle"
  /\ q \in openIndex \cup dated[GroupOf[q]] \/ question[q] = "pending"
  /\ late' = late \cup {q}
  /\ UNCHANGED <<ask, question, txn, lister, swept, askFaults>> /\ UNCHANGED indexVars

(***************************************************************************)
(* The keys of a question live longer than its deadline, the stream and    *)
(* the count of a group longer than every question of it.                  *)
(***************************************************************************)
StateLapses(q) ==
  /\ question[q] = "pending"
  /\ q \in late
  /\ question' = [question EXCEPT ![q] = "gone"]
  /\ txn' = Dirtied(q)
  /\ UNCHANGED <<ask, late, lister, swept, askFaults>> /\ UNCHANGED indexVars

GroupLapses(g) ==
  /\ g \in stream
  /\ \A q \in Group(g) : question[q] # "pending"
  /\ stream' = stream \ {g}
  /\ count' = [count EXCEPT ![g] = 0]
  /\ UNCHANGED <<ask, question, late, openIndex, listed, dated, txn, lister, swept, askFaults>>

(***************************************************************************)
(* pending: a listed group whose stream is gone is a phantom; it is read   *)
(* first and dropped from the two lists in two more round trips.           *)
(***************************************************************************)
FindPhantom(g) ==
  /\ lister.pc = "idle"
  /\ g \in listed \ stream
  /\ lister' = [pc |-> "unlist", group |-> g]
  /\ UNCHANGED <<ask, question, late, txn, swept, askFaults>> /\ UNCHANGED indexVars

DropPhantom ==
  LET g == lister.group
  IN /\ lister.pc = "unlist"
     /\ lister' = [lister EXCEPT !.pc = "undate"]
     /\ listed' = listed \ {g}
     /\ UNCHANGED <<ask, question, late, openIndex, count, dated, stream, txn, swept, askFaults>>

DropPhantomDate ==
  /\ lister.pc = "undate"
  /\ lister' = [pc |-> "idle", group |-> NoGroup]
  /\ dated' = [dated EXCEPT ![lister.group] = {}]
  /\ UNCHANGED <<ask, question, late, openIndex, count, listed, stream, txn, swept, askFaults>>

AskNext ==
  \/ \E q \in Question :
       \/ Reserve(q) \/ PurgeExpired(q) \/ Add(q) \/ TakeReply(q)
       \/ GiveUp(q) \/ AskerDies(q) \/ PruneReturns(q)
       \/ DeadlinePasses(q) \/ StateLapses(q)
  \/ \E q \in Question, d \in EndDoor : Watch(q, d) \/ Exec(q, d)
  \/ \E g \in AskGroup : GroupLapses(g) \/ FindPhantom(g)
  \/ DropPhantom \/ DropPhantomDate

AskSpec == AskInit /\ [][AskNext]_askVars

-----------------------------------------------------------------------------
(* Properties.                                                             *)

AskTypeOK ==
  /\ ask \in [Question -> {"idle", "reserved", "purged", "waiting", "abandoned", "lost",
                           "ended"}]
  /\ question \in [Question -> {"absent", "pending", "answered", "gone"}]
  /\ count \in [AskGroup -> Nat]
  /\ late \subseteq Question /\ openIndex \subseteq Question
  /\ listed \subseteq AskGroup /\ stream \subseteq AskGroup
  /\ dated \in [AskGroup -> SUBSET Question]
  /\ txn \in [Question -> [EndDoor -> Int]]
  /\ lister \in [pc : {"idle", "away", "unlist", "undate"}, group : AskGroup \cup {NoGroup}]
  /\ swept \subseteq Question

(***************************************************************************)
(* Never more than max_concurrent questions are open before their          *)
(* deadline, asks on their way into the store and lost on it counted.      *)
(***************************************************************************)
Opening(q) == question[q] = "pending" \/ ask[q] \in {"reserved", "purged", "lost"}

OpenWithinCap == Cardinality({q \in Question \ late : Opening(q)}) <= MaxOpen

(***************************************************************************)
(* A place under the cap comes back when its question ends, whoever ends   *)
(* it; only that of an ask lost on its way into the store waits for the    *)
(* deadline.                                                               *)
(***************************************************************************)
PlacesComeBack ==
  \A q \in openIndex \ late : Opening(q)

(***************************************************************************)
(* The count of a group covers its open questions, so that the last answer *)
(* and none before it takes the group off the list.                        *)
(***************************************************************************)
CountCoversOpen ==
  \A g \in AskGroup : count[g] >= Cardinality({q \in Group(g) : question[q] = "pending"})

(***************************************************************************)
(* A question that still waits for its answer is on the pending list, but  *)
(* for one added to a group while a reader was dropping it as a phantom.   *)
(***************************************************************************)
OpenQuestionsListed ==
  \A q \in Question \ (late \cup swept) :
    question[q] = "pending" => GroupOf[q] \in listed
=============================================================================
