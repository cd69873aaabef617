------------------------------ MODULE MCServices ------------------------------
(***************************************************************************)
(* Instances for TLC of the components that share no state: a behaviour    *)
(* exercises one of them, the others stay where they rest.                 *)
(***************************************************************************)
EXTENDS StateOutbox, HookRuns, ToolRuns, AskGroups, TokenRefresh, WaitingOutcomes,
        AgentPark, TLC

CONSTANTS k1, k2, t1, t2, r1,          \* the outbox
          j1, p1, p2, e1, e2,          \* hook runs
          w1, q1, q2,                  \* tool runs
          g1, g2,                      \* blocking asks
          b1, b2, c1, c2, c3, ed,      \* connections
          x1, x2, s1, s2,              \* waiting outcomes
          m1, m2, n1, n2, d1, d2, kl, gu   \* parked super-steps

VARIABLE service

MCRecordKeys == [s \in Saves |-> IF s = 3 THEN {} ELSE {k1}]
MCSubjectKeys == [s \in Saves |-> CASE s = 1 -> {k1} [] s = 2 -> {k1, k2} [] OTHER -> {k2}]
MCCalls == [s \in Saves |-> 1]
MCCallDrains == [s \in Saves |-> IF s = 1 THEN {k2} ELSE {}]
MCRunSubject == [r \in RootRun |-> {k2}]
MCGroupOf == [q \in Question |-> IF q = 3 THEN g2 ELSE g1]
MCAnswerOf == [d \in Delivery |-> IF d = d1 THEN n1 ELSE n2]
MCReplicaOf == [c \in Caller |-> IF c = c3 THEN b2 ELSE b1]

(***************************************************************************)
(* Saves 2 and 3 under two tasks with a fault, saves 1 and 2 under one     *)
(* with a fault and a run that waits for them, or all three under one.     *)
(* Three runs that may be replayed, or one and one that may not.  Two      *)
(* questions beside an ask that is lost, or two and a fault.  Two callers  *)
(* of two replicas, or of one, and an editor.  Two deliveries alone with a *)
(* fault or with a kill; one with a kill or a give-up, and a fault.        *)
(***************************************************************************)
Outbox == \/ OutboxStart({1}, {}, RootRun, 0) \/ OutboxStart({3}, {t2}, {}, 0)
          \/ OutboxStart({}, {t2}, RootRun, MaxFaults)
Tools == ToolStart({4}) \/ ToolStart({2, 3})
Asks == \/ AskStart({}, {2}, "idle", 1)
        \/ AskStart({2}, {}, "idle", 0) \/ AskStart({3}, {}, "idle", 0)
Tokens == TokenStart({c2}) \/ TokenStart({c3})
ParksStart == \/ ParkStart({gu, kl}, 0) \/ ParkStart({gu, d2}, 0)
              \/ ParkStart({kl, d2}, 0) \/ ParkStart({gu}, MaxParkFaults)

OutboxRests == OutboxStart(Saves, Applier, RootRun, MaxFaults)
ToolsRest == ToolStart(Run)
AsksRest == AskStart(Question, {}, "away", 1)
TokensRest == TokenStart(Caller \cup Editor) /\ dead = {}
ParksRest == ParkStart(Actor, MaxParkFaults)

MCInit ==
  \/ /\ service = "outbox" /\ Outbox
     /\ HookInit /\ ToolsRest /\ AsksRest /\ TokensRest /\ OutcomeInit /\ ParksRest
  \/ /\ service = "hooks" /\ HookInit
     /\ OutboxRests /\ ToolsRest /\ AsksRest /\ TokensRest /\ OutcomeInit /\ ParksRest
  \/ /\ service = "tools" /\ Tools
     /\ OutboxRests /\ HookInit /\ AsksRest /\ TokensRest /\ OutcomeInit /\ ParksRest
  \/ /\ service = "asks" /\ Asks
     /\ OutboxRests /\ HookInit /\ ToolsRest /\ TokensRest /\ OutcomeInit /\ ParksRest
  \/ /\ service = "tokens" /\ Tokens
     /\ OutboxRests /\ HookInit /\ ToolsRest /\ AsksRest /\ OutcomeInit /\ ParksRest
  \/ /\ service = "outcomes" /\ OutcomeInit
     /\ OutboxRests /\ HookInit /\ ToolsRest /\ AsksRest /\ TokensRest /\ ParksRest
  \/ /\ service = "parks" /\ ParksStart
     /\ OutboxRests /\ HookInit /\ ToolsRest /\ AsksRest /\ TokensRest /\ OutcomeInit

OutboxTurn ==
  /\ service = "outbox" /\ OutboxNext
  /\ UNCHANGED <<service, hookVars, toolVars, askVars, tokenVars, outcomeVars, parkVars>>
HookTurn ==
  /\ service = "hooks" /\ HookNext
  /\ UNCHANGED <<service, outboxVars, toolVars, askVars, tokenVars, outcomeVars, parkVars>>
ToolTurn ==
  /\ service = "tools" /\ ToolNext
  /\ UNCHANGED <<service, outboxVars, hookVars, askVars, tokenVars, outcomeVars, parkVars>>
AskTurn ==
  /\ service = "asks" /\ AskNext
  /\ UNCHANGED <<service, outboxVars, hookVars, toolVars, tokenVars, outcomeVars, parkVars>>
TokenTurn ==
  /\ service = "tokens" /\ TokenNext
  /\ UNCHANGED <<service, outboxVars, hookVars, toolVars, askVars, outcomeVars, parkVars>>
OutcomeTurn ==
  /\ service = "outcomes" /\ OutcomeNext
  /\ UNCHANGED <<service, outboxVars, hookVars, toolVars, askVars, tokenVars, parkVars>>
ParkTurn ==
  /\ service = "parks" /\ ParkNext
  /\ UNCHANGED <<service, outboxVars, hookVars, toolVars, askVars, tokenVars, outcomeVars>>

MCNext ==
  \/ OutboxTurn \/ HookTurn \/ ToolTurn \/ AskTurn \/ TokenTurn \/ OutcomeTurn \/ ParkTurn

MCSpec == MCInit /\ [][MCNext]_<<service, outboxVars, hookVars, toolVars, askVars, tokenVars,
                                 outcomeVars, parkVars>>
=============================================================================
