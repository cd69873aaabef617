---------------------------- MODULE MCThreadTurns ----------------------------
(***************************************************************************)
(* Instances of ThreadTurns for TLC.                                       *)
(***************************************************************************)
EXTENDS ThreadTurns, TLC

CONSTANTS t1, t2, t3, t4, t5, thA, thB, w1, w2

VARIABLE away

MCThreadOf == [t \in Turn |-> IF t = t5 THEN thB ELSE thA]
MCWorkerOf == [t \in Turn |-> IF t = t2 THEN w2 ELSE w1]

(***************************************************************************)
(* Four turns of one thread, one of them on a worker of its own, or two,   *)
(* one on each worker, beside one of another thread: the others never      *)
(* come.                                                                   *)
(***************************************************************************)
MCInit == Init /\ away \in {{t5}, {t3, t4}}
MCNext == Next /\ (\A t \in away \cap Turn : turn'[t] = turn[t]) /\ UNCHANGED away
MCSpec == MCInit /\ [][MCNext]_<<vars, away>>
MCFairSpec == MCSpec /\ Fairness
=============================================================================
