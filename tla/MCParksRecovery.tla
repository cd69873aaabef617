--------------------------- MODULE MCParksRecovery ---------------------------
(***************************************************************************)
(* The instance of Parks for TLC's liveness run: one park, of a run that   *)
(* its expiry kills or of one that its expiry resumes; the other run,      *)
(* chosen at the start, never comes.                                       *)
(***************************************************************************)
EXTENDS Parks

CONSTANTS p1, p2, r1, r2, d1, k1

VARIABLE away

MCRunOf == [p \in Park |-> IF p = p1 THEN r1 ELSE r2]
MCOnExpiry == [p \in Park |-> IF p = p1 THEN "kill" ELSE "resume"]

MCInit == Init /\ away \in Run
MCNext == Next /\ away \notin started' /\ UNCHANGED away
MCFairSpec == MCInit /\ [][MCNext]_<<vars, away>> /\ Fairness
=============================================================================
