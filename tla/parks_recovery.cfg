CONSTANTS
  p1 = p1
  p2 = p2
  r1 = r1
  r2 = r2
  d1 = d1
  k1 = k1
  Park = {p1, p2}
  Run = {r1, r2}
  Drive = {d1}
  Door = {k1}
  NoPark = NoPark
  NoRun = NoRun
  RunOf <- MCRunOf
  OnExpiry <- MCOnExpiry
  Faults = 3
SPECIFICATION MCFairSpec
PROPERTIES EveryParkResolves EveryClaimDischarged EveryKillTold
CHECK_DEADLOCK FALSE
