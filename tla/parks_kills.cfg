CONSTANTS
  p1 = p1
  p2 = p2
  r1 = r1
  d1 = d1
  d2 = d2
  k1 = k1
  k2 = k2
  Park = {p1, p2}
  Run = {r1}
  Drive = {d1}
  Door = {k1, k2}
  NoPark = NoPark
  NoRun = NoRun
  RunOf <- MCRunOf
  OnExpiry <- MCOnExpiry
  Faults = 0
SPECIFICATION Spec
SYMMETRY MCSymmetry
INVARIANTS CompletedKillWithdrew
PROPERTY DriversToldLast
CHECK_DEADLOCK FALSE
