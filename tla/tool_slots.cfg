CONSTANTS
  Run = {1, 2}
  Flagged = {1}
  Worker = {"w1"}
  Reader = {"q1"}
  ConcurrentRuns = 1
  MaxEpoch = 1
  MaxRunFaults = 1
SPECIFICATION ToolSpec
INVARIANT SlotsComeBack
CHECK_DEADLOCK FALSE
