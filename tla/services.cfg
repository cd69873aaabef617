CONSTANTS
  k1 = k1
  k2 = k2
  t1 = t1
  t2 = t2
  r1 = r1
  j1 = j1
  p1 = p1
  p2 = p2
  e1 = e1
  e2 = e2
  w1 = w1
  q1 = q1
  q2 = q2
  g1 = g1
  g2 = g2
  b1 = b1
  b2 = b2
  c1 = c1
  c2 = c2
  c3 = c3
  ed = ed
  x1 = x1
  x2 = x2
  s1 = s1
  s2 = s2
  Saves = {1, 2, 3}
  Subject = {k1, k2}
  RecordKeys <- MCRecordKeys
  SubjectKeys <- MCSubjectKeys
  Calls <- MCCalls
  Resumable = {2}
  CallDrains <- MCCallDrains
  Applier = {t1, t2}
  RootRun = {r1}
  RunSubject <- MCRunSubject
  MaxAttempts = 2
  MaxFaults = 1
  HookJob = {j1}
  Process = {p1, p2}
  Entry = {e1, e2}
  CrashResume = {}
  RunMaxAttempts = 2
  MaxHookFaults = 2
  Run = {1, 2, 3, 4}
  Flagged = {1, 2, 3}
  Worker = {w1}
  Reader = {q1, q2}
  ConcurrentRuns = 1
  MaxEpoch = 1
  MaxRunFaults = 1
  Question = {1, 2, 3}
  AskGroup = {g1, g2}
  GroupOf <- MCGroupOf
  MaxOpen = 2
  MaxAskFaults = 1
  Replica = {b1, b2}
  Caller = {c1, c2, c3}
  ReplicaOf <- MCReplicaOf
  Editor = {ed}
  RetryBudget = 2
  MaxTokens = 3
  MaxTokenFaults = 1
  Writer = {x1, x2}
  Sweeper = {s1, s2}
  MaxTakes = 2
  MaxOutcomeFaults = 1
  m1 = m1
  m2 = m2
  n1 = n1
  n2 = n2
  d1 = d1
  d2 = d2
  kl = kl
  gu = gu
  Member = {m1, m2}
  Answer = {n1, n2}
  Delivery = {d1, d2}
  AnswerOf <- MCAnswerOf
  Killer = kl
  Quitter = gu
  NoHolder = NoHolder
  NoAnswer = NoAnswer
  NoResolution = NoRecord
  MaxParkFaults = 1
SPECIFICATION MCSpec
INVARIANTS
  RecordsInOrder CallsInOrder InterruptedCallsStay RunsWaitForSaves NoCallWaitsForItself
  StartsOnce OneAttemptActs HeldJobsTellTheTruth
  ReplayedOnce NoRunBesideItsReplay SlotsFollowRuns
  OpenWithinCap PlacesComeBack CountCoversOpen OpenQuestionsListed
  GrantKept ForcedServesNewer
  OutcomeLeavesOnce
  SuperStepSettles
PROPERTIES ImplementsQueue TerminalStays TokensNeverGoBack RevivedByReconnect
CHECK_DEADLOCK FALSE
