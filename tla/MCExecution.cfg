SPECIFICATION Spec
CONSTANTS
  a = a
  b = b
  c = c
  P = P
  Q = Q
  ID = {a, b, c}
  Priorities = {1, 2}
  Lifetime = 0
  MaxSize = 2
  MaxConcurrent = 1
  ExecutionTimeout = 0
  CooldownPeriod = 1
  MaxTime = 1
  Never = Never
  Worker = {w1, w2}
  Position = {P, Q}
  Balance <- MCBalance
  Path <- MCPath
  CrossChain = {a}
  InputAmount <- MCInputAmount
  CheckInterval = 0
  MaxAge = 0
  QueueSize = 1
  ResultsSize = 1
  Detections <- MCDetections
  Forced = {a}
  MaxDetected = 3
INVARIANTS  NothingLeaks
SYMMETRY MCSymmetry
CHECK_DEADLOCK FALSE
