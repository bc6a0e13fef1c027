CONSTANTS
  p1 = p1
  p2 = p2
  p3 = p3
  Peer <- MCPeer
  Account = {1, 2, 3}
  Reports <- MCReports
  Profits = {19}
  MilliHours = {1000}
  MaxChallenges = 1
  MaxFailed = 1
  MaxRevenue = 19
  MaxEpoch = 2
  MaxClosed = 2
  Mantissa = 4
  OptimalMin = 2
  OptimalMax = 3
  MaxShare <- MCMaxShare
  Absent = Absent
  Operators = {8, 9}
  Deployer = 9
  OperatorKey = 9
  Transfers = {38}
  MaxReceived = 38
  NoSnapshot = NoSnapshot
SPECIFICATION Spec
INVARIANT RootsKeepTheirEpoch
