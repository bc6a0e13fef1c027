SPECIFICATION MCSpec
CONSTANTS
  Part = {"rotation", "consents", "delegations", "sessions", "files", "layers", "proofs"}
  None = None
  k1 = k1
  k2 = k2
  k3 = k3
  Address <- MCAddress
  Genesis = k1
  ForkID = fork
  GuardianLists <- MCGuardianLists
  Reasons <- MCReasons
  TimeLockDuration = 2
  MaxRotations = 3
  MaxTime = 4
  NoSig = NoSig
  Empty = Empty
  Grantee = {g1, g2}
  Reader = {r1, r2}
  Party = {a, b}
  Path = {http, test}
  Library = {lib}
  Secret = {secret}
  Passkey = {s1, s2}
  SessionUser = {p1, p2}
  Writer = {w1}
SYMMETRY Symmetry
INVARIANTS
  ChainVerifies
  TakeoverWaitsForTimeLock
  RevocationIsInherited
  KeysEndWithSession
  KeyIsKept
  RulesAreOfOneMoment
  MembershipIsSound
PROPERTIES
  ImplementsPermits
CHECK_DEADLOCK FALSE
