SPECIFICATION MCSpec
CONSTANTS
  Part = {"update", "flashblocks", "cognition"}
  r1 = r1
  r2 = r2
  Release = {r1, r2}
  VersionOf <- MCVersionOf
  Supported = {r1}
  NoHash = NoHash
  Check = {c1, c2}
  Download = {d1}
  MaxManifests = 2
  MaxCrashes = 1
  Current = Current
  Backup = Backup
  Temp = Temp
  None = None
PROPERTIES ReleaseNotMissed LoopsRecoverAndStop
CHECK_DEADLOCK FALSE
