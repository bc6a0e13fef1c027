SPECIFICATION MCSpec
CONSTANTS
  Part = {"fork"}
  owner = owner
  g1 = g1
  g2 = g2
  salt0 = salt0
  salt1 = salt1
  Address <- MCAddress
  InitialAddress = owner
  InitialSalt = salt0
  Salts = {salt1}
  NoSalt = NoSalt
  Configs <- MCConfigs
  Epochs = {0, 1}
  MaxTime = 3
  None = None
  price = price
  NoHash = NoHash
  Current = Current
  Backup = Backup
  Temp = Temp
INVARIANT NewAddressMayComplete
CHECK_DEADLOCK FALSE
