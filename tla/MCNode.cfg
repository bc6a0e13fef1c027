SPECIFICATION MCSpec
CONSTANTS
  Part = {"fork", "content", "tracker", "devp2p", "multichain", "feed", "gossip", "ipc", "update", "app"}
  owner = owner
  g1 = g1
  g2 = g2
  salt0 = salt0
  salt1 = salt1
  Address <- MCAddress
  InitialAddress = owner
  InitialSalt = salt0
  Salts = {salt1}
  NoSalt = NoSalt
  Configs <- MCConfigs
  Epochs = {0, 1}
  MaxTime = 2
  None = None
  price = price
  NoHash = NoHash
  Current = Current
  Backup = Backup
  Temp = Temp
INVARIANTS
  
  FetchedIsWhole
  
  SeenIsHandledOrComing
  
  FeedGivesBack
  
  
  OneIdentity
CHECK_DEADLOCK FALSE
