SPECIFICATION FairSpec
CONSTANTS
  Conns = {"c"}
  Hosts = {"a.b", "b"}
  Parent <- Parents
  Files = {}
  Inline = {}
  Profiles <- UpTo3
  SeqSpace = 16
  Grace = 8
  CountCap = 4
  TimeoutSyn = 1
  TimeoutEstablished = 2
  TimeoutFin = 1
  PurgeInterval = 1
  Streams <- Hellos
  MaxReasm = 8
  CacheHosts = FALSE
  CacheLifetime = 0
  ClientOf <- Client5
  AtStart = {"closed", "open"}
  Isn <- NearWrap
  Window = 3
  Mss = 2
  Initial <- Empty
  MaxTime = 1
  MaxTrouble = 1
  MaxGen = 1
  MaxEdits = 0
  Contents <- Nothing
  Lockable = {}
  Blocks = {}
INVARIANT HeldIsReassembled
PROPERTY KeepsPackets RequestDelivered
CHECK_DEADLOCK FALSE
