SPECIFICATION Spec
CONSTANTS
  Conns = {"c1", "c2"}
  Hosts = {"a.b", "b", "c", "d"}
  Parent <- Parents
  Files = {"list", "auto", "excl"}
  Inline = {}
  Profiles <- Three
  SeqSpace = 8
  Grace = 4
  CountCap = 1
  TimeoutSyn = 1
  TimeoutEstablished = 2
  TimeoutFin = 1
  PurgeInterval = 1
  Streams <- Requests
  MaxReasm = 8
  CacheHosts = TRUE
  CacheLifetime = 1
  ClientOf <- Client5
  AtStart = {"closed"}
  Isn <- NearWrap
  Window = 1
  Mss = 1
  Initial <- Lists
  MaxTime = 1
  MaxTrouble = 2
  MaxGen = 0
  MaxEdits = 1
  Contents <- Edits
  Lockable = {}
  Blocks = {"rst"}
INVARIANTS SignatureMeansContent ExcludedNeverSplit ProfileFitsHost
PROPERTY LearnedIsNew
CHECK_DEADLOCK FALSE
