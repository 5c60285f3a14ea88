SPECIFICATION FairSpec
CONSTANTS
  Flows = {"q"}
  Strategies <- Plans
  Rules <- SomeRules
  MaxReasm = 3
  TimeoutUdp = 1
  SeqSpace = 2
  Grace = 1
  CountCap = 4
  TimeoutSyn = 1
  TimeoutEstablished = 1
  TimeoutFin = 1
  PurgeInterval = 1
  MaxPieces = 8
  DefragRoom = 5
  Edits <- SomeEdits
  Parts <- Halves
  Others <- Strays
  MaxTrouble = 2
  MaxTime = 1
INVARIANTS TypeOK HeldIsIncomplete FakesLead ReportsAreEarned
PROPERTY KeepsDatagrams HelloAnswered
CHECK_DEADLOCK FALSE
