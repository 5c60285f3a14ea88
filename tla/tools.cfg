SPECIFICATION Spec
CONSTANTS
  ListA = ListA
  ListB = ListB
  ListGone = ListGone
  DomA = DomA
  DomB = DomB
  SniBuffer = 128
  MaxSplits = 3
  MaxBinds = 2
  Missing = {ListGone}
  MaxOptions = 4
  Groups <- MCGroups
  Packets <- MCPackets
  Running <- MCRunning
  Ssids = {Home}
  Nets = {Office}
  MaxClock = 4
  MaxPackets = 2
  Requests <- MCRequests
  Ifaces = {"e0"}
  MaxMoves = 3
  Threads = {T1, T2}
  Lines <- MCLines
  MaxLines = 3
  Families = {4}
  Attempts = 2
  Resolved = {"ok", "again", "fail"}
  Bits = 5
  Space <- MCSpace
  MaxListed = 6
  MaskBits = {4, 5, 6}
  Settings <- MCSettings
  IdSpace = 64
  MaxFake = 7
  Margin = 2
  MaxFails = 1
  MaxLosses = 1
SYMMETRY Alike
INVARIANTS AsAsked SeesWhatIsNeeded OnlyOnNetwork ListensAsAsked LinesAnswered CoverIsExact JunkNeverRead NothingMissing FakeIdsDiffer
CHECK_DEADLOCK FALSE
