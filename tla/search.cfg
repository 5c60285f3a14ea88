SPECIFICATION HistSpec
CONSTANTS
  Tunnels = {}
  NoTunnel = NoTunnel
  NumProfiles = 3
  Pids = {p1, p2}
  EngineOutcomes <- Varied
  DirectOutcomes <- OkOrBlocked
  Commands = {"start"}
  CrashCodes = {"driver"}
  Faults = {}
  Tracked = {"launches", "bad"}
SYMMETRY PidSymmetry
INVARIANT BoundedSearch
PROPERTY SwitchNeedsTwoFailures
