SPECIFICATION HistSpec
CONSTANTS
  Tunnels = {t1}
  NoTunnel = NoTunnel
  NumProfiles = 1
  Pids = {p1, p2}
  EngineOutcomes <- OkOrBlocked
  DirectOutcomes <- OkOrBlocked
  Commands = {"start", "stop", "recheck"}
  CrashCodes = {"other"}
  Faults = {}
  Tracked = {"stop", "carrier"}
SYMMETRY PidSymmetry
INVARIANTS NoEngineUnderDirectMode NeverDefers HealthIsFresh StopSticks
