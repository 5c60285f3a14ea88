SPECIFICATION Spec
CONSTANTS
  Tunnels = {t1}
  NoTunnel = NoTunnel
  NumProfiles = 2
  Pids = {p1, p2}
  EngineOutcomes <- Graded
  DirectOutcomes <- OkOrBlocked
  Commands = {"start", "recheck"}
  CrashCodes = {"other"}
  Faults = {"agent", "kill", "verify", "launch", "save"}
SYMMETRY PidSymmetry
INVARIANTS TypeOK AtMostOneEngine DirectModeOwnsNoEngine ActiveProfileIsReal
