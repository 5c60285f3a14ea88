SPECIFICATION FairSpec
CONSTANTS
  Tunnels = {t1}
  NoTunnel = NoTunnel
  NumProfiles = 1
  Pids = {p1}
  EngineOutcomes <- OkOrBlocked
  DirectOutcomes <- OkOrBlocked
  Commands = {"start"}
  CrashCodes = {"other"}
  Faults = {}
PROPERTIES WantedConnectionReturns
