SPECIFICATION FairSpec
CONSTANTS
  Tunnels = {}
  NoTunnel = NoTunnel
  NumProfiles = 1
  Pids = {p1}
  EngineOutcomes <- Preserved
  DirectOutcomes <- OkOrBlocked
  Commands = {"start", "stop", "status"}
  CrashCodes = {"driver"}
  Faults = {}
PROPERTIES CommandsAnswered WantedConnectionReturns
