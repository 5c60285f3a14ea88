SPECIFICATION HistSpec
CONSTANTS
  Tunnels = {t1}
  NoTunnel = NoTunnel
  NumProfiles = 1
  Pids = {p1, p2}
  EngineOutcomes <- OkOrBlocked
  DirectOutcomes <- OkOrBlocked
  Commands = {"start"}
  CrashCodes = {"other"}
  Faults = {}
  Tracked = {"carrier"}
PROPERTY DirectModeIsProven
