--------------------------- MODULE TransportPolicy ---------------------------
(***************************************************************************)
(* The stateless decisions of TransportPolicy.cs.  A probe list is a       *)
(* function from the names of the probes it holds to BOOLEAN (Ok): a name  *)
(* occurs at most once in a list, and the empty function is the empty list.*)
(***************************************************************************)
EXTENDS Integers, FiniteSets

CONSTANTS Tunnels,    \* identities an external tunnel adapter can have
          NoTunnel    \* no external tunnel is up

ASSUME TunnelAssumption == NoTunnel \notin Tunnels

ProbeNames == {"gateway", "discord.com", "cdn.discordapp.com",
               "www.youtube.com", "dns",
               "discord-client", "discord-voice", "discord-voice-idle"}

ProbeLists == UNION {[S -> BOOLEAN] : S \in SUBSET ProbeNames}

NoProbes == [n \in {} |-> FALSE]

Passed(ps, n) == n \in DOMAIN ps /\ ps[n]

AllPassed(ps) == DOMAIN ps # {} /\ \A n \in DOMAIN ps : ps[n]

CanRememberEngineProfile(tun) == tun = NoTunnel

\* Mutant: probes made through a running Engine vouch for the tunnel.
CanUseDirectModeAnyway(tun, ps, engineRunning) ==
  tun # NoTunnel /\ AllPassed(ps)

CanUseDirectMode(tun, ps, engineRunning) ==
  tun # NoTunnel /\ ~engineRunning /\ AllPassed(ps)

ShouldRotatePendingProfile(engineRunning, failures, attempted, total, ps) ==
  /\ engineRunning
  /\ failures >= 2
  /\ attempted < total
  /\ \E n \in DOMAIN ps : ~ps[n]
=============================================================================
