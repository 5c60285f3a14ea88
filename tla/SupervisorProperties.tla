------------------------ MODULE SupervisorProperties ------------------------
(***************************************************************************)
(* What EngineSupervisor must guarantee, and what its documents say of it. *)
(***************************************************************************)
EXTENDS EngineSupervisor

PCs == {"idle", "refresh", "startProbe", "recheckProbe", "recoverDirect",
        "recoverEngine", "directProbe", "engineProbe", "reevaluate", "apply",
        "kill", "startBest", "adopt", "stale", "candidates", "start", "lease",
        "settle", "restore", "restored", "persistent", "gaveUp", "stopped"}

\* An attached or leased process, or none.
Process == {NoEngine} \cup [pid : Pids, profile : Profiles]

Locals == [ret : PCs, seen : Tunnels \cup {NoTunnel}, first : Profiles,
           cand : Profiles \cup {NoProfile}, victim : Pids \cup {NoPid}]

Snapshot == [state : {"stopped", "ready", "degraded", "recovering"},
             mode : {"stopped", "direct", "engine"}, healthy : BOOLEAN]

\* The variables and the fields of the Agent's memory keep their types.
TypeOK ==
  /\ tunnel \in Tunnels \cup {NoTunnel}
  /\ procs \in [Pids -> Profiles \cup {Dead}]
  /\ lease \in Process /\ engine \in Process
  /\ pref \in Profiles \cup {NoProfile}
  /\ exit \in {"none"} \cup CrashCodes
  /\ m \in Memory
  /\ pc \in PCs
  /\ op \in Locals
  /\ waiting \subseteq Commands
  /\ snap \in Snapshot

Live == {pid \in Pids : procs[pid] # Dead}

\* Two Engines (two WinDivert filters) never run at the same time, whatever
\* crashes, kills that time out and adoptions happen in between.
AtMostOneEngine == \A p, q \in Live : p = q

\* In direct mode no Engine is attached and alive: EngineSupervisor.cs never
\* keeps a WinDivert filter of its own layered over a tunnel it trusts.
DirectModeOwnsNoEngine == m.direct => ~Running

\* As long as the Agent itself never dies and kills work, direct mode means
\* that no Engine process exists at all.
NoEngineUnderDirectMode == m.direct => Live = {}

\* The profile the Agent reports is the one the process really runs, also
\* for a process adopted through its lease after a crash of the Agent.
ActiveProfileIsReal == Running => procs[engine.pid] = engine.profile

\* A start never rests on probes that were healthy: the path through
\* StartBestInternalAsync always launches or adopts, so the three calls of
\* DeferToActiveTunnelAsync find nothing to defer to.
NeverDefers == pc \in {"startBest", "start", "settle"} => ~Deferrable

\* Every command is answered, whatever holds the gate (StopAsync, ...).
CommandsAnswered == \A c \in Commands : c \in waiting ~> c \notin waiting

\* A wanted connection comes back after any crash, exit or tunnel change: an
\* Engine runs or a tunnel carries the traffic, unless a stop is asked.
WantedConnectionReturns == m.desired ~> (Running \/ m.direct \/ ~m.desired)
=============================================================================
