--------------------------- MODULE EngineSupervisor ---------------------------
(***************************************************************************)
(* EngineSupervisor.cs: the Agent component that decides whether the       *)
(* network traffic of Discord and YouTube goes through a FOG Engine        *)
(* process or directly through an external tunnel, and that starts, adopts,*)
(* qualifies, replaces and stops Engine processes.                         *)
(*                                                                         *)
(* Every operation runs under the semaphore _gate.  An operation is cut    *)
(* into one action per stretch of code between two awaits; pc names the    *)
(* stretch that runs next and "idle" means that the gate is free.  The     *)
(* fields other threads write without the gate are _desiredRunning (a stop *)
(* request, before it waits for the gate) and what the handler of          *)
(* Process.Exited changes.  Durations are abstracted: a deadline read by   *)
(* the code has passed or not, and a pause ends when the environment says. *)
(***************************************************************************)
EXTENDS ProfileSearch

CONSTANTS Pids,            \* process identities: a pid with its start time
          EngineOutcomes,  \* what the probes can report while an Engine runs
          DirectOutcomes,  \* what they can report while none runs
          Commands,        \* the commands the local pipe delivers
          CrashCodes,      \* how an Engine may exit: driver (232) or other
          Faults           \* failures to consider, see the fault actions

ASSUME OutcomeAssumption ==
  /\ EngineOutcomes \subseteq ProbeLists \ {NoProbes}
  /\ DirectOutcomes \subseteq ProbeLists \ {NoProbes}

ASSUME CommandAssumption ==
  /\ Commands \subseteq {"start", "stop", "recheck", "status"}
  /\ CrashCodes \subseteq {"driver", "other"}
  /\ Faults \subseteq {"agent", "kill", "verify", "launch", "save"}

VARIABLES
  tunnel,   \* what FindActiveTunnel would return now
  procs,    \* pid -> profile a live Engine process runs, or Dead
  lease,    \* engine-session.json: NoEngine or the leased process
  pref,     \* preferred-profile.json: NoProfile or the remembered profile
  engine,   \* _engine and _activeProfile: NoEngine or the attached process
  exit,     \* the Exited event not handled yet: "none" or a crash code
  m,        \* the other fields of the supervisor and of its policies
  pc, op,   \* the stretch to run and the locals of the operation
  waiting,  \* commands waiting for the gate, at most one of each kind
  snap      \* _latestSnapshot

world == <<tunnel, procs>>
files == <<lease, pref>>
agent == <<engine, exit, m, pc, op, waiting, snap>>
vars == <<tunnel, procs, lease, pref, engine, exit, m, pc, op, waiting,
          snap>>

Dead == 0
NoProfile == 0
NoPid == "noPid"

ASSUME PidAssumption == NoPid \notin Pids

NoEngine == [pid |-> NoPid, profile |-> NoProfile]
-----------------------------------------------------------------------------
(***************************************************************************)
(* The memory of the supervisor, and the methods that only change it: each *)
(* is a function from the memory before the call to the memory after it.   *)
(***************************************************************************)
Memory ==
  [desired : BOOLEAN,                     \* _desiredRunning
   direct : BOOLEAN,                      \* _directMode
   pending : BOOLEAN,                     \* _startupQualificationPending
   qfails : 0..2,                         \* _startupQualificationFailures
   attempted : SUBSET Profiles,           \* _startupAttemptedProfiles
   probes : ProbeLists,                   \* _lastProbes
   tunId : Tunnels \cup {NoTunnel},       \* _activeTunnelIdentity
   next : Profiles,                       \* ProfileRotation._nextProfileId
   remembered : Profiles \cup {NoProfile},\* _rememberedProfileId
   loaded : BOOLEAN,                      \* _preferredProfileLoaded
   context : Tunnels \cup {NoTunnel},     \* network part of _preferredContext
   scores : [Profiles -> Int],            \* ProfileSearch._scores
   voice : BOOLEAN,                       \* ProfileSearch.VoiceRequired
   failures : 0..3,                       \* SessionRecoveryPolicy._failures
   hold : BOOLEAN,                        \* now < _nextProfileSearchAt
   paused : BOOLEAN]                      \* DriverConflictBackoff pause

InitMemory ==
  [desired |-> FALSE, direct |-> FALSE, pending |-> FALSE, qfails |-> 0,
   attempted |-> {}, probes |-> NoProbes, tunId |-> NoTunnel, next |-> 1,
   remembered |-> NoProfile, loaded |-> FALSE, context |-> NoTunnel,
   scores |-> NoScores, voice |-> FALSE, failures |-> 0, hold |-> FALSE,
   paused |-> FALSE]

Running == engine # NoEngine /\ procs[engine.pid] # Dead

\* Mutant: the attempted profiles are not cleared.
CompleteKeepingAttempts(mm) == [mm EXCEPT !.pending = FALSE, !.qfails = 0]

CompleteStartupQualification(mm) ==
  [mm EXCEPT !.pending = FALSE, !.qfails = 0, !.attempted = {}]

ResetSearch(mm) == [mm EXCEPT !.scores = NoScores, !.voice = FALSE]

\* Mutant: the probes of the last cycle are kept.
ResetKeepingProbes(mm) ==
  [ResetSearch(CompleteStartupQualification(mm)) EXCEPT !.hold = FALSE]

ResetStartupCycle(mm) ==
  [ResetSearch(CompleteStartupQualification(mm)) EXCEPT
     !.hold = FALSE, !.probes = NoProbes]

\* Mutant: every new profile starts a new search.
MarkAfresh(mm) ==
  [mm EXCEPT !.pending = TRUE, !.qfails = 0, !.probes = NoProbes,
             !.attempted = {}]

\* Mutant: the failures of the profile before count against the new one.
MarkKeepingFailures(mm) == [mm EXCEPT !.pending = TRUE, !.probes = NoProbes]

MarkStartupQualificationPending(mm) ==
  [mm EXCEPT !.pending = TRUE, !.qfails = 0, !.probes = NoProbes]

UpdateCompatibility(mm, tun) == [mm EXCEPT !.tunId = tun]

EnterDirectMode(mm, tun) ==
  UpdateCompatibility(
    CompleteStartupQualification([mm EXCEPT !.direct = TRUE]), tun)

LeaveDirectMode(mm, tun) == UpdateCompatibility([mm EXCEPT !.direct = FALSE], tun)

\* ForgetPreferredProfile on the memory and on the file.
Forget(mm, p) ==
  [mm EXCEPT !.remembered = IF @ = p THEN NoProfile ELSE @]

ForgetFile(mm, p) == IF mm.remembered = p THEN NoProfile ELSE pref

\* What a profile that failed leaves behind: it is forgotten and passed over.
Failed(mm, p) == [Forget(mm, p) EXCEPT !.next = MovePast(p)]
-----------------------------------------------------------------------------
(***************************************************************************)
(* Snapshots, and how an operation ends, waits or stops the Engine.        *)
(***************************************************************************)
CreateSnapshot(mm, running, state) ==
  [state   |-> state,
   mode    |-> IF mm.direct THEN "direct"
               ELSE IF running THEN "engine" ELSE "stopped",
   healthy |-> ~mm.pending /\ (running \/ mm.direct) /\ AllPassed(mm.probes)]

CurrentState(mm, running) ==
  CASE mm.direct -> IF AllPassed(mm.probes) THEN "ready" ELSE "degraded"
    [] ~mm.direct /\ mm.pending -> "recovering"
    [] ~mm.direct /\ ~mm.pending /\ ~running ->
         IF mm.desired THEN "recovering" ELSE "stopped"
    [] OTHER -> IF AllPassed(mm.probes) THEN "ready" ELSE "degraded"

NoOp == [ret |-> "idle", seen |-> NoTunnel, first |-> 1,
         cand |-> NoProfile, victim |-> NoPid]

\* The operation continues at label l.
Goto(l) == pc' = l

\* The operation returns the snapshot of the given state and frees the gate.
Finish(mm, state) ==
  /\ m' = mm
  /\ snap' = CreateSnapshot(mm, Running, state)
  /\ pc' = "idle"
  /\ op' = NoOp

\* An exception leaves the operation: the gate is freed, nothing is returned.
Throw ==
  /\ pc' = "idle"
  /\ op' = NoOp
  /\ UNCHANGED snap

LeaseCleared(pid) == IF lease.pid = pid THEN NoEngine ELSE lease

\* StopInternalAsync up to its await: the Engine is detached, its lease is
\* cleared and it is told to die; the operation goes on at label l when it
\* has.  An exit that was not handled yet now counts as a requested one.
StopInternal(o, l) ==
  /\ engine' = NoEngine
  /\ exit' = "none"
  /\ lease' = LeaseCleared(engine.pid)
  /\ op' = [o EXCEPT !.victim = engine.pid, !.ret = l]
  /\ pc' = "kill"
  /\ UNCHANGED snap

Idle == pc = "idle"

\* A step that changes only the memory, the snapshot and where it goes on.
Quiet == UNCHANGED <<world, files, engine, exit, waiting>>
-----------------------------------------------------------------------------
(***************************************************************************)
(* Commands.  A request waits for the gate; a stop request first clears    *)
(* _desiredRunning, whoever holds the gate.                                *)
(***************************************************************************)
\* Mutant: a stop request does not clear _desiredRunning.
RequestUnmarked(c) ==
  /\ c \in Commands \ waiting
  /\ waiting' = waiting \cup {c}
  /\ UNCHANGED <<world, files, engine, exit, m, pc, op, snap>>

Request(c) ==
  /\ c \in Commands \ waiting
  /\ waiting' = waiting \cup {c}
  /\ m' = IF c = "stop" THEN [m EXCEPT !.desired = FALSE] ELSE m
  /\ UNCHANGED <<world, files, engine, exit, pc, op, snap>>

Taken(c) ==
  /\ Idle
  /\ c \in waiting
  /\ waiting' = waiting \ {c}

\* StartBestAsync up to its first await.
StartBest ==
  LET wanted == [m EXCEPT !.desired = TRUE, !.paused = FALSE]
      fresh  == ResetStartupCycle(wanted)
  IN  /\ Taken("start")
      /\ \/ /\ Running
            /\ m' = wanted
            /\ Goto("refresh")
            /\ op' = op
         \/ /\ ~Running /\ tunnel # NoTunnel
            /\ m' = fresh
            /\ Goto("startProbe")
            /\ op' = [op EXCEPT !.seen = tunnel]
         \/ /\ ~Running /\ tunnel = NoTunnel
            /\ m' = [fresh EXCEPT !.direct = FALSE]
            /\ Goto("startBest")
            /\ op' = op
      /\ UNCHANGED <<world, files, engine, exit, snap>>

\* RefreshHealthAsync up to its first await.
Recheck ==
  /\ Taken("recheck")
  /\ \/ /\ tunnel # NoTunnel /\ ~Running
        /\ m' = m
        /\ Goto("recheckProbe")
     \/ /\ tunnel = NoTunnel \/ Running
        /\ m' = UpdateCompatibility(m, tunnel)
        /\ Goto("refresh")
  /\ op' = [op EXCEPT !.seen = tunnel]
  /\ UNCHANGED <<world, files, engine, exit, snap>>

\* StopAsync once it holds the gate.
Stop ==
  /\ Taken("stop")
  /\ m' = ResetStartupCycle(
            [LeaveDirectMode(m, NoTunnel) EXCEPT !.paused = FALSE])
  /\ StopInternal(op, "stopped")
  /\ UNCHANGED <<world, pref>>

\* Mutant: the gate is not released after a stop.
StoppedHolding ==
  /\ pc = "stopped"
  /\ snap' = CreateSnapshot(m, Running, "stopped")
  /\ Quiet /\ UNCHANGED <<m, pc, op>>

Stopped ==
  /\ pc = "stopped"
  /\ Finish(m, "stopped")
  /\ Quiet

\* GetSnapshotAsync; while the gate is taken it returns the cached snapshot.
Status ==
  /\ Taken("status")
  /\ Finish(m, CurrentState(m, Running))
  /\ UNCHANGED <<world, files, engine, exit>>
-----------------------------------------------------------------------------
(***************************************************************************)
(* The two background loops, ReconcileCompatibilityAsync (every 2 s) and   *)
(* RecoverIfNeededAsync (every 3 to 20 s, or when woken after a launch).   *)
(***************************************************************************)
\* The tail both loops share when no Engine runs: start one if it is wanted.
RestoreEngine(mm) ==
  /\ m' = ResetStartupCycle(mm)
  /\ Goto("startBest")
  /\ op' = op
  /\ UNCHANGED snap

TunnelChanged ==
  /\ tunnel # m.tunId
  /\ m.desired
  /\ m.direct \/ Running \/ m.probes # NoProbes

ReconcileChanged ==
  /\ Idle /\ tunnel # NoTunnel /\ TunnelChanged
  /\ \/ /\ Running
        /\ StopInternal([op EXCEPT !.seen = tunnel], "reevaluate")
     \/ /\ ~Running
        /\ Goto("reevaluate")
        /\ op' = [op EXCEPT !.seen = tunnel]
        /\ UNCHANGED <<engine, exit, lease, snap>>
  /\ UNCHANGED <<world, pref, m, waiting>>

\* IsStartupQualificationDue: whether the deadline has passed is not tracked.
\* With an Engine running the Agent is never in direct mode, so the branch of
\* ReconcileCompatibilityAsync that leaves it first changes nothing here.
QualificationMayBeDue == m.pending /\ Running

ReconcileDue ==
  /\ Idle /\ QualificationMayBeDue
  /\ ~(tunnel # NoTunnel /\ TunnelChanged)
  /\ Goto("refresh")
  /\ UNCHANGED <<world, files, engine, exit, m, op, waiting, snap>>

ReconcileTunnel ==
  LET mm == UpdateCompatibility(m, tunnel) IN
  /\ Idle /\ tunnel # NoTunnel /\ ~TunnelChanged
  /\ \/ /\ CanUseDirectMode(tunnel, m.probes, Running)
        /\ Finish(EnterDirectMode(m, tunnel), "ready")
     \/ /\ ~CanUseDirectMode(tunnel, m.probes, Running)
        /\ m.desired /\ ~Running
        /\ RestoreEngine(mm)
     \/ /\ ~CanUseDirectMode(tunnel, m.probes, Running)
        /\ ~m.desired \/ Running
        /\ Finish(mm, CurrentState(mm, Running))
  /\ Quiet

ReconcileNoTunnel ==
  LET mm == LeaveDirectMode(m, NoTunnel) IN
  /\ Idle /\ tunnel = NoTunnel
  /\ \/ /\ m.desired /\ ~Running /\ m.paused /\ ~m.direct
        /\ Finish(mm, "recovering")
     \/ /\ m.desired /\ ~Running /\ (m.direct \/ ~m.paused)
        /\ RestoreEngine(mm)
     \/ /\ ~m.desired \/ Running
        /\ Finish(mm, CurrentState(mm, Running))
  /\ Quiet

Reconcile ==
  ReconcileChanged \/ ReconcileDue \/ ReconcileTunnel \/ ReconcileNoTunnel

\* RecoverIfNeededAsync up to its first await, with a tunnel and without.
RecoverTunnel ==
  /\ Idle /\ tunnel # NoTunnel
  /\ Goto(IF Running THEN "recoverEngine" ELSE "recoverDirect")
  /\ op' = [op EXCEPT !.seen = tunnel]
  /\ UNCHANGED <<world, files, engine, exit, m, waiting, snap>>

RecoverNoTunnel ==
  LET mm == LeaveDirectMode(m, NoTunnel) IN
  /\ Idle /\ tunnel = NoTunnel
  /\ \/ /\ m.direct \/ (m.desired /\ ~Running /\ ~m.paused)
        /\ RestoreEngine(mm)
     \/ /\ ~m.direct /\ m.desired /\ ~Running /\ m.paused
        /\ Finish(mm, "recovering")
     \/ /\ ~m.direct /\ Running
        /\ m' = mm
        /\ Goto("refresh")
        /\ UNCHANGED <<op, snap>>
     \/ /\ ~m.direct /\ ~m.desired /\ ~Running
        /\ Finish(mm, "stopped")
  /\ Quiet

Recover == RecoverTunnel \/ RecoverNoTunnel
-----------------------------------------------------------------------------
(***************************************************************************)
(* Probe results.  The outcome of a check is one of a set the environment  *)
(* chooses from.                                                           *)
(***************************************************************************)
Probed(mm, ps) == [mm EXCEPT !.probes = ps]

\* Recheck, recover and reevaluate with no Engine running, after the check:
\* direct mode if the tunnel seen at the start is healthy, else the Engine.
DirectResult ==
  /\ pc \in {"recheckProbe", "recoverDirect", "reevaluate"}
  /\ \E ps \in DirectOutcomes :
       LET failed == LeaveDirectMode(Probed(m, ps), op.seen)
           usable == CanUseDirectMode(op.seen, ps, Running)
       IN  \/ /\ usable
              /\ Finish(EnterDirectMode(Probed(m, ps), op.seen), "ready")
           \/ /\ ~usable /\ m.desired
              /\ RestoreEngine(failed)
           \/ /\ ~usable /\ ~m.desired
              /\ Finish(failed, IF pc = "recoverDirect"
                                THEN CurrentState(failed, Running)
                                ELSE "degraded")
  /\ Quiet

\* StartBestAsync after CheckDirectAsync: the failed list is kept.
StartProbed ==
  /\ pc = "startProbe"
  /\ \E ps \in DirectOutcomes :
       \/ /\ CanUseDirectMode(op.seen, ps, FALSE)
          /\ Finish(EnterDirectMode(Probed(m, ps), op.seen), "ready")
       \/ /\ ~CanUseDirectMode(op.seen, ps, FALSE)
          /\ m' = LeaveDirectMode(Probed(m, ps), op.seen)
          /\ Goto("startBest")
          /\ UNCHANGED <<op, snap>>
  /\ Quiet

\* Mutant: with a tunnel up, the tunnel is probed instead of the Engine.
RefreshByRoute ==
  /\ pc = "refresh"
  /\ \/ Running /\ tunnel = NoTunnel /\ Goto("engineProbe")
     \/ Running /\ tunnel # NoTunnel /\ Goto("directProbe")
     \/ ~Running /\ m.direct /\ Goto("directProbe")
  /\ Quiet /\ UNCHANGED <<m, op, snap>>

\* RefreshHealthInternalAsync up to its await.
Refresh ==
  /\ pc = "refresh"
  /\ \/ /\ Running
        /\ Goto("engineProbe")
        /\ UNCHANGED <<m, op, snap>>
     \/ /\ ~Running /\ m.direct
        /\ Goto("directProbe")
        /\ UNCHANGED <<m, op, snap>>
     \/ /\ ~Running /\ ~m.direct
        /\ Finish(m, IF m.desired THEN "recovering" ELSE "stopped")
  /\ Quiet

DirectProbed ==
  /\ pc = "directProbe"
  /\ \E ps \in DirectOutcomes :
       Finish(Probed(m, ps), IF AllPassed(ps) THEN "ready" ELSE "degraded")
  /\ Quiet

EngineProbed ==
  /\ pc = "engineProbe"
  /\ \E ps \in EngineOutcomes : m' = Probed(m, ps)
  /\ Goto("apply")
  /\ UNCHANGED <<world, files, engine, exit, op, waiting, snap>>

\* RecoverIfNeededAsync with a tunnel and an Engine, after the check.
RecoverProbed ==
  /\ pc = "recoverEngine"
  /\ \E ps \in EngineOutcomes :
       LET failed == LeaveDirectMode(Probed(m, ps), op.seen)
           usable == CanUseDirectMode(op.seen, ps, Running)
       IN  \/ /\ usable
              /\ Finish(EnterDirectMode(Probed(m, ps), op.seen), "ready")
           \/ /\ Running
              /\ m' = failed
              /\ Goto("apply")
              /\ UNCHANGED <<op, snap>>
           \/ /\ ~usable /\ ~Running /\ m.desired
              /\ RestoreEngine(failed)
           \/ /\ ~usable /\ ~Running /\ ~m.desired
              /\ Finish(failed, CurrentState(failed, Running))
  /\ Quiet
-----------------------------------------------------------------------------
(***************************************************************************)
(* ApplyEngineProbeResultsAsync: what the probes of a running Engine lead  *)
(* to.  The branches are tried in the order of the actions below.          *)
(***************************************************************************)
Observed ==
  [m EXCEPT !.probes = IncludeVoiceRequirement(m.voice, @),
            !.voice = VoiceRequired(@, m.probes)]

Applying == pc = "apply"

\* RememberSuccessfulProfile: nothing is saved while a tunnel is up.
Remember(mm, p) ==
  IF CanRememberEngineProfile(tunnel)
  THEN [mm EXCEPT !.remembered = p, !.loaded = TRUE, !.context = tunnel]
  ELSE mm

Remembers(mm, p) ==
  CanRememberEngineProfile(tunnel) /\ ~(mm.context = tunnel /\ mm.remembered = p)

ApplyReady ==
  LET mm == [Observed EXCEPT !.failures = 0, !.paused = FALSE] IN
  /\ Applying
  /\ AllPassed(mm.probes)
  /\ pref' = IF Remembers(mm, engine.profile) THEN engine.profile ELSE pref
  /\ Finish(UpdateCompatibility(ResetSearch(CompleteStartupQualification(
              Remember(mm, engine.profile))), tunnel), "ready")
  /\ UNCHANGED <<world, lease, engine, exit, waiting>>

ApplyPreserved ==
  /\ Applying
  /\ ~AllPassed(Observed.probes)
  /\ PreserveConnectedClient(Observed.probes)
  /\ Finish(ResetSearch(CompleteStartupQualification(
              [Observed EXCEPT !.failures = 0])), "degraded")
  /\ Quiet

\* The checks failed in a way that counts against the profile.
Degraded ==
  /\ Applying
  /\ ~AllPassed(Observed.probes)
  /\ ~PreserveConnectedClient(Observed.probes)

Capped(n, limit) == IF n < limit THEN n + 1 ELSE limit

\* A pending profile after one more failed check.
Inconclusive == [Observed EXCEPT !.qfails = Capped(@, 2)]

\* The first failure, or any within the 30 s a wanted voice session is given.
ApplyInconclusive ==
  /\ Degraded /\ m.pending
  /\ \/ /\ Inconclusive.qfails < 2
        /\ Finish(UpdateCompatibility(Inconclusive, tunnel), "recovering")
     \/ /\ Inconclusive.qfails >= 2
        /\ Inconclusive.voice
        /\ Finish(Inconclusive, "recovering")
  /\ Quiet

\* A second failure: the profile is attempted and scored.
Disqualified ==
  [Inconclusive EXCEPT
     !.attempted = @ \cup {engine.profile},
     !.scores = [@ EXCEPT ![engine.profile] = Score(Inconclusive.probes)]]

MayRotate ==
  ShouldRotatePendingProfile(Running, Disqualified.qfails,
    Cardinality(Disqualified.attempted), NumProfiles, Disqualified.probes)

ApplyRotate ==
  /\ Degraded /\ m.pending
  /\ Inconclusive.qfails >= 2
  /\ MayRotate
  /\ m' = Failed(Disqualified, engine.profile)
  /\ pref' = ForgetFile(m, engine.profile)
  /\ StopInternal(op, "startBest")
  /\ UNCHANGED <<world, waiting>>

\* The search is over: the next one has to wait five minutes.
Exhausted(mm) ==
  UpdateCompatibility(
    CompleteStartupQualification([mm EXCEPT !.hold = TRUE]), tunnel)

\* No profile is left to try: the best one stays, or is restored.
ApplyExhausted ==
  /\ Degraded /\ m.pending
  /\ Inconclusive.qfails >= 2
  /\ ~MayRotate
  /\ \E best \in Best(Disqualified.scores, engine.profile) :
       \/ /\ best = engine.profile
          /\ Finish(Exhausted(Disqualified), "degraded")
          /\ UNCHANGED <<lease, engine, exit>>
       \/ /\ best # engine.profile
          /\ m' = Disqualified
          /\ StopInternal([op EXCEPT !.cand = best], "restore")
  /\ UNCHANGED <<world, pref, waiting>>

\* SessionRecoveryPolicy.Observe(false), and whether it asks for a recovery.
Observe == [Observed EXCEPT !.failures = Capped(@, 3)]

Searchable == m.desired /\ ~m.hold

ApplyPersistent ==
  /\ Degraded /\ ~m.pending
  /\ Searchable
  /\ Observe.failures >= 3
  /\ m' = Failed([Observe EXCEPT !.failures = 0], engine.profile)
  /\ pref' = ForgetFile(m, engine.profile)
  /\ StopInternal([op EXCEPT !.cand = engine.profile], "persistent")
  /\ UNCHANGED <<world, waiting>>

ApplyStable ==
  /\ Degraded /\ ~m.pending
  /\ Finish(IF Searchable THEN Observe ELSE Observed, "degraded")
  /\ Quiet

\* Bounded recovery after its StopInternalAsync: a new cycle that has already
\* tried and scored the profile that failed.
Persistent ==
  LET reset == ResetStartupCycle(m) IN
      /\ pc = "persistent"
      /\ m' = [reset EXCEPT
                 !.voice = VoiceRequired(@, m.probes),
                 !.scores = [@ EXCEPT ![op.cand] = Score(m.probes)],
                 !.attempted = {op.cand}]
      /\ Goto("startBest")
      /\ op' = NoOp
      /\ Quiet /\ UNCHANGED snap
-----------------------------------------------------------------------------
(***************************************************************************)
(* StartBestInternalAsync, with StopInternalAsync and StartProfile.        *)
(***************************************************************************)
\* DeferToActiveTunnelAsync: a tunnel the last probes found healthy is used.
Deferrable == CanUseDirectMode(tunnel, m.probes, Running)

Defer == Finish(EnterDirectMode(m, tunnel), "ready")

StartBestInternal ==
  LET mm == UpdateCompatibility(m, tunnel) IN
  /\ pc = "startBest"
  /\ IF ~m.desired THEN Finish(mm, "stopped")
     ELSE IF m.paused THEN Finish(mm, "recovering")
     ELSE IF Deferrable THEN Defer
     ELSE m' = mm /\ Goto("adopt") /\ UNCHANGED <<op, snap>>
  /\ Quiet

\* Mutant: an adopted process is taken to run the profile tried next.
AdoptPreferred ==
  /\ pc = "adopt"
  /\ lease # NoEngine
  /\ procs[lease.pid] # Dead
  /\ engine' = [lease EXCEPT !.profile = m.next]
  /\ Finish(MarkStartupQualificationPending(m), "recovering")
  /\ UNCHANGED <<world, files, exit, waiting>>

\* After VerifyAsync.  TryAdoptSessionEngine finds the leased process alive:
\* it is attached and has to qualify like a new one.
Adopt ==
  LET mm == UpdateCompatibility(
              MarkStartupQualificationPending(
                [m EXCEPT !.next = lease.profile]), tunnel)
  IN  /\ pc = "adopt"
      /\ lease # NoEngine
      /\ procs[lease.pid] # Dead
      /\ engine' = lease
      /\ m' = mm
      /\ snap' = CreateSnapshot(mm, TRUE, "recovering")
      /\ pc' = "idle"
      /\ op' = NoOp
      /\ UNCHANGED <<world, files, exit, waiting>>

\* There is no lease, or its process is gone: its profile is passed over.
NotAdopted ==
  /\ pc = "adopt"
  /\ \/ /\ lease = NoEngine
        /\ UNCHANGED <<lease, m>>
     \/ /\ lease # NoEngine
        /\ procs[lease.pid] = Dead
        /\ lease' = NoEngine
        /\ m' = [m EXCEPT !.next = MovePast(lease.profile)]
  /\ Goto("stale")
  /\ UNCHANGED <<world, pref, engine, exit, op, waiting, snap>>

\* LoadPreferredProfile: a file of another network is deleted.
Loaded(mm) == mm.loaded /\ mm.context = tunnel

LoadPreferred(mm, file) ==
  LET known == [mm EXCEPT !.loaded = TRUE, !.context = tunnel,
                          !.remembered = file]
  IN  IF Loaded(mm) THEN mm
      ELSE IF file = NoProfile THEN known ELSE [known EXCEPT !.next = file]

\* The file as LoadPreferredProfile reads it: saved without a tunnel only.
PreferredFile == IF tunnel = NoTunnel THEN pref ELSE NoProfile

\* Mutant: processes no lease vouches for are left alone.
StopStaleNothing ==
  /\ pc = "stale"
  /\ op' = [op EXCEPT !.first = m.next]
  /\ Goto("candidates")
  /\ UNCHANGED <<world, files, engine, exit, m, waiting, snap>>

\* StopStaleEnginesAsync and LoadPreferredProfile.
StopStale ==
  LET mm == LoadPreferred(m, PreferredFile) IN
  /\ pc = "stale"
  /\ procs' = [p \in Pids |-> IF p = engine.pid THEN procs[p] ELSE Dead]
  /\ pref' = IF Loaded(m) THEN pref ELSE PreferredFile
  /\ m' = mm
  /\ op' = [op EXCEPT !.first = mm.next]
  /\ Goto("candidates")
  /\ UNCHANGED <<tunnel, lease, engine, exit, waiting, snap>>

\* The next profile of the order, if the Engine is still wanted.
NextCandidate ==
  /\ pc = "candidates"
  /\ \E p \in Untried(op.first, m.attempted) :
       \/ /\ ~m.desired
          /\ Finish(m, "stopped")
          /\ UNCHANGED <<lease, engine, exit>>
       \/ /\ m.desired
          /\ m' = [m EXCEPT !.attempted = @ \cup {p}]
          /\ StopInternal([op EXCEPT !.cand = p], "start")
  /\ UNCHANGED <<world, pref, waiting>>

NoCandidate ==
  /\ pc = "candidates"
  /\ Untried(op.first, m.attempted) = {}
  /\ StopInternal(op, "gaveUp")
  /\ UNCHANGED <<world, pref, m, waiting>>

GaveUp ==
  /\ pc = "gaveUp"
  /\ Finish(UpdateCompatibility(m, tunnel), "degraded")
  /\ Quiet

\* StopInternalAsync after its await: the process it killed is gone.
Killed ==
  /\ pc = "kill"
  /\ procs' = [p \in Pids |-> IF p = op.victim THEN Dead ELSE procs[p]]
  /\ Goto(op.ret)
  /\ op' = [op EXCEPT !.victim = NoPid, !.ret = "idle"]
  /\ UNCHANGED <<tunnel, files, engine, exit, m, waiting, snap>>

\* StartProfile up to AttachEngine, then StartProfile's lease.
Spawn(p, l) ==
  /\ \E pid \in Pids :
       /\ procs[pid] = Dead
       /\ pid # lease.pid
       /\ procs' = [procs EXCEPT ![pid] = p]
       /\ engine' = [pid |-> pid, profile |-> p]
  /\ pc' = "lease"
  /\ op' = [op EXCEPT !.ret = l]

StartProfile ==
  /\ pc = "start"
  /\ IF Deferrable
     THEN Defer /\ UNCHANGED <<procs, engine>>
     ELSE Spawn(op.cand, "settle") /\ UNCHANGED <<m, snap>>
  /\ UNCHANGED <<tunnel, files, exit, waiting>>

\* The best profile of an exhausted search, after VerifyAsync.
RestoreBest ==
  /\ pc = "restore"
  /\ Spawn(op.cand, "restored")
  /\ UNCHANGED <<tunnel, files, exit, m, waiting, snap>>

SaveLease ==
  /\ pc = "lease"
  /\ lease' = engine
  /\ Goto(op.ret)
  /\ op' = [op EXCEPT !.ret = "idle"]
  /\ UNCHANGED <<world, pref, engine, exit, m, waiting, snap>>

\* After the settle delay of 300 ms.
Settled ==
  LET mm == UpdateCompatibility(MarkStartupQualificationPending(
              [m EXCEPT !.next = op.cand]), tunnel)
  IN  /\ pc = "settle"
      /\ Deferrable \/ Running
      /\ IF Deferrable THEN Defer ELSE Finish(mm, "recovering")
      /\ Quiet

ExitedEarly ==
  LET mm == Failed(m, op.cand) IN
  /\ pc = "settle"
  /\ ~Deferrable /\ ~Running
  /\ pref' = ForgetFile(m, op.cand)
  /\ \/ /\ m.paused
        /\ Finish(UpdateCompatibility(mm, tunnel), "recovering")
     \/ /\ ~m.paused
        /\ m' = mm
        /\ Goto("candidates")
        /\ UNCHANGED <<op, snap>>
  /\ UNCHANGED <<world, lease, engine, exit, waiting>>

Restored ==
  /\ pc = "restored"
  /\ Finish(Exhausted(Probed(m, NoProbes)), "degraded")
  /\ Quiet
-----------------------------------------------------------------------------
(***************************************************************************)
(* The environment: tunnels come and go, Engines exit, deadlines pass.     *)
(***************************************************************************)
TunnelChanges ==
  /\ tunnel' \in (Tunnels \cup {NoTunnel}) \ {tunnel}
  /\ UNCHANGED <<procs, files, agent>>

EngineExits ==
  \E pid \in Pids, code \in CrashCodes :
    /\ procs[pid] # Dead
    /\ procs' = [procs EXCEPT ![pid] = Dead]
    /\ exit' = IF pid = engine.pid THEN code ELSE exit
    /\ UNCHANGED <<tunnel, files, engine, m, pc, op, waiting, snap>>

\* The handler AttachEngine installs, for an exit nobody requested.
ExitedHandler ==
  /\ exit # "none"
  /\ exit' = "none"
  /\ lease' = LeaseCleared(engine.pid)
  /\ pref' = ForgetFile(m, engine.profile)
  /\ m' = [Failed(m, engine.profile) EXCEPT !.paused = @ \/ exit = "driver"]
  /\ UNCHANGED <<world, engine, pc, op, waiting, snap>>

\* Mutant: the back-off pause does not end by itself.
TimePassesPaused ==
  /\ m.hold
  /\ m' = [m EXCEPT !.hold = FALSE]
  /\ Quiet /\ UNCHANGED <<pc, op, snap>>

\* The back-off pause, or the five minutes between two searches, are over.
TimePasses ==
  /\ \/ m.paused /\ m' = [m EXCEPT !.paused = FALSE]
     \/ m.hold /\ m' = [m EXCEPT !.hold = FALSE]
  /\ Quiet /\ UNCHANGED <<pc, op, snap>>
-----------------------------------------------------------------------------
(***************************************************************************)
(* Faults, each enabled by its name in the constant Faults.                *)
(***************************************************************************)
\* An exception thrown in the operation.
Fails(fault) ==
  /\ fault \in Faults
  /\ Throw
  /\ UNCHANGED <<world, files, engine, exit, m, waiting>>

\* A killed process outlives the five seconds it is given.
KillTimesOut ==
  /\ \/ /\ pc = "kill"
        /\ op.victim # NoPid
        /\ procs[op.victim] # Dead
     \/ /\ pc = "stale"
        /\ \E pid \in Pids : procs[pid] # Dead /\ pid # engine.pid
  /\ Fails("kill")

VerifyFails == pc \in {"adopt", "restore"} /\ Fails("verify")

LaunchFails == pc \in {"start", "restore"} /\ Fails("launch")

SaveLeaseFails ==
  /\ "save" \in Faults
  /\ pc = "lease"
  /\ Goto(op.ret)
  /\ op' = [op EXCEPT !.ret = "idle"]
  /\ UNCHANGED <<world, files, engine, exit, m, waiting, snap>>

InitSnap == [state |-> "stopped", mode |-> "stopped", healthy |-> FALSE]

\* The Agent dies and is started again; Engine processes and files survive.
AgentCrash ==
  /\ "agent" \in Faults
  /\ engine' = NoEngine
  /\ exit' = "none"
  /\ m' = InitMemory
  /\ pc' = "idle"
  /\ op' = NoOp
  /\ waiting' = {}
  /\ snap' = InitSnap
  /\ UNCHANGED <<world, files>>
-----------------------------------------------------------------------------
Init ==
  /\ tunnel \in Tunnels \cup {NoTunnel}
  /\ procs = [p \in Pids |-> Dead]
  /\ lease = NoEngine
  /\ pref \in Profiles \cup {NoProfile}
  /\ engine = NoEngine
  /\ exit = "none"
  /\ m = InitMemory
  /\ pc = "idle"
  /\ op = NoOp
  /\ waiting = {}
  /\ snap = InitSnap

\* A step of the operation that holds the gate.
GateStep ==
  \/ Stopped \/ StartProbed \/ DirectResult \/ Refresh \/ DirectProbed
  \/ EngineProbed \/ RecoverProbed
  \/ ApplyReady \/ ApplyPreserved \/ ApplyInconclusive \/ ApplyRotate
  \/ ApplyExhausted \/ ApplyPersistent \/ ApplyStable \/ Persistent
  \/ StartBestInternal \/ Adopt \/ NotAdopted \/ StopStale \/ NextCandidate
  \/ NoCandidate \/ GaveUp \/ Killed \/ StartProfile \/ RestoreBest
  \/ SaveLease \/ Settled \/ ExitedEarly \/ Restored

EnvStep ==
  \/ TunnelChanges \/ EngineExits \/ ExitedHandler \/ TimePasses
  \/ \E c \in Commands : Request(c)

FaultStep ==
  KillTimesOut \/ VerifyFails \/ LaunchFails \/ SaveLeaseFails \/ AgentCrash

Next ==
  \/ StartBest \/ Recheck \/ Stop \/ Status
  \/ Reconcile \/ Recover
  \/ GateStep \/ EnvStep \/ FaultStep

Spec == Init /\ [][Next]_vars

(***************************************************************************)
(* Every await the gate is held across is bounded by a timeout; the gate is*)
(* granted in the order of the requests (SemaphoreSlim queues its async    *)
(* waiters), so whoever keeps asking is served; the Exited event is        *)
(* delivered and a pause ends with time.                                   *)
(***************************************************************************)
Fairness ==
  /\ WF_vars(GateStep)
  /\ SF_vars(Reconcile) /\ SF_vars(Recover)
  /\ SF_vars(StartBest) /\ SF_vars(Recheck)
  /\ SF_vars(Stop) /\ SF_vars(Status)
  /\ WF_vars(ExitedHandler)
  /\ WF_vars(TimePasses)

FairSpec == Spec /\ Fairness
=============================================================================
