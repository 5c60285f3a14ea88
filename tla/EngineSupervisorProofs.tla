----------------------- MODULE EngineSupervisorProofs -----------------------
(***************************************************************************)
(* Safety of EngineSupervisor for every number of profiles, processes and  *)
(* tunnels, every probe outcome, every command and every combination of    *)
(* the faults, restarts of the Agent included: one Engine at most, of a    *)
(* real profile, and none in direct mode.                                  *)
(***************************************************************************)
EXTENDS SupervisorTypes

-----------------------------------------------------------------------------
(***************************************************************************)
(* At most one Engine.  A launch itself looks for no other Engine: what    *)
(* makes it safe is the path that led to it (the scan for stale processes, *)
(* or the kill of the only one), so the invariant follows the process that *)
(* may still live along the labels of the operation.                       *)
(***************************************************************************)
OneInv ==
  /\ AtMostOneEngine
  /\ engine # NoEngine => Live \subseteq {engine.pid}
  /\ pc \in {"candidates", "lease", "settle"} => Live \subseteq {engine.pid}
  /\ pc = "kill" /\ op.ret \in {"start", "restore"} => Live \subseteq {op.victim}
  /\ pc \in {"start", "restore"} => Live = {}

\* Steps that start no process and attach none.
LEMMA OneQuiet ==
  ASSUME OneInv, Live' \subseteq Live, engine' = engine,
         pc' \notin {"candidates", "lease", "settle", "kill", "start", "restore"}
           \/ (pc' = pc /\ op' = op)
  PROVE  OneInv'
  BY DEF OneInv, AtMostOneEngine

\* An unchanged process table has the same live processes.
LEMMA LiveKept == ASSUME procs' = procs PROVE Live' = Live
  BY DEF Live

\* Stopping the attached Engine leaves no other to survive.
LEMMA OneStop ==
  ASSUME TypeInv, OneInv, procs' = procs, NEW o \in Locals, NEW l,
         l \in {"start", "restore"} => Live \subseteq {engine.pid},
         StopInternal(o, l)
  PROVE  OneInv'
  <1>1. op'.ret = l /\ op'.victim = engine.pid
    BY Zenon DEF StopInternal, Locals
  <1> QED  BY <1>1, LiveKept DEF StopInternal, OneInv, AtMostOneEngine

\* A process started when none lives is the only one.
LEMMA OneSpawn ==
  ASSUME TypeInv, OneInv, pc \in {"start", "restore"}, NEW p, NEW l, Spawn(p, l)
  PROVE  OneInv'
  <1>1. PICK pid \in Pids : procs' = [procs EXCEPT ![pid] = p]
                         /\ engine' = [pid |-> pid, profile |-> p]
    BY DEF Spawn
  <1>2. Live' \subseteq {pid} /\ engine'.pid = pid
    BY <1>1 DEF OneInv, Live, TypeInv, TypeOK
  <1> QED  BY <1>2 DEF Spawn, OneInv, AtMostOneEngine

\* No Engine lives in the initial states.
LEMMA OneInit == Init => OneInv
  BY DEF Init, OneInv, AtMostOneEngine, Live

\* Every step keeps the process that may live where the label says.
LEMMA OneStep == TypeInv /\ OneInv /\ [Next]_vars => OneInv'
  <1> SUFFICES ASSUME TypeInv, OneInv, [Next]_vars PROVE OneInv'
    OBVIOUS
  <1>0. /\ op \in Locals
        /\ \A t \in Tunnels \cup {NoTunnel} : [op EXCEPT !.seen = t] \in Locals
        /\ \A p \in Profiles : [op EXCEPT !.cand = p] \in Locals
    <2>1. op \in Locals
      BY DEF TypeInv, TypeOK
    <2> QED  BY <2>1, Zenon DEF Locals
  <1>1. CASE UNCHANGED vars
    BY <1>1, OneQuiet, LiveKept DEF vars
  <1>2. CASE EnvStep
    <2>1. CASE EngineExits
      <3>1. Live' \subseteq Live
        BY <2>1 DEF EngineExits, Live, TypeInv, TypeOK
      <3> QED  BY <2>1, <3>1, OneQuiet DEF EngineExits
    <2>2. CASE TunnelChanges \/ ExitedHandler \/ TimePasses
                 \/ \E c \in Commands : Request(c)
      BY <2>2, OneQuiet, LiveKept
      DEF TunnelChanges, ExitedHandler, TimePasses, Request, Quiet, world,
          files, agent
    <2> QED  BY <1>2, <2>1, <2>2 DEF EnvStep
  <1>3. CASE FaultStep
    <2>1. CASE AgentCrash
      BY <2>1, LiveKept DEF AgentCrash, OneInv, AtMostOneEngine, world
    <2>2. CASE KillTimesOut \/ VerifyFails \/ LaunchFails
      BY <2>2, OneQuiet, LiveKept
      DEF KillTimesOut, VerifyFails, LaunchFails, Fails, Throw, world
    <2>3. CASE SaveLeaseFails
      <3>1. pc' \in {"settle", "restored"}
        BY <2>3 DEF SaveLeaseFails, Goto, TypeInv, Placed
      <3> QED
        BY <2>3, <3>1, LiveKept
        DEF SaveLeaseFails, OneInv, AtMostOneEngine, world
    <2> QED  BY <1>3, <2>1, <2>2, <2>3 DEF FaultStep
  <1>4. CASE StartBest \/ Recheck \/ Status
    BY <1>4, OneQuiet, LiveKept
    DEF StartBest, Recheck, Status, Finish, Goto, world
  <1>5. CASE Stop
    BY <1>0, <1>5, OneStop DEF Stop, world
  <1>6. CASE Reconcile \/ Recover
    <2>1. CASE ReconcileChanged
      <3>1. CASE StopInternal([op EXCEPT !.seen = tunnel], "reevaluate")
        BY <1>0, <2>1, <3>1, OneStop
        DEF ReconcileChanged, world, TypeInv, TypeOK
      <3>2. CASE Goto("reevaluate") /\ engine' = engine
        BY <2>1, <3>2, OneQuiet, LiveKept DEF ReconcileChanged, Goto, world
      <3> QED  BY <2>1, <3>1, <3>2 DEF ReconcileChanged
    <2>2. CASE ReconcileDue \/ ReconcileTunnel \/ ReconcileNoTunnel
      BY <2>2, OneQuiet, LiveKept
      DEF ReconcileDue, ReconcileTunnel, ReconcileNoTunnel, RestoreEngine,
          Finish, Goto, Quiet, world
    <2>3. CASE Recover
      BY <2>3, OneQuiet, LiveKept
      DEF Recover, RecoverTunnel, RecoverNoTunnel, RestoreEngine, Finish,
          Goto, Quiet, world
    <2> QED  BY <1>6, <2>1, <2>2, <2>3 DEF Reconcile
  <1>7. CASE Stopped \/ StartProbed \/ DirectResult \/ Refresh \/ DirectProbed
               \/ EngineProbed \/ RecoverProbed
    BY <1>7, OneQuiet, LiveKept
    DEF Stopped, StartProbed, DirectResult, Refresh, DirectProbed,
        EngineProbed, RecoverProbed, RestoreEngine, Finish, Goto, Quiet, world
  <1>8. CASE ApplyReady \/ ApplyPreserved \/ ApplyInconclusive \/ ApplyStable
               \/ Persistent \/ GaveUp \/ Restored
    BY <1>8, OneQuiet, LiveKept
    DEF ApplyReady, ApplyPreserved, ApplyInconclusive, ApplyStable,
        Persistent, GaveUp, Restored, Finish, Goto, Quiet, world
  <1>9. CASE ApplyRotate \/ ApplyPersistent
    <2>1. pc = "apply" => engine.profile \in Profiles
      BY Attached DEF TypeInv, Placed
    <2> QED
      BY <1>0, <1>9, <2>1, OneStop
      DEF ApplyRotate, ApplyPersistent, Degraded, Applying, world
  <1>10. CASE ApplyExhausted
    <2>1. Live \subseteq {engine.pid}
      BY <1>10
      DEF ApplyExhausted, Degraded, Applying, OneInv, TypeInv, Placed
    <2>2. PICK best \in Profiles :
            \/ Finish(Exhausted(Disqualified), "degraded") /\ engine' = engine
            \/ StopInternal([op EXCEPT !.cand = best], "restore")
      BY <1>10, BestTyped DEF ApplyExhausted
    <2>3. CASE Finish(Exhausted(Disqualified), "degraded") /\ engine' = engine
      BY <1>10, <2>3, OneQuiet, LiveKept DEF ApplyExhausted, Finish, world
    <2>4. CASE StopInternal([op EXCEPT !.cand = best], "restore")
      BY <1>0, <1>10, <2>1, <2>4, OneStop DEF ApplyExhausted, world
    <2> QED  BY <2>2, <2>3, <2>4
  <1>11. CASE StartBestInternal \/ NotAdopted
    BY <1>11, OneQuiet, LiveKept
    DEF StartBestInternal, NotAdopted, Defer, Finish, Goto, Quiet, world
  <1>12. CASE Adopt
    <2>1. lease.pid \in Live /\ Live' = Live
      BY <1>12, Attached, LiveKept DEF Adopt, Live, TypeInv, world
    <2> QED  BY <1>12, <2>1 DEF Adopt, OneInv, AtMostOneEngine
  <1>13. CASE StopStale
    <2>1. Live' \subseteq Live /\ Live' \subseteq {engine.pid}
      BY <1>13 DEF StopStale, Live, TypeInv, TypeOK
    <2> QED  BY <1>13, <2>1 DEF StopStale, Goto, OneInv, AtMostOneEngine
  <1>14. CASE NextCandidate
    <2>1. op.first \in Profiles
      BY <1>0, Zenon DEF Locals
    <2>2. PICK p \in Profiles :
            \/ Finish(m, "stopped") /\ engine' = engine
            \/ StopInternal([op EXCEPT !.cand = p], "start")
      BY <1>14, <2>1, UntriedTyped DEF NextCandidate
    <2>3. CASE Finish(m, "stopped") /\ engine' = engine
      BY <1>14, <2>3, OneQuiet, LiveKept DEF NextCandidate, Finish, world
    <2>4. CASE StopInternal([op EXCEPT !.cand = p], "start")
      BY <1>0, <1>14, <2>4, OneStop DEF NextCandidate, OneInv, world
    <2> QED  BY <2>2, <2>3, <2>4
  <1>15. CASE NoCandidate
    BY <1>0, <1>15, OneStop DEF NoCandidate, world
  <1>16. CASE Killed
    <2>1. Live' \subseteq Live \ {op.victim}
      BY <1>16 DEF Killed, Live, TypeInv, TypeOK
    <2>2. pc' \in StopLabels /\ pc' = op.ret /\ engine' = engine
      BY <1>16 DEF Killed, Goto, TypeInv, Placed
    <2> QED
      BY <1>16, <2>1, <2>2 DEF Killed, OneInv, AtMostOneEngine, StopLabels
  <1>17. CASE StartProfile
    <2>1. CASE Defer /\ UNCHANGED <<procs, engine>>
      BY <1>17, <2>1, OneQuiet, LiveKept DEF Defer, Finish
    <2>2. CASE Spawn(op.cand, "settle")
      BY <1>17, <2>2, OneSpawn DEF StartProfile
    <2> QED  BY <1>17, <2>1, <2>2 DEF StartProfile
  <1>18. CASE RestoreBest
    BY <1>18, OneSpawn DEF RestoreBest
  <1>19. CASE SaveLease
    <2>1. pc' \in {"settle", "restored"}
      BY <1>19 DEF SaveLease, Goto, TypeInv, Placed
    <2> QED
      BY <1>19, <2>1, LiveKept DEF SaveLease, OneInv, AtMostOneEngine, world
  <1>20. CASE Settled
    BY <1>20, OneQuiet, LiveKept DEF Settled, Defer, Finish, Quiet, world
  <1>21. CASE ExitedEarly
    BY <1>21, LiveKept
    DEF ExitedEarly, Finish, Goto, OneInv, AtMostOneEngine, world
  <1> QED
    BY <1>1, <1>2, <1>3, <1>4, <1>5, <1>6, <1>7, <1>8, <1>9, <1>10, <1>11,
       <1>12, <1>13, <1>14, <1>15, <1>16, <1>17, <1>18, <1>19, <1>20, <1>21
    DEF Next, GateStep

\* Two Engines, and so two WinDivert filters, never run at the same time:
\* StopInternalAsync, StopStaleEnginesAsync and TryAdoptSessionEngine keep it
\* so whatever times out, throws or restarts between them.
THEOREM OneEngine == Spec => []AtMostOneEngine
  <1>1. OneInv => AtMostOneEngine
    BY DEF OneInv
  <1> QED  BY <1>1, TypeInvariant, OneInit, OneStep, PTL DEF Spec
-----------------------------------------------------------------------------
(***************************************************************************)
(* The profile reported.  A lease outlives its process and the Agent, so   *)
(* the invariant speaks of the process the lease names too.                *)
(***************************************************************************)
\* A recorded process that still lives runs the profile recorded with it.
Tells(e) ==
  e # NoEngine /\ procs[e.pid] # Dead => procs[e.pid] = e.profile

RealInv == Tells(engine) /\ Tells(lease)

\* Forgetting a process, or losing some, keeps what is recorded true.
LEMMA RealQuiet ==
  ASSUME TypeInv, RealInv,
         \A pid \in Pids : procs'[pid] \in {procs[pid], Dead},
         engine' \in {engine, lease, NoEngine},
         lease' \in {lease, engine, NoEngine}
  PROVE  RealInv'
  <1>1. \A e \in Process : Tells(e) => (Tells(e))'
    BY DEF Tells, Process
  <1>2. Tells(NoEngine)
    BY DEF Tells
  <1>3. engine \in Process /\ lease \in Process /\ NoEngine \in Process
    BY DEF TypeInv, TypeOK, Process
  <1>4. CASE engine' = engine /\ lease' = lease
    BY <1>1, <1>3, <1>4 DEF RealInv, Tells
  <1> QED
    BY <1>1, <1>2, <1>3 DEF RealInv, Tells

\* A process spawned for a profile runs it, and is not the leased one.
LEMMA RealSpawn ==
  ASSUME TypeInv, RealInv, NEW p, NEW l, Spawn(p, l), lease' = lease
  PROVE  RealInv'
  <1>1. PICK pid \in Pids : /\ pid # lease.pid
                           /\ procs' = [procs EXCEPT ![pid] = p]
                           /\ engine' = [pid |-> pid, profile |-> p]
    BY DEF Spawn
  <1>2. procs \in [Pids -> Profiles \cup {Dead}]
    BY DEF TypeInv, TypeOK
  <1>3. Tells(engine)'
    BY <1>1, <1>2 DEF Tells
  <1>4. lease # NoEngine => lease.pid \in Pids
    BY Attached DEF TypeInv
  <1>5. Tells(lease)'
    BY <1>1, <1>2, <1>4 DEF RealInv, Tells
  <1> QED  BY <1>3, <1>5 DEF RealInv

\* Nothing is recorded in the initial states.
LEMMA RealInit == Init => RealInv
  BY DEF Init, RealInv, Tells

\* Every step keeps what is recorded of a live process true.
LEMMA RealStep == TypeInv /\ RealInv /\ [Next]_vars => RealInv'
  <1> SUFFICES ASSUME TypeInv, RealInv, [Next]_vars PROVE RealInv'
    OBVIOUS
  <1>0. procs \in [Pids -> Profiles \cup {Dead}]
    BY DEF TypeInv, TypeOK
  <1>1. CASE UNCHANGED vars
    BY <1>1, RealQuiet DEF vars
  <1>2. CASE EngineExits \/ StopStale \/ Killed
    <2>1. \A pid \in Pids : procs'[pid] \in {procs[pid], Dead}
      BY <1>0, <1>2 DEF EngineExits, StopStale, Killed
    <2> QED
      BY <1>2, <2>1, RealQuiet DEF EngineExits, StopStale, Killed, files
  <1>3. CASE StartProfile \/ RestoreBest
    BY <1>3, RealSpawn, RealQuiet DEF StartProfile, RestoreBest, files
  <1>4. CASE Stop \/ ApplyRotate \/ ApplyPersistent \/ NoCandidate
    BY <1>4, RealQuiet
    DEF Stop, ApplyRotate, ApplyPersistent, NoCandidate, StopInternal,
        LeaseCleared, world
  <1>5. CASE ReconcileChanged \/ ApplyExhausted \/ NextCandidate
    BY <1>5, RealQuiet
    DEF ReconcileChanged, ApplyExhausted, NextCandidate, StopInternal,
        LeaseCleared, world
  <1>6. CASE Adopt \/ NotAdopted \/ SaveLease \/ SaveLeaseFails
               \/ ExitedHandler \/ AgentCrash
    BY <1>6, RealQuiet
    DEF Adopt, NotAdopted, SaveLease, SaveLeaseFails, ExitedHandler,
        AgentCrash, LeaseCleared, world, files
  <1>7. CASE TunnelChanges \/ TimePasses \/ KillTimesOut \/ VerifyFails
               \/ LaunchFails \/ \E c \in Commands : Request(c)
    BY <1>7, RealQuiet
    DEF TunnelChanges, TimePasses, KillTimesOut, VerifyFails, LaunchFails,
        Fails, Request, Quiet, world, files, agent
  <1>8. CASE StartBest \/ Recheck \/ Status \/ ReconcileDue
               \/ ReconcileTunnel \/ ReconcileNoTunnel \/ Recover
    BY <1>8, RealQuiet
    DEF StartBest, Recheck, Status, ReconcileDue, ReconcileTunnel,
        ReconcileNoTunnel, Recover, RecoverTunnel, RecoverNoTunnel, Quiet,
        world, files
  <1>9. CASE Stopped \/ StartProbed \/ DirectResult \/ Refresh
               \/ DirectProbed \/ EngineProbed \/ RecoverProbed
               \/ ApplyPreserved \/ ApplyInconclusive \/ ApplyStable
               \/ Persistent \/ GaveUp \/ Restored \/ StartBestInternal
               \/ Settled
    BY <1>9, RealQuiet
    DEF Stopped, StartProbed, DirectResult, Refresh, DirectProbed,
        EngineProbed, RecoverProbed, ApplyPreserved, ApplyInconclusive,
        ApplyStable, Persistent, GaveUp, Restored, StartBestInternal,
        Settled, Quiet, world, files
  <1>10. CASE ApplyReady \/ ExitedEarly
    BY <1>10, RealQuiet DEF ApplyReady, ExitedEarly, world
  <1> QED
    BY <1>1, <1>2, <1>3, <1>4, <1>5, <1>6, <1>7, <1>8, <1>9, <1>10
    DEF Next, Reconcile, GateStep, EnvStep, FaultStep

\* The profile the Agent reports for a running Engine is the one the process
\* runs, for a process adopted through its lease (TryAdoptSessionEngine) too.
THEOREM ProfileIsReal == Spec => []ActiveProfileIsReal
  <1>1. RealInv => ActiveProfileIsReal
    BY DEF RealInv, Tells, ActiveProfileIsReal, Running
  <1> QED  BY <1>1, TypeInvariant, RealInit, RealStep, PTL DEF Spec

-----------------------------------------------------------------------------
(***************************************************************************)
(* What the methods do to _directMode and to what it rests on.             *)
(***************************************************************************)
\* Entering direct mode keeps the probes and records the tunnel.
LEMMA EnterFields ==
  ASSUME NEW mm \in Memory, NEW t \in Tunnels \cup {NoTunnel}
  PROVE  LET r == EnterDirectMode(mm, t)
         IN  r.direct /\ r.probes = mm.probes /\ r.tunId = t
  BY Zenon DEF EnterDirectMode, UpdateCompatibility,
               CompleteStartupQualification, Memory

\* Leaving direct mode clears it and keeps _desiredRunning.
LEMMA LeaveFields ==
  ASSUME NEW mm \in Memory, NEW t \in Tunnels \cup {NoTunnel}
  PROVE  /\ LeaveDirectMode(mm, t).direct = FALSE
         /\ LeaveDirectMode(mm, t).desired = mm.desired
  BY Zenon DEF LeaveDirectMode, UpdateCompatibility, Memory

\* UpdateCompatibility changes the known tunnel only.
LEMMA UpdateFields ==
  ASSUME NEW mm \in Memory, NEW t \in Tunnels \cup {NoTunnel}
  PROVE  LET r == UpdateCompatibility(mm, t)
         IN  /\ r.direct = mm.direct /\ r.desired = mm.desired
             /\ r.probes = mm.probes /\ r.tunId = t
  BY Zenon DEF UpdateCompatibility, Memory

\* The resets of a start-up cycle do not touch _directMode.
LEMMA ResetFields ==
  ASSUME NEW mm \in Memory
  PROVE  /\ CompleteStartupQualification(mm).direct = mm.direct
         /\ ResetSearch(mm).direct = mm.direct
         /\ ResetStartupCycle(mm).direct = mm.direct
  <1>1. \A r \in Memory : /\ CompleteStartupQualification(r).direct = r.direct
                          /\ ResetSearch(r).direct = r.direct
    BY Zenon DEF CompleteStartupQualification, ResetSearch, Memory
  <1> DEFINE s == ResetSearch(CompleteStartupQualification(mm))
  <1>2. s \in Memory /\ s.direct = mm.direct
    BY <1>1, CompleteTyped, ResetSearchTyped
  <1> HIDE DEF s
  <1>3. [s EXCEPT !.hold = FALSE, !.probes = NoProbes].direct = mm.direct
    BY <1>2, Zenon DEF Memory
  <1> QED  BY <1>1, <1>3 DEF ResetStartupCycle, s

\* Nor do the methods a launch and a check call.
LEMMA StartFields ==
  ASSUME NEW mm \in Memory, NEW p
  PROVE  /\ MarkStartupQualificationPending(mm).direct = mm.direct
         /\ Failed(mm, p).direct = mm.direct
         /\ Probed(mm, p).direct = mm.direct
         /\ Remember(mm, p).direct = mm.direct
         /\ LoadPreferred(mm, p).direct = mm.direct
  <1>1. /\ MarkStartupQualificationPending(mm).direct = mm.direct
        /\ Probed(mm, p).direct = mm.direct
        /\ Remember(mm, p).direct = mm.direct
    BY Zenon DEF MarkStartupQualificationPending, Probed, Remember, Memory
  <1>2. Failed(mm, p).direct = mm.direct
    BY ForgetTyped, Zenon DEF Failed, Forget, Memory
  <1>3. LoadPreferred(mm, p).direct = mm.direct
    BY DEF LoadPreferred, Memory
  <1> QED  BY <1>1, <1>2, <1>3

\* Passing over a failed profile changes the rotation only.
LEMMA FailedFields ==
  ASSUME NEW mm \in Memory, NEW p \in Profiles
  PROVE  LET r == Failed(mm, p)
         IN  /\ r \in Memory
             /\ r.direct = mm.direct /\ r.desired = mm.desired
             /\ r.probes = mm.probes /\ r.tunId = mm.tunId
  <1> DEFINE f == Forget(mm, p)
  <1>1. /\ f \in Memory
        /\ f.direct = mm.direct /\ f.desired = mm.desired
        /\ f.probes = mm.probes /\ f.tunId = mm.tunId
    BY ForgetTyped, ZenonT(60) DEF Forget, Memory
  <1> HIDE DEF f
  <1>2. LET r == [f EXCEPT !.next = MovePast(p)]
        IN  /\ r.direct = f.direct /\ r.desired = f.desired
            /\ r.probes = f.probes /\ r.tunId = f.tunId
    BY <1>1, Zenon DEF Memory
  <1> QED  BY <1>1, <1>2, FailedTyped DEF Failed, f

\* Applying probe results to the memory keeps _directMode.
LEMMA ApplyFields ==
  ASSUME m \in Memory
  PROVE  /\ Observed.direct = m.direct /\ Inconclusive.direct = m.direct
         /\ Observe.direct = m.direct /\ Disqualified.direct = m.direct
  BY Zenon DEF Observed, Inconclusive, Observe, Disqualified, Memory
-----------------------------------------------------------------------------
(***************************************************************************)
(* The inductive invariant.  Direct mode ends before an Engine may start:  *)
(* on the way to a launch _directMode is FALSE.  The one path that does not*)
(* clear it (ReconcileCompatibilityAsync, with a tunnel it knows) is cut   *)
(* off because direct mode under a known tunnel rests on healthy probes.   *)
(***************************************************************************)
\* The labels on the way to a launch, through one or after one.
EngineLabels ==
  {"engineProbe", "apply", "kill", "stopped", "startBest", "adopt", "stale",
   "candidates", "start", "lease", "settle", "restore", "restored",
   "persistent", "gaveUp"}

DirectInv ==
  /\ m.direct => ~Running
  /\ pc = "startProbe" => ~Running
  /\ pc \in EngineLabels => ~m.direct
  /\ pc \in {"refresh", "directProbe"} /\ m.direct => m.tunId = NoTunnel
  /\ pc = "idle" /\ m.direct /\ m.desired =>
       m.tunId = NoTunnel \/ AllPassed(m.probes)

\* Nothing starts running unless a process is attached.
NothingStarts == engine' = engine /\ \A p \in Pids : procs'[p] \in {procs[p], Dead}

\* An Agent with no running Engine gets one by attaching it only.
LEMMA NotRunningKept ==
  ASSUME TypeInv, NothingStarts, ~Running PROVE ~Running'
  BY Attached DEF NothingStarts, Running, TypeInv

\* Going on at a label on the way to a launch, out of direct mode.
LEMMA DirectLeft ==
  ASSUME ~m'.direct, pc' # "startProbe"
  PROVE  DirectInv'
  BY DEF DirectInv

\* Returning.
LEMMA DirectFinish ==
  ASSUME TypeInv, NothingStarts, NEW mm, NEW state, Finish(mm, state),
         mm.direct => /\ ~Running
                      /\ mm.desired => mm.tunId = NoTunnel \/ AllPassed(mm.probes)
  PROVE  DirectInv'
  BY NotRunningKept DEF Finish, DirectInv, EngineLabels

\* Returning in direct mode.
LEMMA DirectEnter ==
  ASSUME TypeInv, NothingStarts, NEW mm \in Memory, NEW state,
         NEW t \in Tunnels \cup {NoTunnel},
         Finish(EnterDirectMode(mm, t), state),
         ~Running, AllPassed(mm.probes)
  PROVE  DirectInv'
  <1>1. EnterDirectMode(mm, t).probes = mm.probes
    BY EnterFields
  <1> HIDE DEF EnterDirectMode
  <1> QED  BY <1>1, DirectFinish

\* Returning out of direct mode.
LEMMA DirectReturn ==
  ASSUME TypeInv, NothingStarts, NEW mm, NEW state, Finish(mm, state), ~mm.direct
  PROVE  DirectInv'
  BY DirectFinish

\* A step that keeps the memory and the label.
LEMMA DirectQuiet ==
  ASSUME TypeInv, DirectInv, NothingStarts, m' = m, pc' = pc
  PROVE  DirectInv'
  BY NotRunningKept DEF DirectInv

\* Where processes and engine are unchanged nothing starts.
LEMMA Kept == ASSUME UNCHANGED <<procs, engine>> PROVE NothingStarts
  BY DEF NothingStarts

\* The Agent starts out of direct mode.
LEMMA DirectInit == Init => DirectInv
  BY DEF Init, InitMemory, DirectInv, EngineLabels, Running

\* The steps of the environment and the faults.
LEMMA DirectWorld ==
  ASSUME TypeInv, DirectInv, EnvStep \/ FaultStep
  PROVE  DirectInv'
  <1>0. m \in Memory /\ procs \in [Pids -> Profiles \cup {Dead}]
    BY DEF TypeInv, TypeOK
  <1>1. CASE TunnelChanges
    BY <1>1, Kept, DirectQuiet DEF TunnelChanges, agent
  <1>2. CASE EngineExits
    <2>1. NothingStarts
      BY <1>0, <1>2 DEF EngineExits, NothingStarts
    <2> QED  BY <1>2, <2>1, DirectQuiet DEF EngineExits
  <1>3. CASE ExitedHandler \/ TimePasses \/ \E c \in Commands : Request(c)
    <2>1. /\ m'.direct = m.direct /\ m'.tunId = m.tunId
          /\ m'.probes = m.probes
          /\ m'.desired => m.desired
      <3>1. CASE ExitedHandler
        <4> DEFINE f == Failed(m, engine.profile)
                   q == f.paused \/ exit = "driver"
        <4>1. engine.profile \in Profiles
          BY <3>1, Attached DEF ExitedHandler, TypeInv, Placed
        <4>2. /\ f \in Memory
              /\ f.direct = m.direct /\ f.desired = m.desired
              /\ f.probes = m.probes /\ f.tunId = m.tunId
          BY <1>0, <4>1, FailedFields
        <4>3. m' = [f EXCEPT !.paused = q]
          BY <3>1 DEF ExitedHandler
        <4> HIDE DEF f, q
        <4>4. LET r == [f EXCEPT !.paused = q]
              IN  /\ r.direct = f.direct /\ r.desired = f.desired
                  /\ r.probes = f.probes /\ r.tunId = f.tunId
          BY <4>2, Zenon DEF Memory
        <4> QED  BY <4>2, <4>3, <4>4
      <3>2. CASE TimePasses
        BY <1>0, <3>2, Zenon DEF TimePasses, Memory
      <3>3. CASE \E c \in Commands : Request(c)
        <4>1. \/ m' = m
              \/ m' = [m EXCEPT !.desired = FALSE]
          BY <3>3 DEF Request
        <4>2. CASE m' = m
          BY <4>2
        <4>3. CASE m' = [m EXCEPT !.desired = FALSE]
          BY <1>0, <4>3, Zenon DEF Memory
        <4> QED  BY <4>1, <4>2, <4>3
      <3> QED  BY <1>3, <3>1, <3>2, <3>3
    <2>2. UNCHANGED <<procs, engine, pc>>
      BY <1>3 DEF ExitedHandler, TimePasses, Request, Quiet, world
    <2>3. ~Running => ~Running'
      BY <2>2, Kept, NotRunningKept
    <2>4. m'.direct => m.direct
      BY <2>1
    <2>5. AllPassed(m.probes) => AllPassed(m'.probes)
      BY <2>1
    <2> QED  BY <2>1, <2>2, <2>3, <2>4, <2>5 DEF DirectInv
  <1>4. CASE KillTimesOut \/ VerifyFails \/ LaunchFails
    <2>1. pc \in EngineLabels /\ pc' = "idle" /\ m' = m
      BY <1>4 DEF KillTimesOut, VerifyFails, LaunchFails, Fails, Throw, EngineLabels
    <2> QED  BY <2>1, DirectLeft DEF DirectInv
  <1>5. CASE SaveLeaseFails
    <2>1. pc = "lease" /\ pc' \in {"settle", "restored"} /\ m' = m
      BY <1>5 DEF SaveLeaseFails, Goto, TypeInv, Placed
    <2> QED  BY <2>1, DirectLeft DEF DirectInv, EngineLabels
  <1>6. CASE AgentCrash
    BY <1>6, DirectLeft DEF AgentCrash, InitMemory
  <1> QED  BY <1>1, <1>2, <1>3, <1>4, <1>5, <1>6 DEF EnvStep, FaultStep

\* The commands and the loops, up to their first await.
LEMMA DirectCalls ==
  ASSUME TypeInv, DirectInv,
         StartBest \/ Recheck \/ Stop \/ Status \/ Reconcile \/ Recover
  PROVE  DirectInv'
  <1>0. m \in Memory /\ tunnel \in Tunnels \cup {NoTunnel}
        /\ NoTunnel \in Tunnels \cup {NoTunnel}
    BY DEF TypeInv, TypeOK
  <1>1. CASE StartBest
    <2> DEFINE wanted == [m EXCEPT !.desired = TRUE, !.paused = FALSE]
               fresh == ResetStartupCycle(wanted)
    <2>1. wanted \in Memory /\ wanted.direct = m.direct
      BY <1>0, FieldFacts, Zenon DEF Memory
    <2> HIDE DEF wanted
    <2>2. fresh \in Memory /\ fresh.direct = m.direct
      BY <2>1, ResetFields, ResetCycleTyped
    <2> HIDE DEF fresh
    <2>3. [fresh EXCEPT !.direct = FALSE].direct = FALSE
      BY <2>2, Zenon DEF Memory
    <2>4. NothingStarts
      BY <1>1, Kept DEF StartBest, world
    <2>5. \/ Running /\ m' = wanted /\ pc' = "refresh"
          \/ ~Running /\ m' = fresh /\ pc' = "startProbe"
          \/ m' = [fresh EXCEPT !.direct = FALSE] /\ pc' = "startBest"
      BY <1>1 DEF StartBest, Goto, wanted, fresh
    <2>6. CASE Running /\ m' = wanted /\ pc' = "refresh"
      BY <2>1, <2>6, DirectLeft DEF DirectInv
    <2>7. CASE ~Running /\ m' = fresh /\ pc' = "startProbe"
      BY <2>4, <2>7, NotRunningKept DEF DirectInv, EngineLabels
    <2>8. CASE m' = [fresh EXCEPT !.direct = FALSE] /\ pc' = "startBest"
      BY <2>3, <2>8, DirectLeft
    <2> QED  BY <2>5, <2>6, <2>7, <2>8
  <1>2. CASE Recheck
    <2>1. NothingStarts
      BY <1>2, Kept DEF Recheck, world
    <2>2. CASE m' = m /\ pc' = "recheckProbe"
      BY <2>1, <2>2, NotRunningKept DEF DirectInv, EngineLabels
    <2>3. CASE (tunnel = NoTunnel \/ Running) /\ pc' = "refresh"
               /\ m' = UpdateCompatibility(m, tunnel)
      <3>1. m'.direct = m.direct /\ m'.tunId = tunnel
        BY <1>0, <2>3, UpdateFields
      <3> QED
        BY <2>1, <2>3, <3>1, NotRunningKept DEF DirectInv, EngineLabels
    <2> QED  BY <1>2, <2>2, <2>3 DEF Recheck, Goto
  <1>3. CASE Stop
    <2> DEFINE left == LeaveDirectMode(m, NoTunnel)
    <2>1. left \in Memory /\ left.direct = FALSE
      BY <1>0, LeaveTyped, LeaveFields
    <2> HIDE DEF left
    <2>2. /\ [left EXCEPT !.paused = FALSE] \in Memory
          /\ [left EXCEPT !.paused = FALSE].direct = FALSE
      BY <2>1, FieldFacts, Zenon DEF Memory
    <2>3. ~m'.direct
      BY <1>3, <2>2, ResetFields DEF Stop, left
    <2> QED  BY <1>3, <2>3, DirectLeft DEF Stop, StopInternal
  <1>4. CASE Status
    BY <1>4, Kept, DirectFinish DEF Status, Taken, Idle, DirectInv, world
  <1>5. CASE ReconcileChanged
    <2>1. CASE Running
      BY <1>5, <2>1, DirectLeft
      DEF ReconcileChanged, StopInternal, Goto, DirectInv
    <2>2. CASE ~Running
      <3>1. NothingStarts /\ m' = m /\ pc' = "reevaluate"
        BY <1>5, <2>2, Kept DEF ReconcileChanged, Goto, world
      <3> QED  BY <2>2, <3>1, NotRunningKept DEF DirectInv, EngineLabels
    <2> QED  BY <2>1, <2>2
  <1>6. CASE ReconcileDue
    BY <1>6, DirectLeft
    DEF ReconcileDue, QualificationMayBeDue, Goto, DirectInv
  <1>7. CASE ReconcileTunnel
    <2> DEFINE mm == UpdateCompatibility(m, tunnel)
    <2>1. NothingStarts
      BY <1>7, Kept DEF ReconcileTunnel, Quiet, world
    <2>2. mm \in Memory /\ mm.direct = m.direct /\ mm.desired = m.desired
          /\ mm.probes = m.probes /\ mm.tunId = tunnel
      BY <1>0, UpdateTyped, UpdateFields
    <2> HIDE DEF mm
    <2>3. CASE CanUseDirectMode(tunnel, m.probes, Running)
               /\ Finish(EnterDirectMode(m, tunnel), "ready")
      BY <1>0, <2>1, <2>3, DirectEnter DEF CanUseDirectMode
    <2>4. ASSUME ~CanUseDirectMode(tunnel, m.probes, Running), m.desired
          PROVE  ~m.direct
      BY <1>7, <2>4
      DEF ReconcileTunnel, TunnelChanged, CanUseDirectMode, DirectInv, Idle
    <2>5. CASE ~CanUseDirectMode(tunnel, m.probes, Running) /\ m.desired
               /\ RestoreEngine(mm)
      <3>1. ~m'.direct
        BY <2>2, <2>4, <2>5, ResetFields DEF RestoreEngine
      <3> QED  BY <2>5, <3>1, DirectLeft DEF RestoreEngine, Goto
    <2>6. CASE ~CanUseDirectMode(tunnel, m.probes, Running)
               /\ (~m.desired \/ Running)
               /\ Finish(mm, CurrentState(mm, Running))
      <3>1. mm.direct => ~Running
        BY <2>2 DEF DirectInv
      <3>2. mm.direct => ~mm.desired
        BY <2>2, <2>4, <2>6
      <3> QED  BY <2>1, <2>6, <3>1, <3>2, DirectFinish
    <2> QED  BY <1>7, <2>3, <2>5, <2>6 DEF ReconcileTunnel, mm
  <1>8. CASE ReconcileNoTunnel \/ RecoverNoTunnel
    <2> DEFINE mm == LeaveDirectMode(m, NoTunnel)
    <2>1. mm \in Memory /\ mm.direct = FALSE
      BY <1>0, LeaveTyped, LeaveFields
    <2>2. NothingStarts
      BY <1>8, Kept DEF ReconcileNoTunnel, RecoverNoTunnel, Quiet, world
    <2>3. \/ RestoreEngine(mm)
          \/ \E state : Finish(mm, state)
          \/ m' = mm /\ Goto("refresh")
      BY <1>8 DEF ReconcileNoTunnel, RecoverNoTunnel
    <2> HIDE DEF mm
    <2>4. CASE RestoreEngine(mm)
      <3>1. ~m'.direct
        BY <2>1, <2>4, ResetFields DEF RestoreEngine
      <3> QED  BY <2>4, <3>1, DirectLeft DEF RestoreEngine, Goto
    <2>5. CASE \E state : Finish(mm, state)
      BY <2>1, <2>2, <2>5, DirectReturn
    <2>6. CASE m' = mm /\ Goto("refresh")
      BY <2>1, <2>6, DirectLeft DEF Goto
    <2> QED  BY <2>3, <2>4, <2>5, <2>6
  <1>9. CASE RecoverTunnel
    <2>1. NothingStarts /\ m' = m /\ pc' \in {"recoverEngine", "recoverDirect"}
      BY <1>9, Kept DEF RecoverTunnel, Goto, world
    <2> QED  BY <2>1, NotRunningKept DEF DirectInv, EngineLabels
  <1> QED
    BY <1>1, <1>2, <1>3, <1>4, <1>5, <1>6, <1>7, <1>8, <1>9
    DEF Reconcile, Recover

\* The results of a check.
LEMMA DirectProbes ==
  ASSUME TypeInv, DirectInv,
         DirectResult \/ StartProbed \/ Refresh \/ DirectProbed
           \/ EngineProbed \/ RecoverProbed
  PROVE  DirectInv'
  <1>0. m \in Memory /\ op.seen \in Tunnels \cup {NoTunnel}
    BY Zenon DEF TypeInv, TypeOK, Locals
  <1>1. \A ps \in DirectOutcomes \cup EngineOutcomes :
          LET mm == Probed(m, ps)
              left == LeaveDirectMode(mm, op.seen)
          IN  /\ mm \in Memory /\ mm.probes = ps /\ mm.direct = m.direct
              /\ mm.tunId = m.tunId
              /\ left \in Memory /\ left.direct = FALSE
    <2> TAKE ps \in DirectOutcomes \cup EngineOutcomes
    <2> DEFINE mm == Probed(m, ps)
    <2>1. mm \in Memory
      BY <1>0, OutcomeAssumption, ProbedTyped
    <2>2. mm.probes = ps /\ mm.direct = m.direct /\ mm.tunId = m.tunId
      BY <1>0, Zenon DEF Probed, Memory
    <2> HIDE DEF mm
    <2>3. LeaveDirectMode(mm, op.seen) \in Memory
          /\ LeaveDirectMode(mm, op.seen).direct = FALSE
      BY <1>0, <2>1, LeaveTyped, LeaveFields
    <2> QED  BY <2>1, <2>2, <2>3 DEF mm
  <1>2. NothingStarts
    <2>1. UNCHANGED <<procs, engine>>
      BY DEF DirectResult, StartProbed, Refresh, DirectProbed, EngineProbed,
             RecoverProbed, Quiet, world
    <2> QED  BY <2>1, Kept
  <1>3. CASE DirectResult \/ StartProbed \/ RecoverProbed
    <2>1. PICK ps \in DirectOutcomes \cup EngineOutcomes :
            LET left == LeaveDirectMode(Probed(m, ps), op.seen) IN
            \/ /\ CanUseDirectMode(op.seen, ps, Running)
               /\ Finish(EnterDirectMode(Probed(m, ps), op.seen), "ready")
            \/ /\ m' = left
               /\ pc' \in {"startBest", "apply"}
            \/ RestoreEngine(left)
            \/ \E state : Finish(left, state)
      BY <1>3
      DEF DirectResult, StartProbed, RecoverProbed, Goto, CanUseDirectMode,
          DirectInv
    <2> DEFINE mm == Probed(m, ps)
               left == LeaveDirectMode(mm, op.seen)
    <2>2. mm \in Memory /\ mm.probes = ps
          /\ left \in Memory /\ left.direct = FALSE
      BY <1>1
    <2> HIDE DEF left, mm
    <2>3. CASE CanUseDirectMode(op.seen, ps, Running)
               /\ Finish(EnterDirectMode(mm, op.seen), "ready")
      BY <1>0, <1>2, <2>2, <2>3, DirectEnter DEF CanUseDirectMode
    <2>4. CASE m' = left /\ pc' \in {"startBest", "apply"}
      BY <2>2, <2>4, DirectLeft
    <2>5. CASE RestoreEngine(left)
      <3>1. ~m'.direct
        BY <2>2, <2>5, ResetFields DEF RestoreEngine
      <3> QED  BY <2>5, <3>1, DirectLeft DEF RestoreEngine, Goto
    <2>6. CASE \E state : Finish(left, state)
      BY <1>2, <2>2, <2>6, DirectReturn
    <2> QED  BY <2>1, <2>3, <2>4, <2>5, <2>6 DEF left, mm
  <1>4. CASE Refresh
    <2>1. CASE Running /\ m' = m /\ pc' = "engineProbe"
      BY <2>1, DirectLeft DEF DirectInv
    <2>2. CASE m.direct /\ m' = m /\ pc' = "directProbe"
      BY <1>2, <1>4, <2>2, NotRunningKept DEF Refresh, DirectInv, EngineLabels
    <2>3. CASE ~m.direct /\ \E state : Finish(m, state)
      BY <1>2, <2>3, DirectReturn
    <2> QED  BY <1>4, <2>1, <2>2, <2>3 DEF Refresh, Goto
  <1>5. CASE DirectProbed
    <2>1. PICK ps \in DirectOutcomes, state \in {"ready", "degraded"} :
            Finish(Probed(m, ps), state)
      BY <1>5 DEF DirectProbed
    <2>2. LET mm == Probed(m, ps)
          IN  mm.direct => ~Running /\ mm.tunId = NoTunnel
      BY <1>1, <1>5 DEF DirectProbed, DirectInv
    <2> QED  BY <1>2, <2>1, <2>2, DirectFinish
  <1>6. CASE EngineProbed
    <2>1. ~m'.direct /\ pc' = "apply"
      BY <1>1, <1>6 DEF EngineProbed, Goto, DirectInv, EngineLabels
    <2> QED  BY <2>1, DirectLeft
  <1> QED  BY <1>3, <1>4, <1>5, <1>6

\* The labels from the result of an Engine's probes to the next launch.
LEMMA LaunchLabels ==
  ASSUME TypeInv, DirectInv,
         \/ ApplyReady \/ ApplyPreserved \/ ApplyInconclusive \/ ApplyRotate
         \/ ApplyExhausted \/ ApplyPersistent \/ ApplyStable \/ Persistent
         \/ StartBestInternal \/ Adopt \/ NotAdopted \/ StopStale
         \/ NextCandidate \/ NoCandidate \/ GaveUp \/ Killed
         \/ StartProfile \/ RestoreBest \/ SaveLease \/ Settled
         \/ ExitedEarly \/ Restored \/ Stopped
  PROVE  ~m.direct /\ pc' # "startProbe"
  <1>1. ~m.direct
    BY DEF ApplyReady, ApplyPreserved, ApplyInconclusive, ApplyRotate,
           ApplyExhausted, ApplyPersistent, ApplyStable, Persistent,
           StartBestInternal, Adopt, NotAdopted, StopStale, NextCandidate,
           NoCandidate, GaveUp, Killed, StartProfile, RestoreBest, SaveLease,
           Settled, ExitedEarly, Restored, Stopped, Degraded, Applying,
           DirectInv, EngineLabels
  <1>2. pc' # "startProbe"
    BY DEF ApplyReady, ApplyPreserved, ApplyInconclusive, ApplyRotate,
           ApplyExhausted, ApplyPersistent, ApplyStable, Persistent,
           StartBestInternal, Adopt, NotAdopted, StopStale, NextCandidate,
           NoCandidate, GaveUp, Killed, StartProfile, RestoreBest, SaveLease,
           Settled, ExitedEarly, Restored, Stopped, Finish, Defer, Goto,
           StopInternal, Spawn, TypeInv, Placed, StopLabels
  <1> QED  BY <1>1, <1>2

\* ApplyEngineProbeResultsAsync stays out of direct mode.
LEMMA DirectApply ==
  ASSUME TypeInv, DirectInv,
         ApplyReady \/ ApplyPreserved \/ ApplyInconclusive \/ ApplyRotate
           \/ ApplyExhausted \/ ApplyPersistent \/ ApplyStable \/ Persistent
  PROVE  DirectInv'
  <1>0. m \in Memory /\ tunnel \in Tunnels \cup {NoTunnel} /\ ~m.direct
    BY LaunchLabels DEF TypeInv, TypeOK
  <1>1. pc = "apply" => engine.profile \in Profiles
    BY Attached DEF TypeInv, Placed
  <1>2. /\ Observed \in Memory /\ ~Observed.direct
        /\ Inconclusive \in Memory /\ ~Inconclusive.direct
        /\ Observe \in Memory /\ ~Observe.direct
        /\ pc = "apply" => Disqualified \in Memory /\ ~Disqualified.direct
    BY <1>0, <1>1, ObservedTyped, InconclusiveTyped, ObserveTyped,
       DisqualifiedTyped, ApplyFields
  <1> SUFFICES ~m'.direct
    BY LaunchLabels, DirectLeft
  <1>3. CASE ApplyReady
    <2> DEFINE mm == [Observed EXCEPT !.failures = 0, !.paused = FALSE]
               kept == Remember(mm, engine.profile)
               done == ResetSearch(CompleteStartupQualification(kept))
    <2>1. mm \in Memory /\ ~mm.direct
      BY <1>2, FieldFacts, Zenon DEF Memory
    <2> HIDE DEF mm
    <2>2. kept \in Memory /\ ~kept.direct
      BY <1>0, <1>1, <1>3, <2>1, RememberTyped, StartFields
      DEF ApplyReady, Applying
    <2> HIDE DEF kept
    <2>3. done \in Memory /\ ~done.direct
      BY <2>2, CompleteTyped, ResetSearchTyped, ResetFields
    <2> HIDE DEF done
    <2>4. m' = UpdateCompatibility(done, tunnel)
      BY <1>3 DEF ApplyReady, Finish, mm, kept, done
    <2> QED  BY <1>0, <2>3, <2>4, UpdateFields
  <1>4. CASE ApplyPreserved
    <2> DEFINE mm == [Observed EXCEPT !.failures = 0]
    <2>1. mm \in Memory /\ ~mm.direct
      BY <1>2, FieldFacts, Zenon DEF Memory
    <2> HIDE DEF mm
    <2>2. m' = ResetSearch(CompleteStartupQualification(mm))
      BY <1>4 DEF ApplyPreserved, Finish, mm
    <2> QED  BY <2>1, <2>2, CompleteTyped, ResetFields
  <1>5. CASE ApplyInconclusive
    <2>1. m' \in {Inconclusive, UpdateCompatibility(Inconclusive, tunnel)}
      BY <1>5 DEF ApplyInconclusive, Finish
    <2> QED  BY <1>0, <1>2, <2>1, UpdateFields
  <1>6. CASE ApplyRotate
    <2>1. m' = Failed(Disqualified, engine.profile) /\ pc = "apply"
      BY <1>6 DEF ApplyRotate, Degraded, Applying
    <2> QED  BY <1>1, <1>2, <2>1, FailedFields
  <1>7. CASE ApplyExhausted
    <2>1. m' \in {Disqualified, Exhausted(Disqualified)} /\ pc = "apply"
      BY <1>7 DEF ApplyExhausted, Degraded, Applying, Finish
    <2> DEFINE held == [Disqualified EXCEPT !.hold = TRUE]
    <2>2. held \in Memory /\ ~held.direct
      BY <1>2, <2>1, FieldFacts, Zenon DEF Memory
    <2> HIDE DEF held
    <2>3. ~UpdateCompatibility(CompleteStartupQualification(held), tunnel).direct
      BY <1>0, <2>2, CompleteTyped, ResetFields, UpdateFields
    <2>4. ~Exhausted(Disqualified).direct
      BY <2>3 DEF Exhausted, held
    <2> QED  BY <1>2, <2>1, <2>4
  <1>8. CASE ApplyPersistent
    <2> DEFINE mm == [Observe EXCEPT !.failures = 0]
    <2>1. mm \in Memory /\ ~mm.direct
      BY <1>2, FieldFacts, Zenon DEF Memory
    <2> HIDE DEF mm
    <2>2. m' = Failed(mm, engine.profile) /\ pc = "apply"
      BY <1>8 DEF ApplyPersistent, Degraded, Applying, mm
    <2> QED  BY <1>1, <2>1, <2>2, FailedFields
  <1>9. CASE ApplyStable
    BY <1>2, <1>9 DEF ApplyStable, Finish
  <1>10. CASE Persistent
    <2> DEFINE reset == ResetStartupCycle(m)
               voice == VoiceRequired(reset.voice, m.probes)
               scores == [reset.scores EXCEPT ![op.cand] = Score(m.probes)]
    <2>1. reset \in Memory /\ ~reset.direct
      BY <1>0, ResetCycleTyped, ResetFields
    <2>2. m' = [reset EXCEPT !.voice = voice, !.scores = scores,
                             !.attempted = {op.cand}]
      BY <1>10 DEF Persistent
    <2> HIDE DEF reset, voice, scores
    <2> QED  BY <2>1, <2>2, Zenon DEF Memory
  <1> QED  BY <1>3, <1>4, <1>5, <1>6, <1>7, <1>8, <1>9, <1>10

\* StartBestInternalAsync defers to a tunnel, or stays out of direct mode.
LEMMA DirectStart ==
  ASSUME TypeInv, DirectInv,
         StartBestInternal \/ Adopt \/ NotAdopted \/ StopStale
           \/ NextCandidate \/ NoCandidate \/ GaveUp \/ Killed
           \/ StartProfile \/ RestoreBest \/ SaveLease \/ Settled
           \/ ExitedEarly \/ Restored \/ Stopped
  PROVE  DirectInv'
  <1>0. m \in Memory /\ tunnel \in Tunnels \cup {NoTunnel} /\ ~m.direct
    BY LaunchLabels DEF TypeInv, TypeOK
  <1>1. ASSUME Defer, Deferrable, UNCHANGED <<procs, engine>> PROVE DirectInv'
    BY <1>0, <1>1, DirectEnter, Kept DEF Defer, Deferrable, CanUseDirectMode
  <1>2. ASSUME ~m'.direct PROVE DirectInv'
    BY <1>2, LaunchLabels, DirectLeft
  <1>3. ~UpdateCompatibility(m, tunnel).direct
    BY <1>0, UpdateFields
  <1>4. CASE NoCandidate \/ Killed \/ Stopped \/ RestoreBest \/ SaveLease
    <2>1. m' = m
      BY <1>4 DEF NoCandidate, Killed, Stopped, RestoreBest, SaveLease, Finish
    <2> QED  BY <1>0, <1>2, <2>1
  <1>5. CASE StartBestInternal
    <2>1. CASE Defer /\ Deferrable
      BY <1>1, <1>5, <2>1 DEF StartBestInternal, Quiet, world
    <2>2. CASE m' = UpdateCompatibility(m, tunnel)
      BY <1>2, <1>3, <2>2
    <2> QED  BY <1>5, <2>1, <2>2 DEF StartBestInternal, Finish
  <1>6. CASE Adopt
    <2> DEFINE preferred == [m EXCEPT !.next = lease.profile]
    <2>1. lease.profile \in Profiles
      BY <1>6, Attached DEF Adopt, TypeInv
    <2>2. preferred \in Memory /\ ~preferred.direct
      BY <1>0, <2>1, Zenon DEF Memory
    <2>3. m' = UpdateCompatibility(
                 MarkStartupQualificationPending(preferred), tunnel)
      BY <1>6 DEF Adopt
    <2> HIDE DEF preferred
    <2> QED
      BY <1>0, <1>2, <2>2, <2>3, MarkTyped, StartFields, UpdateFields
  <1>7. CASE NotAdopted
    <2>1. [m EXCEPT !.next = MovePast(lease.profile)].direct = m.direct
      BY <1>0, Zenon DEF Memory
    <2>2. m' \in {m, [m EXCEPT !.next = MovePast(lease.profile)]}
      BY <1>7 DEF NotAdopted
    <2> QED  BY <1>0, <1>2, <2>1, <2>2
  <1>8. CASE StopStale
    <2>1. m' = LoadPreferred(m, PreferredFile)
      BY <1>8 DEF StopStale
    <2> QED  BY <1>0, <1>2, <2>1, StartFields
  <1>9. CASE NextCandidate
    <2>1. PICK p : m' = m \/ m' = [m EXCEPT !.attempted = m.attempted \cup {p}]
      BY <1>9 DEF NextCandidate, Finish
    <2> DEFINE tried == m.attempted \cup {p}
    <2> HIDE DEF tried
    <2>2. [m EXCEPT !.attempted = tried].direct = m.direct
      BY <1>0, Zenon DEF Memory
    <2> QED  BY <1>0, <1>2, <2>1, <2>2 DEF tried
  <1>10. CASE GaveUp
    BY <1>2, <1>3, <1>10 DEF GaveUp, Finish
  <1>11. CASE StartProfile
    <2>1. CASE Defer /\ Deferrable /\ UNCHANGED <<procs, engine>>
      BY <1>1, <2>1
    <2>2. CASE m' = m
      BY <1>0, <1>2, <2>2
    <2> QED  BY <1>11, <2>1, <2>2 DEF StartProfile
  <1>12. CASE Settled
    <2>1. CASE Defer /\ Deferrable
      BY <1>1, <1>12, <2>1 DEF Settled, Quiet, world
    <2> DEFINE preferred == [m EXCEPT !.next = op.cand]
    <2>2. op.cand \in Profiles
      BY <1>12 DEF Settled, TypeInv, Placed, CandidateLabels
    <2>3. preferred \in Memory /\ ~preferred.direct
      BY <1>0, <2>2, Zenon DEF Memory
    <2>4. CASE m' = UpdateCompatibility(
                      MarkStartupQualificationPending(preferred), tunnel)
      <3> HIDE DEF preferred
      <3> QED
        BY <1>0, <1>2, <2>3, <2>4, MarkTyped, StartFields, UpdateFields
    <2> QED  BY <1>12, <2>1, <2>4 DEF Settled, Finish
  <1>13. CASE ExitedEarly
    <2>1. op.cand \in Profiles
      BY <1>13 DEF ExitedEarly, TypeInv, Placed, CandidateLabels
    <2>2. Failed(m, op.cand) \in Memory /\ ~Failed(m, op.cand).direct
      BY <1>0, <2>1, FailedFields
    <2>3. m' \in {Failed(m, op.cand),
                 UpdateCompatibility(Failed(m, op.cand), tunnel)}
      BY <1>13 DEF ExitedEarly, Finish
    <2> QED  BY <1>0, <1>2, <2>2, <2>3, UpdateFields
  <1>14. CASE Restored
    <2> DEFINE probed == Probed(m, NoProbes)
               held == [probed EXCEPT !.hold = TRUE]
    <2>1. probed \in Memory /\ ~probed.direct
      BY <1>0, NoProbesTyped, ProbedTyped, StartFields
    <2> HIDE DEF probed
    <2>2. held \in Memory /\ ~held.direct
      BY <2>1, FieldFacts, Zenon DEF Memory
    <2> HIDE DEF held
    <2>3. m' = UpdateCompatibility(CompleteStartupQualification(held), tunnel)
      BY <1>14 DEF Restored, Finish, Exhausted, held, probed
    <2> QED
      BY <1>0, <1>2, <2>2, <2>3, CompleteTyped, ResetFields, UpdateFields
  <1> QED
    BY <1>4, <1>5, <1>6, <1>7, <1>8, <1>9, <1>10, <1>11, <1>12, <1>13, <1>14

\* Every step keeps direct mode away from a running Engine.
LEMMA DirectStep == TypeInv /\ DirectInv /\ [Next]_vars => DirectInv'
  <1> SUFFICES ASSUME TypeInv, DirectInv, [Next]_vars PROVE DirectInv'
    OBVIOUS
  <1>1. CASE UNCHANGED vars
    BY <1>1, Kept, DirectQuiet DEF vars
  <1>2. CASE Next
    BY <1>2, DirectWorld, DirectCalls, DirectProbes, DirectApply, DirectStart
    DEF Next, GateStep
  <1> QED  BY <1>1, <1>2

\* In direct mode EngineSupervisor has no Engine of its own running, so no
\* WinDivert filter it started is layered over the tunnel it trusts.
THEOREM DirectMode == Spec => []DirectModeOwnsNoEngine
  <1>1. DirectInv => DirectModeOwnsNoEngine
    BY DEF DirectInv, DirectModeOwnsNoEngine
  <1> QED  BY <1>1, TypeInvariant, DirectInit, DirectStep, PTL DEF Spec
-----------------------------------------------------------------------------
(***************************************************************************)
(* Without faults no process escapes: the ones that live are the attached  *)
(* one and the one a stop is waiting for.                                  *)
(***************************************************************************)
OwnedInv ==
  /\ Live \subseteq {engine.pid, op.victim}
  /\ pc # "kill" => op.victim = NoPid

\* Steps that start, attach and detach nothing.
LEMMA OwnedQuiet ==
  ASSUME OwnedInv, Live' \subseteq Live, engine' = engine, pc # "kill",
         op'.victim = op.victim \/ op'.victim = NoPid,
         pc' # "kill"
  PROVE  OwnedInv'
  BY DEF OwnedInv

\* Detaching the Engine makes it the one waited for.
LEMMA OwnedStop ==
  ASSUME TypeInv, OwnedInv, procs' = procs, pc # "kill",
         NEW o \in Locals, NEW l, StopInternal(o, l)
  PROVE  OwnedInv'
  <1>1. op'.victim = engine.pid
    BY Zenon DEF StopInternal, Locals
  <1>2. \A p \in Live : p # NoPid
    BY PidAssumption DEF Live
  <1> QED  BY <1>1, <1>2, LiveKept DEF StopInternal, OwnedInv

\* No Engine lives in the initial states, so none has escaped.
LEMMA OwnedInit == Init => OwnedInv
  BY DEF Init, OwnedInv, NoOp, Live

\* Without faults every step keeps each live process attached or waited for.
LEMMA OwnedStep ==
  ASSUME Faults = {}, TypeInv, OneInv, OwnedInv, [Next]_vars
  PROVE  OwnedInv'
  <1>0. /\ op \in Locals
        /\ \A t \in Tunnels \cup {NoTunnel} :
             /\ [op EXCEPT !.seen = t] \in Locals
             /\ [op EXCEPT !.seen = t].victim = op.victim
        /\ \A p \in Profiles :
             /\ [op EXCEPT !.cand = p] \in Locals
             /\ [op EXCEPT !.first = p].victim = op.victim
        /\ \A r : [op EXCEPT !.ret = r].victim = op.victim
    <2>1. op \in Locals
      BY DEF TypeInv, TypeOK
    <2> QED  BY <2>1, Zenon DEF Locals
  <1>1. tunnel \in Tunnels \cup {NoTunnel} /\ m \in Memory /\ NoOp.victim = NoPid
    BY DEF TypeInv, TypeOK, NoOp
  <1>2. CASE UNCHANGED vars
    BY <1>2, LiveKept DEF vars, OwnedInv
  <1>3. CASE EnvStep
    <2>1. CASE EngineExits
      <3>1. Live' \subseteq Live
        BY <2>1 DEF EngineExits, Live, TypeInv, TypeOK
      <3> QED  BY <2>1, <3>1 DEF EngineExits, OwnedInv
    <2>2. CASE TunnelChanges \/ ExitedHandler \/ TimePasses
                 \/ \E c \in Commands : Request(c)
      BY <2>2, LiveKept
      DEF TunnelChanges, ExitedHandler, TimePasses, Request, Quiet, world,
          files, agent, OwnedInv
    <2> QED  BY <1>3, <2>1, <2>2 DEF EnvStep
  <1>4. CASE FaultStep
    BY <1>4
    DEF FaultStep, KillTimesOut, VerifyFails, LaunchFails, SaveLeaseFails,
        AgentCrash, Fails
  <1>5. CASE StartBest \/ Recheck \/ Status
    BY <1>0, <1>1, <1>5, OwnedQuiet, LiveKept
    DEF StartBest, Recheck, Status, Taken, Idle, Finish, Goto, world
  <1>6. CASE Stop
    BY <1>0, <1>6, OwnedStop DEF Stop, Taken, Idle, world
  <1>7. CASE Reconcile \/ Recover
    <2>1. CASE StopInternal([op EXCEPT !.seen = tunnel], "reevaluate")
      BY <1>0, <1>1, <1>7, <2>1, OwnedStop
      DEF Reconcile, ReconcileChanged, ReconcileDue, ReconcileTunnel,
          ReconcileNoTunnel, Recover, RecoverTunnel, RecoverNoTunnel, Quiet,
          Idle, world
    <2>2. CASE engine' = engine /\ pc' # "kill"
               /\ op' \in {op, NoOp, [op EXCEPT !.seen = tunnel]}
      BY <1>0, <1>1, <1>7, <2>2, OwnedQuiet, LiveKept
      DEF Reconcile, ReconcileChanged, ReconcileDue, ReconcileTunnel,
          ReconcileNoTunnel, Recover, RecoverTunnel, RecoverNoTunnel, Quiet,
          Idle, world
    <2> QED
      BY <1>7, <2>1, <2>2
      DEF Reconcile, ReconcileChanged, ReconcileDue, ReconcileTunnel,
          ReconcileNoTunnel, Recover, RecoverTunnel, RecoverNoTunnel,
          RestoreEngine, Finish, Goto, Quiet, Idle, world
  <1>8. CASE Stopped \/ StartProbed \/ DirectResult \/ Refresh \/ DirectProbed
               \/ EngineProbed \/ RecoverProbed
    BY <1>1, <1>8, OwnedQuiet, LiveKept
    DEF Stopped, StartProbed, DirectResult, Refresh, DirectProbed,
        EngineProbed, RecoverProbed, RestoreEngine, Finish, Goto, Quiet, world
  <1>9. CASE ApplyReady \/ ApplyPreserved \/ ApplyInconclusive \/ ApplyStable
               \/ Persistent \/ GaveUp \/ Restored
    BY <1>1, <1>9, OwnedQuiet, LiveKept
    DEF ApplyReady, ApplyPreserved, ApplyInconclusive, ApplyStable, Degraded,
        Applying, Persistent, GaveUp, Restored, Finish, Goto, Quiet, world
  <1>10. CASE ApplyRotate \/ ApplyPersistent
    <2>1. pc = "apply" => engine.profile \in Profiles
      BY Attached DEF TypeInv, Placed
    <2> QED
      BY <1>0, <1>10, <2>1, OwnedStop
      DEF ApplyRotate, ApplyPersistent, Degraded, Applying, world
  <1>11. CASE ApplyExhausted
    <2>1. PICK best \in Profiles :
            \/ Finish(Exhausted(Disqualified), "degraded") /\ engine' = engine
            \/ StopInternal([op EXCEPT !.cand = best], "restore")
      BY <1>11, BestTyped DEF ApplyExhausted
    <2>2. CASE Finish(Exhausted(Disqualified), "degraded") /\ engine' = engine
      BY <1>1, <1>11, <2>2, OwnedQuiet, LiveKept
      DEF ApplyExhausted, Degraded, Applying, Finish, world
    <2>3. CASE StopInternal([op EXCEPT !.cand = best], "restore")
      BY <1>0, <1>11, <2>3, OwnedStop
      DEF ApplyExhausted, Degraded, Applying, world
    <2> QED  BY <2>1, <2>2, <2>3
  <1>12. CASE StartBestInternal \/ NotAdopted
    BY <1>1, <1>12, OwnedQuiet, LiveKept
    DEF StartBestInternal, NotAdopted, Defer, Finish, Goto, Quiet, world
  <1>13. CASE Adopt
    <2>1. lease.pid \in Live /\ Live' = Live
      BY <1>13, Attached, LiveKept DEF Adopt, Live, TypeInv, world
    <2> QED  BY <1>1, <1>13, <2>1 DEF Adopt, OneInv, AtMostOneEngine, OwnedInv
  <1>14. CASE StopStale
    <2>1. Live' \subseteq Live
      BY <1>14 DEF StopStale, Live, TypeInv, TypeOK
    <2>2. m'.next \in Profiles
      BY <1>14, TypeStart, Zenon DEF TypeInv, TypeOK, Memory
    <2>3. op'.victim = op.victim
      BY <1>0, <1>14, <2>2 DEF StopStale
    <2> QED  BY <1>14, <2>1, <2>3, OwnedQuiet DEF StopStale, Goto
  <1>15. CASE NextCandidate
    <2>1. op.first \in Profiles
      BY <1>0, Zenon DEF Locals
    <2>2. PICK p \in Profiles :
            \/ Finish(m, "stopped") /\ engine' = engine
            \/ StopInternal([op EXCEPT !.cand = p], "start")
      BY <1>15, <2>1, UntriedTyped DEF NextCandidate
    <2>3. CASE Finish(m, "stopped") /\ engine' = engine
      BY <1>1, <1>15, <2>3, OwnedQuiet, LiveKept DEF NextCandidate, Finish, world
    <2>4. CASE StopInternal([op EXCEPT !.cand = p], "start")
      BY <1>0, <1>15, <2>4, OwnedStop DEF NextCandidate, world
    <2> QED  BY <2>2, <2>3, <2>4
  <1>16. CASE NoCandidate
    BY <1>0, <1>16, OwnedStop DEF NoCandidate, world
  <1>17. CASE Killed
    <2>1. Live' \subseteq Live \ {op.victim}
      BY <1>17 DEF Killed, Live, TypeInv, TypeOK
    <2>2. op'.victim = NoPid
      BY <1>0, <1>17, Zenon DEF Killed, Locals
    <2>3. pc' # "kill" /\ engine' = engine
      BY <1>17 DEF Killed, Goto, TypeInv, Placed, StopLabels
    <2> QED  BY <2>1, <2>2, <2>3 DEF OwnedInv
  <1>18. CASE StartProfile \/ RestoreBest
    <2>1. CASE Defer /\ UNCHANGED <<procs, engine>>
      BY <1>1, <1>18, <2>1, OwnedQuiet, LiveKept
      DEF StartProfile, RestoreBest, Defer, Finish
    <2>2. ASSUME NEW l, Spawn(op.cand, l) PROVE OwnedInv'
      <3>1. PICK pid \in Pids : procs' = [procs EXCEPT ![pid] = op.cand]
                              /\ engine' = [pid |-> pid, profile |-> op.cand]
        BY <2>2 DEF Spawn
      <3>2. Live' \subseteq {pid} /\ engine'.pid = pid
        BY <1>18, <3>1
        DEF StartProfile, RestoreBest, OneInv, Live, TypeInv, TypeOK
      <3>3. op'.victim = op.victim /\ pc' = "lease" /\ op.victim = NoPid
        BY <1>0, <1>18, <2>2
        DEF Spawn, StartProfile, RestoreBest, OwnedInv
      <3> QED  BY <3>2, <3>3 DEF OwnedInv
    <2> QED  BY <1>18, <2>1, <2>2 DEF StartProfile, RestoreBest
  <1>19. CASE SaveLease
    <2>1. pc' \in {"settle", "restored"} /\ op'.victim = op.victim
      BY <1>0, <1>19 DEF SaveLease, Goto, TypeInv, Placed
    <2> QED  BY <1>19, <2>1, OwnedQuiet, LiveKept DEF SaveLease, world
  <1>20. CASE Settled
    BY <1>1, <1>20, OwnedQuiet, LiveKept
    DEF Settled, Defer, Finish, Quiet, world
  <1>21. CASE ExitedEarly
    BY <1>1, <1>21, OwnedQuiet, LiveKept DEF ExitedEarly, Finish, Goto, world
  <1> QED
    BY <1>2, <1>3, <1>4, <1>5, <1>6, <1>7, <1>8, <1>9, <1>10, <1>11, <1>12,
       <1>13, <1>14, <1>15, <1>16, <1>17, <1>18, <1>19, <1>20, <1>21
    DEF Next, GateStep

\* As long as no kill times out, no launch fails and the Agent does not die,
\* direct mode means that no Engine process exists at all (ARCHITECTURE.md:
\* FOG does not layer WinDivert over the tunnel).
THEOREM NoEngineInDirectMode ==
  ASSUME Faults = {} PROVE Spec => []NoEngineUnderDirectMode
  <1>1. TypeInv /\ DirectInv /\ OwnedInv => NoEngineUnderDirectMode
    <2> SUFFICES ASSUME TypeInv, DirectInv, OwnedInv, m.direct PROVE Live = {}
      BY DEF NoEngineUnderDirectMode
    <2>1. ~Running /\ op.victim = NoPid
      BY DEF DirectInv, EngineLabels, OwnedInv
    <2>2. engine.pid \notin Live
      BY <2>1, PidAssumption DEF Running, Live, NoEngine
    <2> QED  BY <2>1, <2>2, PidAssumption DEF OwnedInv, Live
  <1>2. TypeInv /\ OneInv /\ OwnedInv /\ [Next]_vars => OwnedInv'
    BY OwnedStep
  <1> QED
    BY <1>1, <1>2, TypeInvariant, OneInit, OneStep, DirectInit, DirectStep,
       OwnedInit, PTL DEF Spec
=============================================================================
