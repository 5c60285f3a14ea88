---------------------------- MODULE HistoryProofs ---------------------------
(***************************************************************************)
(* What EngineSupervisor does with the probes and with the qualification   *)
(* of a profile, for every value of the constants: no start rests on       *)
(* healthy probes, no Engine is shown healthy on the probes of another, no *)
(* profile is replaced after one failure, and a stop is kept.              *)
(***************************************************************************)
EXTENDS EngineSupervisorProofs, SupervisorHistory

-----------------------------------------------------------------------------
(***************************************************************************)
(* What the methods do to the probes and to the qualification.             *)
(***************************************************************************)
Same(r, mm) ==
  r.probes = mm.probes /\ r.pending = mm.pending /\ r.qfails = mm.qfails

\* The methods that leave them alone.
LEMMA SameFields ==
  ASSUME NEW mm \in Memory, NEW t \in Tunnels \cup {NoTunnel}
  PROVE  /\ Same(UpdateCompatibility(mm, t), mm)
         /\ Same(LeaveDirectMode(mm, t), mm)
         /\ Same(ResetSearch(mm), mm)
  <1>1. /\ Same(UpdateCompatibility(mm, t), mm)
        /\ Same(ResetSearch(mm), mm)
    BY Zenon DEF UpdateCompatibility, ResetSearch, Same, Memory
  <1>2. Same(LeaveDirectMode(mm, t), mm)
    BY Zenon DEF LeaveDirectMode, UpdateCompatibility, Same, Memory
  <1> QED  BY <1>1, <1>2

\* So do those that note a failed or a successful profile.
LEMMA SameProfile ==
  ASSUME NEW mm \in Memory, NEW p
  PROVE  /\ Same(Failed(mm, p), mm)
         /\ Same(Remember(mm, p), mm)
         /\ Same(LoadPreferred(mm, p), mm)
  <1>1. Same(Remember(mm, p), mm)
    BY Zenon DEF Remember, Same, Memory
  <1>2. Same(Failed(mm, p), mm)
    BY ForgetTyped, Zenon DEF Failed, Forget, Same, Memory
  <1>3. Same(LoadPreferred(mm, p), mm)
    BY DEF LoadPreferred, Same, Memory
  <1> QED  BY <1>1, <1>2, <1>3

\* A qualification that is complete keeps the probes.
LEMMA OverFields ==
  ASSUME NEW mm \in Memory
  PROVE  LET r == CompleteStartupQualification(mm)
         IN  r.probes = mm.probes /\ ~r.pending
  BY Zenon DEF CompleteStartupQualification, Memory

\* A start-up cycle that begins keeps nothing.
LEMMA AfreshFields ==
  ASSUME NEW mm \in Memory
  PROVE  LET r == ResetStartupCycle(mm)
         IN  r.probes = NoProbes /\ ~r.pending
  <1> DEFINE s == ResetSearch(CompleteStartupQualification(mm))
  <1>1. CompleteStartupQualification(mm) \in Memory
        /\ ~CompleteStartupQualification(mm).pending
    BY CompleteTyped, OverFields
  <1>2. s \in Memory /\ ~s.pending
    BY <1>1, ResetSearchTyped, SameFields, FieldFacts DEF Same
  <1> HIDE DEF s
  <1>3. LET r == [s EXCEPT !.hold = FALSE, !.probes = NoProbes]
        IN  r.probes = NoProbes /\ r.pending = s.pending
    BY <1>2, Zenon DEF Memory
  <1> QED  BY <1>2, <1>3 DEF ResetStartupCycle, s

\* A new Engine has everything to prove.
LEMMA MarkFields ==
  ASSUME NEW mm \in Memory
  PROVE  LET r == MarkStartupQualificationPending(mm)
         IN  r.pending /\ r.qfails = 0
  BY Zenon DEF MarkStartupQualificationPending, Memory

\* What the results of a check leave of the qualification.
LEMMA ObservedFields ==
  ASSUME m \in Memory
  PROVE  /\ Observed.pending = m.pending
         /\ Observe.pending = m.pending /\ Observe.probes = Observed.probes
         /\ Inconclusive.pending = m.pending
         /\ Inconclusive.qfails = Capped(m.qfails, 2)
         /\ Inconclusive.probes = Observed.probes
         /\ Disqualified.pending = m.pending
         /\ Disqualified.probes = Observed.probes
  <1>1. /\ Observed \in Memory
        /\ Observed.pending = m.pending /\ Observed.qfails = m.qfails
    BY ObservedTyped, Zenon DEF Observed, Memory
  <1>2. Observe.pending = m.pending /\ Observe.probes = Observed.probes
    BY <1>1, Zenon DEF Observe, Memory
  <1>3. /\ Inconclusive \in Memory
        /\ Inconclusive.pending = m.pending
        /\ Inconclusive.qfails = Capped(m.qfails, 2)
        /\ Inconclusive.probes = Observed.probes
    BY <1>1, InconclusiveTyped, Zenon DEF Inconclusive, Memory
  <1>4. /\ Disqualified.pending = m.pending
        /\ Disqualified.probes = Observed.probes
    BY <1>3, Zenon DEF Disqualified, Memory
  <1> QED  BY <1>1, <1>2, <1>3, <1>4

\* The empty list is not a healthy one.
LEMMA NothingPassed == ~AllPassed(NoProbes)
  BY DEF AllPassed, NoProbes
-----------------------------------------------------------------------------
(***************************************************************************)
(* The shapes of the steps: where they lead, whether an Engine may start   *)
(* and what they leave of the probes and of the qualification.             *)
(***************************************************************************)
\* The labels of the way to a launch.
StartLabels == {"startBest", "adopt", "stale", "candidates", "start", "settle"}

\* Where a direct check is made, and where a launch is not accounted for yet.
DirectLabels ==
  {"startProbe", "recheckProbe", "recoverDirect", "reevaluate", "directProbe"}
LaunchLabel == {"lease", "settle", "restored"}

Keeps == NothingStarts /\ pc' = pc /\ op' = op /\ Same(m', m)

GoesOn ==
  /\ NothingStarts /\ Same(m', m)
  /\ \/ pc = "idle" /\ pc' = "refresh"
     \/ pc = "idle" /\ pc' = "recoverEngine" /\ Running
     \/ pc = "refresh" /\ pc' = "engineProbe" /\ Running
     \/ /\ pc \in {"idle", "refresh"}
        /\ pc' \in DirectLabels \ {"startProbe"} /\ ~Running
     \/ /\ pc \in {"startBest", "adopt", "stale", "settle"}
        /\ pc' \in {"adopt", "stale", "candidates"}
        /\ pc = "settle" => ~Running
     \/ pc = "lease" /\ pc' = op.ret /\ op.ret \in {"settle", "restored"}
     \/ pc = "kill" /\ pc' = op.ret /\ op.ret \in StopLabels

Returns ==
  /\ NothingStarts /\ pc' = "idle"
  /\ \/ /\ pc \notin {"apply", "engineProbe", "recoverEngine"}
                       \cup DirectLabels \cup LaunchLabel
        /\ Same(m', m)
     \/ ~Running
     \/ pc \in DirectLabels
     \/ pc = "settle" /\ m'.pending /\ m'.qfails = 0
     \/ pc = "restored" /\ ~m'.pending /\ m'.probes = NoProbes
     \/ /\ pc = "apply"
        /\ m'.pending => /\ Degraded /\ m.pending
                         /\ m'.qfails = Capped(m.qfails, 2)

StartsOver ==
  /\ NothingStarts
  /\ pc \in {"idle", "recoverEngine", "persistent"} \cup DirectLabels
  /\ m'.probes = NoProbes /\ ~m'.pending
  /\ \/ pc' = "startBest"
     \/ pc' = "startProbe" /\ op'.seen # NoTunnel /\ ~Running

StartsUnhealthy ==
  /\ NothingStarts /\ pc = "startProbe" /\ pc' = "startBest"
  /\ op.seen # NoTunnel => ~AllPassed(m'.probes)

Checks ==
  /\ NothingStarts /\ pc \in {"engineProbe", "recoverEngine"} /\ pc' = "apply"
  /\ m'.pending = m.pending /\ m'.qfails = m.qfails

Stops ==
  /\ engine' = NoEngine /\ pc' = "kill"
  /\ op'.ret \in StartLabels =>
       ~AllPassed(m'.probes) \/ (pc = "candidates" /\ m'.probes = m.probes)
  /\ pc = "apply" /\ m.pending => Degraded /\ Capped(m.qfails, 2) >= 2

Launching ==
  /\ pc \in {"start", "restore"} /\ pc' = "lease" /\ Same(m', m)
  /\ op'.ret \in StartLabels => pc = "start"

Adopts == pc = "adopt" /\ pc' = "idle" /\ m'.pending /\ m'.qfails = 0

Crashes ==
  engine' = NoEngine /\ pc' = "idle" /\ ~m'.pending /\ m'.probes = NoProbes

Shape ==
  \/ Keeps \/ GoesOn \/ Returns \/ StartsOver \/ StartsUnhealthy
  \/ Checks \/ Stops \/ Launching \/ Adopts \/ Crashes

\* Detaching the Engine changes no label but the one it goes on at.
LEMMA StopShape ==
  ASSUME NEW o \in Locals, NEW l, StopInternal(o, l)
  PROVE  engine' = NoEngine /\ pc' = "kill" /\ op'.ret = l
  BY Zenon DEF StopInternal, Locals

\* The steps of the environment and the faults.
LEMMA WorldShape ==
  ASSUME TypeInv, EnvStep \/ FaultStep PROVE Shape
  <1>0. m \in Memory /\ procs \in [Pids -> Profiles \cup {Dead}]
    BY DEF TypeInv, TypeOK
  <1>1. CASE TunnelChanges
    BY <1>1, Kept DEF TunnelChanges, agent, Same, Keeps, Shape
  <1>2. CASE EngineExits
    <2>1. NothingStarts
      BY <1>0, <1>2 DEF EngineExits, NothingStarts
    <2> QED  BY <1>2, <2>1 DEF EngineExits, Same, Keeps, Shape
  <1>3. CASE ExitedHandler \/ TimePasses \/ \E c \in Commands : Request(c)
    <2>1. Same(m', m)
      <3>1. CASE ExitedHandler
        <4> DEFINE f == Failed(m, engine.profile)
                   q == f.paused \/ exit = "driver"
        <4>1. engine.profile \in Profiles
          BY <3>1, Attached DEF ExitedHandler, TypeInv, Placed
        <4>2. f \in Memory /\ Same(f, m)
          BY <1>0, <4>1, FailedTyped, SameProfile
        <4>3. m' = [f EXCEPT !.paused = q]
          BY <3>1 DEF ExitedHandler
        <4> HIDE DEF f, q
        <4>4. Same([f EXCEPT !.paused = q], f)
          BY <4>2, Zenon DEF Same, Memory
        <4> QED  BY <4>2, <4>3, <4>4 DEF Same
      <3>2. CASE TimePasses
        BY <1>0, <3>2, Zenon DEF TimePasses, Same, Memory
      <3>3. CASE \E c \in Commands : Request(c)
        <4>1. \/ m' = m
              \/ m' = [m EXCEPT !.desired = FALSE]
          BY <3>3 DEF Request
        <4>2. Same([m EXCEPT !.desired = FALSE], m)
          BY <1>0, Zenon DEF Same, Memory
        <4> QED  BY <4>1, <4>2 DEF Same
      <3> QED  BY <1>3, <3>1, <3>2, <3>3
    <2>2. UNCHANGED <<procs, engine, pc, op>>
      BY <1>3 DEF ExitedHandler, TimePasses, Request, Quiet, world
    <2> QED  BY <2>1, <2>2, Kept DEF Keeps, Shape
  <1>4. CASE KillTimesOut \/ VerifyFails \/ LaunchFails
    <2>1. /\ pc \in {"kill", "stale", "adopt", "restore", "start"}
          /\ pc' = "idle" /\ m' = m /\ UNCHANGED <<procs, engine>>
      BY <1>4 DEF KillTimesOut, VerifyFails, LaunchFails, Fails, Throw, world
    <2> QED
      BY <2>1, Kept DEF Returns, Same, DirectLabels, LaunchLabel, Shape
  <1>5. CASE SaveLeaseFails
    <2>1. /\ pc = "lease" /\ pc' = op.ret /\ op.ret \in {"settle", "restored"}
          /\ m' = m /\ UNCHANGED <<procs, engine>>
      BY <1>5 DEF SaveLeaseFails, Goto, TypeInv, Placed, world
    <2> QED  BY <2>1, Kept DEF GoesOn, Same, Shape
  <1>6. CASE AgentCrash
    BY <1>6 DEF AgentCrash, InitMemory, Crashes, Shape
  <1> QED  BY <1>1, <1>2, <1>3, <1>4, <1>5, <1>6 DEF EnvStep, FaultStep

\* The commands and the loops, up to their first await.
LEMMA CallShape ==
  ASSUME TypeInv,
         StartBest \/ Recheck \/ Stop \/ Status \/ Reconcile \/ Recover
  PROVE  Shape
  <1>0. /\ m \in Memory /\ tunnel \in Tunnels \cup {NoTunnel}
        /\ NoTunnel \in Tunnels \cup {NoTunnel} /\ op \in Locals
        /\ pc = "idle"
        /\ [op EXCEPT !.seen = tunnel] \in Locals
        /\ [op EXCEPT !.seen = tunnel].seen = tunnel
    <2>1. /\ m \in Memory /\ tunnel \in Tunnels \cup {NoTunnel} /\ op \in Locals
      BY DEF TypeInv, TypeOK
    <2>2. pc = "idle"
      BY DEF StartBest, Recheck, Stop, Status, Reconcile, Recover, Taken,
             ReconcileChanged, ReconcileDue, ReconcileTunnel,
             ReconcileNoTunnel, RecoverTunnel, RecoverNoTunnel, Idle
    <2> QED  BY <2>1, <2>2, Zenon DEF Locals
  <1>1. ASSUME NEW mm \in Memory, NEW t \in Tunnels \cup {NoTunnel},
               NEW state, UNCHANGED <<procs, engine>>,
               \/ Finish(m, state)
               \/ Finish(UpdateCompatibility(m, t), state)
               \/ Finish(LeaveDirectMode(m, t), state)
        PROVE  Shape
    <2>1. Same(m', m) /\ pc' = "idle"
      BY <1>0, <1>1, SameFields DEF Finish, Same
    <2> QED
      BY <1>0, <1>1, <2>1, Kept DEF Returns, DirectLabels, LaunchLabel, Shape
  <1>2. ASSUME NEW mm \in Memory, RestoreEngine(mm), UNCHANGED <<procs, engine>>
        PROVE  Shape
    BY <1>0, <1>2, AfreshFields, Kept DEF RestoreEngine, Goto, StartsOver, Shape
  <1>3. CASE StartBest
    <2> DEFINE wanted == [m EXCEPT !.desired = TRUE, !.paused = FALSE]
               fresh == ResetStartupCycle(wanted)
    <2>1. wanted \in Memory /\ Same(wanted, m)
      BY <1>0, FieldFacts, Zenon DEF Same, Memory
    <2> HIDE DEF wanted
    <2>2. fresh \in Memory /\ fresh.probes = NoProbes /\ ~fresh.pending
      BY <2>1, AfreshFields, ResetCycleTyped
    <2> HIDE DEF fresh
    <2>3. Same([fresh EXCEPT !.direct = FALSE], fresh)
      BY <2>2, Zenon DEF Same, Memory
    <2>4. \/ m' = wanted /\ pc' = "refresh"
          \/ /\ ~Running /\ tunnel # NoTunnel /\ m' = fresh
             /\ pc' = "startProbe" /\ op' = [op EXCEPT !.seen = tunnel]
          \/ m' = [fresh EXCEPT !.direct = FALSE] /\ pc' = "startBest"
      BY <1>3 DEF StartBest, Goto, wanted, fresh
    <2>5. NothingStarts
      BY <1>3, Kept DEF StartBest, world
    <2> QED
      BY <1>0, <2>1, <2>2, <2>3, <2>4, <2>5
      DEF Same, GoesOn, StartsOver, Shape
  <1>4. CASE Recheck
    <2>1. \/ ~Running /\ m' = m /\ pc' = "recheckProbe"
          \/ pc' = "refresh" /\ m' = UpdateCompatibility(m, tunnel)
      BY <1>4 DEF Recheck, Goto
    <2>2. NothingStarts
      BY <1>4, Kept DEF Recheck, world
    <2>3. Same(m', m)
      BY <1>0, <2>1, SameFields DEF Same
    <2> QED  BY <1>0, <2>1, <2>2, <2>3 DEF GoesOn, DirectLabels, Shape
  <1>5. CASE Stop
    <2>1. engine' = NoEngine /\ pc' = "kill" /\ op'.ret = "stopped"
      BY <1>0, <1>5, StopShape DEF Stop
    <2> QED  BY <1>0, <2>1 DEF Stops, StartLabels, Shape
  <1>6. CASE Status
    BY <1>0, <1>1, <1>6 DEF Status, world
  <1>7. CASE ReconcileChanged
    <2>1. CASE StopInternal([op EXCEPT !.seen = tunnel], "reevaluate")
      <3>1. engine' = NoEngine /\ pc' = "kill" /\ op'.ret = "reevaluate"
        BY <1>0, <2>1, StopShape
      <3> QED  BY <1>0, <3>1 DEF Stops, StartLabels, Shape
    <2>2. CASE ~Running /\ pc' = "reevaluate" /\ engine' = engine
      BY <1>0, <1>7, <2>2, Kept
      DEF ReconcileChanged, GoesOn, Same, DirectLabels, Shape, world
    <2> QED  BY <1>7, <2>1, <2>2 DEF ReconcileChanged, Goto
  <1>8. CASE ReconcileDue
    BY <1>0, <1>8, Kept DEF ReconcileDue, Goto, GoesOn, Same, Shape, world
  <1>9. CASE ReconcileTunnel
    <2>1. UNCHANGED <<procs, engine>>
      BY <1>9 DEF ReconcileTunnel, Quiet, world
    <2>2. CASE ~Running /\ pc' = "idle"
      BY <1>0, <2>1, <2>2, Kept DEF Returns, Shape
    <2>3. CASE RestoreEngine(UpdateCompatibility(m, tunnel))
      BY <1>0, <1>2, <2>1, <2>3, UpdateTyped
    <2>4. CASE Finish(UpdateCompatibility(m, tunnel),
                      CurrentState(UpdateCompatibility(m, tunnel), Running))
      BY <1>0, <1>1, <2>1, <2>4
    <2> QED
      BY <1>9, <2>2, <2>3, <2>4 DEF ReconcileTunnel, CanUseDirectMode, Finish
  <1>10. CASE ReconcileNoTunnel \/ RecoverNoTunnel
    <2> DEFINE mm == LeaveDirectMode(m, NoTunnel)
    <2>1. mm \in Memory /\ Same(mm, m)
      BY <1>0, LeaveTyped, SameFields
    <2>2. UNCHANGED <<procs, engine>>
      BY <1>10 DEF ReconcileNoTunnel, RecoverNoTunnel, Quiet, world
    <2>3. \/ RestoreEngine(mm)
          \/ \E state : Finish(mm, state)
          \/ m' = mm /\ Goto("refresh")
      BY <1>10 DEF ReconcileNoTunnel, RecoverNoTunnel
    <2>4. CASE \E state : Finish(mm, state)
      BY <1>0, <1>1, <2>2, <2>4
    <2> HIDE DEF mm
    <2>5. CASE m' = mm /\ Goto("refresh")
      BY <1>0, <2>1, <2>2, <2>5, Kept DEF Goto, GoesOn, Shape
    <2> QED  BY <1>2, <2>1, <2>2, <2>3, <2>4, <2>5
  <1>11. CASE RecoverTunnel
    <2>1. /\ NothingStarts /\ m' = m
          /\ \/ Running /\ pc' = "recoverEngine"
             \/ ~Running /\ pc' = "recoverDirect"
      BY <1>11, Kept DEF RecoverTunnel, Goto, world
    <2> QED  BY <1>0, <2>1 DEF GoesOn, Same, DirectLabels, Shape
  <1> QED
    BY <1>3, <1>4, <1>5, <1>6, <1>7, <1>8, <1>9, <1>10, <1>11
    DEF Reconcile, Recover

\* The results of a check.
LEMMA ProbeShape ==
  ASSUME TypeInv,
         DirectResult \/ StartProbed \/ Refresh \/ DirectProbed
           \/ EngineProbed \/ RecoverProbed
  PROVE  Shape
  <1>0. m \in Memory /\ op.seen \in Tunnels \cup {NoTunnel}
    BY Zenon DEF TypeInv, TypeOK, Locals
  <1>1. \A ps \in DirectOutcomes \cup EngineOutcomes :
          LET mm == Probed(m, ps)
              left == LeaveDirectMode(mm, op.seen)
          IN  /\ mm.probes = ps /\ mm.pending = m.pending
              /\ mm.qfails = m.qfails
              /\ left \in Memory /\ Same(left, mm)
    <2> TAKE ps \in DirectOutcomes \cup EngineOutcomes
    <2> DEFINE mm == Probed(m, ps)
    <2>1. mm \in Memory
      BY <1>0, OutcomeAssumption, ProbedTyped
    <2>2. mm.probes = ps /\ mm.pending = m.pending /\ mm.qfails = m.qfails
      BY <1>0, Zenon DEF Probed, Memory
    <2> HIDE DEF mm
    <2>3. LeaveDirectMode(mm, op.seen) \in Memory
          /\ Same(LeaveDirectMode(mm, op.seen), mm)
      BY <1>0, <2>1, LeaveTyped, SameFields
    <2> QED  BY <2>1, <2>2, <2>3 DEF mm
  <1>2. NothingStarts
    <2>1. UNCHANGED <<procs, engine>>
      BY DEF DirectResult, StartProbed, Refresh, DirectProbed, EngineProbed,
             RecoverProbed, Quiet, world
    <2> QED  BY <2>1, Kept
  <1>3. CASE DirectResult
    <2>1. pc \in {"recheckProbe", "recoverDirect", "reevaluate"}
      BY <1>3 DEF DirectResult
    <2>2. PICK ps \in DirectOutcomes :
            \/ pc' = "idle"
            \/ RestoreEngine(LeaveDirectMode(Probed(m, ps), op.seen))
      BY <1>3 DEF DirectResult, Finish
    <2>3. CASE pc' = "idle"
      BY <1>2, <2>1, <2>3 DEF Returns, DirectLabels, Shape
    <2>4. CASE RestoreEngine(LeaveDirectMode(Probed(m, ps), op.seen))
      <3>1. LeaveDirectMode(Probed(m, ps), op.seen) \in Memory
        BY <1>1
      <3>2. m'.probes = NoProbes /\ ~m'.pending /\ pc' = "startBest"
        BY <2>4, <3>1, AfreshFields DEF RestoreEngine, Goto
      <3> QED  BY <1>2, <2>1, <3>2 DEF StartsOver, DirectLabels, Shape
    <2> QED  BY <2>2, <2>3, <2>4
  <1>4. CASE StartProbed
    <2>1. pc = "startProbe"
      BY <1>4 DEF StartProbed
    <2>2. PICK ps \in DirectOutcomes :
            \/ pc' = "idle"
            \/ /\ ~CanUseDirectMode(op.seen, ps, FALSE)
               /\ m' = LeaveDirectMode(Probed(m, ps), op.seen)
               /\ pc' = "startBest"
      BY <1>4 DEF StartProbed, Finish, Goto
    <2>3. CASE pc' = "idle"
      BY <1>2, <2>1, <2>3 DEF Returns, DirectLabels, Shape
    <2>4. CASE /\ ~CanUseDirectMode(op.seen, ps, FALSE)
               /\ m' = LeaveDirectMode(Probed(m, ps), op.seen)
               /\ pc' = "startBest"
      <3>1. m'.probes = ps
        BY <1>1, <2>4 DEF Same
      <3> QED
        BY <1>2, <2>1, <2>4, <3>1 DEF CanUseDirectMode, StartsUnhealthy, Shape
    <2> QED  BY <2>2, <2>3, <2>4
  <1>5. CASE Refresh
    <2>1. pc = "refresh" /\ m' = m
          /\ \/ Running /\ pc' = "engineProbe"
             \/ ~Running /\ pc' \in {"directProbe", "idle"}
      BY <1>5 DEF Refresh, Goto, Finish
    <2> QED  BY <1>2, <2>1 DEF GoesOn, Returns, Same, DirectLabels, Shape
  <1>6. CASE DirectProbed
    BY <1>2, <1>6 DEF DirectProbed, Finish, Returns, DirectLabels, Shape
  <1>7. CASE EngineProbed
    <2>1. PICK ps \in EngineOutcomes : m' = Probed(m, ps)
      BY <1>7 DEF EngineProbed
    <2>2. m'.pending = m.pending /\ m'.qfails = m.qfails
      BY <1>1, <2>1
    <2> QED  BY <1>2, <1>7, <2>2 DEF EngineProbed, Goto, Checks, Shape
  <1>8. CASE RecoverProbed
    <2>1. pc = "recoverEngine"
      BY <1>8 DEF RecoverProbed
    <2>2. PICK ps \in EngineOutcomes :
            LET left == LeaveDirectMode(Probed(m, ps), op.seen) IN
            \/ ~Running /\ pc' = "idle"
            \/ m' = left /\ pc' = "apply"
            \/ RestoreEngine(left)
      BY <1>8 DEF RecoverProbed, Finish, Goto, CanUseDirectMode
    <2> DEFINE left == LeaveDirectMode(Probed(m, ps), op.seen)
    <2>3. /\ left \in Memory
          /\ left.pending = m.pending /\ left.qfails = m.qfails
      BY <1>1 DEF Same
    <2> HIDE DEF left
    <2>4. CASE ~Running /\ pc' = "idle"
      BY <1>2, <2>4 DEF Returns, Shape
    <2>5. CASE m' = left /\ pc' = "apply"
      BY <1>2, <2>1, <2>3, <2>5 DEF Checks, Shape
    <2>6. CASE RestoreEngine(left)
      <3>1. m'.probes = NoProbes /\ ~m'.pending /\ pc' = "startBest"
        BY <2>3, <2>6, AfreshFields DEF RestoreEngine, Goto
      <3> QED  BY <1>2, <2>1, <3>1 DEF StartsOver, Shape
    <2> QED  BY <2>2, <2>4, <2>5, <2>6 DEF left
  <1> QED  BY <1>3, <1>4, <1>5, <1>6, <1>7, <1>8

\* ApplyEngineProbeResultsAsync, and the search a persistent failure starts.
LEMMA ApplyShape ==
  ASSUME TypeInv,
         ApplyReady \/ ApplyPreserved \/ ApplyInconclusive \/ ApplyRotate
           \/ ApplyExhausted \/ ApplyPersistent \/ ApplyStable \/ Persistent
  PROVE  Shape
  <1>0. m \in Memory /\ tunnel \in Tunnels \cup {NoTunnel} /\ op \in Locals
    BY DEF TypeInv, TypeOK
  <1>1. pc = "apply" => engine.profile \in Profiles
    BY Attached DEF TypeInv, Placed
  <1>2. /\ Observed \in Memory /\ Observe \in Memory /\ Inconclusive \in Memory
        /\ pc = "apply" => Disqualified \in Memory
    BY <1>0, <1>1, ObservedTyped, InconclusiveTyped, ObserveTyped,
       DisqualifiedTyped
  <1>3. \A r \in Memory : LET s == ResetSearch(CompleteStartupQualification(r))
                          IN  s \in Memory /\ ~s.pending
    BY <1>0, CompleteTyped, OverFields, ResetSearchTyped, SameFields DEF Same
  <1>4. ASSUME Applying, UNCHANGED <<procs, engine>>, NEW mm, NEW state,
               Finish(mm, state), ~mm.pending
        PROVE  Shape
    BY <1>4, Kept DEF Finish, Applying, Returns, Shape
  <1>5. ASSUME Applying, NEW o \in Locals, NEW l, StopInternal(o, l),
               m.pending => Degraded /\ Inconclusive.qfails >= 2,
               l \in StartLabels => ~AllPassed(m'.probes)
        PROVE  Shape
    <2>1. engine' = NoEngine /\ pc' = "kill" /\ op'.ret = l
      BY <1>5, StopShape
    <2>2. Inconclusive.qfails = Capped(m.qfails, 2)
      BY <1>0, ObservedFields
    <2> QED  BY <1>5, <2>1, <2>2 DEF Stops, Shape
  <1>6. CASE ApplyReady
    <2> DEFINE mm == [Observed EXCEPT !.failures = 0, !.paused = FALSE]
               kept == Remember(mm, engine.profile)
               done == ResetSearch(CompleteStartupQualification(kept))
    <2>1. Applying /\ UNCHANGED <<procs, engine>>
      BY <1>6 DEF ApplyReady, world
    <2>2. mm \in Memory
      BY <1>2, FieldFacts, ZenonT(60) DEF Memory
    <2> HIDE DEF mm
    <2>3. kept \in Memory
      BY <1>0, <1>1, <2>1, <2>2, RememberTyped DEF Applying
    <2> HIDE DEF kept
    <2>4. done \in Memory /\ ~done.pending
      BY <1>3, <2>3
    <2> HIDE DEF done
    <2>5. ~UpdateCompatibility(done, tunnel).pending
      BY <1>0, <2>4, SameFields DEF Same
    <2>6. Finish(UpdateCompatibility(done, tunnel), "ready")
      BY <1>6 DEF ApplyReady, mm, kept, done
    <2> QED  BY <1>4, <2>1, <2>5, <2>6
  <1>7. CASE ApplyPreserved
    <2> DEFINE mm == [Observed EXCEPT !.failures = 0]
               done == ResetSearch(CompleteStartupQualification(mm))
    <2>1. mm \in Memory
      BY <1>2, FieldFacts, ZenonT(60) DEF Memory
    <2> HIDE DEF mm
    <2>2. ~done.pending
      BY <1>3, <2>1
    <2>3. Finish(done, "degraded") /\ Applying /\ UNCHANGED <<procs, engine>>
      BY <1>7 DEF ApplyPreserved, Quiet, world, mm, done
    <2> HIDE DEF done
    <2> QED  BY <1>4, <2>2, <2>3
  <1>8. CASE ApplyInconclusive
    <2>1. /\ Degraded /\ m.pending /\ pc = "apply" /\ pc' = "idle"
          /\ m' \in {Inconclusive, UpdateCompatibility(Inconclusive, tunnel)}
          /\ UNCHANGED <<procs, engine>>
      BY <1>8 DEF ApplyInconclusive, Finish, Degraded, Applying, Quiet, world
    <2>2. m'.qfails = Capped(m.qfails, 2)
      BY <1>0, <1>2, <2>1, ObservedFields, SameFields DEF Same
    <2> QED  BY <2>1, <2>2, Kept DEF Returns, Shape
  <1>9. CASE ApplyRotate
    <2>1. /\ Degraded /\ Applying /\ Inconclusive.qfails >= 2
          /\ m' = Failed(Disqualified, engine.profile)
          /\ StopInternal(op, "startBest")
      BY <1>9 DEF ApplyRotate, Degraded
    <2>2. m'.probes = Observed.probes
      BY <1>0, <1>1, <1>2, <2>1, SameProfile, ObservedFields DEF Same, Applying
    <2> QED  BY <1>0, <1>5, <2>1, <2>2 DEF Degraded
  <1>10. CASE ApplyExhausted
    <2>1. /\ Degraded /\ Applying /\ Inconclusive.qfails >= 2
      BY <1>10 DEF ApplyExhausted, Degraded
    <2>2. PICK best \in Profiles :
            \/ Finish(Exhausted(Disqualified), "degraded") /\ engine' = engine
            \/ StopInternal([op EXCEPT !.cand = best], "restore")
      BY <1>10, BestTyped DEF ApplyExhausted
    <2>3. CASE Finish(Exhausted(Disqualified), "degraded") /\ engine' = engine
      <3> DEFINE held == [Disqualified EXCEPT !.hold = TRUE]
                 over == CompleteStartupQualification(held)
      <3>1. held \in Memory
        BY <1>2, <2>1, FieldFacts, Zenon DEF Memory, Applying
      <3> HIDE DEF held
      <3>2. over \in Memory /\ ~over.pending
        BY <3>1, CompleteTyped, OverFields
      <3> HIDE DEF over
      <3>3. ~UpdateCompatibility(over, tunnel).pending
        BY <1>0, <3>2, SameFields DEF Same
      <3>4. ~Exhausted(Disqualified).pending
        BY <3>3 DEF Exhausted, held, over
      <3> QED  BY <1>4, <1>10, <2>1, <2>3, <3>4 DEF ApplyExhausted, world
    <2>4. CASE StopInternal([op EXCEPT !.cand = best], "restore")
      <3>1. [op EXCEPT !.cand = best] \in Locals
        BY <1>0, Zenon DEF Locals
      <3> QED  BY <1>5, <2>1, <2>4, <3>1 DEF StartLabels
    <2> QED  BY <2>2, <2>3, <2>4
  <1>11. CASE ApplyPersistent
    <2>1. /\ Applying /\ ~m.pending
          /\ StopInternal([op EXCEPT !.cand = engine.profile], "persistent")
      BY <1>11 DEF ApplyPersistent, Degraded
    <2>2. [op EXCEPT !.cand = engine.profile] \in Locals
      BY <1>0, <1>1, <2>1, Zenon DEF Locals, Applying
    <2> QED  BY <1>5, <2>1, <2>2 DEF StartLabels
  <1>12. CASE ApplyStable
    <2>1. /\ Applying /\ ~m.pending /\ UNCHANGED <<procs, engine>>
          /\ \E mm \in {Observe, Observed} : Finish(mm, "degraded")
      BY <1>12 DEF ApplyStable, Degraded, Quiet, world
    <2> QED  BY <1>0, <1>4, <2>1, ObservedFields
  <1>13. CASE Persistent
    <2> DEFINE reset == ResetStartupCycle(m)
               voice == VoiceRequired(reset.voice, m.probes)
               scores == [reset.scores EXCEPT ![op.cand] = Score(m.probes)]
               r == [reset EXCEPT !.voice = voice, !.scores = scores,
                                  !.attempted = {op.cand}]
    <2>1. reset \in Memory /\ reset.probes = NoProbes /\ ~reset.pending
      BY <1>0, ResetCycleTyped, AfreshFields
    <2>2. /\ m' = r /\ pc = "persistent" /\ pc' = "startBest"
          /\ UNCHANGED <<procs, engine>>
      BY <1>13 DEF Persistent, Goto, Quiet, world
    <2> HIDE DEF reset, voice, scores
    <2>3. r.probes = NoProbes /\ ~r.pending
      BY <2>1, Zenon DEF Memory
    <2> QED  BY <2>2, <2>3, Kept DEF StartsOver, Shape
  <1> QED  BY <1>6, <1>7, <1>8, <1>9, <1>10, <1>11, <1>12, <1>13

\* StartBestInternalAsync.
LEMMA StartShape ==
  ASSUME TypeInv,
         StartBestInternal \/ Adopt \/ NotAdopted \/ StopStale
           \/ NextCandidate \/ NoCandidate \/ GaveUp \/ Killed
           \/ StartProfile \/ RestoreBest \/ SaveLease \/ Settled
           \/ ExitedEarly \/ Restored \/ Stopped
  PROVE  Shape
  <1>0. m \in Memory /\ tunnel \in Tunnels \cup {NoTunnel} /\ op \in Locals
    BY DEF TypeInv, TypeOK
  <1>1. ASSUME Defer, Deferrable, UNCHANGED <<procs, engine>> PROVE Shape
    BY <1>1, Kept DEF Defer, Deferrable, CanUseDirectMode, Finish, Returns, Shape
  <1>2. ASSUME NEW mm, NEW state, Finish(mm, state), Same(mm, m),
               UNCHANGED <<procs, engine>>,
               pc \notin {"apply", "engineProbe", "recoverEngine"}
                            \cup DirectLabels \cup LaunchLabel
        PROVE  Shape
    BY <1>2, Kept DEF Finish, Returns, Shape
  <1>3. /\ Same(UpdateCompatibility(m, tunnel), m) /\ Same(m, m)
        /\ UpdateCompatibility(m, tunnel) \in Memory
    BY <1>0, SameFields, UpdateTyped DEF Same
  <1>4. CASE StartBestInternal
    <2>1. pc = "startBest" /\ UNCHANGED <<procs, engine>>
      BY <1>4 DEF StartBestInternal, Quiet, world
    <2>2. CASE Defer /\ Deferrable
      BY <1>1, <2>1, <2>2
    <2>3. CASE \E state : Finish(UpdateCompatibility(m, tunnel), state)
      BY <1>2, <1>3, <2>1, <2>3 DEF DirectLabels, LaunchLabel
    <2>4. CASE m' = UpdateCompatibility(m, tunnel) /\ pc' = "adopt"
      BY <1>3, <2>1, <2>4, Kept DEF GoesOn, Shape
    <2> QED  BY <1>4, <2>2, <2>3, <2>4 DEF StartBestInternal, Goto
  <1>5. CASE Adopt
    <2> DEFINE preferred == [m EXCEPT !.next = lease.profile]
               marked == MarkStartupQualificationPending(preferred)
    <2>1. lease.profile \in Profiles
      BY <1>5, Attached DEF Adopt, TypeInv
    <2>2. preferred \in Memory
      BY <1>0, <2>1, Zenon DEF Memory
    <2>3. m' = UpdateCompatibility(marked, tunnel)
      BY <1>5 DEF Adopt
    <2> HIDE DEF preferred
    <2>4. marked \in Memory /\ marked.pending /\ marked.qfails = 0
      BY <2>2, MarkTyped, MarkFields
    <2> HIDE DEF marked
    <2>5. m'.pending /\ m'.qfails = 0
      BY <1>0, <2>3, <2>4, SameFields DEF Same
    <2> QED  BY <1>5, <2>5 DEF Adopt, Adopts, Shape
  <1>6. CASE NotAdopted
    <2>1. m' \in {m, [m EXCEPT !.next = MovePast(lease.profile)]}
      BY <1>6 DEF NotAdopted
    <2>2. Same([m EXCEPT !.next = MovePast(lease.profile)], m)
      BY <1>0, Zenon DEF Same, Memory
    <2>3. Same(m', m)
      BY <1>3, <2>1, <2>2
    <2> QED  BY <1>6, <2>3, Kept DEF NotAdopted, Goto, GoesOn, Shape, world
  <1>7. CASE StopStale
    <2>1. Same(m', m)
      BY <1>0, <1>7, SameProfile DEF StopStale
    <2>2. NothingStarts
      BY <1>7 DEF StopStale, NothingStarts, TypeInv, TypeOK
    <2> QED  BY <1>7, <2>1, <2>2 DEF StopStale, Goto, GoesOn, Shape
  <1>8. CASE NextCandidate
    <2>1. op.first \in Profiles
      BY <1>0, Zenon DEF Locals
    <2>2. PICK p \in Profiles :
            \/ Finish(m, "stopped") /\ engine' = engine
            \/ /\ m' = [m EXCEPT !.attempted = m.attempted \cup {p}]
               /\ StopInternal([op EXCEPT !.cand = p], "start")
      BY <1>8, <2>1, UntriedTyped DEF NextCandidate
    <2>3. pc = "candidates"
      BY <1>8 DEF NextCandidate
    <2>4. CASE Finish(m, "stopped") /\ engine' = engine
      BY <1>2, <1>3, <1>8, <2>3, <2>4
      DEF NextCandidate, DirectLabels, LaunchLabel, world
    <2>5. CASE /\ m' = [m EXCEPT !.attempted = m.attempted \cup {p}]
               /\ StopInternal([op EXCEPT !.cand = p], "start")
      <3> DEFINE tried == m.attempted \cup {p}
      <3> HIDE DEF tried
      <3>1. [m EXCEPT !.attempted = tried].probes = m.probes
        BY <1>0, Zenon DEF Memory
      <3>2. m'.probes = m.probes
        BY <2>5, <3>1 DEF tried
      <3>3. [op EXCEPT !.cand = p] \in Locals
        BY <1>0, Zenon DEF Locals
      <3>4. engine' = NoEngine /\ pc' = "kill"
        BY <2>5, <3>3, StopShape
      <3> QED  BY <2>3, <3>2, <3>4 DEF Stops, Shape
    <2> QED  BY <2>2, <2>4, <2>5
  <1>9. CASE NoCandidate
    <2>1. engine' = NoEngine /\ pc' = "kill" /\ op'.ret = "gaveUp"
      BY <1>0, <1>9, StopShape DEF NoCandidate
    <2> QED  BY <1>9, <2>1 DEF NoCandidate, Stops, StartLabels, Shape
  <1>10. CASE GaveUp \/ Stopped
    <2>1. /\ pc \in {"gaveUp", "stopped"} /\ UNCHANGED <<procs, engine>>
          /\ \/ Finish(UpdateCompatibility(m, tunnel), "degraded")
             \/ Finish(m, "stopped")
      BY <1>10 DEF GaveUp, Stopped, Quiet, world
    <2> QED  BY <1>2, <1>3, <2>1 DEF DirectLabels, LaunchLabel
  <1>11. CASE Killed
    <2>1. NothingStarts
      BY <1>11 DEF Killed, NothingStarts, TypeInv, TypeOK
    <2>2. pc = "kill" /\ pc' = op.ret /\ op.ret \in StopLabels /\ m' = m
      BY <1>11 DEF Killed, Goto, TypeInv, Placed
    <2> QED  BY <1>3, <2>1, <2>2 DEF GoesOn, Shape
  <1>12. CASE StartProfile \/ RestoreBest
    <2>1. CASE Defer /\ Deferrable /\ UNCHANGED <<procs, engine>>
      BY <1>1, <2>1
    <2>2. ASSUME NEW l \in {"settle", "restored"}, Spawn(op.cand, l), m' = m,
                 pc = IF l = "settle" THEN "start" ELSE "restore"
          PROVE  Shape
      <3>1. op'.ret = l /\ pc' = "lease"
        BY <1>0, <2>2, Zenon DEF Spawn, Locals
      <3> QED  BY <1>3, <2>2, <3>1 DEF Launching, StartLabels, Shape
    <2> QED  BY <1>12, <2>1, <2>2 DEF StartProfile, RestoreBest
  <1>13. CASE SaveLease
    <2>1. /\ pc = "lease" /\ pc' = op.ret /\ op.ret \in {"settle", "restored"}
          /\ m' = m /\ UNCHANGED <<procs, engine>>
      BY <1>13 DEF SaveLease, Goto, TypeInv, Placed, world
    <2> QED  BY <1>3, <2>1, Kept DEF GoesOn, Shape
  <1>14. CASE Settled
    <2>1. pc = "settle" /\ UNCHANGED <<procs, engine>>
      BY <1>14 DEF Settled, Quiet, world
    <2>2. CASE Defer /\ Deferrable
      BY <1>1, <2>1, <2>2
    <2> DEFINE preferred == [m EXCEPT !.next = op.cand]
               marked == MarkStartupQualificationPending(preferred)
    <2>3. op.cand \in Profiles
      BY <2>1 DEF TypeInv, Placed, CandidateLabels
    <2>4. preferred \in Memory
      BY <1>0, <2>3, Zenon DEF Memory
    <2>5. CASE Finish(UpdateCompatibility(marked, tunnel), "recovering")
      <3> HIDE DEF preferred
      <3>1. marked \in Memory /\ marked.pending /\ marked.qfails = 0
        BY <2>4, MarkTyped, MarkFields
      <3> HIDE DEF marked
      <3>2. m'.pending /\ m'.qfails = 0 /\ pc' = "idle"
        BY <1>0, <2>5, <3>1, SameFields DEF Same, Finish
      <3> QED  BY <2>1, <3>2, Kept DEF Returns, Shape
    <2> QED  BY <1>14, <2>2, <2>5 DEF Settled
  <1>15. CASE ExitedEarly
    <2>1. /\ pc = "settle" /\ ~Running /\ UNCHANGED <<procs, engine>>
          /\ \/ pc' = "idle"
             \/ m' = Failed(m, op.cand) /\ pc' = "candidates"
      BY <1>15 DEF ExitedEarly, Finish, Goto, world
    <2>2. Same(Failed(m, op.cand), m)
      BY <1>0, SameProfile
    <2> QED  BY <2>1, <2>2, Kept DEF Returns, GoesOn, Shape
  <1>16. CASE Restored
    <2> DEFINE probed == Probed(m, NoProbes)
               held == [probed EXCEPT !.hold = TRUE]
               over == CompleteStartupQualification(held)
    <2>1. probed \in Memory /\ probed.probes = NoProbes
      BY <1>0, NoProbesTyped, ProbedTyped, Zenon DEF Probed, Memory
    <2> HIDE DEF probed
    <2>2. held \in Memory /\ held.probes = NoProbes
      BY <2>1, FieldFacts, Zenon DEF Memory
    <2> HIDE DEF held
    <2>3. over \in Memory /\ ~over.pending /\ over.probes = NoProbes
      BY <2>2, CompleteTyped, OverFields
    <2>4. m' = UpdateCompatibility(over, tunnel)
      BY <1>16 DEF Restored, Finish, Exhausted, held, probed, over
    <2> HIDE DEF over
    <2>5. ~m'.pending /\ m'.probes = NoProbes
      BY <1>0, <2>3, <2>4, SameFields DEF Same
    <2>6. pc = "restored" /\ pc' = "idle" /\ UNCHANGED <<procs, engine>>
      BY <1>16 DEF Restored, Finish, Quiet, world
    <2> QED  BY <2>5, <2>6, Kept DEF Returns, Shape
  <1> QED
    BY <1>4, <1>5, <1>6, <1>7, <1>8, <1>9, <1>10, <1>11, <1>12, <1>13, <1>14,
       <1>15, <1>16

\* Every step of EngineSupervisor has one of the shapes.
LEMMA StepShape == ASSUME TypeInv, [Next]_vars PROVE Shape
  <1>1. CASE UNCHANGED vars
    BY <1>1, Kept DEF vars, Keeps, Same, Shape
  <1>2. CASE Next
    BY <1>2, WorldShape, CallShape, ProbeShape, ApplyShape, StartShape
    DEF Next, GateStep
  <1> QED  BY <1>1, <1>2

-----------------------------------------------------------------------------
(***************************************************************************)
(* No start rests on healthy probes: the way to a launch begins with empty *)
(* probes, with a direct check that failed or with a failed qualification, *)
(* and nothing on it replaces them.                                        *)
(***************************************************************************)
DeferInv ==
  /\ pc \in StartLabels => ~AllPassed(m.probes)
  /\ pc \in {"kill", "lease"} /\ op.ret \in StartLabels => ~AllPassed(m.probes)
  /\ pc = "startProbe" => op.seen # NoTunnel

\* Every shape keeps the probes of a start unhealthy.
LEMMA DeferStep == ASSUME DeferInv, Shape PROVE DeferInv'
  <1>1. CASE Keeps
    BY <1>1 DEF Keeps, Same, DeferInv
  <1>2. CASE GoesOn
    BY <1>2 DEF GoesOn, Same, DeferInv, StartLabels, StopLabels, DirectLabels
  <1>3. CASE Returns \/ Crashes \/ Adopts \/ Checks
    BY <1>3 DEF Returns, Crashes, Adopts, Checks, DeferInv, StartLabels
  <1>4. CASE StartsOver
    BY <1>4, NothingPassed DEF StartsOver, DeferInv, StartLabels
  <1>5. CASE StartsUnhealthy
    BY <1>5 DEF StartsUnhealthy, DeferInv, StartLabels
  <1>6. CASE Stops
    BY <1>6 DEF Stops, DeferInv, StartLabels
  <1>7. CASE Launching
    BY <1>7 DEF Launching, Same, DeferInv, StartLabels
  <1> QED  BY <1>1, <1>2, <1>3, <1>4, <1>5, <1>6, <1>7 DEF Shape

\* The three calls of DeferToActiveTunnelAsync never find a tunnel to defer
\* to: StartBestInternalAsync is only ever reached without healthy probes.
THEOREM StartsWithoutProof == Spec => []NeverDefers
  <1>1. Init => DeferInv
    BY DEF Init, DeferInv, StartLabels
  <1>2. TypeInv /\ DeferInv /\ [Next]_vars => DeferInv'
    BY StepShape, DeferStep
  <1>3. DeferInv => NeverDefers
    BY DEF DeferInv, StartLabels, NeverDefers, Deferrable, CanUseDirectMode
  <1> QED  BY <1>1, <1>2, <1>3, TypeInvariant, PTL DEF Spec
-----------------------------------------------------------------------------
(***************************************************************************)
(* The history.                                                            *)
(***************************************************************************)
\* What the history records, and that it never stands in the way of a step.
HistFields == {"carrier", "bad", "launches", "stop"}
HistInv == DOMAIN hist = HistFields

\* One step of the history, field by field.
LEMMA HistFollows ==
  ASSUME HistInv, [Next /\ NextHist]_<<vars, hist>>
  PROVE  /\ HistInv' /\ [Next]_vars
         /\ "carrier" \in Tracked =>
              hist'.carrier = Carrier \/ (UNCHANGED <<vars, hist>>)
         /\ "bad" \in Tracked =>
              hist'.bad = Bad \/ (UNCHANGED <<vars, hist>>)
         /\ "stop" \in Tracked =>
              hist'.stop = StopProgress \/ (UNCHANGED <<vars, hist>>)
  <1>1. CASE UNCHANGED <<vars, hist>>
    BY <1>1 DEF HistInv
  <1>2. CASE Next /\ NextHist
    BY <1>2 DEF NextHist, HistInv, HistFields
  <1> QED  BY <1>1, <1>2

\* The history starts with its four fields.
LEMMA HistStarts == hist = InitHist => HistInv
  BY DEF InitHist, HistInv, HistFields

\* The history leaves the types of EngineSupervisor as they are.
THEOREM HistTyped == HistSpec => [](TypeInv /\ HistInv)
  <1>1. TypeInv /\ HistInv /\ [Next /\ NextHist]_<<vars, hist>>
          => (TypeInv /\ HistInv)'
    BY HistFollows, TypeStep
  <1> QED  BY <1>1, TypeInit, HistStarts, PTL DEF HistSpec
-----------------------------------------------------------------------------
\* A direct check, and the wait for a killed Engine, run without an Engine.
DownInv == pc \in DirectLabels \cup {"kill"} => ~Running

\* Every shape keeps it so.
LEMMA DownStep == ASSUME TypeInv, DownInv, Shape PROVE DownInv'
  <1>0. NothingStarts => (Running' => Running)
    BY NotRunningKept
  <1>1. CASE Stops \/ Crashes
    BY <1>1 DEF Stops, Crashes, DownInv, Running
  <1>2. CASE GoesOn
    BY <1>0, <1>2 DEF GoesOn, DownInv, DirectLabels, StopLabels
  <1>3. CASE Keeps \/ StartsOver
    BY <1>0, <1>3 DEF Keeps, StartsOver, DownInv, DirectLabels
  <1>4. CASE Returns \/ StartsUnhealthy \/ Checks \/ Launching \/ Adopts
    BY <1>4 DEF Returns, StartsUnhealthy, Checks, Launching, Adopts, DownInv,
                DirectLabels
  <1> QED  BY <1>1, <1>2, <1>3, <1>4 DEF Shape

\* Nor does the Agent start with one.
LEMMA DownInit == Init => DownInv
  BY DEF Init, DownInv, Running

-----------------------------------------------------------------------------
(***************************************************************************)
(* Health is fresh.                                                        *)
(***************************************************************************)
FreshInv ==
  /\ pc \notin LaunchLabel /\ Running /\ ~m.pending /\ AllPassed(m.probes) =>
       hist.carrier = "engine"
  /\ pc = "apply" => hist.carrier = "engine"

\* Steps that attach nothing and measure nothing leave the carrier.
LEMMA CarrierKept ==
  ASSUME engine' = engine,
         pc' = pc \/ pc \notin DirectLabels \cup {"engineProbe", "recoverEngine"}
  PROVE  Carrier = hist.carrier
  BY DEF Carrier, NewEngine, Leaves, DirectLabels

\* Every shape keeps the health of the running Engine fresh.
LEMMA FreshStep ==
  ASSUME TypeInv, DownInv, FreshInv, Shape, hist'.carrier = Carrier
  PROVE  FreshInv'
  <1>0. NothingStarts => (Running' => Running)
    BY NotRunningKept
  <1>1. CASE Keeps
    <2>1. Carrier = hist.carrier
      BY <1>1, CarrierKept DEF Keeps, NothingStarts
    <2> QED  BY <1>0, <1>1, <2>1 DEF Keeps, Same, FreshInv
  <1>2. CASE GoesOn
    <2>1. Carrier = hist.carrier
      BY <1>2, CarrierKept DEF GoesOn, NothingStarts, DirectLabels
    <2> QED
      BY <1>0, <1>2, <2>1
      DEF GoesOn, Same, DownInv, FreshInv, DirectLabels, LaunchLabel, StopLabels
  <1>3. CASE Returns
    <2>1. CASE ~Running \/ pc \in DirectLabels
      BY <1>0, <1>3, <2>1 DEF Returns, DownInv, FreshInv, DirectLabels
    <2>2. CASE pc \notin DirectLabels \cup {"engineProbe", "recoverEngine"}
      <3>1. Carrier = hist.carrier
        BY <1>3, <2>2, CarrierKept DEF Returns, NothingStarts
      <3> QED
        BY <1>0, <1>3, <2>2, <3>1, NothingPassed
        DEF Returns, Same, FreshInv, DirectLabels, LaunchLabel
    <2> QED  BY <1>3, <2>1, <2>2 DEF Returns
  <1>4. CASE StartsOver \/ StartsUnhealthy
    BY <1>0, <1>4, NothingPassed
    DEF StartsOver, StartsUnhealthy, DownInv, FreshInv, DirectLabels
  <1>5. CASE Checks
    <2>1. Carrier = "engine"
      BY <1>5
      DEF Checks, Carrier, NewEngine, Leaves, NothingStarts
    <2> QED  BY <1>5, <2>1 DEF Checks, FreshInv, DirectLabels
  <1>6. CASE Stops \/ Crashes
    BY <1>6 DEF Stops, Crashes, FreshInv, DirectLabels, Running
  <1>7. CASE Launching \/ Adopts
    BY <1>7 DEF Launching, Adopts, FreshInv, DirectLabels, LaunchLabel
  <1> QED  BY <1>1, <1>2, <1>3, <1>4, <1>5, <1>6, <1>7 DEF Shape

\* An idle Agent shows an Engine healthy only on probes that went through
\* this very process, whatever was adopted, restored or checked in between.
THEOREM HealthStaysFresh ==
  ASSUME "carrier" \in Tracked PROVE HistSpec => []HealthIsFresh
  <1>1. Init /\ hist = InitHist => FreshInv
    BY DEF Init, InitMemory, FreshInv, DirectLabels, Running
  <1>2. /\ TypeInv /\ HistInv /\ DownInv /\ FreshInv
        /\ [Next /\ NextHist]_<<vars, hist>>
        => (DownInv /\ FreshInv)'
    <2> SUFFICES ASSUME TypeInv, HistInv, DownInv, FreshInv,
                        [Next /\ NextHist]_<<vars, hist>>
                 PROVE  DownInv' /\ FreshInv'
      OBVIOUS
    <2>1. CASE UNCHANGED <<vars, hist>>
      BY <2>1 DEF vars, DownInv, FreshInv, Running
    <2>2. CASE hist'.carrier = Carrier
      BY <2>2, HistFollows, StepShape, DownStep, FreshStep
    <2> QED  BY <2>1, <2>2, HistFollows
  <1>3. FreshInv => HealthIsFresh
    BY DEF FreshInv, HealthIsFresh, Idle, LaunchLabel
  <1> QED  BY <1>1, <1>2, <1>3, DownInit, HistTyped, PTL DEF HistSpec
-----------------------------------------------------------------------------
(***************************************************************************)
(* Two failures before a switch: the failures counted against a profile    *)
(* that has to qualify were all measured through its present process.      *)
(***************************************************************************)
BadInv ==
  /\ hist.bad \in 0..3
  /\ pc \notin LaunchLabel /\ Running /\ m.pending => m.qfails <= hist.bad
  /\ pc \in {"engineProbe", "recoverEngine", "apply"} /\ m.pending =>
       m.qfails <= hist.bad

\* Outside a check of the Engine its failures stay, or start afresh.
LEMMA BadKept ==
  ASSUME engine' = engine, pc' = pc \/ pc # "apply" PROVE Bad = hist.bad
  BY DEF Bad, NewEngine, Leaves

\* The count of the history stays in its bounds.
LEMMA BadTyped == ASSUME hist.bad \in 0..3 PROVE Bad \in 0..3
  BY DEF Bad, Capped

\* Every shape keeps the failures counted at most those of the process.
LEMMA BadStep ==
  ASSUME TypeInv, DownInv, BadInv, Shape, hist'.bad = Bad PROVE BadInv'
  <1>0. /\ NothingStarts => (Running' => Running)
        /\ hist'.bad \in 0..3 /\ m.qfails \in 0..2
    <2>1. m.qfails \in 0..2
      BY DEF TypeInv, TypeOK, Memory
    <2> QED  BY <2>1, NotRunningKept, BadTyped DEF BadInv
  <1>1. CASE Keeps
    <2>1. Bad = hist.bad
      BY <1>1, BadKept DEF Keeps, NothingStarts
    <2> QED  BY <1>0, <1>1, <2>1 DEF Keeps, Same, BadInv
  <1>2. CASE GoesOn
    <2>1. Bad = hist.bad
      BY <1>2, BadKept DEF GoesOn, NothingStarts
    <2> QED
      BY <1>0, <1>2, <2>1
      DEF GoesOn, Same, DownInv, BadInv, DirectLabels, LaunchLabel, StopLabels
  <1>3. CASE Returns
    <2>1. CASE ~Running
      BY <1>0, <1>3, <2>1 DEF Returns, BadInv
    <2>2. CASE pc \in DirectLabels
      BY <1>0, <1>3, <2>2 DEF Returns, DownInv, BadInv
    <2>3. CASE pc \notin {"apply"} \cup DirectLabels /\ Running
      <3>1. Bad = hist.bad
        BY <1>3, <2>3, BadKept DEF Returns, NothingStarts
      <3> QED
        BY <1>0, <1>3, <2>3, <3>1
        DEF Returns, Same, BadInv, DirectLabels, LaunchLabel
    <2>4. CASE pc = "apply" /\ Running
      <3>1. CASE ~m'.pending
        BY <1>0, <1>3, <3>1 DEF Returns, BadInv
      <3>2. CASE m'.pending
        <4>1. Degraded /\ m.pending /\ m'.qfails = Capped(m.qfails, 2)
          BY <1>3, <2>4, <3>2 DEF Returns, DirectLabels
        <4>2. Bad = Capped(hist.bad, 3)
          BY <1>3, <2>4, <4>1 DEF Returns, NothingStarts, Bad, NewEngine, Leaves
        <4> QED
          BY <1>0, <1>3, <2>4, <4>1, <4>2 DEF Returns, BadInv, Capped
      <3> QED  BY <3>1, <3>2
    <2> QED  BY <2>1, <2>2, <2>3, <2>4
  <1>4. CASE StartsOver \/ Crashes
    BY <1>0, <1>4 DEF StartsOver, Crashes, BadInv
  <1>5. CASE StartsUnhealthy
    BY <1>0, <1>5 DEF StartsUnhealthy, DownInv, BadInv, DirectLabels
  <1>6. CASE Checks
    <2>1. Bad = hist.bad
      BY <1>6, BadKept DEF Checks, NothingStarts
    <2> QED  BY <1>0, <1>6, <2>1 DEF Checks, BadInv
  <1>7. CASE Stops
    BY <1>0, <1>7 DEF Stops, BadInv, Running
  <1>8. CASE Launching
    BY <1>0, <1>8 DEF Launching, BadInv, LaunchLabel
  <1>9. CASE Adopts
    BY <1>0, <1>9 DEF Adopts, BadInv
  <1> QED  BY <1>1, <1>2, <1>3, <1>4, <1>5, <1>6, <1>7, <1>8, <1>9 DEF Shape

\* A profile that has to qualify is replaced only after two failed checks in
\* a row through the present process (ApplyEngineProbeResultsAsync), also when
\* it was adopted after the Agent died or restored after a search.
THEOREM SwitchAfterTwoFailures ==
  ASSUME "bad" \in Tracked PROVE HistSpec => SwitchNeedsTwoFailures
  <1> DEFINE Switch == pc = "apply" /\ pc' = "kill" /\ m.pending => hist'.bad >= 2
  <1>1. Init /\ hist = InitHist => BadInv
    BY DEF Init, InitHist, InitMemory, BadInv, Running
  <1>2. /\ TypeInv /\ HistInv /\ DownInv /\ BadInv
        /\ [Next /\ NextHist]_<<vars, hist>>
        => (DownInv /\ BadInv)' /\ [Switch]_<<vars, hist>>
    <2> SUFFICES ASSUME TypeInv, HistInv, DownInv, BadInv,
                        [Next /\ NextHist]_<<vars, hist>>
                 PROVE  DownInv' /\ BadInv' /\ [Switch]_<<vars, hist>>
      OBVIOUS
    <2>1. CASE UNCHANGED <<vars, hist>>
      BY <2>1 DEF vars, DownInv, BadInv, Running
    <2>2. CASE hist'.bad = Bad
      <3>1. Shape /\ DownInv' /\ BadInv'
        BY <2>2, HistFollows, StepShape, DownStep, BadStep
      <3>2. Switch
        <4> SUFFICES ASSUME pc = "apply", pc' = "kill", m.pending
                     PROVE  hist'.bad >= 2
          OBVIOUS
        <4>1. /\ engine' = NoEngine /\ Degraded /\ Capped(m.qfails, 2) >= 2
          BY <3>1
          DEF Shape, Keeps, GoesOn, Returns, StartsOver, StartsUnhealthy,
              Checks, Stops, Launching, Adopts, Crashes
        <4>2. Bad = Capped(hist.bad, 3)
          BY <4>1 DEF Bad, NewEngine, Leaves
        <4>3. m.qfails \in 0..2 /\ m.qfails <= hist.bad /\ hist.bad \in 0..3
          BY DEF BadInv, TypeInv, TypeOK, Memory
        <4> QED  BY <2>2, <4>1, <4>2, <4>3 DEF Capped
      <3> QED  BY <3>1, <3>2
    <2> QED  BY <2>1, <2>2, HistFollows
  <1> QED
    BY <1>1, <1>2, DownInit, HistTyped, PTL DEF HistSpec, SwitchNeedsTwoFailures

-----------------------------------------------------------------------------
(***************************************************************************)
(* Only a start sets _desiredRunning.                                      *)
(***************************************************************************)
Wish(r, mm) == r.desired = mm.desired

\* None of the methods touches it.
LEMMA WishFields ==
  ASSUME NEW mm \in Memory, NEW t \in Tunnels \cup {NoTunnel}, NEW p
  PROVE  /\ Wish(UpdateCompatibility(mm, t), mm)
         /\ Wish(CompleteStartupQualification(mm), mm)
         /\ Wish(ResetSearch(mm), mm)
         /\ Wish(MarkStartupQualificationPending(mm), mm)
         /\ Wish(Probed(mm, p), mm)
         /\ Wish(Remember(mm, p), mm)
         /\ Wish(Failed(mm, p), mm)
         /\ Wish(LoadPreferred(mm, p), mm)
  <1>1. /\ Wish(UpdateCompatibility(mm, t), mm)
        /\ Wish(CompleteStartupQualification(mm), mm)
        /\ Wish(ResetSearch(mm), mm)
        /\ Wish(MarkStartupQualificationPending(mm), mm)
        /\ Wish(Probed(mm, p), mm)
        /\ Wish(Remember(mm, p), mm)
    BY Zenon DEF UpdateCompatibility, CompleteStartupQualification,
                 ResetSearch, MarkStartupQualificationPending, Probed,
                 Remember, Wish, Memory
  <1>2. Wish(Failed(mm, p), mm)
    BY ForgetTyped, Zenon DEF Failed, Forget, Wish, Memory
  <1>3. Wish(LoadPreferred(mm, p), mm)
    BY DEF LoadPreferred, Wish, Memory
  <1> QED  BY <1>1, <1>2, <1>3

\* Nor do the methods made of them.
LEMMA WishTurns ==
  ASSUME NEW mm \in Memory, NEW t \in Tunnels \cup {NoTunnel}
  PROVE  /\ Wish(LeaveDirectMode(mm, t), mm)
         /\ Wish(EnterDirectMode(mm, t), mm)
         /\ Wish(ResetStartupCycle(mm), mm)
  <1>1. Wish(LeaveDirectMode(mm, t), mm)
    BY LeaveFields DEF Wish
  <1>2. Wish(EnterDirectMode(mm, t), mm)
    <2> DEFINE d == [mm EXCEPT !.direct = TRUE]
    <2>1. d \in Memory /\ Wish(d, mm)
      BY FieldFacts, Zenon DEF Wish, Memory
    <2> HIDE DEF d
    <2>2. /\ CompleteStartupQualification(d) \in Memory
          /\ Wish(CompleteStartupQualification(d), d)
      BY <2>1, CompleteTyped, WishFields
    <2> QED  BY <2>1, <2>2, WishFields DEF EnterDirectMode, Wish, d
  <1>3. Wish(ResetStartupCycle(mm), mm)
    <2> DEFINE s == ResetSearch(CompleteStartupQualification(mm))
    <2>1. s \in Memory /\ Wish(s, mm)
      BY CompleteTyped, ResetSearchTyped, WishFields DEF Wish
    <2> HIDE DEF s
    <2>2. Wish([s EXCEPT !.hold = FALSE, !.probes = NoProbes], s)
      BY <2>1, Zenon DEF Wish, Memory
    <2> QED  BY <2>1, <2>2 DEF ResetStartupCycle, Wish, s
  <1> QED  BY <1>1, <1>2, <1>3

\* The results of a check leave it alone.
LEMMA WishObserved ==
  ASSUME m \in Memory
  PROVE  /\ Wish(Observed, m) /\ Wish(Observe, m) /\ Wish(Inconclusive, m)
         /\ Wish(Disqualified, m)
  <1>1. Observed \in Memory /\ Wish(Observed, m)
    BY ObservedTyped, Zenon DEF Observed, Wish, Memory
  <1>2. Wish(Observe, m) /\ Inconclusive \in Memory /\ Wish(Inconclusive, m)
    BY <1>1, InconclusiveTyped, Zenon DEF Observe, Inconclusive, Wish, Memory
  <1>3. Wish(Disqualified, m)
    BY <1>2, Zenon DEF Disqualified, Wish, Memory
  <1> QED  BY <1>1, <1>2, <1>3

\* The steps of the environment, and the calls other than a start.
LEMMA WishCalls ==
  ASSUME TypeInv,
         EnvStep \/ Recheck \/ Stop \/ Status \/ Reconcile \/ Recover
  PROVE  m'.desired => m.desired
  <1>0. /\ m \in Memory /\ tunnel \in Tunnels \cup {NoTunnel}
        /\ NoTunnel \in Tunnels \cup {NoTunnel}
    BY DEF TypeInv, TypeOK
  <1>1. ASSUME NEW mm \in Memory, NEW t \in Tunnels \cup {NoTunnel}, Wish(mm, m),
               m' \in {mm, UpdateCompatibility(mm, t), LeaveDirectMode(mm, t),
                       EnterDirectMode(mm, t), ResetStartupCycle(mm)}
        PROVE  m'.desired => m.desired
    BY <1>1, WishFields, WishTurns DEF Wish
  <1>2. CASE EnvStep
    <2>1. CASE TunnelChanges \/ EngineExits
      BY <2>1 DEF TunnelChanges, EngineExits, agent
    <2>2. CASE ExitedHandler
      <3> DEFINE f == Failed(m, engine.profile)
                 q == f.paused \/ exit = "driver"
      <3>1. engine.profile \in Profiles
        BY <2>2, Attached DEF ExitedHandler, TypeInv, Placed
      <3>2. f \in Memory /\ Wish(f, m)
        BY <1>0, <3>1, FailedTyped, WishFields
      <3>3. m' = [f EXCEPT !.paused = q]
        BY <2>2 DEF ExitedHandler
      <3> HIDE DEF f, q
      <3>4. Wish([f EXCEPT !.paused = q], f)
        BY <3>2, Zenon DEF Wish, Memory
      <3> QED  BY <3>2, <3>3, <3>4 DEF Wish
    <2>3. CASE TimePasses
      <3>1. Wish(m', m)
        BY <1>0, <2>3, Zenon DEF TimePasses, Wish, Memory
      <3> QED  BY <3>1 DEF Wish
    <2>4. CASE \E c \in Commands : Request(c)
      <3>1. m' = m \/ m' = [m EXCEPT !.desired = FALSE]
        BY <2>4 DEF Request
      <3>2. [m EXCEPT !.desired = FALSE].desired = FALSE
        BY <1>0, Zenon DEF Memory
      <3> QED  BY <3>1, <3>2
    <2> QED  BY <1>2, <2>1, <2>2, <2>3, <2>4 DEF EnvStep
  <1>3. CASE Recheck \/ Status
    BY <1>0, <1>1, <1>3 DEF Recheck, Status, Finish, Wish
  <1>4. CASE Stop
    <2> DEFINE left == LeaveDirectMode(m, NoTunnel)
               mm == [left EXCEPT !.paused = FALSE]
    <2>1. left \in Memory /\ Wish(left, m)
      BY <1>0, LeaveTyped, WishTurns
    <2> HIDE DEF left
    <2>2. mm \in Memory /\ Wish(mm, left)
      BY <2>1, FieldFacts, Zenon DEF Wish, Memory
    <2>3. m' = ResetStartupCycle(mm)
      BY <1>4 DEF Stop, left
    <2> HIDE DEF mm
    <2> QED  BY <1>0, <1>1, <2>1, <2>2, <2>3 DEF Wish
  <1>5. CASE Reconcile \/ Recover
    <2>1. /\ UpdateCompatibility(m, tunnel) \in Memory
          /\ Wish(UpdateCompatibility(m, tunnel), m)
          /\ LeaveDirectMode(m, NoTunnel) \in Memory
          /\ Wish(LeaveDirectMode(m, NoTunnel), m) /\ Wish(m, m)
      BY <1>0, UpdateTyped, LeaveTyped, WishFields, WishTurns DEF Wish
    <2>2. \E mm \in {m, UpdateCompatibility(m, tunnel), LeaveDirectMode(m, NoTunnel)} :
            m' \in {mm, EnterDirectMode(mm, tunnel), ResetStartupCycle(mm)}
      BY <1>5
      DEF Reconcile, ReconcileChanged, ReconcileDue, ReconcileTunnel,
          ReconcileNoTunnel, Recover, RecoverTunnel, RecoverNoTunnel,
          RestoreEngine, Finish
    <2> QED  BY <1>0, <1>1, <2>1, <2>2
  <1> QED  BY <1>2, <1>3, <1>4, <1>5

\* The steps of the operation that holds the gate.
LEMMA WishGate == ASSUME TypeInv, GateStep PROVE m'.desired => m.desired
  <1>0. /\ m \in Memory /\ tunnel \in Tunnels \cup {NoTunnel}
        /\ op.seen \in Tunnels \cup {NoTunnel}
    BY Zenon DEF TypeInv, TypeOK, Locals
  <1>1. pc = "apply" => engine.profile \in Profiles
    BY Attached DEF TypeInv, Placed
  <1>2. ASSUME NEW mm \in Memory, Wish(mm, m), NEW t \in Tunnels \cup {NoTunnel},
               m' \in {mm, UpdateCompatibility(mm, t), LeaveDirectMode(mm, t),
                       EnterDirectMode(mm, t), ResetStartupCycle(mm),
                       ResetStartupCycle(LeaveDirectMode(mm, t))}
        PROVE  m'.desired => m.desired
    <2>1. LeaveDirectMode(mm, t) \in Memory
      BY <1>2, LeaveTyped
    <2>2. Wish(m', mm)
      BY <1>2, <2>1, WishFields, WishTurns DEF Wish
    <2> QED  BY <1>2, <2>2 DEF Wish
  <1>3. /\ Observed \in Memory /\ Observe \in Memory /\ Inconclusive \in Memory
        /\ pc = "apply" => Disqualified \in Memory
        /\ Wish(Observed, m) /\ Wish(Observe, m) /\ Wish(Inconclusive, m)
        /\ Wish(Disqualified, m)
    BY <1>0, <1>1, ObservedTyped, InconclusiveTyped, ObserveTyped,
       DisqualifiedTyped, WishObserved
  <1>4. \A r \in Memory :
          /\ CompleteStartupQualification(r) \in Memory
          /\ Wish(CompleteStartupQualification(r), r)
          /\ LET s == ResetSearch(CompleteStartupQualification(r))
             IN  s \in Memory /\ Wish(s, r)
    BY <1>0, CompleteTyped, ResetSearchTyped, WishFields DEF Wish
  <1>5. Wish(m, m)
    BY DEF Wish
  <1>6. CASE DirectResult \/ StartProbed \/ DirectProbed \/ EngineProbed
               \/ RecoverProbed
    <2>1. PICK ps \in DirectOutcomes \cup EngineOutcomes :
            LET mm == Probed(m, ps) IN
            m' \in {mm, LeaveDirectMode(mm, op.seen),
                    EnterDirectMode(mm, op.seen),
                    ResetStartupCycle(LeaveDirectMode(mm, op.seen))}
      BY <1>6
      DEF DirectResult, StartProbed, DirectProbed, EngineProbed,
          RecoverProbed, RestoreEngine, Finish
    <2>2. Probed(m, ps) \in Memory /\ Wish(Probed(m, ps), m)
      BY <1>0, OutcomeAssumption, ProbedTyped, WishFields
    <2> QED  BY <1>0, <1>2, <2>1, <2>2
  <1>8. CASE ApplyReady
    <2> DEFINE mm == [Observed EXCEPT !.failures = 0, !.paused = FALSE]
               kept == Remember(mm, engine.profile)
               done == ResetSearch(CompleteStartupQualification(kept))
    <2>1. mm \in Memory /\ Wish(mm, m)
      BY <1>3, FieldFacts, ZenonT(60) DEF Wish, Memory
    <2> HIDE DEF mm
    <2>2. kept \in Memory /\ Wish(kept, mm)
      BY <1>0, <1>1, <1>8, <2>1, RememberTyped, WishFields
      DEF ApplyReady, Applying
    <2> HIDE DEF kept
    <2>3. done \in Memory /\ Wish(done, kept)
      BY <1>4, <2>2
    <2>4. m' = UpdateCompatibility(done, tunnel)
      BY <1>8 DEF ApplyReady, Finish, mm, kept, done
    <2> HIDE DEF done
    <2> QED  BY <1>0, <1>2, <2>1, <2>2, <2>3, <2>4 DEF Wish
  <1>9. CASE ApplyPreserved
    <2> DEFINE mm == [Observed EXCEPT !.failures = 0]
    <2>1. mm \in Memory /\ Wish(mm, m)
      BY <1>3, FieldFacts, ZenonT(60) DEF Wish, Memory
    <2> HIDE DEF mm
    <2>2. m' = ResetSearch(CompleteStartupQualification(mm))
      BY <1>9 DEF ApplyPreserved, Finish, mm
    <2> QED  BY <1>4, <2>1, <2>2 DEF Wish
  <1>10. CASE ApplyInconclusive \/ ApplyStable
    <2>1. m' \in {Inconclusive, UpdateCompatibility(Inconclusive, tunnel),
                  Observe, Observed}
      BY <1>10 DEF ApplyInconclusive, ApplyStable, Finish
    <2> QED  BY <1>0, <1>2, <1>3, <2>1
  <1>11. CASE ApplyRotate
    <2>1. m' = Failed(Disqualified, engine.profile) /\ pc = "apply"
      BY <1>11 DEF ApplyRotate, Degraded, Applying
    <2> QED  BY <1>0, <1>3, <2>1, WishFields DEF Wish
  <1>12. CASE ApplyExhausted
    <2>1. m' \in {Disqualified, Exhausted(Disqualified)} /\ pc = "apply"
      BY <1>12 DEF ApplyExhausted, Degraded, Applying, Finish
    <2> DEFINE held == [Disqualified EXCEPT !.hold = TRUE]
               over == CompleteStartupQualification(held)
    <2>2. held \in Memory /\ Wish(held, m)
      <3>1. Disqualified \in Memory /\ Wish(Disqualified, m)
        BY <1>3, <2>1
      <3> QED  BY <3>1, FieldFacts, Zenon DEF Wish, Memory
    <2> HIDE DEF held
    <2>3. over \in Memory /\ Wish(over, m)
      BY <1>4, <2>2 DEF Wish
    <2> HIDE DEF over
    <2>4. Exhausted(Disqualified) = UpdateCompatibility(over, tunnel)
      BY DEF Exhausted, held, over
    <2> QED  BY <1>0, <1>2, <1>3, <2>1, <2>3, <2>4 DEF Wish
  <1>13. CASE ApplyPersistent
    <2> DEFINE mm == [Observe EXCEPT !.failures = 0]
    <2>1. mm \in Memory /\ Wish(mm, m)
      BY <1>3, FieldFacts, ZenonT(60) DEF Wish, Memory
    <2> HIDE DEF mm
    <2>2. m' = Failed(mm, engine.profile)
      BY <1>13 DEF ApplyPersistent, mm
    <2> QED  BY <1>0, <2>1, <2>2, WishFields DEF Wish
  <1>14. CASE Persistent
    <2> DEFINE reset == ResetStartupCycle(m)
               voice == VoiceRequired(reset.voice, m.probes)
               scores == [reset.scores EXCEPT ![op.cand] = Score(m.probes)]
               r == [reset EXCEPT !.voice = voice, !.scores = scores,
                                  !.attempted = {op.cand}]
    <2>1. reset \in Memory /\ Wish(reset, m)
      BY <1>0, ResetCycleTyped, WishTurns
    <2>2. m' = r
      BY <1>14 DEF Persistent
    <2> HIDE DEF reset, voice, scores
    <2>3. Wish(r, reset)
      BY <2>1, Zenon DEF Wish, Memory
    <2> QED  BY <2>1, <2>2, <2>3 DEF Wish
  <1>15. CASE StartBestInternal \/ GaveUp
    <2>1. m' \in {EnterDirectMode(m, tunnel), UpdateCompatibility(m, tunnel)}
      BY <1>15 DEF StartBestInternal, GaveUp, Defer, Finish
    <2> QED  BY <1>0, <1>2, <1>5, <2>1
  <1>16. CASE Adopt
    <2> DEFINE mm == [m EXCEPT !.next = lease.profile]
    <2>1. lease.profile \in Profiles
      BY <1>16, Attached DEF Adopt, TypeInv
    <2>2. mm \in Memory /\ Wish(mm, m)
      BY <1>0, <2>1, Zenon DEF Wish, Memory
    <2>3. m' = UpdateCompatibility(MarkStartupQualificationPending(mm), tunnel)
      BY <1>16 DEF Adopt
    <2> HIDE DEF mm
    <2> QED  BY <1>0, <1>2, <2>2, <2>3, MarkTyped, WishFields DEF Wish
  <1>17. CASE NotAdopted
    <2>1. m' \in {m, [m EXCEPT !.next = MovePast(lease.profile)]}
      BY <1>17 DEF NotAdopted
    <2>2. Wish([m EXCEPT !.next = MovePast(lease.profile)], m)
      BY <1>0, Zenon DEF Wish, Memory
    <2> QED  BY <2>1, <2>2 DEF Wish
  <1>18. CASE StopStale
    BY <1>0, <1>18, WishFields DEF StopStale, Wish
  <1>19. CASE NextCandidate
    <2>1. PICK p : m' = m \/ m' = [m EXCEPT !.attempted = m.attempted \cup {p}]
      BY <1>19 DEF NextCandidate, Finish
    <2> DEFINE tried == m.attempted \cup {p}
    <2> HIDE DEF tried
    <2>2. Wish([m EXCEPT !.attempted = tried], m)
      BY <1>0, Zenon DEF Wish, Memory
    <2> QED  BY <2>1, <2>2 DEF Wish, tried
  <1>20. CASE StartProfile
    <2>1. m' \in {m, EnterDirectMode(m, tunnel)}
      BY <1>20 DEF StartProfile, Defer, Finish
    <2> QED  BY <1>0, <1>2, <1>5, <2>1
  <1>21. CASE Settled
    <2> DEFINE mm == [m EXCEPT !.next = op.cand]
    <2>1. op.cand \in Profiles
      BY <1>21 DEF Settled, TypeInv, Placed, CandidateLabels
    <2>2. mm \in Memory /\ Wish(mm, m)
      BY <1>0, <2>1, Zenon DEF Wish, Memory
    <2>3. m' \in {EnterDirectMode(m, tunnel),
                  UpdateCompatibility(MarkStartupQualificationPending(mm), tunnel)}
      BY <1>21 DEF Settled, Defer, Finish
    <2> HIDE DEF mm
    <2>4. /\ MarkStartupQualificationPending(mm) \in Memory
          /\ Wish(MarkStartupQualificationPending(mm), m)
      BY <1>0, <2>2, MarkTyped, WishFields DEF Wish
    <2> QED  BY <1>0, <1>2, <1>5, <2>3, <2>4
  <1>22. CASE ExitedEarly
    <2>1. op.cand \in Profiles
      BY <1>22 DEF ExitedEarly, TypeInv, Placed, CandidateLabels
    <2>2. Failed(m, op.cand) \in Memory /\ Wish(Failed(m, op.cand), m)
      BY <1>0, <2>1, FailedTyped, WishFields
    <2>3. m' \in {Failed(m, op.cand),
                 UpdateCompatibility(Failed(m, op.cand), tunnel)}
      BY <1>22 DEF ExitedEarly, Finish
    <2> QED  BY <1>0, <1>2, <2>2, <2>3
  <1>23. CASE Restored
    <2> DEFINE probed == Probed(m, NoProbes)
               held == [probed EXCEPT !.hold = TRUE]
               over == CompleteStartupQualification(held)
    <2>1. probed \in Memory /\ Wish(probed, m)
      BY <1>0, NoProbesTyped, ProbedTyped, WishFields
    <2> HIDE DEF probed
    <2>2. held \in Memory /\ Wish(held, probed)
      BY <2>1, FieldFacts, Zenon DEF Wish, Memory
    <2>3. m' = UpdateCompatibility(over, tunnel)
      BY <1>23 DEF Restored, Finish, Exhausted, held, probed, over
    <2> HIDE DEF held
    <2>4. over \in Memory /\ Wish(over, held)
      BY <1>4, <2>2
    <2> HIDE DEF over
    <2> QED  BY <1>0, <1>2, <2>1, <2>2, <2>3, <2>4 DEF Wish
  <1>24. CASE \/ Stopped \/ Refresh \/ NoCandidate \/ Killed \/ RestoreBest
              \/ SaveLease
    BY <1>24 DEF Stopped, Refresh, NoCandidate, Killed, RestoreBest, SaveLease,
                 Finish
  <1> QED
    BY <1>6, <1>8, <1>9, <1>10, <1>11, <1>12, <1>13, <1>14, <1>15, <1>16,
       <1>17, <1>18, <1>19, <1>20, <1>21, <1>22, <1>23, <1>24 DEF GateStep

-----------------------------------------------------------------------------
(***************************************************************************)
(* The inductive invariant: a stop that is asked for is wished for until   *)
(* it returns; when it does nothing is attached, and from then on no       *)
(* operation gets as far as a launch.                                      *)
(***************************************************************************)
\* Where an operation can be while nothing is wanted and nothing runs.
CalmLabels ==
  {"idle", "refresh", "recheckProbe", "recoverDirect", "directProbe", "kill",
   "stopped", "startBest"}

Asked == hist.stop \in {"asked", "done"} => ~m.desired /\ "start" \notin waiting
Detached == pc \in {"kill", "stopped"} => engine = NoEngine
Calm ==
  hist.stop = "done" =>
    /\ Live = {} /\ pc \in CalmLabels
    /\ pc = "kill" => op.ret = "stopped"

StopInv == Asked /\ Detached /\ Calm

\* Without faults a step is one of these.
LEMMA FaultFree ==
  ASSUME Faults = {}, [Next]_vars
  PROVE  \/ UNCHANGED vars \/ StartBest \/ Recheck \/ Stop \/ Status
         \/ Reconcile \/ Recover \/ GateStep \/ EnvStep
  BY DEF Next, FaultStep, KillTimesOut, VerifyFails, LaunchFails,
         SaveLeaseFails, AgentCrash, Fails

\* A start takes its request, and nothing else wishes for a connection.
LEMMA WishStep ==
  ASSUME Faults = {}, TypeInv, [Next]_vars
  PROVE  (m'.desired => m.desired) \/ (StartBest /\ "start" \in waiting)
  <1>1. CASE UNCHANGED vars
    BY <1>1 DEF vars
  <1>2. CASE StartBest
    BY <1>2 DEF StartBest, Taken
  <1> QED  BY <1>1, <1>2, FaultFree, WishCalls, WishGate

\* Requests come one by one, and only a call takes one.
LEMMA RequestStep ==
  ASSUME Faults = {}, [Next]_vars
  PROVE  /\ \/ waiting' \subseteq waiting
            \/ \E c \in Commands : Request(c)
         /\ "start" \in waiting' /\ "start" \notin waiting =>
              waiting' = waiting \cup {"start"}
  <1>1. waiting' \subseteq waiting \/ \E c \in Commands : Request(c)
    <2>1. CASE UNCHANGED vars
      BY <2>1 DEF vars
    <2>2. CASE StartBest \/ Recheck \/ Stop \/ Status
      BY <2>2 DEF StartBest, Recheck, Stop, Status, Taken
    <2>3. CASE Reconcile \/ Recover
      BY <2>3
      DEF Reconcile, ReconcileChanged, ReconcileDue, ReconcileTunnel,
          ReconcileNoTunnel, Recover, RecoverTunnel, RecoverNoTunnel, Quiet
    <2>4. CASE GateStep
      BY <2>4
      DEF GateStep, Stopped, StartProbed, DirectResult, Refresh, DirectProbed,
          EngineProbed, RecoverProbed, ApplyReady, ApplyPreserved,
          ApplyInconclusive, ApplyRotate, ApplyExhausted, ApplyPersistent,
          ApplyStable, Persistent, StartBestInternal, Adopt, NotAdopted,
          StopStale, NextCandidate, NoCandidate, GaveUp, Killed, StartProfile,
          RestoreBest, SaveLease, Settled, ExitedEarly, Restored, Quiet
    <2>5. CASE EnvStep
      BY <2>5
      DEF EnvStep, TunnelChanges, EngineExits, ExitedHandler, TimePasses,
          Quiet, agent
    <2> QED  BY <2>1, <2>2, <2>3, <2>4, <2>5, FaultFree
  <1> QED  BY <1>1 DEF Request

\* What is asked for stays so until a start is requested.
LEMMA AskedStep ==
  ASSUME Faults = {}, TypeInv, Asked, [Next]_vars, hist'.stop = StopProgress
  PROVE  Asked'
  <1> SUFFICES ASSUME hist'.stop \in {"asked", "done"}
               PROVE  ~m'.desired /\ "start" \notin waiting'
    BY DEF Asked
  <1>0. ~(waiting' \subseteq waiting) => pc' = pc
    BY RequestStep DEF Request
  <1>1. CASE waiting' = waiting \cup {"start"} /\ waiting' # waiting
    <2>1. ~Leaves({"stopped"}) /\ ~("stop" \in waiting \ waiting')
          /\ ~(waiting' = waiting \cup {"stop"})
      BY <1>0, <1>1 DEF Leaves
    <2> QED  BY <1>1, <2>1 DEF StopProgress
  <1>2. CASE waiting' = waiting \cup {"stop"} /\ waiting' # waiting
    <2>0. ~Leaves({"stopped"}) /\ ~("stop" \in waiting \ waiting')
          /\ ~(waiting' = waiting \cup {"start"})
      BY <1>0, <1>2 DEF Leaves
    <2>1. hist'.stop = IF "start" \in waiting THEN "raced" ELSE "asked"
      BY <1>2, <2>0 DEF StopProgress
    <2>2. "start" \notin waiting'
      BY <1>2, <2>1
    <2>3. PICK c \in Commands : Request(c)
      BY <1>2, RequestStep
    <2>4. c = "stop"
      BY <1>2, <2>3 DEF Request
    <2>5. [m EXCEPT !.desired = FALSE].desired = FALSE
      BY Zenon DEF TypeInv, TypeOK, Memory
    <2> QED  BY <2>2, <2>3, <2>4, <2>5 DEF Request
  <1>3. CASE /\ ~(waiting' = waiting \cup {"start"} /\ waiting' # waiting)
             /\ ~(waiting' = waiting \cup {"stop"} /\ waiting' # waiting)
    <2>1. hist.stop \in {"asked", "done"}
      BY <1>3 DEF StopProgress
    <2>2. ~m.desired /\ "start" \notin waiting
      BY <2>1 DEF Asked
    <2> QED  BY <1>3, <2>2, WishStep, RequestStep
  <1> QED  BY <1>1, <1>2, <1>3

\* Nothing is attached while a killed Engine is waited for or a stop ends.
LEMMA DetachedStep ==
  ASSUME Faults = {}, TypeInv, Detached, [Next]_vars PROVE Detached'
  <1>0. pc' = "stopped" => pc' = pc \/ Killed
    <2> SUFFICES ASSUME pc' = "stopped", pc' # pc PROVE Killed
      OBVIOUS
    <2>1. ~UNCHANGED vars /\ ~EnvStep
      BY DEF vars, EnvStep, TunnelChanges, EngineExits, ExitedHandler,
             TimePasses, Request, agent
    <2>2. ~(StartBest \/ Recheck \/ Stop \/ Status \/ Reconcile \/ Recover)
      BY DEF StartBest, Recheck, Stop, Status, Reconcile, ReconcileChanged,
             ReconcileDue, ReconcileTunnel, ReconcileNoTunnel, Recover,
             RecoverTunnel, RecoverNoTunnel, RestoreEngine, StopInternal,
             Finish, Goto
    <2>3. ~(DirectResult \/ StartProbed \/ Refresh \/ DirectProbed
              \/ EngineProbed \/ RecoverProbed)
      BY DEF DirectResult, StartProbed, Refresh, DirectProbed, EngineProbed,
             RecoverProbed, RestoreEngine, Finish, Goto
    <2>4. ~(ApplyReady \/ ApplyPreserved \/ ApplyInconclusive \/ ApplyRotate
              \/ ApplyExhausted \/ ApplyPersistent \/ ApplyStable \/ Persistent)
      BY DEF ApplyReady, ApplyPreserved, ApplyInconclusive, ApplyRotate,
             ApplyExhausted, ApplyPersistent, ApplyStable, Persistent,
             StopInternal, Finish, Goto
    <2>5. ~(StartBestInternal \/ Adopt \/ NotAdopted \/ StopStale
              \/ NextCandidate \/ NoCandidate \/ GaveUp \/ StartProfile
              \/ RestoreBest \/ Settled \/ ExitedEarly \/ Restored \/ Stopped)
      BY DEF StartBestInternal, Adopt, NotAdopted, StopStale, NextCandidate,
             NoCandidate, GaveUp, StartProfile, RestoreBest, Settled,
             ExitedEarly, Restored, Stopped, Defer, Spawn, StopInternal,
             Finish, Goto
    <2>6. ~SaveLease
      BY DEF SaveLease, Goto, TypeInv, Placed
    <2> QED  BY <2>1, <2>2, <2>3, <2>4, <2>5, <2>6, FaultFree DEF GateStep
  <1>1. Shape
    BY StepShape
  <1>2. pc' = "kill" => pc' = pc \/ engine' = NoEngine
    BY <1>1
    DEF Shape, Keeps, GoesOn, Returns, StartsOver, StartsUnhealthy, Checks,
        Stops, Launching, Adopts, Crashes, DirectLabels, StopLabels, TypeInv,
        Placed
  <1>3. pc \in {"kill", "stopped"} /\ pc' = pc => engine' \in {engine, NoEngine}
    BY <1>1
    DEF Shape, Keeps, GoesOn, Returns, StartsOver, StartsUnhealthy, Checks,
        Stops, Launching, Adopts, Crashes, NothingStarts
  <1>4. Killed => engine' = engine /\ pc = "kill"
    BY DEF Killed
  <1> QED  BY <1>0, <1>2, <1>3, <1>4 DEF Detached

\* The operations that go on while nothing runs and nothing is wanted.
LEMMA CalmGate ==
  ASSUME GateStep, pc \in CalmLabels
  PROVE  Stopped \/ DirectResult \/ Refresh \/ DirectProbed \/ StartBestInternal
           \/ Killed
  BY DEF CalmLabels, GateStep, StartProbed, EngineProbed, RecoverProbed,
         ApplyReady, ApplyPreserved, ApplyInconclusive, ApplyRotate,
         ApplyExhausted, ApplyPersistent, ApplyStable, Degraded, Applying,
         Persistent, Adopt, NotAdopted, StopStale, NextCandidate, NoCandidate,
         GaveUp, StartProfile, RestoreBest, SaveLease, Settled, ExitedEarly,
         Restored

\* Nothing comes back after a stop.
LEMMA CalmStays ==
  ASSUME Faults = {}, TypeInv, [Next]_vars,
         ~m.desired, "start" \notin waiting, Live = {}, pc \in CalmLabels,
         pc = "kill" => op.ret = "stopped"
  PROVE  /\ Live' = {} /\ pc' \in CalmLabels
         /\ pc' = "kill" => op'.ret = "stopped"
  <1>0. ~Running /\ op \in Locals
    <2>1. op \in Locals
      BY DEF TypeInv, TypeOK
    <2> QED  BY <2>1, Attached DEF Running, Live, TypeInv
  <1>1. CASE UNCHANGED vars
    BY <1>1, LiveKept DEF vars
  <1>2. CASE EnvStep
    <2>1. CASE EngineExits
      BY <2>1 DEF EngineExits, Live
    <2>2. CASE TunnelChanges \/ ExitedHandler \/ TimePasses
                 \/ \E c \in Commands : Request(c)
      BY <2>2, LiveKept
      DEF TunnelChanges, ExitedHandler, TimePasses, Request, Quiet, world, agent
    <2> QED  BY <1>2, <2>1, <2>2 DEF EnvStep
  <1>3. CASE StartBest
    BY <1>3 DEF StartBest, Taken
  <1>4. CASE Recheck \/ Status
    BY <1>4, LiveKept DEF Recheck, Status, Goto, Finish, CalmLabels, world
  <1>5. CASE Stop
    <2>1. pc' = "kill" /\ op'.ret = "stopped"
      BY <1>0, <1>5, StopShape DEF Stop
    <2> QED  BY <1>5, <2>1, LiveKept DEF Stop, CalmLabels, world
  <1>6. CASE Reconcile
    <2>1. pc' = "idle" /\ UNCHANGED procs
      BY <1>0, <1>6
      DEF Reconcile, ReconcileChanged, TunnelChanged, ReconcileDue,
          QualificationMayBeDue, ReconcileTunnel, ReconcileNoTunnel, Finish,
          Quiet, world
    <2> QED  BY <2>1, LiveKept DEF CalmLabels
  <1>7. CASE Recover
    <2>1. pc' \in {"idle", "recoverDirect", "startBest"} /\ UNCHANGED procs
      BY <1>0, <1>7
      DEF Recover, RecoverTunnel, RecoverNoTunnel, RestoreEngine, Finish, Goto,
          Quiet, world
    <2> QED  BY <2>1, LiveKept DEF CalmLabels
  <1>8. CASE Stopped \/ DirectResult \/ Refresh \/ DirectProbed
               \/ StartBestInternal
    <2>1. pc' \in {"idle", "directProbe"} /\ UNCHANGED procs
      BY <1>0, <1>8
      DEF Stopped, DirectResult, Refresh, DirectProbed, StartBestInternal,
          RestoreEngine, Finish, Goto, Quiet, world
    <2> QED  BY <2>1, LiveKept DEF CalmLabels
  <1>9. CASE Killed
    <2>1. pc' = "stopped"
      BY <1>9 DEF Killed, Goto
    <2>2. Live' = {}
      BY <1>9 DEF Killed, Live
    <2> QED  BY <2>1, <2>2 DEF CalmLabels
  <1> QED
    BY <1>1, <1>2, <1>3, <1>4, <1>5, <1>6, <1>7, <1>8, <1>9, FaultFree, CalmGate

\* A stop that returns leaves no Engine.
LEMMA StopReturns ==
  ASSUME Faults = {}, TypeInv, OwnedInv, Detached, [Next]_vars,
         pc = "stopped", pc' # pc
  PROVE  Live' = {} /\ pc' = "idle"
  <1>1. ~EnvStep /\ ~UNCHANGED vars
    BY DEF EnvStep, TunnelChanges, EngineExits, ExitedHandler, TimePasses,
           Request, Quiet, agent, vars
  <1>2. ~(StartBest \/ Recheck \/ Stop \/ Status \/ Reconcile \/ Recover)
    BY DEF StartBest, Recheck, Stop, Status, Taken, Reconcile,
           ReconcileChanged, ReconcileDue, ReconcileTunnel, ReconcileNoTunnel,
           Recover, RecoverTunnel, RecoverNoTunnel, Idle
  <1>3. GateStep
    BY <1>1, <1>2, FaultFree
  <1>4. Stopped
    BY <1>3, CalmGate
    DEF CalmLabels, DirectResult, Refresh, DirectProbed, StartBestInternal, Killed
  <1>5. Live = {}
    <2>1. Live \subseteq {NoPid}
      BY DEF OwnedInv, Detached, NoEngine
    <2> QED  BY <2>1, PidAssumption DEF Live
  <1> QED  BY <1>4, <1>5, LiveKept DEF Stopped, Finish, Quiet, world

\* Every step keeps the calm after a stop.
LEMMA CalmStep ==
  ASSUME Faults = {}, TypeInv, OwnedInv, StopInv, [Next]_vars,
         hist'.stop = StopProgress
  PROVE  Calm'
  <1> SUFFICES ASSUME hist'.stop = "done"
               PROVE  /\ Live' = {} /\ pc' \in CalmLabels
                      /\ pc' = "kill" => op'.ret = "stopped"
    BY DEF Calm
  <1>1. CASE hist.stop = "done"
    BY <1>1, CalmStays DEF StopInv, Asked, Calm
  <1>2. CASE hist.stop # "done"
    <2>1. pc = "stopped" /\ pc' # pc
      BY <1>2 DEF StopProgress, Leaves
    <2> QED  BY <2>1, StopReturns DEF StopInv, CalmLabels
  <1> QED  BY <1>1, <1>2

\* A stop no start was queued before is final (StopAsync): when it has
\* returned no Engine exists, and neither loop, no late check and no command
\* but a start brings one back.
THEOREM StopIsKept ==
  ASSUME Faults = {}, "stop" \in Tracked PROVE HistSpec => []StopSticks
  <1>1. Init /\ hist = InitHist => StopInv
    BY DEF Init, InitHist, StopInv, Asked, Detached, Calm
  <1>2. /\ TypeInv /\ HistInv /\ OneInv /\ OwnedInv /\ StopInv
        /\ [Next /\ NextHist]_<<vars, hist>>
        => (OneInv /\ OwnedInv /\ StopInv)'
    <2> SUFFICES ASSUME TypeInv, HistInv, OneInv, OwnedInv, StopInv,
                        [Next /\ NextHist]_<<vars, hist>>
                 PROVE  OneInv' /\ OwnedInv' /\ StopInv'
      OBVIOUS
    <2>1. [Next]_vars /\ OneInv' /\ OwnedInv'
      BY HistFollows, OneStep, OwnedStep
    <2>2. CASE UNCHANGED <<vars, hist>>
      BY <2>1, <2>2, LiveKept DEF vars, StopInv, Asked, Detached, Calm
    <2>3. CASE hist'.stop = StopProgress
      BY <2>1, <2>3, AskedStep, DetachedStep, CalmStep DEF StopInv
    <2> QED  BY <2>1, <2>2, <2>3, HistFollows
  <1>3. StopInv => StopSticks
    BY DEF StopInv, Asked, Calm, StopSticks
  <1> QED
    BY <1>1, <1>2, <1>3, OneInit, OwnedInit, HistTyped, PTL DEF HistSpec
=============================================================================
