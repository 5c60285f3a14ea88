---------------------------- MODULE SupervisorTypes ----------------------------
(***************************************************************************)
(* Type correctness of EngineSupervisor, for every value of the constants. *)
(***************************************************************************)
EXTENDS SupervisorProperties, TLAPS

-----------------------------------------------------------------------------
(***************************************************************************)
(* The pure operators of the policies.                                     *)
(***************************************************************************)
\* MovePast stays in the catalogue, also past its last profile.
LEMMA MovePastTyped == ASSUME NEW p \in Profiles PROVE MovePast(p) \in Profiles
  BY ProfileAssumption DEF MovePast, Profiles

\* The order of the candidates stays in the catalogue.
LEMMA UntriedTyped ==
  ASSUME NEW first \in Profiles, NEW attempted
  PROVE  Untried(first, attempted) \subseteq Profiles
  BY ProfileAssumption DEF Untried, Order, Profiles

\* The best profile of a search is one of the catalogue.
LEMMA BestTyped ==
  ASSUME NEW scores, NEW current
  PROVE  Best(scores, current) \subseteq Profiles
  BY DEF Best

\* A score is an integer.
LEMMA ScoreTyped == ASSUME NEW ps PROVE Score(ps) \in Int
  BY DEF Score, Weight

\* The empty probe list is a probe list.
LEMMA NoProbesTyped == NoProbes \in ProbeLists
  <1>1. NoProbes \in [{} -> BOOLEAN]
    BY DEF NoProbes
  <1>2. {} \in SUBSET ProbeNames
    OBVIOUS
  <1> QED  BY <1>1, <1>2 DEF ProbeLists

\* Whether a voice session is wanted is a Boolean.
LEMMA VoiceTyped ==
  ASSUME NEW required \in BOOLEAN, NEW ps
  PROVE  VoiceRequired(required, ps) \in BOOLEAN
  BY DEF VoiceRequired

\* The voice requirement adds at most one probe.
LEMMA IncludeTyped ==
  ASSUME NEW required, NEW ps \in ProbeLists
  PROVE  IncludeVoiceRequirement(required, ps) \in ProbeLists
  <1> DEFINE S == DOMAIN ps \cup {"discord-voice"}
  <1>1. PICK T \in SUBSET ProbeNames : ps \in [T -> BOOLEAN]
    BY DEF ProbeLists
  <1>2. S \in SUBSET ProbeNames
    BY <1>1 DEF ProbeNames
  <1>3. \A n \in S : Passed(ps, n) \in BOOLEAN
    BY <1>1 DEF Passed
  <1>4. [n \in S |-> Passed(ps, n)] \in [S -> BOOLEAN]
    BY <1>3
  <1>5. [n \in S |-> Passed(ps, n)] \in ProbeLists
    BY <1>2, <1>4 DEF ProbeLists
  <1> QED  BY <1>5 DEF IncludeVoiceRequirement
-----------------------------------------------------------------------------
(***************************************************************************)
(* The methods that change the memory keep its type.                       *)
(***************************************************************************)
\* The values the methods assign.
LEMMA FieldFacts ==
  /\ TRUE \in BOOLEAN /\ FALSE \in BOOLEAN
  /\ 0 \in 0..2 /\ 0 \in 0..3
  /\ {} \in SUBSET Profiles /\ 1 \in Profiles
  /\ NoProbes \in ProbeLists
  /\ NoTunnel \in Tunnels \cup {NoTunnel}
  /\ NoProfile \in Profiles \cup {NoProfile}
  /\ NoScores \in [Profiles -> Int]
  BY NoProbesTyped, ProfileAssumption DEF Profiles, NoScores, Unscored

\* The memory of an Agent that has just started is well formed.
LEMMA InitMemoryTyped == InitMemory \in Memory
  BY FieldFacts, Zenon DEF InitMemory, Memory

\* CompleteStartupQualification keeps the memory well formed.
LEMMA CompleteTyped ==
  ASSUME NEW mm \in Memory PROVE CompleteStartupQualification(mm) \in Memory
  BY FieldFacts, Zenon DEF CompleteStartupQualification, Memory

\* ProfileSearch.Reset keeps the memory well formed.
LEMMA ResetSearchTyped ==
  ASSUME NEW mm \in Memory PROVE ResetSearch(mm) \in Memory
  BY FieldFacts, Zenon DEF ResetSearch, Memory

\* ResetStartupCycle keeps the memory well formed.
LEMMA ResetCycleTyped ==
  ASSUME NEW mm \in Memory PROVE ResetStartupCycle(mm) \in Memory
  <1> DEFINE r == ResetSearch(CompleteStartupQualification(mm))
  <1>1. r \in Memory
    BY CompleteTyped, ResetSearchTyped
  <1> HIDE DEF r
  <1>2. [r EXCEPT !.hold = FALSE, !.probes = NoProbes] \in Memory
    BY <1>1, FieldFacts, Zenon DEF Memory
  <1> QED  BY <1>2 DEF ResetStartupCycle, r

\* MarkStartupQualificationPending keeps the memory well formed.
LEMMA MarkTyped ==
  ASSUME NEW mm \in Memory PROVE MarkStartupQualificationPending(mm) \in Memory
  BY FieldFacts, Zenon DEF MarkStartupQualificationPending, Memory

\* UpdateCompatibility keeps the memory well formed.
LEMMA UpdateTyped ==
  ASSUME NEW mm \in Memory, NEW t \in Tunnels \cup {NoTunnel}
  PROVE  UpdateCompatibility(mm, t) \in Memory
  BY FieldFacts, Zenon DEF UpdateCompatibility, Memory

\* Leaving direct mode keeps the memory well formed.
LEMMA LeaveTyped ==
  ASSUME NEW mm \in Memory, NEW t \in Tunnels \cup {NoTunnel}
  PROVE  LeaveDirectMode(mm, t) \in Memory
  <1>1. [mm EXCEPT !.direct = FALSE] \in Memory
    BY FieldFacts, Zenon DEF Memory
  <1> QED  BY <1>1, UpdateTyped DEF LeaveDirectMode

\* Entering direct mode keeps the memory well formed.
LEMMA EnterTyped ==
  ASSUME NEW mm \in Memory, NEW t \in Tunnels \cup {NoTunnel}
  PROVE  EnterDirectMode(mm, t) \in Memory
  <1>1. [mm EXCEPT !.direct = TRUE] \in Memory
    BY FieldFacts, Zenon DEF Memory
  <1> QED  BY <1>1, UpdateTyped, CompleteTyped DEF EnterDirectMode

\* ForgetPreferredProfile keeps memory and file well formed.
LEMMA ForgetTyped ==
  ASSUME NEW mm \in Memory, NEW p
  PROVE  Forget(mm, p) \in Memory
  <1> DEFINE r == IF mm.remembered = p THEN NoProfile ELSE mm.remembered
  <1>1. r \in Profiles \cup {NoProfile}
    BY Zenon DEF Memory
  <1> HIDE DEF r
  <1>2. [mm EXCEPT !.remembered = r] \in Memory
    BY <1>1, Zenon DEF Memory
  <1> QED  BY <1>2 DEF Forget, r

\* Passing over a failed profile keeps the memory well formed.
LEMMA FailedTyped ==
  ASSUME NEW mm \in Memory, NEW p \in Profiles
  PROVE  Failed(mm, p) \in Memory
  <1>1. Forget(mm, p) \in Memory /\ MovePast(p) \in Profiles
    BY ForgetTyped, MovePastTyped
  <1> QED  BY <1>1, Zenon DEF Failed, Memory

\* Storing a list of probe results keeps the memory well formed.
LEMMA ProbedTyped ==
  ASSUME NEW mm \in Memory, NEW ps \in ProbeLists
  PROVE  Probed(mm, ps) \in Memory
  BY Zenon DEF Probed, Memory

\* RememberSuccessfulProfile keeps the memory well formed.
LEMMA RememberTyped ==
  ASSUME NEW mm \in Memory, NEW p \in Profiles,
         tunnel \in Tunnels \cup {NoTunnel}
  PROVE  Remember(mm, p) \in Memory
  BY FieldFacts, Zenon DEF Remember, Memory

\* LoadPreferredProfile keeps the memory well formed.
LEMMA LoadTyped ==
  ASSUME NEW mm \in Memory, NEW p \in Profiles \cup {NoProfile},
         tunnel \in Tunnels \cup {NoTunnel}
  PROVE  LoadPreferred(mm, p) \in Memory
  <1> DEFINE known == [mm EXCEPT !.loaded = TRUE, !.context = tunnel,
                                 !.remembered = p]
  <1>1. known \in Memory
    BY FieldFacts, Zenon DEF Memory
  <1> HIDE DEF known
  <1>2. p # NoProfile => [known EXCEPT !.next = p] \in Memory
    BY <1>1, Zenon DEF Memory
  <1> QED  BY <1>1, <1>2 DEF LoadPreferred, known

\* The end of a profile search keeps the memory well formed.
LEMMA ExhaustedTyped ==
  ASSUME NEW mm \in Memory, tunnel \in Tunnels \cup {NoTunnel}
  PROVE  Exhausted(mm) \in Memory
  <1>1. [mm EXCEPT !.hold = TRUE] \in Memory
    BY FieldFacts, Zenon DEF Memory
  <1> QED  BY <1>1, UpdateTyped, CompleteTyped DEF Exhausted

\* Counting up to a limit.
LEMMA CappedTyped ==
  ASSUME NEW limit \in Nat, NEW n \in 0..limit
  PROVE  Capped(n, limit) \in 0..limit
  BY DEF Capped

\* Looking for a wanted voice session keeps the memory well formed.
LEMMA ObservedTyped == ASSUME m \in Memory PROVE Observed \in Memory
  <1>1. /\ IncludeVoiceRequirement(m.voice, m.probes) \in ProbeLists
        /\ VoiceRequired(m.voice, m.probes) \in BOOLEAN
    BY IncludeTyped, VoiceTyped DEF Memory
  <1> QED  BY <1>1, Zenon DEF Observed, Memory

\* Counting a failed readiness check keeps the memory well formed.
LEMMA InconclusiveTyped == ASSUME m \in Memory PROVE Inconclusive \in Memory
  <1>1. Observed \in Memory
    BY ObservedTyped
  <1>2. Capped(Observed.qfails, 2) \in 0..2
    BY <1>1, CappedTyped DEF Memory
  <1> QED  BY <1>1, <1>2, Zenon DEF Inconclusive, Memory

\* SessionRecoveryPolicy.Observe keeps the memory well formed.
LEMMA ObserveTyped == ASSUME m \in Memory PROVE Observe \in Memory
  <1>1. Observed \in Memory
    BY ObservedTyped
  <1>2. Capped(Observed.failures, 3) \in 0..3
    BY <1>1, CappedTyped DEF Memory
  <1> QED  BY <1>1, <1>2, Zenon DEF Observe, Memory

\* A score is recorded for one profile.
LEMMA ScoresTyped ==
  ASSUME NEW scores \in [Profiles -> Int], NEW p, NEW ps
  PROVE  [scores EXCEPT ![p] = Score(ps)] \in [Profiles -> Int]
  BY ScoreTyped

\* Scoring a profile that failed twice keeps the memory well formed.
LEMMA DisqualifiedTyped ==
  ASSUME m \in Memory, engine.profile \in Profiles
  PROVE  Disqualified \in Memory
  <1> DEFINE r == Inconclusive
             tried == r.attempted \cup {engine.profile}
             scores == [r.scores EXCEPT ![engine.profile] = Score(r.probes)]
  <1>1. r \in Memory
    BY InconclusiveTyped
  <1> HIDE DEF r
  <1>2. r.attempted \in SUBSET Profiles /\ r.scores \in [Profiles -> Int]
    BY <1>1, Zenon DEF Memory
  <1>3. tried \in SUBSET Profiles
    BY <1>2
  <1>4. scores \in [Profiles -> Int]
    BY <1>2, ScoresTyped
  <1> HIDE DEF tried, scores
  <1>5. [r EXCEPT !.attempted = tried, !.scores = scores] \in Memory
    BY <1>1, <1>3, <1>4, Zenon DEF Memory
  <1> QED  BY <1>5 DEF Disqualified, r, tried, scores
-----------------------------------------------------------------------------
(***************************************************************************)
(* TypeOK is not inductive: what is recorded of an Engine is a process     *)
(* with a profile only where the code has just used one.                   *)
(***************************************************************************)
\* The labels a continuation of StopInternalAsync may have.
StopLabels == {"stopped", "reevaluate", "startBest", "restore", "persistent",
               "start", "gaveUp"}

\* The labels at which op.cand is the profile of the attempt.
CandidateLabels == {"start", "restore", "persistent", "lease", "settle"}

\* What TypeOK needs besides itself: the profile used is there.
Placed ==
  /\ pc \in {"engineProbe", "apply"} => engine # NoEngine
  /\ exit # "none" => engine # NoEngine
  /\ pc = "kill" => op.ret \in StopLabels
  /\ pc = "lease" => op.ret \in {"settle", "restored"}
  /\ pc \in CandidateLabels => op.cand \in Profiles
  /\ pc = "kill" /\ op.ret \in CandidateLabels => op.cand \in Profiles

TypeInv == TypeOK /\ Placed

\* An attached process has a profile of the catalogue.
LEMMA Attached ==
  ASSUME TypeOK
  PROVE  /\ engine # NoEngine =>
              engine.pid \in Pids /\ engine.profile \in Profiles
         /\ lease # NoEngine =>
              lease.pid \in Pids /\ lease.profile \in Profiles
  BY DEF TypeOK, Process

\* A snapshot is well formed, whatever it is taken of.
LEMMA SnapshotTyped ==
  ASSUME NEW mm \in Memory, NEW running \in BOOLEAN,
         NEW state \in {"stopped", "ready", "degraded", "recovering"}
  PROVE  CreateSnapshot(mm, running, state) \in Snapshot
  <1>1. mm.pending \in BOOLEAN /\ mm.direct \in BOOLEAN
    BY Zenon DEF Memory
  <1>2. AllPassed(mm.probes) \in BOOLEAN
    BY DEF AllPassed
  <1> QED  BY <1>1, <1>2 DEF CreateSnapshot, Snapshot

\* CurrentState is one of the states of a snapshot.
LEMMA StateTyped ==
  ASSUME NEW mm \in Memory, NEW running \in BOOLEAN
  PROVE  CurrentState(mm, running) \in
           {"stopped", "ready", "degraded", "recovering"}
  <1>1. mm.pending \in BOOLEAN /\ mm.direct \in BOOLEAN
    BY Zenon DEF Memory
  <1> QED  BY <1>1 DEF CurrentState

\* The locals of no operation.
LEMMA NoOpTyped == NoOp \in Locals
  BY ProfileAssumption DEF NoOp, Locals, PCs, Profiles, NoProfile

\* Returning from an operation.
LEMMA FinishTyped ==
  ASSUME NEW mm \in Memory,
         NEW state \in {"stopped", "ready", "degraded", "recovering"},
         Finish(mm, state)
  PROVE  /\ m' \in Memory /\ snap' \in Snapshot
         /\ pc' = "idle" /\ pc' \in PCs /\ op' \in Locals
  BY SnapshotTyped, NoOpTyped DEF Finish, Running, PCs

\* Detaching and stopping the Engine.
LEMMA StopInternalTyped ==
  ASSUME TypeOK, NEW o \in Locals, NEW l \in PCs, StopInternal(o, l)
  PROVE  /\ engine' = NoEngine /\ exit' = "none" /\ lease' \in Process
         /\ engine' \in Process
         /\ pc' = "kill" /\ pc' \in PCs
         /\ op' \in Locals /\ op'.ret = l /\ op'.cand = o.cand
         /\ op'.victim = engine.pid
         /\ snap' \in Snapshot
  <1>1. engine.pid \in Pids \cup {NoPid}
    BY DEF TypeOK, Process, NoEngine
  <1>2. lease' \in Process
    BY DEF StopInternal, LeaseCleared, TypeOK, Process
  <1>3. /\ op' \in Locals
        /\ op'.ret = l /\ op'.cand = o.cand /\ op'.victim = engine.pid
    BY <1>1, Zenon DEF StopInternal, Locals
  <1> QED  BY <1>2, <1>3 DEF StopInternal, PCs, TypeOK, Process

\* The initial states.
LEMMA TypeInit == Init => TypeInv
  BY InitMemoryTyped, NoOpTyped
     DEF Init, TypeInv, TypeOK, Placed, Process, PCs, InitSnap, Snapshot,
         StopLabels, CandidateLabels, Dead

\* Labels at which nothing has to be in place.
PlainLabels ==
  PCs \ ({"kill", "engineProbe", "apply"} \cup CandidateLabels)

\* A step that keeps the processes and goes on at such a label.
LEMMA PlainStep ==
  ASSUME TypeInv, UNCHANGED <<tunnel, procs, engine, exit>>,
         lease' \in Process, pref' \in Profiles \cup {NoProfile},
         waiting' \subseteq Commands, m' \in Memory, op' \in Locals,
         pc' \in PlainLabels, snap' \in Snapshot
  PROVE  TypeInv'
  BY DEF TypeInv, TypeOK, Placed, PlainLabels, CandidateLabels

\* A step that returns.
LEMMA FinishStep ==
  ASSUME TypeInv, UNCHANGED <<tunnel, procs, engine, exit>>,
         lease' \in Process, pref' \in Profiles \cup {NoProfile},
         waiting' \subseteq Commands, NEW mm \in Memory,
         NEW state \in {"stopped", "ready", "degraded", "recovering"},
         Finish(mm, state)
  PROVE  TypeInv'
  BY FinishTyped, PlainStep DEF PlainLabels, CandidateLabels

\* A step that stops the Engine and goes on at l.
LEMMA StopStep ==
  ASSUME TypeInv, UNCHANGED <<tunnel, procs>>,
         pref' \in Profiles \cup {NoProfile},
         waiting' \subseteq Commands, m' \in Memory,
         NEW o \in Locals, NEW l \in StopLabels, StopInternal(o, l),
         l \in CandidateLabels => o.cand \in Profiles
  PROVE  TypeInv'
  <1>1. l \in PCs
    BY DEF StopLabels, PCs
  <1> QED
    BY <1>1, StopInternalTyped
    DEF TypeInv, TypeOK, Placed, CandidateLabels

\* The commands.
LEMMA TypeCommands ==
  ASSUME TypeInv,
         (\E c \in Commands : Request(c)) \/ StartBest \/ Recheck \/ Stop \/ Status
  PROVE  TypeInv'
  <1>0. /\ m \in Memory /\ tunnel \in Tunnels \cup {NoTunnel}
        /\ op \in Locals /\ lease \in Process /\ snap \in Snapshot
        /\ pref \in Profiles \cup {NoProfile} /\ waiting \subseteq Commands
    BY DEF TypeInv, TypeOK
  <1>1. ASSUME NEW c \in Commands, Request(c) PROVE TypeInv'
    <2>1. [m EXCEPT !.desired = FALSE] \in Memory
      BY <1>0, FieldFacts, Zenon DEF Memory
    <2>2. m' \in Memory /\ waiting' \subseteq Commands
      BY <1>0, <1>1, <2>1 DEF Request
    <2> QED
      BY <1>1, <2>2
      DEF Request, TypeInv, TypeOK, Placed, world, files
  <1>2. CASE StartBest
    <2> DEFINE wanted == [m EXCEPT !.desired = TRUE, !.paused = FALSE]
               fresh == ResetStartupCycle(wanted)
    <2>1. wanted \in Memory
      BY <1>0, FieldFacts, Zenon DEF Memory
    <2>2. fresh \in Memory
      BY <2>1, ResetCycleTyped
    <2> HIDE DEF fresh
    <2>3. [fresh EXCEPT !.direct = FALSE] \in Memory
      BY <2>2, FieldFacts, Zenon DEF Memory
    <2>4. m' \in Memory
      BY <1>2, <2>1, <2>2, <2>3 DEF StartBest, fresh
    <2>5. [op EXCEPT !.seen = tunnel] \in Locals
      BY <1>0, Zenon DEF Locals
    <2>6. op' \in Locals /\ pc' \in PlainLabels
      BY <1>0, <1>2, <2>5
      DEF StartBest, Goto, PlainLabels, PCs, CandidateLabels
    <2> QED
      BY <1>0, <1>2, <2>4, <2>6, PlainStep
      DEF StartBest, Taken, world, files
  <1>3. CASE Recheck
    <2>1. m' \in Memory
      BY <1>0, <1>3, UpdateTyped DEF Recheck
    <2>2. [op EXCEPT !.seen = tunnel] \in Locals
      BY <1>0, Zenon DEF Locals
    <2>3. op' \in Locals /\ pc' \in PlainLabels
      BY <1>3, <2>2 DEF Recheck, Goto, PlainLabels, PCs, CandidateLabels
    <2> QED
      BY <1>0, <1>3, <2>1, <2>3, PlainStep DEF Recheck, Taken, world, files
  <1>4. CASE Stop
    <2> DEFINE left == LeaveDirectMode(m, NoTunnel)
    <2>1. left \in Memory
      BY <1>0, FieldFacts, LeaveTyped
    <2> HIDE DEF left
    <2>2. [left EXCEPT !.paused = FALSE] \in Memory
      BY <2>1, FieldFacts, Zenon DEF Memory
    <2>3. m' \in Memory
      BY <1>4, <2>2, ResetCycleTyped DEF Stop, left
    <2> QED
      BY <1>0, <1>4, <2>3, StopStep
      DEF Stop, Taken, world, StopLabels, CandidateLabels
  <1>5. CASE Status
    <2>1. CurrentState(m, Running) \in
            {"stopped", "ready", "degraded", "recovering"}
      BY <1>0, StateTyped DEF Running
    <2> QED
      BY <1>0, <1>5, <2>1, FinishStep DEF Status, Taken, world, files
  <1> QED  BY <1>1, <1>2, <1>3, <1>4, <1>5

\* Restoring the Engine from one of the loops.
LEMMA RestoreStep ==
  ASSUME TypeInv, NEW mm \in Memory, RestoreEngine(mm),
         UNCHANGED <<tunnel, procs, engine, exit, waiting, lease, pref>>
  PROVE  TypeInv'
  <1>1. m' \in Memory
    BY ResetCycleTyped DEF RestoreEngine
  <1> QED
    BY <1>1, PlainStep
    DEF RestoreEngine, Goto, TypeInv, TypeOK, PlainLabels, PCs, CandidateLabels

\* The loops.
LEMMA TypeLoops ==
  ASSUME TypeInv, Reconcile \/ Recover
  PROVE  TypeInv'
  <1>0. /\ m \in Memory /\ tunnel \in Tunnels \cup {NoTunnel}
        /\ op \in Locals /\ lease \in Process /\ snap \in Snapshot
        /\ pref \in Profiles \cup {NoProfile} /\ waiting \subseteq Commands
    BY DEF TypeInv, TypeOK
  <1>1. [op EXCEPT !.seen = tunnel] \in Locals
    BY <1>0, Zenon DEF Locals
  <1>2. \A mm \in Memory : CurrentState(mm, Running) \in
          {"stopped", "ready", "degraded", "recovering"}
    BY StateTyped DEF Running
  <1>3. /\ UpdateCompatibility(m, tunnel) \in Memory
        /\ EnterDirectMode(m, tunnel) \in Memory
        /\ LeaveDirectMode(m, NoTunnel) \in Memory
    BY <1>0, FieldFacts, UpdateTyped, EnterTyped, LeaveTyped
  <1>4. CASE ReconcileChanged
    <2>1. CASE StopInternal([op EXCEPT !.seen = tunnel], "reevaluate")
      BY <1>0, <1>1, <1>4, <2>1, StopStep
      DEF ReconcileChanged, world, StopLabels, CandidateLabels
    <2>2. CASE Goto("reevaluate") /\ op' = [op EXCEPT !.seen = tunnel]
               /\ UNCHANGED <<engine, exit, lease, snap>>
      BY <1>0, <1>1, <1>4, <2>2, PlainStep
      DEF ReconcileChanged, Goto, world, PlainLabels, PCs, CandidateLabels
    <2> QED  BY <1>4, <2>1, <2>2 DEF ReconcileChanged
  <1>5. CASE ReconcileDue
    BY <1>0, <1>5, PlainStep
    DEF ReconcileDue, Goto, world, files, PlainLabels, PCs, CandidateLabels
  <1>6. CASE ReconcileTunnel
    BY <1>0, <1>2, <1>3, <1>6, FinishStep, RestoreStep
    DEF ReconcileTunnel, Quiet, world, files
  <1>7. CASE ReconcileNoTunnel
    BY <1>0, <1>2, <1>3, <1>7, FinishStep, RestoreStep
    DEF ReconcileNoTunnel, Quiet, world, files
  <1>8. CASE RecoverTunnel
    <2>1. pc' \in PlainLabels
      BY <1>8 DEF RecoverTunnel, Goto, PlainLabels, PCs, CandidateLabels
    <2> QED
      BY <1>0, <1>1, <1>8, <2>1, PlainStep DEF RecoverTunnel, world, files
  <1>9. CASE RecoverNoTunnel
    <2> DEFINE mm == LeaveDirectMode(m, NoTunnel)
    <2>1. CASE m' = mm /\ Goto("refresh") /\ UNCHANGED <<op, snap>>
      BY <1>0, <1>3, <1>9, <2>1, PlainStep
      DEF RecoverNoTunnel, Quiet, Goto, world, files, PlainLabels, PCs,
          CandidateLabels
    <2>2. CASE RestoreEngine(mm) \/ Finish(mm, "recovering")
               \/ Finish(mm, "stopped")
      BY <1>0, <1>3, <1>9, <2>2, FinishStep, RestoreStep
      DEF RecoverNoTunnel, Quiet, world, files
    <2> QED  BY <1>9, <2>1, <2>2 DEF RecoverNoTunnel
  <1> QED
    BY <1>4, <1>5, <1>6, <1>7, <1>8, <1>9 DEF Reconcile, Recover

\* The results of a check.
LEMMA TypeProbes ==
  ASSUME TypeInv,
         DirectResult \/ StartProbed \/ Refresh \/ DirectProbed
           \/ EngineProbed \/ RecoverProbed
  PROVE  TypeInv'
  <1>0. /\ m \in Memory /\ op.seen \in Tunnels \cup {NoTunnel}
        /\ op \in Locals /\ lease \in Process /\ snap \in Snapshot
        /\ pref \in Profiles \cup {NoProfile} /\ waiting \subseteq Commands
    BY Zenon DEF TypeInv, TypeOK, Locals
  <1>1. \A mm \in Memory : CurrentState(mm, Running) \in
          {"stopped", "ready", "degraded", "recovering"}
    BY StateTyped DEF Running
  <1>2. \A ps \in DirectOutcomes \cup EngineOutcomes :
          /\ Probed(m, ps) \in Memory
          /\ EnterDirectMode(Probed(m, ps), op.seen) \in Memory
          /\ LeaveDirectMode(Probed(m, ps), op.seen) \in Memory
    BY <1>0, OutcomeAssumption, ProbedTyped, EnterTyped, LeaveTyped
  <1>3. CASE DirectResult
    BY <1>0, <1>1, <1>2, <1>3, FinishStep, RestoreStep
    DEF DirectResult, Quiet, world, files
  <1>4. CASE StartProbed
    <2>1. PICK ps \in DirectOutcomes :
            \/ Finish(EnterDirectMode(Probed(m, ps), op.seen), "ready")
            \/ /\ m' = LeaveDirectMode(Probed(m, ps), op.seen)
               /\ Goto("startBest") /\ UNCHANGED <<op, snap>>
      BY <1>4 DEF StartProbed
    <2>2. CASE Goto("startBest") /\ UNCHANGED <<op, snap>>
               /\ m' = LeaveDirectMode(Probed(m, ps), op.seen)
      BY <1>0, <1>2, <1>4, <2>2, PlainStep
      DEF StartProbed, Quiet, Goto, world, files, PlainLabels, PCs,
          CandidateLabels
    <2>3. CASE Finish(EnterDirectMode(Probed(m, ps), op.seen), "ready")
      BY <1>0, <1>2, <1>4, <2>3, FinishStep
      DEF StartProbed, Quiet, world, files
    <2> QED  BY <2>1, <2>2, <2>3
  <1>5. CASE Refresh
    <2>1. CASE Running /\ Goto("engineProbe") /\ UNCHANGED <<m, op, snap>>
      BY <1>5, <2>1
      DEF Refresh, Quiet, Goto, Running, world, files, TypeInv, TypeOK,
          Placed, PCs, CandidateLabels
    <2>2. CASE Goto("directProbe") /\ UNCHANGED <<m, op, snap>>
      BY <1>0, <1>5, <2>2, PlainStep
      DEF Refresh, Quiet, Goto, world, files, PlainLabels, PCs,
          CandidateLabels
    <2>3. CASE Finish(m, "recovering") \/ Finish(m, "stopped")
      BY <1>0, <1>5, <2>3, FinishStep DEF Refresh, Quiet, world, files
    <2> QED  BY <1>5, <2>1, <2>2, <2>3 DEF Refresh
  <1>6. CASE DirectProbed
    BY <1>0, <1>2, <1>6, FinishStep DEF DirectProbed, Quiet, world, files
  <1>7. CASE EngineProbed
    <2>1. m' \in Memory
      BY <1>2, <1>7 DEF EngineProbed
    <2> QED
      BY <1>7, <2>1
      DEF EngineProbed, Goto, TypeInv, TypeOK, Placed, world, files, PCs,
          CandidateLabels
  <1>8. CASE RecoverProbed
    <2>1. PICK ps \in EngineOutcomes :
            LET failed == LeaveDirectMode(Probed(m, ps), op.seen)
            IN  \/ Finish(EnterDirectMode(Probed(m, ps), op.seen), "ready")
                \/ /\ Running /\ m' = failed
                   /\ Goto("apply") /\ UNCHANGED <<op, snap>>
                \/ RestoreEngine(failed)
                \/ Finish(failed, CurrentState(failed, Running))
      BY <1>8 DEF RecoverProbed
    <2> DEFINE failed == LeaveDirectMode(Probed(m, ps), op.seen)
    <2>2. CASE Running /\ m' = failed /\ Goto("apply")
               /\ UNCHANGED <<op, snap>>
      BY <1>0, <1>2, <1>8, <2>2
      DEF RecoverProbed, Quiet, Goto, Running, world, files, TypeInv, TypeOK,
          Placed, PCs, CandidateLabels
    <2>3. CASE \/ Finish(EnterDirectMode(Probed(m, ps), op.seen), "ready")
               \/ RestoreEngine(failed)
               \/ Finish(failed, CurrentState(failed, Running))
      BY <1>0, <1>1, <1>2, <1>8, <2>3, FinishStep, RestoreStep
      DEF RecoverProbed, Quiet, world, files
    <2> QED  BY <2>1, <2>2, <2>3
  <1> QED  BY <1>3, <1>4, <1>5, <1>6, <1>7, <1>8

\* What the results of an Engine's probes lead to.
LEMMA TypeApply ==
  ASSUME TypeInv,
         ApplyReady \/ ApplyPreserved \/ ApplyInconclusive \/ ApplyRotate
           \/ ApplyExhausted \/ ApplyPersistent \/ ApplyStable \/ Persistent
  PROVE  TypeInv'
  <1>0. /\ m \in Memory /\ tunnel \in Tunnels \cup {NoTunnel}
        /\ op \in Locals /\ lease \in Process /\ snap \in Snapshot
        /\ pref \in Profiles \cup {NoProfile} /\ waiting \subseteq Commands
    BY DEF TypeInv, TypeOK
  <1>1. pc = "apply" => engine.profile \in Profiles
    BY Attached DEF TypeInv, Placed
  <1>2. /\ Observed \in Memory /\ Inconclusive \in Memory
        /\ Observe \in Memory
        /\ pc = "apply" => Disqualified \in Memory
    BY <1>0, <1>1, ObservedTyped, InconclusiveTyped, ObserveTyped,
       DisqualifiedTyped
  <1>3. \A p : ForgetFile(m, p) \in Profiles \cup {NoProfile}
    BY <1>0 DEF ForgetFile
  <1>4. CASE ApplyReady
    <2> DEFINE mm == [Observed EXCEPT !.failures = 0, !.paused = FALSE]
               kept == UpdateCompatibility(ResetSearch(
                         CompleteStartupQualification(
                           Remember(mm, engine.profile))), tunnel)
    <2>1. mm \in Memory
      BY <1>2, FieldFacts, ZenonT(60) DEF Memory
    <2> HIDE DEF mm
    <2>2. kept \in Memory
      BY <1>0, <1>1, <1>4, <2>1, RememberTyped, CompleteTyped,
         ResetSearchTyped, UpdateTyped DEF ApplyReady, Applying
    <2>3. pref' \in Profiles \cup {NoProfile}
      BY <1>0, <1>1, <1>4 DEF ApplyReady, Applying
    <2> HIDE DEF kept
    <2>4. Finish(kept, "ready")
      BY <1>4 DEF ApplyReady, kept, mm
    <2> QED
      BY <1>0, <1>4, <2>2, <2>3, <2>4, FinishStep DEF ApplyReady, world
  <1>5. CASE ApplyPreserved
    <2> DEFINE mm == [Observed EXCEPT !.failures = 0]
    <2>1. mm \in Memory
      BY <1>2, FieldFacts, Zenon DEF Memory
    <2> HIDE DEF mm
    <2>2. ResetSearch(CompleteStartupQualification(mm)) \in Memory
      BY <2>1, CompleteTyped, ResetSearchTyped
    <2>3. Finish(ResetSearch(CompleteStartupQualification(mm)), "degraded")
      BY <1>5 DEF ApplyPreserved, mm
    <2> QED
      BY <1>0, <1>5, <2>2, <2>3, FinishStep
      DEF ApplyPreserved, Quiet, world, files
  <1>6. CASE ApplyInconclusive
    BY <1>0, <1>2, <1>6, UpdateTyped, FinishStep
    DEF ApplyInconclusive, Quiet, world, files
  <1>7. CASE ApplyRotate
    <2>1. Failed(Disqualified, engine.profile) \in Memory
      BY <1>1, <1>2, <1>7, FailedTyped DEF ApplyRotate, Degraded, Applying
    <2> QED
      BY <1>0, <1>3, <1>7, <2>1, StopStep
      DEF ApplyRotate, world, StopLabels, CandidateLabels
  <1>8. CASE ApplyExhausted
    <2>1. Exhausted(Disqualified) \in Memory
      BY <1>0, <1>2, <1>8, ExhaustedTyped DEF ApplyExhausted, Degraded, Applying
    <2>2. \A p \in Profiles : [op EXCEPT !.cand = p] \in Locals
                            /\ [op EXCEPT !.cand = p].cand = p
      BY <1>0, Zenon DEF Locals
    <2>3. PICK best \in Profiles :
            \/ /\ Finish(Exhausted(Disqualified), "degraded")
               /\ UNCHANGED <<lease, engine, exit>>
            \/ /\ m' = Disqualified
               /\ StopInternal([op EXCEPT !.cand = best], "restore")
      BY <1>8, BestTyped DEF ApplyExhausted
    <2>4. CASE Finish(Exhausted(Disqualified), "degraded")
               /\ UNCHANGED <<lease, engine, exit>>
      BY <1>0, <1>8, <2>1, <2>4, FinishStep DEF ApplyExhausted, world
    <2>5. CASE m' = Disqualified
               /\ StopInternal([op EXCEPT !.cand = best], "restore")
      BY <1>0, <1>2, <1>8, <2>2, <2>5, StopStep
      DEF ApplyExhausted, Degraded, Applying, world, StopLabels
    <2> QED  BY <2>3, <2>4, <2>5
  <1>9. CASE ApplyPersistent
    <2>1. [Observe EXCEPT !.failures = 0] \in Memory
      BY <1>2, FieldFacts, Zenon DEF Memory
    <2>2. m' \in Memory
      BY <1>1, <1>9, <2>1, FailedTyped DEF ApplyPersistent, Degraded, Applying
    <2>3. /\ [op EXCEPT !.cand = engine.profile] \in Locals
          /\ [op EXCEPT !.cand = engine.profile].cand \in Profiles
      BY <1>0, <1>1, <1>9, Zenon DEF ApplyPersistent, Degraded, Applying, Locals
    <2> QED
      BY <1>0, <1>3, <1>9, <2>2, <2>3, StopStep
      DEF ApplyPersistent, world, StopLabels
  <1>10. CASE ApplyStable
    BY <1>0, <1>2, <1>10, FinishStep DEF ApplyStable, Quiet, world, files
  <1>11. CASE Persistent
    <2> DEFINE reset == ResetStartupCycle(m)
               voice == VoiceRequired(reset.voice, m.probes)
               scores == [reset.scores EXCEPT ![op.cand] = Score(m.probes)]
    <2>1. reset \in Memory
      BY <1>0, ResetCycleTyped
    <2> HIDE DEF reset
    <2>2. reset.voice \in BOOLEAN /\ reset.scores \in [Profiles -> Int]
      BY <2>1, Zenon DEF Memory
    <2>3. voice \in BOOLEAN /\ scores \in [Profiles -> Int]
      BY <2>2, VoiceTyped, ScoresTyped
    <2>4. {op.cand} \in SUBSET Profiles
      BY <1>11 DEF Persistent, TypeInv, Placed, CandidateLabels
    <2> HIDE DEF voice, scores
    <2>5. [reset EXCEPT !.voice = voice, !.scores = scores,
                        !.attempted = {op.cand}] \in Memory
      BY <2>1, <2>3, <2>4, Zenon DEF Memory
    <2>6. m' \in Memory
      BY <1>11, <2>5 DEF Persistent, reset, voice, scores
    <2> QED
      BY <1>0, <1>11, <2>6, NoOpTyped, PlainStep
      DEF Persistent, Quiet, Goto, world, files, PlainLabels, PCs,
          CandidateLabels
  <1> QED  BY <1>4, <1>5, <1>6, <1>7, <1>8, <1>9, <1>10, <1>11

\* Starting an Engine process, with op.cand in place.
LEMMA SpawnStep ==
  ASSUME TypeInv, pc \in {"start", "restore"},
         NEW l \in {"settle", "restored"}, Spawn(op.cand, l),
         UNCHANGED <<tunnel, lease, pref, exit, m, waiting, snap>>
  PROVE  TypeInv'
  <1>1. op.cand \in Profiles
    BY DEF TypeInv, Placed, CandidateLabels
  <1>2. PICK pid \in Pids : procs' = [procs EXCEPT ![pid] = op.cand]
                          /\ engine' = [pid |-> pid, profile |-> op.cand]
    BY DEF Spawn
  <1>3. procs' \in [Pids -> Profiles \cup {Dead}]
    BY <1>1, <1>2 DEF TypeInv, TypeOK
  <1>4. engine' \in Process /\ engine' # NoEngine
    BY <1>1, <1>2, PidAssumption DEF Process, NoEngine
  <1>5. op \in Locals /\ l \in PCs /\ op' = [op EXCEPT !.ret = l]
        /\ pc' = "lease"
    BY DEF Spawn, TypeInv, TypeOK, PCs
  <1>6. op' \in Locals /\ op'.ret = l /\ op'.cand = op.cand
    BY <1>5, Zenon DEF Locals
  <1> QED
    BY <1>1, <1>3, <1>4, <1>5, <1>6
    DEF TypeInv, TypeOK, Placed, CandidateLabels, PCs

\* StartBestInternalAsync.
LEMMA TypeStart ==
  ASSUME TypeInv,
         StartBestInternal \/ Adopt \/ NotAdopted \/ StopStale
           \/ NextCandidate \/ NoCandidate \/ GaveUp \/ Killed
           \/ StartProfile \/ RestoreBest \/ SaveLease \/ Settled
           \/ ExitedEarly \/ Restored \/ Stopped
  PROVE  TypeInv'
  <1>0. /\ m \in Memory /\ tunnel \in Tunnels \cup {NoTunnel}
        /\ op \in Locals /\ lease \in Process /\ snap \in Snapshot
        /\ pref \in Profiles \cup {NoProfile} /\ waiting \subseteq Commands
        /\ procs \in [Pids -> Profiles \cup {Dead}]
    BY DEF TypeInv, TypeOK
  <1>1. /\ UpdateCompatibility(m, tunnel) \in Memory
        /\ EnterDirectMode(m, tunnel) \in Memory
    BY <1>0, UpdateTyped, EnterTyped
  <1>2. CASE StartBestInternal
    <2>1. CASE Goto("adopt") /\ UNCHANGED <<op, snap>>
               /\ m' = UpdateCompatibility(m, tunnel)
      BY <1>0, <1>1, <1>2, <2>1, PlainStep
      DEF StartBestInternal, Quiet, Goto, world, files, PlainLabels, PCs,
          CandidateLabels
    <2>2. CASE \/ Finish(UpdateCompatibility(m, tunnel), "stopped")
               \/ Finish(UpdateCompatibility(m, tunnel), "recovering")
               \/ Finish(EnterDirectMode(m, tunnel), "ready")
      BY <1>0, <1>1, <1>2, <2>2, FinishStep
      DEF StartBestInternal, Quiet, world, files
    <2> QED  BY <1>2, <2>1, <2>2 DEF StartBestInternal, Defer
  <1>3. CASE Adopt
    <2> DEFINE preferred == [m EXCEPT !.next = lease.profile]
               mm == UpdateCompatibility(
                       MarkStartupQualificationPending(preferred), tunnel)
    <2>1. lease # NoEngine /\ lease.profile \in Profiles
      BY <1>3, Attached DEF Adopt, TypeInv
    <2>2. preferred \in Memory
      BY <1>0, <2>1, Zenon DEF Memory
    <2> HIDE DEF preferred
    <2>3. mm \in Memory
      BY <1>0, <2>2, MarkTyped, UpdateTyped
    <2>4. CreateSnapshot(mm, TRUE, "recovering") \in Snapshot
      BY <2>3, SnapshotTyped
    <2> HIDE DEF mm
    <2>5. m' \in Memory /\ snap' \in Snapshot
      BY <1>3, <2>3, <2>4 DEF Adopt, mm, preferred
    <2> QED
      BY <1>0, <1>3, <2>1, <2>5, NoOpTyped
      DEF Adopt, TypeInv, TypeOK, Placed, world, files, PCs, CandidateLabels
  <1>4. CASE NotAdopted
    <2>1. m' \in Memory
      <3>1. lease # NoEngine => MovePast(lease.profile) \in Profiles
        BY Attached, MovePastTyped DEF TypeInv
      <3>2. lease # NoEngine =>
              [m EXCEPT !.next = MovePast(lease.profile)] \in Memory
        BY <1>0, <3>1, Zenon DEF Memory
      <3> QED  BY <1>0, <1>4, <3>2 DEF NotAdopted
    <2> QED
      BY <1>0, <1>4, <2>1, PlainStep
      DEF NotAdopted, Goto, world, Process, PlainLabels, PCs, CandidateLabels
  <1>5. CASE StopStale
    <2>1. PreferredFile \in Profiles \cup {NoProfile}
      BY <1>0 DEF PreferredFile
    <2>2. m' \in Memory
      BY <1>0, <1>5, <2>1, LoadTyped DEF StopStale
    <2>3. m'.next \in Profiles
      BY <2>2, Zenon DEF Memory
    <2>4. [op EXCEPT !.first = m'.next] \in Locals
      BY <1>0, <2>3, Zenon DEF Locals
    <2>5. op' \in Locals
      BY <1>5, <2>4 DEF StopStale
    <2>6. procs' \in [Pids -> Profiles \cup {Dead}]
      BY <1>0, <1>5 DEF StopStale
    <2>7. pref' \in Profiles \cup {NoProfile}
      BY <1>0, <1>5, <2>1 DEF StopStale
    <2> QED
      BY <1>0, <1>5, <2>2, <2>5, <2>6, <2>7
      DEF StopStale, Goto, TypeInv, TypeOK, Placed, PCs, CandidateLabels
  <1>6. CASE NextCandidate
    <2>1. m.attempted \in SUBSET Profiles /\ op.first \in Profiles
      BY <1>0, Zenon DEF Memory, Locals
    <2>2. PICK p \in Profiles :
            \/ Finish(m, "stopped") /\ UNCHANGED <<lease, engine, exit>>
            \/ /\ m' = [m EXCEPT !.attempted = m.attempted \cup {p}]
               /\ StopInternal([op EXCEPT !.cand = p], "start")
      BY <1>6, <2>1, UntriedTyped DEF NextCandidate
    <2>3. CASE Finish(m, "stopped") /\ UNCHANGED <<lease, engine, exit>>
      BY <1>0, <1>6, <2>3, FinishStep DEF NextCandidate, world
    <2>4. CASE /\ m' = [m EXCEPT !.attempted = m.attempted \cup {p}]
               /\ StopInternal([op EXCEPT !.cand = p], "start")
      <3>1. m.attempted \cup {p} \in SUBSET Profiles
        BY <2>1
      <3>2. m' \in Memory
        BY <1>0, <2>4, <3>1, Zenon DEF Memory
      <3>3. [op EXCEPT !.cand = p] \in Locals /\ [op EXCEPT !.cand = p].cand = p
        BY <1>0, Zenon DEF Locals
      <3> QED
        BY <1>0, <1>6, <2>4, <3>2, <3>3, StopStep
        DEF NextCandidate, world, StopLabels
    <2> QED  BY <2>2, <2>3, <2>4
  <1>7. CASE NoCandidate
    BY <1>0, <1>7, StopStep
    DEF NoCandidate, world, StopLabels, CandidateLabels
  <1>8. CASE GaveUp
    BY <1>0, <1>1, <1>8, FinishStep DEF GaveUp, Quiet, world, files
  <1>9. CASE Killed
    <2>1. [op EXCEPT !.victim = NoPid, !.ret = "idle"] \in Locals
      <3>1. "idle" \in PCs
        BY DEF PCs
      <3> QED  BY <1>0, <3>1, Zenon DEF Locals
    <2>2. op' \in Locals /\ op'.cand = op.cand
      BY <1>0, <1>9, <2>1, Zenon DEF Killed, Locals
    <2>3. pc' \in StopLabels /\ (pc' \in CandidateLabels => op.cand \in Profiles)
      BY <1>9 DEF Killed, Goto, TypeInv, Placed
    <2>4. procs' \in [Pids -> Profiles \cup {Dead}]
      BY <1>0, <1>9 DEF Killed
    <2> QED
      BY <1>9, <2>2, <2>3, <2>4
      DEF Killed, TypeInv, TypeOK, Placed, files, StopLabels, PCs
  <1>10. CASE StartProfile
    <2>1. CASE Finish(EnterDirectMode(m, tunnel), "ready")
               /\ UNCHANGED <<procs, engine>>
      BY <1>0, <1>1, <1>10, <2>1, FinishStep DEF StartProfile, files
    <2>2. CASE Spawn(op.cand, "settle") /\ UNCHANGED <<m, snap>>
      BY <1>10, <2>2, SpawnStep DEF StartProfile, files
    <2> QED  BY <1>10, <2>1, <2>2 DEF StartProfile, Defer
  <1>11. CASE RestoreBest
    BY <1>11, SpawnStep DEF RestoreBest, files
  <1>12. CASE SaveLease
    <2>1. [op EXCEPT !.ret = "idle"] \in Locals
      <3>1. "idle" \in PCs
        BY DEF PCs
      <3> QED  BY <1>0, <3>1, Zenon DEF Locals
    <2>2. op' \in Locals /\ op'.cand = op.cand
      BY <1>0, <1>12, <2>1, Zenon DEF SaveLease, Locals
    <2>3. pc' \in {"settle", "restored"} /\ op.cand \in Profiles
      BY <1>12 DEF SaveLease, Goto, TypeInv, Placed, CandidateLabels
    <2> QED
      BY <1>12, <2>2, <2>3
      DEF SaveLease, TypeInv, TypeOK, Placed, world, CandidateLabels, PCs
  <1>13. CASE Settled
    <2> DEFINE preferred == [m EXCEPT !.next = op.cand]
               mm == UpdateCompatibility(
                       MarkStartupQualificationPending(preferred), tunnel)
    <2>1. op.cand \in Profiles
      BY <1>13 DEF Settled, TypeInv, Placed, CandidateLabels
    <2>2. preferred \in Memory
      BY <1>0, <2>1, Zenon DEF Memory
    <2> HIDE DEF preferred
    <2>3. mm \in Memory
      BY <1>0, <2>2, MarkTyped, UpdateTyped
    <2> HIDE DEF mm
    <2>4. \/ Finish(EnterDirectMode(m, tunnel), "ready")
          \/ Finish(mm, "recovering")
      BY <1>13 DEF Settled, Defer, mm, preferred
    <2> QED
      BY <1>0, <1>1, <1>13, <2>3, <2>4, FinishStep
      DEF Settled, Quiet, world, files
  <1>14. CASE ExitedEarly
    <2> DEFINE mm == Failed(m, op.cand)
    <2>1. mm \in Memory
      BY <1>0, <1>14, FailedTyped
      DEF ExitedEarly, TypeInv, Placed, CandidateLabels
    <2> HIDE DEF mm
    <2>2. UpdateCompatibility(mm, tunnel) \in Memory
      BY <1>0, <2>1, UpdateTyped
    <2>3. pref' \in Profiles \cup {NoProfile}
      BY <1>0, <1>14 DEF ExitedEarly, ForgetFile
    <2>4. \/ Finish(UpdateCompatibility(mm, tunnel), "recovering")
          \/ m' = mm /\ Goto("candidates") /\ UNCHANGED <<op, snap>>
      BY <1>14 DEF ExitedEarly, mm
    <2>5. CASE Finish(UpdateCompatibility(mm, tunnel), "recovering")
      BY <1>0, <1>14, <2>2, <2>3, <2>5, FinishStep DEF ExitedEarly, world
    <2>6. CASE m' = mm /\ Goto("candidates") /\ UNCHANGED <<op, snap>>
      BY <1>0, <1>14, <2>1, <2>3, <2>6, PlainStep
      DEF ExitedEarly, Goto, world, PlainLabels, PCs, CandidateLabels
    <2> QED  BY <2>4, <2>5, <2>6
  <1>15. CASE Restored
    <2>1. Exhausted(Probed(m, NoProbes)) \in Memory
      BY <1>0, NoProbesTyped, ProbedTyped, ExhaustedTyped
    <2> QED
      BY <1>0, <1>15, <2>1, FinishStep DEF Restored, Quiet, world, files
  <1>16. CASE Stopped
    BY <1>0, <1>16, FinishStep DEF Stopped, Quiet, world, files
  <1> QED
    BY <1>2, <1>3, <1>4, <1>5, <1>6, <1>7, <1>8, <1>9, <1>10, <1>11, <1>12,
       <1>13, <1>14, <1>15, <1>16

\* The environment and the faults.
LEMMA TypeWorld ==
  ASSUME TypeInv,
         TunnelChanges \/ EngineExits \/ ExitedHandler \/ TimePasses \/ FaultStep
  PROVE  TypeInv'
  <1>0. /\ m \in Memory /\ tunnel \in Tunnels \cup {NoTunnel}
        /\ op \in Locals /\ lease \in Process /\ snap \in Snapshot
        /\ pref \in Profiles \cup {NoProfile} /\ waiting \subseteq Commands
        /\ procs \in [Pids -> Profiles \cup {Dead}]
    BY DEF TypeInv, TypeOK
  <1>1. CASE TunnelChanges
    BY <1>1
    DEF TunnelChanges, TypeInv, TypeOK, Placed, files, agent
  <1>2. CASE EngineExits
    <2>1. PICK pid \in Pids, code \in CrashCodes :
            /\ procs' = [procs EXCEPT ![pid] = Dead]
            /\ exit' = IF pid = engine.pid THEN code ELSE exit
      BY <1>2 DEF EngineExits
    <2>2. procs' \in [Pids -> Profiles \cup {Dead}]
      BY <1>0, <2>1
    <2>3. pid = engine.pid => engine # NoEngine
      BY PidAssumption DEF NoEngine
    <2> QED
      BY <1>2, <2>1, <2>2, <2>3
      DEF EngineExits, TypeInv, TypeOK, Placed, files
  <1>3. CASE ExitedHandler
    <2> DEFINE mm == Failed(m, engine.profile)
               p == mm.paused \/ exit = "driver"
    <2>1. mm \in Memory
      BY <1>0, <1>3, Attached, FailedTyped DEF ExitedHandler, TypeInv, Placed
    <2> HIDE DEF mm
    <2>2. p \in BOOLEAN
      OBVIOUS
    <2> HIDE DEF p
    <2>3. [mm EXCEPT !.paused = p] \in Memory
      BY <2>1, <2>2, Zenon DEF Memory
    <2>4. m' \in Memory
      BY <1>3, <2>3 DEF ExitedHandler, mm, p
    <2>5. lease' \in Process /\ pref' \in Profiles \cup {NoProfile}
      BY <1>0, <1>3 DEF ExitedHandler, LeaseCleared, ForgetFile, Process
    <2> QED
      BY <1>3, <2>4, <2>5 DEF ExitedHandler, TypeInv, TypeOK, Placed, world
  <1>4. CASE TimePasses
    <2>1. [m EXCEPT !.paused = FALSE] \in Memory
          /\ [m EXCEPT !.hold = FALSE] \in Memory
      BY <1>0, FieldFacts, Zenon DEF Memory
    <2> QED
      BY <1>4, <2>1
      DEF TimePasses, Quiet, TypeInv, TypeOK, Placed, world, files
  <1>5. CASE KillTimesOut \/ VerifyFails \/ LaunchFails
    <2>1. /\ UNCHANGED <<tunnel, procs, lease, pref, engine, exit, m, waiting,
                         snap>>
          /\ pc' = "idle" /\ op' = NoOp
      BY <1>5
      DEF KillTimesOut, VerifyFails, LaunchFails, Fails, Throw, world, files
    <2> QED
      BY <1>0, <2>1, NoOpTyped, PlainStep
      DEF PlainLabels, PCs, CandidateLabels
  <1>6. CASE SaveLeaseFails
    <2>1. [op EXCEPT !.ret = "idle"] \in Locals
      <3>1. "idle" \in PCs
        BY DEF PCs
      <3> QED  BY <1>0, <3>1, Zenon DEF Locals
    <2>2. op' \in Locals /\ op'.cand = op.cand
      BY <1>0, <1>6, <2>1, Zenon DEF SaveLeaseFails, Locals
    <2>3. pc' \in {"settle", "restored"} /\ op.cand \in Profiles
      BY <1>6 DEF SaveLeaseFails, Goto, TypeInv, Placed, CandidateLabels
    <2> QED
      BY <1>6, <2>2, <2>3
      DEF SaveLeaseFails, TypeInv, TypeOK, Placed, world, files,
          CandidateLabels, PCs
  <1>7. CASE AgentCrash
    BY <1>7, InitMemoryTyped, NoOpTyped
    DEF AgentCrash, InitSnap, TypeInv, TypeOK, Placed, Process, Snapshot,
        PCs, CandidateLabels, world, files
  <1> QED  BY <1>1, <1>2, <1>3, <1>4, <1>5, <1>6, <1>7 DEF FaultStep

\* Every step keeps the types.
LEMMA TypeStep == TypeInv /\ [Next]_vars => TypeInv'
  <1> SUFFICES ASSUME TypeInv, [Next]_vars PROVE TypeInv'
    OBVIOUS
  <1>1. CASE UNCHANGED vars
    BY <1>1 DEF vars, TypeInv, TypeOK, Placed
  <1>2. CASE Next
    BY <1>2, TypeCommands, TypeLoops, TypeProbes, TypeApply, TypeStart,
       TypeWorld
    DEF Next, GateStep, EnvStep
  <1> QED  BY <1>1, <1>2

\* Every variable, and every field of the Agent's memory and of the locals,
\* keeps its type along the operations, handlers, faults and restarts.
THEOREM TypeInvariant == Spec => []TypeInv
  BY TypeInit, TypeStep, PTL DEF Spec

\* The type invariant the runs check holds in every reachable state of
\* EngineSupervisor, whatever the constants are.
THEOREM TypeCorrect == Spec => []TypeOK
  BY TypeInvariant, PTL DEF TypeInv
=============================================================================
