-------------------------- MODULE SupervisorHistory --------------------------
(***************************************************************************)
(* EngineSupervisor with history variables: what its steps have done so    *)
(* far, computed from the steps alone.  The history never restricts a step.*)
(***************************************************************************)
EXTENDS SupervisorProperties

CONSTANT Tracked    \* the fields of hist this run follows

VARIABLE hist

InitHist ==
  [carrier  |-> "none",  \* what carried the last probes, and "past" once
                         \* another Engine process has been attached
   bad      |-> 0,       \* failed checks in a row through this process
   launches |-> 0,       \* automatic launches of the current search
   stop     |-> "no"]    \* how far the last stop request has come

NewEngine == engine' # engine /\ engine' # NoEngine

Leaves(labels) == pc \in labels /\ pc' # pc

Carrier ==
  CASE NewEngine -> "past"
    [] Leaves({"startProbe", "recheckProbe", "recoverDirect", "reevaluate",
               "directProbe"}) -> "direct"
    [] Leaves({"engineProbe", "recoverEngine"}) -> "engine"
    [] OTHER -> hist.carrier

Bad ==
  CASE NewEngine -> 0
    [] Leaves({"apply"}) -> IF Degraded THEN Capped(hist.bad, 3) ELSE 0
    [] OTHER -> hist.bad

\* What ends a search: a command, a crash, a new tunnel to evaluate, a check
\* that keeps the profile, a persistent failure that starts another search,
\* an operation that failed and one the driver back-off interrupted.
SearchEnds ==
  \/ waiting' # waiting /\ waiting' \subseteq waiting
  \/ procs' # procs /\ pc # "kill" /\ pc' = pc
  \/ Idle /\ ("reevaluate" \in {pc', op'.ret})
  \/ Leaves({"apply"}) /\ ~Degraded
  \/ Leaves({"persistent"})
  \/ Leaves({"kill", "stale", "adopt", "start", "restore", "startBest"})
       /\ pc' = "idle"

Launches ==
  CASE SearchEnds -> 0
    [] Leaves({"start", "restore"}) /\ pc' = "lease" ->
         Capped(hist.launches, NumProfiles + 2)
    [] OTHER -> hist.launches

StopProgress ==
  CASE waiting' = waiting \cup {"start"} /\ waiting' # waiting -> "no"
    [] waiting' = waiting \cup {"stop"} /\ waiting' # waiting ->
         IF "start" \in waiting THEN "raced" ELSE "asked"
    [] Leaves({"idle"}) /\ "start" \in waiting /\ "stop" \in waiting \ waiting' ->
         "no"   \* not the order in which the gate is granted
    [] Leaves({"stopped"}) /\ "stop" \notin waiting ->
         IF hist.stop = "raced" THEN "doneRaced"
         ELSE IF hist.stop = "asked" THEN "done" ELSE hist.stop
    [] OTHER -> hist.stop

NextHist ==
  LET new == [carrier |-> Carrier, bad |-> Bad, launches |-> Launches,
              stop |-> StopProgress]
  IN  hist' = [f \in DOMAIN hist |-> IF f \in Tracked THEN new[f] ELSE hist[f]]

HistSpec ==
  Init /\ hist = InitHist /\ [][Next /\ NextHist]_<<vars, hist>>
-----------------------------------------------------------------------------
\* A success counts only for the process it was measured through: an idle
\* Agent never shows a new Engine healthy on the probes of an earlier one or
\* of a direct check (StartProfile, MarkStartupQualificationPending).
HealthIsFresh ==
  Idle /\ Running /\ ~m.pending /\ AllPassed(m.probes) => hist.carrier = "engine"

\* Automatic profile selection is bounded: until something ends the search,
\* at most one launch per profile and one rollback to the best one (CHANGELOG
\* 2.0.0 and 0.1.9; _startupAttemptedProfiles across several operations).
BoundedSearch == hist.launches <= NumProfiles + 1

\* An Engine that is still to qualify is replaced only after two checks in a
\* row failed through this very process (CHANGELOG 0.1.9), never for failures
\* counted against an earlier one.
SwitchNeedsTwoFailures ==
  [][pc = "apply" /\ pc' = "kill" /\ m.pending => hist'.bad >= 2]_<<vars, hist>>

\* A stop no start was queued before is final: once it has returned, no
\* Engine exists and none comes back until the next start.
StopSticks == hist.stop = "done" => ~m.desired /\ Live = {}
-----------------------------------------------------------------------------
(***************************************************************************)
(* A statement of the documents the code does not keep.                    *)
(***************************************************************************)
\* CHANGELOG 0.1.9: probes made through a running Engine are not reused as
\* proof that a tunnel is healthy, when the Agent turns to direct mode on the
\* results it has.
DirectModeIsProven ==
  [][Idle /\ ~m.direct /\ m'.direct => hist.carrier = "direct"]_<<vars, hist>>
=============================================================================
