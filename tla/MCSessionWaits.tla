---- MODULE MCSessionWaits ----
(* Those who wait for a session to end, or give up: a handler of the performance sessions,  *)
(* which have a stop of main and a startup measurement beside them; a handler under the     *)
(* gate while a recording or replay is stopped or saved; the stop of an exploration that    *)
(* may be playing a case; and the companion's window, which is tucked until a session ends. *)
(* A behaviour is one of the instance it starts with.                                       *)
EXTENDS PerformanceSession, CompanionOverlay

CONSTANTS c1, c2, r1, r2,
  MaxRecordings,   \* identities of recordings and replays
  MaxSaves,        \* finalizations of a recording
  MaxPlans         \* plans of target-page cases

VARIABLES
  wait,            \* the instance the behaviour is of
  rGate, rCall, lock, handler,
  rPhase, rIdentity, rCurrent, rSaved, rLatest, rDone, rAttempt, rPersisting, rCapture,
  rCancelled, rFin, rStore, pPhase, pIdentity, pReason, pRun, crashes,
  plan, used, tokens, hook, explorer, xToken, recorder, replay, cancelled, runner, poster, playedOut

MCClients == {c1, c2}

R == INSTANCE RecordReplaySession WITH
       MaxGeneration <- MaxRecordings, MaxAttempts <- MaxSaves, MaxCrashes <- 0,
       gate <- rGate, call <- rCall

\* One client, and no runner.
C == INSTANCE ControlPlane WITH
       Clients <- {c1}, Requests <- {r1, r2}, MaxRuns <- 0, MaxTokens <- MaxPlans,
       gate <- lock, call <- handler

\* What only one of them has; the coordinator is of each that uses it.
recordingVars == <<rGate, rCall, rPhase, rIdentity, rCurrent, rSaved, rLatest, rDone, rAttempt, rPersisting, rCapture,
                   rCancelled, rFin, rStore, pPhase, pIdentity, pReason, pRun, crashes>>
planVars == <<lock, handler, plan, used, tokens, hook, explorer, xToken, recorder, replay, cancelled, runner, poster,
              playedOut>>
performanceVars == <<handlerVars, managerVars, sRun, sCancelled>>
waitVars == <<wait, coordinatorVars, recordingVars, planVars, performanceVars, overlayVars>>

WaitsInit ==
  /\ wait \in {"performance", "gate", "exploration", "overlay"}
  /\ Init /\ R!Init /\ C!Init /\ OverlayInit

WaitsNext ==
  \/ wait = "performance" /\ Next /\ UNCHANGED <<wait, recordingVars, planVars, overlayVars>>
  \/ wait = "gate" /\ R!Next /\ UNCHANGED <<wait, planVars, performanceVars, overlayVars>>
  \/ wait = "exploration" /\ C!Next /\ UNCHANGED <<wait, recordingVars, performanceVars, overlayVars>>
  \/ wait = "overlay" /\ OverlayNext
       /\ UNCHANGED <<wait, coordinatorVars, recordingVars, planVars, performanceVars>>

\* Nothing that is fair is enabled initially, so an instance that is not taken asks for nothing.
WaitsSpec ==
  /\ WaitsInit /\ [][WaitsNext]_waitVars
  /\ Fairness /\ R!Fairness /\ C!Fairness /\ OverlayFairness

\* Every handler of a recording or a replay lets the gate go, whatever it waits for.
GateIsReleased == R!GateIsReleased

\* A stop of the exploration converges, also when the loop is in the middle of a target-page
\* case.
ExplorationStopConverges == C!ExplorationStopConverges
====
