---- MODULE ControlPlane ----
(***************************************************************************)
(* httpapi.API: the handlers that start and stop explorations, runner      *)
(* runs, recordings and replays, the plan of target-page cases they share, *)
(* and the two ways a session plays such a case: the exploration calls the *)
(* API from its loop, the runner process posts a token.                    *)
(*                                                                         *)
(* The managers appear by what the handlers see of them, their flags, and  *)
(* by the order in which their goroutines finish, release the device and   *)
(* clear the flags; ExplorationSession, RecordReplaySession and            *)
(* RunnerSession have their details.                                       *)
(***************************************************************************)
EXTENDS Coordinator

CONSTANTS
  Clients,      \* callers of the handlers
  Requests,     \* request ids of explorations and runs
  MaxRuns,      \* bound on the runner's runs
  MaxTokens     \* bound on the plans that are prepared

ASSUME BoundsAssumption == MaxRuns \in Nat /\ MaxTokens \in Nat
ASSUME NamesAssumption == "free" \notin Clients /\ "none" \notin Requests

VARIABLES
  gate,        \* API.executionMu
  call,        \* the handler each client is in
  plan,        \* API.monkeyTarget
  used,        \* the plans whose case is marked used
  tokens,      \* tokens minted so far
  hook,        \* the exploration has a target replay function
  explorer,    \* phase, identity, request, configuration and goroutine
  xToken,      \* the plan the exploration's loop is playing
  recorder,    \* phase and identity of the recording
  replay,      \* phase, identity, parent and plan of the replay
  cancelled,   \* the sessions whose context is cancelled
  runner,      \* phase, run, request, configuration and token of the run
  poster,      \* the target-page request each run has under way
  playedOut    \* the plans whose case was replayed to its end

planVars == <<plan, used, tokens, hook>>
sessionVars == <<explorer, xToken, recorder, replay, cancelled, runner, poster, playedOut>>
vars == <<coordinatorVars, gate, call, planVars, sessionVars>>

Runs == 1 .. MaxRuns
Tokens == 1 .. MaxTokens
NoRequest == "none"
AnyRequest == Requests \cup {NoRequest}
Phases == {"idle", "running", "stopping", "finalizing"}

Plan == [token : 0 .. MaxTokens, request : AnyRequest]
NoPlan == [token |-> 0, request |-> NoRequest]
Explorer == [phase : Phases, id : Identity \cup {NoIdentity}, request : AnyRequest,
             targets : BOOLEAN, played : BOOLEAN,
             pc : {"none", "loop", "start", "wait", "stop", "end", "release", "clear"}]
Recorder == [phase : Phases, id : Identity \cup {NoIdentity},
             pc : {"none", "capture", "release", "clear"}]
Replay == [phase : Phases, id : Identity \cup {NoIdentity},
           parent : {"none", "user", "exploration", "runner"}, token : 0 .. MaxTokens,
           reason : {"none", "completed", "aborted"},
           pc : {"none", "drive", "release", "clear"}]
Runner == [phase : Phases, run : 0 .. MaxRuns, request : AnyRequest, targets : BOOLEAN,
           token : 0 .. MaxTokens]
Call == [pc : {"idle", "start", "wipe", "measure", "kill", "replay", "wait"},
         request : AnyRequest, targets : BOOLEAN]
NoCall == [pc |-> "idle", request |-> NoRequest, targets |-> FALSE]

TypeOK ==
  /\ CoordinatorTypeOK
  /\ gate \in Clients \cup {"free"}
  /\ call \in [Clients -> Call]
  /\ plan \in Plan
  /\ used \subseteq Tokens
  /\ tokens \in 0 .. MaxTokens
  /\ hook \in BOOLEAN
  /\ explorer \in Explorer
  /\ xToken \in 0 .. MaxTokens
  /\ recorder \in Recorder
  /\ replay \in Replay
  /\ cancelled \subseteq Generations
  /\ runner \in Runner
  /\ poster \in [Runs -> BOOLEAN]
  /\ playedOut \subseteq Tokens

Init ==
  /\ CoordinatorInit
  /\ gate = "free"
  /\ call = [c \in Clients |-> NoCall]
  /\ plan = NoPlan
  /\ used = {}
  /\ tokens = 0
  /\ hook = FALSE
  /\ explorer = [phase |-> "idle", id |-> NoIdentity, request |-> NoRequest,
                 targets |-> FALSE, played |-> FALSE, pc |-> "none"]
  /\ xToken = 0
  /\ recorder = [phase |-> "idle", id |-> NoIdentity, pc |-> "none"]
  /\ replay = [phase |-> "idle", id |-> NoIdentity, parent |-> "none", token |-> 0,
               reason |-> "none", pc |-> "none"]
  /\ cancelled = {}
  /\ runner = [phase |-> "idle", run |-> 0, request |-> NoRequest, targets |-> FALSE,
               token |-> 0]
  /\ poster = [n \in Runs |-> FALSE]
  /\ playedOut = {}

ExplorerBusy == explorer.phase # "idle"
RunnerBusy == runner.phase # "idle"
RecorderBusy == recorder.phase # "idle"
ReplayBusy == replay.phase # "idle"

-----------------------------------------------------------------------------
(* The target plan.                                                        *)

\* prepareMonkeyTargetPlan: the plan of the same request and configuration is
\* kept with its token, any other start gets a new one.
Prepared(request, targets) ==
  IF ~targets THEN NoPlan
  ELSE IF plan.request = request THEN plan
  ELSE [token |-> tokens + 1, request |-> request]

CanPrepare(request, targets) == Prepared(request, targets).token <= MaxTokens

\* Mutant: a retry that keeps its plan mints a token all the same.
MintedAgain(p) == tokens + 1

Minted(p) == IF p.token > tokens THEN p.token ELSE tokens

\* releaseTargetCase: the case may be tried again, if the plan is still there.
ReleaseCase(token) == IF plan.token = token THEN used \ {token} ELSE used

-----------------------------------------------------------------------------
(* explorer.Start, seen from the handlers.                                 *)

\* The same request with the same configuration returns the state there is.
SameExploration(request, targets) ==
  explorer.request = request /\ explorer.targets = targets

ExplorerRefuses(request, targets) ==
  \/ ExplorerBusy
  \/ explorer.request = request
  \/ Owned

ExplorerStarts(request, targets) ==
  /\ Acquire("exploration")
  /\ explorer' = [phase |-> "running", id |-> NewIdentity("exploration"),
                  request |-> request, targets |-> targets, played |-> FALSE, pc |-> "loop"]
  /\ UNCHANGED <<xToken, recorder, replay, cancelled, runner, poster, playedOut>>

\* startExploration checks the runner and the recordings, not the exploration
\* itself, and binds the plan before it tries to start.
BindExploration(c, request, targets) ==
  /\ gate = "free" /\ call[c].pc = "idle"
  /\ ~RunnerBusy /\ ~RecorderBusy /\ ~ReplayBusy
  /\ CanPrepare(request, targets)
  /\ gate' = c
  /\ call' = [call EXCEPT ![c] = [pc |-> "start", request |-> request, targets |-> targets]]
  /\ plan' = Prepared(request, targets)
  /\ tokens' = Minted(plan')
  /\ hook' = targets
  /\ UNCHANGED <<coordinatorVars, used, sessionVars>>

Return(c) ==
  /\ gate' = IF gate = c THEN "free" ELSE gate
  /\ call' = [call EXCEPT ![c] = NoCall]

StartExploration(c) ==
  /\ call[c].pc = "start"
  /\ ~ExplorerRefuses(call[c].request, call[c].targets)
  /\ ExplorerStarts(call[c].request, call[c].targets)
  /\ Return(c)
  /\ UNCHANGED planVars

\* An error clears the plan and the function, whoever's they are by now.
StartExplorationRefused(c) ==
  /\ call[c].pc = "start"
  /\ ExplorerRefuses(call[c].request, call[c].targets)
  /\ IF SameExploration(call[c].request, call[c].targets)
       THEN UNCHANGED <<plan, hook>>
       ELSE plan' = NoPlan /\ hook' = FALSE
  /\ Return(c)
  /\ UNCHANGED <<coordinatorVars, used, tokens, sessionVars>>

\* The other door to the exploration, POST /v1/monkey/runs, refuses while an
\* exploration is busy; a refused start clears the plan after it has unlocked.
MonkeyExploration(c, request, targets) ==
  /\ gate = "free" /\ call[c].pc = "idle"
  /\ ~ExplorerBusy /\ ~RunnerBusy /\ ~RecorderBusy /\ ~ReplayBusy
  /\ CanPrepare(request, targets)
  /\ plan' = Prepared(request, targets)
  /\ tokens' = Minted(plan')
  /\ hook' = targets
  /\ IF ExplorerRefuses(request, targets)
       THEN /\ call' = IF targets /\ ~SameExploration(request, targets)
                         THEN [call EXCEPT ![c].pc = "wipe"] ELSE call
            /\ UNCHANGED <<coordinatorVars, sessionVars>>
       ELSE ExplorerStarts(request, targets) /\ UNCHANGED call
  /\ UNCHANGED <<gate, used>>

WipePlan(c) ==
  /\ call[c].pc = "wipe"
  /\ plan' = NoPlan
  /\ Return(c)
  /\ UNCHANGED <<coordinatorVars, used, tokens, hook, sessionVars>>

\* stopExploration does not take the gate.
StopExploration ==
  /\ ExplorerBusy
  /\ explorer' = [explorer EXCEPT !.phase = IF @ = "running" THEN "stopping" ELSE @]
  /\ cancelled' = cancelled \cup {explorer.id.generation}
  /\ UNCHANGED <<coordinatorVars, gate, call, planVars, xToken, recorder, replay, runner,
                 poster, playedOut>>

-----------------------------------------------------------------------------
(* Recordings and replays of the clients.                                  *)

AdmitsInput == gate = "free" /\ ~RunnerBusy /\ ~ExplorerBusy /\ ~RecorderBusy /\ ~ReplayBusy

StartRecording ==
  /\ AdmitsInput
  /\ Acquire("recording")
  /\ recorder' = [phase |-> "running", id |-> NewIdentity("recording"), pc |-> "capture"]
  /\ UNCHANGED <<gate, call, planVars, explorer, xToken, replay, cancelled, runner, poster,
                 playedOut>>

ReplayStarts(parent, token) ==
  replay' = [phase |-> "running", id |-> NewIdentity("replay"), parent |-> parent,
             token |-> token, reason |-> "none", pc |-> "drive"]

StartReplay ==
  /\ AdmitsInput
  /\ Acquire("replay")
  /\ ReplayStarts("user", 0)
  /\ UNCHANGED <<gate, call, planVars, explorer, xToken, recorder, cancelled, runner, poster,
                 playedOut>>

\* recordreplay.StopReplay with no owner: whatever replay there is.
CancelReplay ==
  /\ replay' = [replay EXCEPT !.phase = IF @ = "running" THEN "stopping" ELSE @]
  /\ cancelled' = cancelled \cup ({replay.id.generation} \ {0})

\* The owner of a replay stops it, a hosted one included.
StopReplay ==
  /\ gate = "free"
  /\ ReplayBusy
  /\ CancelReplay
  /\ UNCHANGED <<coordinatorVars, gate, call, planVars, explorer, xToken, recorder, runner,
                 poster, playedOut>>

-----------------------------------------------------------------------------
(* Performance sessions, which only the coordinator keeps apart from other *)
(* users of the device, and startup measurements, which hold the gate.     *)

StartPerformance ==
  /\ gate = "free"
  /\ Acquire("performance")
  /\ UNCHANGED <<gate, call, planVars, sessionVars>>

PerformanceEnds ==
  /\ active.kind = "performance"
  /\ Release(active)
  /\ UNCHANGED <<gate, call, planVars, sessionVars>>

\* The measurement stops and launches the app under test again and again.
MeasureStartup(c) ==
  /\ AdmitsInput /\ call[c].pc = "idle"
  /\ Acquire("startup")
  /\ gate' = c
  /\ call' = [call EXCEPT ![c].pc = "measure"]
  /\ UNCHANGED <<planVars, sessionVars>>

StartupMeasured(c) ==
  /\ call[c].pc = "measure"
  /\ Release(active)
  /\ Return(c)
  /\ UNCHANGED <<planVars, sessionVars>>

-----------------------------------------------------------------------------
(* How the sessions of recordreplay end: the device is released, then the  *)
(* flag is cleared.                                                        *)

RecorderEnds ==
  /\ recorder.pc = "capture"
  /\ recorder' = [recorder EXCEPT !.phase = "finalizing", !.pc = "release"]
  /\ UNCHANGED <<coordinatorVars, gate, call, planVars, explorer, xToken, replay, cancelled,
                 runner, poster, playedOut>>

RecorderReleases ==
  /\ recorder.pc = "release"
  /\ Release(recorder.id)
  /\ recorder' = [recorder EXCEPT !.pc = "clear"]
  /\ UNCHANGED <<gate, call, planVars, explorer, xToken, replay, cancelled, runner, poster,
                 playedOut>>

RecorderClears ==
  /\ recorder.pc = "clear"
  /\ recorder' = [recorder EXCEPT !.phase = "idle", !.pc = "none"]
  /\ UNCHANGED <<coordinatorVars, gate, call, planVars, explorer, xToken, replay, cancelled,
                 runner, poster, playedOut>>

ReplayEnds(reason) ==
  /\ replay.pc = "drive"
  /\ replay' = [replay EXCEPT !.phase = "finalizing", !.reason = reason, !.pc = "release"]
  /\ playedOut' = IF reason = "completed" THEN playedOut \cup ({replay.token} \ {0})
                  ELSE playedOut
  /\ UNCHANGED <<coordinatorVars, gate, call, planVars, explorer, xToken, recorder, cancelled,
                 runner, poster>>

ReplayStopped == replay.id.generation \in cancelled /\ ReplayEnds("aborted")

ReplayReleases ==
  /\ replay.pc = "release"
  /\ Release(replay.id)
  /\ replay' = [replay EXCEPT !.pc = "clear"]
  /\ UNCHANGED <<gate, call, planVars, explorer, xToken, recorder, cancelled, runner, poster,
                 playedOut>>

ReplayClears ==
  /\ replay.pc = "clear"
  /\ replay' = [replay EXCEPT !.phase = "idle", !.pc = "none"]
  /\ UNCHANGED <<coordinatorVars, gate, call, planVars, explorer, xToken, recorder, cancelled,
                 runner, poster, playedOut>>

-----------------------------------------------------------------------------
(* The exploration's loop: replayTargetPage and playPreparedTarget, which  *)
(* runs outside the gate.                                                  *)

Cancelled == explorer.id.generation \in cancelled

\* Mutant: a cancelled target does not stop the loop.
NextPcIgnoresCancel == "loop"

\* What the loop does once the target has returned.
NextPc == IF Cancelled THEN "end" ELSE "loop"

LooksForTarget == explorer.pc = "loop" /\ hook /\ explorer.targets /\ ~explorer.played

TakeTarget ==
  /\ LooksForTarget
  /\ plan # NoPlan
  /\ plan.token \notin used
  /\ used' = used \cup {plan.token}
  /\ xToken' = plan.token
  /\ explorer' = [explorer EXCEPT !.pc = "start"]
  /\ UNCHANGED <<coordinatorVars, gate, call, plan, tokens, hook, recorder, replay, cancelled,
                 runner, poster, playedOut>>

\* Without a plan, or with its case used, the target counts as played.
SkipTarget ==
  /\ LooksForTarget
  /\ plan = NoPlan \/ plan.token \in used
  /\ explorer' = [explorer EXCEPT !.played = TRUE, !.pc = NextPc]
  /\ UNCHANGED <<coordinatorVars, gate, call, planVars, xToken, recorder, replay, cancelled,
                 runner, poster, playedOut>>

StartTarget ==
  /\ explorer.pc = "start"
  /\ ~RecorderBusy /\ ~ReplayBusy
  /\ AcquireHosted(explorer.id, "replay")
  /\ ReplayStarts("exploration", xToken)
  /\ explorer' = [explorer EXCEPT !.pc = "wait"]
  /\ UNCHANGED <<gate, call, planVars, xToken, recorder, cancelled, runner, poster, playedOut>>

\* The loop goes on with a case played to its end, or given back.
TargetReturns(completed) ==
  /\ used' = IF completed THEN used ELSE ReleaseCase(xToken)
  /\ explorer' = [explorer EXCEPT !.played = completed, !.pc = NextPc]
  /\ xToken' = 0
  /\ UNCHANGED <<coordinatorVars, gate, call, plan, tokens, hook, recorder, replay, cancelled,
                 runner, poster, playedOut>>

\* Another replay is busy, or the app under test cannot be brought forward.
StartTargetFails == explorer.pc = "start" /\ TargetReturns(FALSE)

TargetEnds ==
  /\ explorer.pc = "wait"
  /\ ~ReplayBusy
  /\ TargetReturns(replay.reason = "completed")

\* The exploration is stopped, or the case has taken five minutes.
AbandonTarget ==
  /\ explorer.pc = "wait"
  /\ CancelReplay
  /\ explorer' = [explorer EXCEPT !.pc = "stop"]
  /\ UNCHANGED <<coordinatorVars, gate, call, planVars, xToken, recorder, runner, poster,
                 playedOut>>

\* Mutant: stopPreparedTarget does not wait for the replay.
TargetAbandonedAtOnce ==
  /\ explorer.pc = "stop"
  /\ TargetReturns(replay.reason = "completed")

\* Mutant: a case that was stopped is given back, completed or not.
TargetAbandonedIncomplete ==
  /\ explorer.pc = "stop"
  /\ replay.phase \notin {"running", "stopping"}
  /\ TargetReturns(FALSE)

\* A case that completed while it was being stopped stays used.
TargetAbandoned ==
  /\ explorer.pc = "stop"
  /\ replay.phase \notin {"running", "stopping"}
  /\ TargetReturns(replay.reason = "completed")

ExplorerEnds ==
  /\ explorer.pc \in {"loop", "end"}
  /\ explorer' = [explorer EXCEPT !.phase = "finalizing", !.pc = "release"]
  /\ UNCHANGED <<coordinatorVars, gate, call, planVars, xToken, recorder, replay, cancelled,
                 runner, poster, playedOut>>

ExplorerReleases ==
  /\ explorer.pc = "release"
  /\ Release(explorer.id)
  /\ explorer' = [explorer EXCEPT !.pc = "clear"]
  /\ UNCHANGED <<gate, call, planVars, xToken, recorder, replay, cancelled, runner, poster,
                 playedOut>>

ExplorerClears ==
  /\ explorer.pc = "clear"
  /\ explorer' = [explorer EXCEPT !.phase = "idle", !.pc = "none"]
  /\ UNCHANGED <<coordinatorVars, gate, call, planVars, xToken, recorder, replay, cancelled,
                 runner, poster, playedOut>>

-----------------------------------------------------------------------------
(* The runner, its process and the handler that stops it.                  *)

\* Mutant: a run is started beside an exploration.
AdmitsRunBesideExplorer(c) ==
  /\ gate = "free" /\ call[c].pc = "idle"
  /\ ~RecorderBusy /\ ~ReplayBusy

AdmitsRun(c) ==
  /\ gate = "free" /\ call[c].pc = "idle"
  /\ ~ExplorerBusy /\ ~RecorderBusy /\ ~ReplayBusy

StartRunner(c, request, targets) ==
  /\ AdmitsRun(c)
  /\ ~RunnerBusy /\ runner.request # request /\ runner.run < MaxRuns
  /\ CanPrepare(request, targets)
  /\ plan' = Prepared(request, targets)
  /\ tokens' = Minted(plan')
  /\ runner' = [phase |-> "running", run |-> runner.run + 1, request |-> request,
                targets |-> targets, token |-> plan'.token]
  /\ UNCHANGED <<coordinatorVars, gate, call, used, hook, explorer, xToken, recorder, replay,
                 cancelled, poster, playedOut>>

\* A retry of the start that is running succeeds, and binds its plan again.
RetryRunner(c) ==
  /\ AdmitsRun(c)
  /\ runner.phase = "running"
  /\ CanPrepare(runner.request, runner.targets)
  /\ plan' = Prepared(runner.request, runner.targets)
  /\ tokens' = Minted(plan')
  /\ UNCHANGED <<coordinatorVars, gate, call, used, hook, sessionVars>>

\* The process ends, of itself or killed; then its artifacts are sealed.
RunnerAdvances ==
  /\ RunnerBusy
  /\ runner' = [runner EXCEPT !.phase = IF @ = "running" THEN "finalizing" ELSE "idle"]
  /\ UNCHANGED <<coordinatorVars, gate, call, planVars, explorer, xToken, recorder, replay,
                 cancelled, poster, playedOut>>

\* The plan's session is under way: the test runMonkeyTargetCase makes.
PlanIsActive ==
  \/ runner.phase = "running" /\ runner.request = plan.request
  \/ ExplorerBusy /\ explorer.request = plan.request

\* The run posts its token; the request may be handled after the run's end.
PostTarget(n) ==
  /\ gate = "free"
  /\ runner.run = n /\ ~poster[n]
  /\ plan # NoPlan /\ plan.token = runner.token /\ plan.token \notin used
  /\ PlanIsActive
  /\ ~RecorderBusy /\ ~ReplayBusy
  /\ Acquire("replay")
  /\ ReplayStarts("runner", plan.token)
  /\ used' = used \cup {plan.token}
  /\ poster' = [poster EXCEPT ![n] = TRUE]
  /\ UNCHANGED <<gate, call, plan, tokens, hook, explorer, xToken, recorder, cancelled, runner,
                 playedOut>>

PostReturns(n) ==
  /\ poster[n]
  /\ ~ReplayBusy
  /\ poster' = [poster EXCEPT ![n] = FALSE]
  /\ UNCHANGED <<coordinatorVars, gate, call, planVars, explorer, xToken, recorder, replay,
                 cancelled, runner, playedOut>>

\* The process is gone, or the case has taken five minutes.
PostIsDropped(n) ==
  /\ poster[n]
  /\ CancelReplay
  /\ poster' = [poster EXCEPT ![n] = FALSE]
  /\ UNCHANGED <<coordinatorVars, gate, call, planVars, explorer, xToken, recorder, runner,
                 playedOut>>

\* Mutant: the handler stops the replay whether a run was active or not.
StopRunnerAlways(c) ==
  /\ gate = "free" /\ call[c].pc = "idle"
  /\ gate' = c
  /\ call' = [call EXCEPT ![c].pc = "kill"]
  /\ UNCHANGED <<coordinatorVars, planVars, sessionVars>>

\* finishRunnerStop, for a run that is running or finalizing.
StopRunner(c) ==
  /\ gate = "free" /\ call[c].pc = "idle"
  /\ RunnerBusy
  /\ gate' = c
  /\ call' = [call EXCEPT ![c].pc = "kill"]
  /\ UNCHANGED <<coordinatorVars, planVars, sessionVars>>

RunnerIsDown(c) ==
  /\ call[c].pc = "kill"
  /\ runner.phase # "running"
  /\ call' = [call EXCEPT ![c].pc = "replay"]
  /\ UNCHANGED <<coordinatorVars, gate, planVars, sessionVars>>

RunnerStopFails(c) ==
  /\ call[c].pc = "kill"
  /\ runner.phase = "running"
  /\ Return(c)
  /\ UNCHANGED <<coordinatorVars, planVars, sessionVars>>

StopRunnerReplay(c) ==
  /\ call[c].pc = "replay"
  /\ ReplayBusy
  /\ CancelReplay
  /\ call' = [call EXCEPT ![c].pc = "wait"]
  /\ UNCHANGED <<coordinatorVars, gate, planVars, explorer, xToken, recorder, runner, poster,
                 playedOut>>

\* It waits three seconds and goes on, whether the replay has ended or not.
StopRunnerReturns(c) ==
  /\ \/ call[c].pc = "wait"
     \/ call[c].pc = "replay" /\ ~ReplayBusy
  /\ plan' = NoPlan
  /\ Return(c)
  /\ UNCHANGED <<coordinatorVars, used, tokens, hook, sessionVars>>

-----------------------------------------------------------------------------

Handlers(c) ==
  \/ \E request \in Requests, targets \in BOOLEAN :
       \/ BindExploration(c, request, targets)
       \/ MonkeyExploration(c, request, targets)
       \/ StartRunner(c, request, targets)
  \/ StartExploration(c)
  \/ StartExplorationRefused(c)
  \/ WipePlan(c)
  \/ RetryRunner(c)
  \/ StopRunner(c)
  \/ RunnerIsDown(c)
  \/ RunnerStopFails(c)
  \/ StopRunnerReplay(c)
  \/ StopRunnerReturns(c)
  \/ MeasureStartup(c)
  \/ StartupMeasured(c)

ExplorerStep ==
  \/ TakeTarget
  \/ SkipTarget
  \/ StartTarget
  \/ StartTargetFails
  \/ TargetEnds
  \/ AbandonTarget
  \/ TargetAbandoned
  \/ ExplorerEnds
  \/ ExplorerReleases
  \/ ExplorerClears

ReplayStep == ReplayStopped \/ ReplayReleases \/ ReplayClears

Next ==
  \/ \E c \in Clients : Handlers(c)
  \/ StopExploration
  \/ StartRecording
  \/ StartReplay
  \/ StopReplay
  \/ StartPerformance
  \/ PerformanceEnds
  \/ RecorderEnds
  \/ RecorderReleases
  \/ RecorderClears
  \/ ReplayEnds("completed")
  \/ ReplayStep
  \/ ExplorerStep
  \/ RunnerAdvances
  \/ \E n \in Runs : PostTarget(n) \/ PostReturns(n) \/ PostIsDropped(n)

Spec == Init /\ [][Next]_vars

\* The loop does not stop between two steps and its duration is bounded; a
\* cancelled replay ends at its next wait and then runs its finalizer.
Fairness == WF_vars(ExplorerStep) /\ WF_vars(ReplayStep)

FairSpec == Spec /\ Fairness

-----------------------------------------------------------------------------
(* Properties.                                                             *)

ExplorerDrives == explorer.pc \in {"loop", "start", "wait", "stop", "end"}

\* The sessions that touch the screen of their own accord.  The replay of an
\* exploration's or a run's case belongs to its session.
InputSessions ==
  (IF ExplorerDrives THEN {"exploration"} ELSE {})
  \cup (IF recorder.pc = "capture" THEN {"recording"} ELSE {})
  \cup (IF runner.phase = "running" THEN {"runner"} ELSE {})
  \cup (IF \E c \in Clients : call[c].pc = "measure" THEN {"startup"} ELSE {})
  \cup (IF replay.pc = "drive"
          THEN {IF replay.parent = "user" THEN "replay" ELSE replay.parent} ELSE {})

\* The runner has no identity of the coordinator: only the gate, and what each
\* handler checks under it, keeps it apart from the exploration, the recording,
\* the replays and a startup measurement, and a case outliving its run apart from the next session.
OneInputSession ==
  \A a, b \in InputSessions : a = b

\* A case replayed for the exploration drives the device only while the loop
\* waits for it and the exploration still owns the device that hosts it:
\* playPreparedTarget returns from a stop or a deadline only when the replay has
\* come to rest, so the loop and the case never touch the screen together.
TargetReplayInsideHost ==
  (replay.pc = "drive" /\ replay.parent = "exploration") =>
    /\ explorer.pc \in {"wait", "stop"}
    /\ active = explorer.id
    /\ hosted = replay.id

\* The handler that stops a run also cancels the replay it finds, by no name:
\* that is never the replay of a client.
StopRunnerSparesUserReplay ==
  \A c \in Clients : call[c].pc \in {"kill", "replay"} /\ ReplayBusy => replay.parent # "user"

\* A case that was replayed to its end is not replayed again under its token,
\* however stops and deadlines race with the end of the replay.
CaseOncePerToken ==
  replay.pc = "drive" => replay.token \notin playedOut

\* A stop of the exploration converges, also when the loop is in the middle of
\* a target-page case.
ExplorationStopConverges == explorer.phase = "stopping" ~> explorer.phase = "idle"

\* What docs/api/monkey-api.md says of a start that is refused: the session that
\* runs and its target-page plan stay as they were.
RejectedStartKeepsPlan ==
  gate = "free" /\ explorer.phase = "running" /\ explorer.targets => plan.request = explorer.request
====
