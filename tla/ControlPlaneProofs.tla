---- MODULE ControlPlaneProofs ----
(***************************************************************************)
(* Proofs about ControlPlane, for any clients, requests, identities, runs  *)
(* and plans: which session touches the screen, and which cases are        *)
(* replayed.                                                               *)
(*                                                                         *)
(* Two mechanisms keep the sessions apart and neither covers all of them.  *)
(* The coordinator knows who drives the device (DriverOwns), but not the   *)
(* runner, which is kept apart by what the handlers check under the gate   *)
(* (RunnerIsAlone).  The two meet in the exploration, which starts in two  *)
(* steps and holds the gate between them (GateIsHeld), and in a replay,    *)
(* whose owner is a client, the exploration that hosts it or the runner.   *)
(***************************************************************************)
EXTENDS ControlPlane, CoordinatorProofs

Holding == {"start", "measure", "kill", "replay", "wait"}
Drives == {"loop", "start", "wait", "stop", "end"}
Hosting == {"wait", "stop"}

\* The handlers that are under way hold the gate, but for the one that wipes the plan.
GateIsHeld == \A c \in Clients : gate = c <=> call[c].pc \in Holding

\* The flags of a session say where its goroutine is.
FlagsFollow ==
  /\ explorer.phase = "idle" <=> explorer.pc = "none"
  /\ explorer.phase \in {"running", "stopping"} <=> explorer.pc \in Drives
  /\ recorder.phase = "idle" <=> recorder.pc = "none"
  /\ replay.phase = "idle" <=> replay.pc = "none"
  /\ replay.phase \in {"running", "stopping"} <=> replay.pc = "drive"

\* The coordinator knows who drives.
DriverOwns ==
  /\ explorer.pc # "none" => explorer.id.kind = "exploration"
  /\ explorer.pc \in Drives \cup {"release"} => active = explorer.id
  /\ recorder.pc \in {"capture", "release"} => active = recorder.id /\ recorder.id.kind = "recording"
  /\ replay.pc \in {"drive", "release"} => replay.id.kind = "replay" /\ replay.parent # "none"
  /\ replay.pc = "drive" /\ replay.parent # "exploration" => active = replay.id
  /\ \A c \in Clients : call[c].pc = "measure" => active.kind = "startup"

\* The runner is kept apart by what the handlers check.
RunnerIsAlone ==
  RunnerBusy =>
    /\ ~ExplorerBusy /\ ~RecorderBusy
    /\ ReplayBusy => replay.parent = "runner"
    /\ \A c \in Clients : call[c].pc \notin {"start", "measure"}

\* A case that is taken, driven or played out is marked used.
CasesAreUsed ==
  /\ plan # NoPlan => plan.token # 0
  /\ playedOut \subseteq used
  /\ replay.pc = "drive" /\ replay.token # 0 => replay.token \in used \ playedOut
  /\ explorer.pc = "start" => xToken \in used \ playedOut
  /\ explorer.pc \in Hosting =>
       /\ xToken \in used
       /\ replay.parent = "exploration" /\ replay.token = xToken
       /\ xToken \in playedOut => replay.pc # "drive" /\ replay.reason = "completed"

PlaneInv ==
  /\ TypeOK
  /\ CoordinatorInv
  /\ GateIsHeld
  /\ FlagsFollow
  /\ DriverOwns
  /\ TargetReplayInsideHost
  /\ RunnerIsAlone
  /\ StopRunnerSparesUserReplay
  /\ CasesAreUsed
-----------------------------------------------------------------------------
(* Small facts.                                                            *)

\* The identity Acquire mints is the new owner.
LEMMA AcquireMints ==
  ASSUME CoordinatorTypeOK, CoordinatorInv, NEW kind \in Kinds, Acquire(kind)
  PROVE  /\ CoordinatorTypeOK' /\ CoordinatorInv'
         /\ active = NoIdentity /\ hosted' = NoIdentity
         /\ NewIdentity(kind) \in Identity /\ NewIdentity(kind).kind = kind
         /\ active' = NewIdentity(kind)
BY AcquireTakesFreeDevice DEF NewIdentity, Session, Identity

\* The identity AcquireHosted mints is the guest of the owner.
LEMMA AcquireHostedMints ==
  ASSUME CoordinatorTypeOK, CoordinatorInv, NEW kind \in Kinds, NEW parent,
         AcquireHosted(parent, kind)
  PROVE  /\ CoordinatorTypeOK' /\ CoordinatorInv'
         /\ active = parent /\ active' = active
         /\ NewIdentity(kind) \in Identity /\ NewIdentity(kind).kind = kind
         /\ hosted' = NewIdentity(kind)
BY AcquireHostedKeepsOwner
   DEF NewIdentity, Session, Identity, AcquireHosted, SameOwner

\* A plan that can be prepared is a plan, and its token is minted.
LEMMA PlanIsTyped ==
  ASSUME TypeOK, NEW request \in AnyRequest, NEW targets \in BOOLEAN,
         CanPrepare(request, targets)
  PROVE  /\ Prepared(request, targets) \in Plan
         /\ Minted(Prepared(request, targets)) \in 0 .. MaxTokens
BY BoundsAssumption DEF TypeOK, CanPrepare, Prepared, Minted, Plan, NoPlan, AnyRequest

\* A plan with a case has a token.
LEMMA PlanHasToken ==
  ASSUME TypeOK, plan # NoPlan => plan.token # 0, NEW request, NEW targets
  PROVE  Prepared(request, targets) # NoPlan => Prepared(request, targets).token # 0
BY BoundsAssumption DEF TypeOK, Prepared, Plan, NoPlan, AnyRequest, NoRequest

\* While the gate is free no handler is between two steps of its own, but for the
\* one that is about to wipe the plan.
LEMMA FreeGate ==
  ASSUME GateIsHeld, gate = "free"
  PROVE  \A c \in Clients : call[c].pc \notin Holding
BY NamesAssumption DEF GateIsHeld

\* A handler that returns gives the gate back.
LEMMA ReturnKeepsGate ==
  ASSUME TypeOK, GateIsHeld, NEW c \in Clients, Return(c)
  PROVE  /\ GateIsHeld'
         /\ gate' \in Clients \cup {"free"} /\ call' \in [Clients -> Call]
         /\ \A d \in Clients : call'[d] = IF d = c THEN NoCall ELSE call[d]
<1>1. \A d \in Clients : call'[d] = IF d = c THEN NoCall ELSE call[d]
  BY DEF TypeOK, Return
<1>2. GateIsHeld'
  BY <1>1, NamesAssumption DEF GateIsHeld, Return, NoCall, Holding
<1>3. gate' \in Clients \cup {"free"} /\ call' \in [Clients -> Call]
  BY DEF TypeOK, Return, Call, NoCall, AnyRequest, NoRequest
<1> QED
  BY <1>1, <1>2, <1>3

\* The initial state has no session and no handler.
LEMMA PlaneInitially == Init => PlaneInv
<1> SUFFICES ASSUME Init PROVE PlaneInv
  OBVIOUS
<1>1. CoordinatorTypeOK /\ CoordinatorInv
  BY CoordinatorInitially DEF Init
<1>2. TypeOK
  <2>1. 0 \in 0 .. MaxTokens /\ 0 \in 0 .. MaxRuns
    BY BoundsAssumption
  <2>2. /\ NoPlan \in Plan /\ NoCall \in Call
        /\ explorer \in Explorer /\ recorder \in Recorder
        /\ replay \in Replay /\ runner \in Runner
    BY <2>1
       DEF Init, Call, NoCall, Plan, NoPlan, AnyRequest, NoRequest, Phases, Explorer,
           Recorder, Replay, Runner
  <2> QED
    BY <1>1, <2>1, <2>2 DEF Init, TypeOK
<1>3. GateIsHeld /\ FlagsFollow /\ DriverOwns
  BY NamesAssumption
     DEF Init, GateIsHeld, FlagsFollow, DriverOwns, NoCall, Holding, Drives
<1>4. TargetReplayInsideHost /\ RunnerIsAlone /\ StopRunnerSparesUserReplay /\ CasesAreUsed
  BY DEF Init, TargetReplayInsideHost, RunnerIsAlone, StopRunnerSparesUserReplay,
         CasesAreUsed, RunnerBusy, ReplayBusy, NoCall, Hosting
<1> QED
  BY <1>1, <1>2, <1>3, <1>4 DEF PlaneInv

-----------------------------------------------------------------------------
(* The handlers that neither start a session nor touch one.                *)

\* What such a handler may do to the gate, the calls and the plan without harm:
\* no start is under way beside a run, and no stop of a run begins beside the
\* replay of a client.
LEMMA HandlersKeepPlane ==
  ASSUME PlaneInv, TypeOK', GateIsHeld', UNCHANGED <<coordinatorVars, used, sessionVars>>,
         plan' # NoPlan => plan'.token # 0,
         \A d \in Clients :
           /\ call'[d].pc = "measure" => call[d].pc = "measure"
           /\ call'[d].pc = "start" => call[d].pc = "start" \/ ~RunnerBusy
           /\ call'[d].pc \in {"kill", "replay"} => call[d].pc \in {"kill", "replay"} \/ RunnerBusy
  PROVE  PlaneInv'
<1>1. UNCHANGED <<generation, active, hosted, used, explorer, xToken, recorder, replay, runner, playedOut>>
  BY DEF coordinatorVars, sessionVars
<1>2. CoordinatorInv' /\ FlagsFollow' /\ TargetReplayInsideHost'
  BY <1>1 DEF PlaneInv, CoordinatorInv, Owned, FlagsFollow, TargetReplayInsideHost
<1>3. DriverOwns' /\ CasesAreUsed'
  BY <1>1 DEF PlaneInv, DriverOwns, CasesAreUsed
<1>4. RunnerIsAlone'
  BY <1>1 DEF PlaneInv, RunnerIsAlone, RunnerBusy, ExplorerBusy, RecorderBusy, ReplayBusy
<1>5. StopRunnerSparesUserReplay'
  BY <1>1 DEF PlaneInv, RunnerIsAlone, StopRunnerSparesUserReplay, RunnerBusy, ReplayBusy
<1> QED
  BY <1>2, <1>3, <1>4, <1>5 DEF PlaneInv

\* startExploration binds the plan and keeps the gate for the start.
LEMMA BindKeepsPlane ==
  ASSUME PlaneInv, NEW c \in Clients, NEW request \in Requests, NEW targets \in BOOLEAN,
         BindExploration(c, request, targets)
  PROVE  PlaneInv'
<1>1. plan' \in Plan /\ tokens' \in 0 .. MaxTokens /\ (plan' # NoPlan => plan'.token # 0)
  BY PlanIsTyped, PlanHasToken DEF PlaneInv, CasesAreUsed, BindExploration, AnyRequest
<1>2. \A d \in Clients : call'[d].pc = IF d = c THEN "start" ELSE call[d].pc
  BY DEF PlaneInv, TypeOK, BindExploration
<1>3. TypeOK'
  BY <1>1
     DEF PlaneInv, TypeOK, CoordinatorTypeOK, BindExploration, coordinatorVars, sessionVars,
         Call, AnyRequest
<1>4. GateIsHeld'
  BY <1>2, NamesAssumption DEF PlaneInv, GateIsHeld, BindExploration, Holding
<1> QED
  BY <1>1, <1>2, <1>3, <1>4, HandlersKeepPlane DEF BindExploration

\* A refused start and the one that wipes the plan return.
LEMMA RefusalKeepsPlane ==
  ASSUME PlaneInv, NEW c \in Clients, StartExplorationRefused(c) \/ WipePlan(c)
  PROVE  PlaneInv'
<1>1. /\ plan' \in {plan, NoPlan} /\ hook' \in {hook, FALSE}
      /\ Return(c)
      /\ UNCHANGED <<coordinatorVars, used, tokens, sessionVars>>
  BY DEF StartExplorationRefused, WipePlan
<1>2. /\ GateIsHeld'
      /\ gate' \in Clients \cup {"free"} /\ call' \in [Clients -> Call]
      /\ \A d \in Clients : call'[d] = IF d = c THEN NoCall ELSE call[d]
  BY <1>1, ReturnKeepsGate DEF PlaneInv
<1>3. NoPlan \in Plan
  BY BoundsAssumption DEF NoPlan, Plan, AnyRequest, NoRequest
<1>4. TypeOK'
  BY <1>1, <1>2, <1>3
     DEF PlaneInv, TypeOK, CoordinatorTypeOK, coordinatorVars, sessionVars
<1>5. plan' # NoPlan => plan'.token # 0
  BY <1>1 DEF PlaneInv, CasesAreUsed
<1> QED
  BY <1>1, <1>2, <1>4, <1>5, HandlersKeepPlane DEF NoCall

\* A retry of the runner's start binds the plan again.
LEMMA RetryKeepsPlane ==
  ASSUME PlaneInv, NEW c \in Clients, RetryRunner(c)
  PROVE  PlaneInv'
<1>1. runner.request \in AnyRequest /\ runner.targets \in BOOLEAN
  BY DEF PlaneInv, TypeOK, Runner
<1>2. plan' \in Plan /\ tokens' \in 0 .. MaxTokens /\ (plan' # NoPlan => plan'.token # 0)
  BY <1>1, PlanIsTyped, PlanHasToken DEF PlaneInv, CasesAreUsed, RetryRunner
<1>3. TypeOK'
  BY <1>2
     DEF PlaneInv, TypeOK, CoordinatorTypeOK, RetryRunner, coordinatorVars, sessionVars
<1>4. GateIsHeld'
  BY DEF PlaneInv, GateIsHeld, RetryRunner
<1> QED
  BY <1>2, <1>3, <1>4, HandlersKeepPlane DEF RetryRunner

\* The handler that stops a run takes the gate while a run is busy, looks whether
\* the process has gone, and returns.
LEMMA StopRunnerKeepsPlane ==
  ASSUME PlaneInv, NEW c \in Clients,
         StopRunner(c) \/ RunnerIsDown(c) \/ RunnerStopFails(c) \/ StopRunnerReturns(c)
  PROVE  PlaneInv'
<1>1. CASE StopRunner(c)
  <2>1. \A d \in Clients : call'[d] = IF d = c THEN [call[c] EXCEPT !.pc = "kill"] ELSE call[d]
    BY <1>1 DEF PlaneInv, TypeOK, StopRunner
  <2>2. TypeOK'
    BY <1>1
       DEF PlaneInv, TypeOK, CoordinatorTypeOK, StopRunner, coordinatorVars, planVars,
           sessionVars, Call
  <2>3. \A d \in Clients : call'[d].pc = IF d = c THEN "kill" ELSE call[d].pc
    BY <2>1 DEF PlaneInv, TypeOK, Call
  <2>4. GateIsHeld'
    BY <1>1, <2>3, NamesAssumption DEF PlaneInv, GateIsHeld, StopRunner, Holding
  <2> QED
    BY <1>1, <2>2, <2>3, <2>4, HandlersKeepPlane DEF PlaneInv, CasesAreUsed, StopRunner, planVars
<1>2. CASE RunnerIsDown(c)
  <2>1. \A d \in Clients : call'[d] = IF d = c THEN [call[c] EXCEPT !.pc = "replay"] ELSE call[d]
    BY <1>2 DEF PlaneInv, TypeOK, RunnerIsDown
  <2>2. TypeOK'
    BY <1>2
       DEF PlaneInv, TypeOK, CoordinatorTypeOK, RunnerIsDown, coordinatorVars, planVars,
           sessionVars, Call
  <2>3. \A d \in Clients : call'[d].pc = IF d = c THEN "replay" ELSE call[d].pc
    BY <2>1 DEF PlaneInv, TypeOK, Call
  <2>4. GateIsHeld'
    BY <1>2, <2>3 DEF PlaneInv, GateIsHeld, RunnerIsDown, Holding
  <2> QED
    BY <1>2, <2>2, <2>3, <2>4, HandlersKeepPlane
       DEF PlaneInv, CasesAreUsed, RunnerIsDown, planVars
<1>3. CASE RunnerStopFails(c) \/ StopRunnerReturns(c)
  <2>1. /\ plan' \in {plan, NoPlan}
        /\ Return(c)
        /\ UNCHANGED <<coordinatorVars, used, tokens, hook, sessionVars>>
    BY <1>3 DEF RunnerStopFails, StopRunnerReturns, planVars
  <2>2. /\ GateIsHeld'
        /\ gate' \in Clients \cup {"free"} /\ call' \in [Clients -> Call]
        /\ \A d \in Clients : call'[d] = IF d = c THEN NoCall ELSE call[d]
    BY <2>1, ReturnKeepsGate DEF PlaneInv
  <2>3. NoPlan \in Plan
    BY BoundsAssumption DEF NoPlan, Plan, AnyRequest, NoRequest
  <2>4. TypeOK'
    BY <2>1, <2>2, <2>3
       DEF PlaneInv, TypeOK, CoordinatorTypeOK, coordinatorVars, sessionVars
  <2>5. plan' # NoPlan => plan'.token # 0
    BY <2>1 DEF PlaneInv, CasesAreUsed
  <2> QED
    BY <2>1, <2>2, <2>4, <2>5, HandlersKeepPlane DEF NoCall
<1> QED
  BY <1>1, <1>2, <1>3

-----------------------------------------------------------------------------
(* The steps that start a session.                                         *)

\* On a free device nobody drives.
LEMMA FreeDevice ==
  ASSUME PlaneInv, active = NoIdentity
  PROVE  /\ explorer.pc \notin Drives \cup {"release"}
         /\ recorder.pc \notin {"capture", "release"}
         /\ replay.pc # "drive"
         /\ \A c \in Clients : call[c].pc # "measure"
<1>1. NoIdentity.kind = "none"
  BY DEF NoIdentity
<1>2. explorer.pc \notin Drives \cup {"release"}
  BY <1>1 DEF PlaneInv, DriverOwns, Drives
<1>3. recorder.pc \notin {"capture", "release"} /\ \A c \in Clients : call[c].pc # "measure"
  BY <1>1 DEF PlaneInv, DriverOwns
<1>4. replay.pc # "drive"
  BY <1>1, <1>2 DEF PlaneInv, DriverOwns, TargetReplayInsideHost, Drives
<1> QED
  BY <1>2, <1>3, <1>4

\* explorer.Start, for a handler that keeps the plan's case as it is: no run, no
\* recording and no replay is there.
LEMMA ExplorerStartsKeepsPlane ==
  ASSUME PlaneInv, NEW request \in AnyRequest, NEW targets \in BOOLEAN,
         ExplorerStarts(request, targets),
         explorer.phase = "idle", ~RunnerBusy,
         gate' \in Clients \cup {"free"}, call' \in [Clients -> Call], GateIsHeld',
         \A d \in Clients : call'[d].pc \in {call[d].pc, "idle", "wipe"},
         plan' \in Plan, plan' # NoPlan => plan'.token # 0,
         used' = used, tokens' \in 0 .. MaxTokens, hook' \in BOOLEAN
  PROVE  PlaneInv'
<1>1. /\ CoordinatorTypeOK' /\ CoordinatorInv'
      /\ active = NoIdentity
      /\ NewIdentity("exploration") \in Identity
      /\ NewIdentity("exploration").kind = "exploration"
      /\ active' = NewIdentity("exploration")
  BY AcquireMints DEF PlaneInv, TypeOK, ExplorerStarts, Kinds
<1>2. /\ explorer' = [phase |-> "running", id |-> active', request |-> request,
                      targets |-> targets, played |-> FALSE, pc |-> "loop"]
      /\ UNCHANGED <<xToken, recorder, replay, cancelled, runner, poster, playedOut>>
  BY <1>1 DEF ExplorerStarts
<1>3. /\ recorder.pc \notin {"capture", "release"}
      /\ replay.pc # "drive"
      /\ \A c \in Clients : call[c].pc # "measure"
  BY <1>1, FreeDevice
<1>4. TypeOK'
  <2>1. explorer' \in Explorer
    BY <1>1, <1>2 DEF Explorer, Phases
  <2> QED
    BY <1>1, <1>2, <2>1 DEF PlaneInv, TypeOK
<1>5. FlagsFollow' /\ DriverOwns' /\ TargetReplayInsideHost'
  BY <1>1, <1>2, <1>3 DEF PlaneInv, FlagsFollow, DriverOwns, TargetReplayInsideHost, Drives
<1>6. RunnerIsAlone' /\ StopRunnerSparesUserReplay'
  BY <1>2
     DEF PlaneInv, RunnerIsAlone, StopRunnerSparesUserReplay, RunnerBusy, ReplayBusy
<1>7. CasesAreUsed'
  BY <1>2, <1>3 DEF PlaneInv, CasesAreUsed, Hosting
<1> QED
  BY <1>1, <1>4, <1>5, <1>6, <1>7 DEF PlaneInv

\* POST /v1/explorations, once the plan is bound.
LEMMA StartExplorationKeepsPlane ==
  ASSUME PlaneInv, NEW c \in Clients, StartExploration(c)
  PROVE  PlaneInv'
<1>1. /\ GateIsHeld'
      /\ gate' \in Clients \cup {"free"} /\ call' \in [Clients -> Call]
      /\ \A d \in Clients : call'[d] = IF d = c THEN NoCall ELSE call[d]
  BY ReturnKeepsGate DEF PlaneInv, StartExploration
<1>2. ~RunnerBusy /\ explorer.phase = "idle"
  BY DEF PlaneInv, RunnerIsAlone, StartExploration, ExplorerRefuses, ExplorerBusy
<1>3. call[c].request \in AnyRequest /\ call[c].targets \in BOOLEAN
  BY DEF PlaneInv, TypeOK, Call
<1>4. /\ ExplorerStarts(call[c].request, call[c].targets)
      /\ UNCHANGED <<plan, used, tokens, hook>>
  BY DEF StartExploration, planVars
<1>5. /\ plan' \in Plan /\ (plan' # NoPlan => plan'.token # 0)
      /\ tokens' \in 0 .. MaxTokens /\ hook' \in BOOLEAN
  BY <1>4 DEF PlaneInv, TypeOK, CasesAreUsed
<1> QED
  BY <1>1, <1>2, <1>3, <1>4, <1>5, ExplorerStartsKeepsPlane DEF NoCall

\* POST /v1/monkey/runs for an exploration: it starts, or is refused by whoever
\* owns the device, or is a retry of what has finished.
LEMMA MonkeyKeepsPlane ==
  ASSUME PlaneInv, NEW c \in Clients, NEW request \in Requests, NEW targets \in BOOLEAN,
         MonkeyExploration(c, request, targets)
  PROVE  PlaneInv'
<1>1. /\ explorer.phase = "idle" /\ ~RunnerBusy
      /\ gate' = gate /\ used' = used /\ hook' = targets
      /\ plan' = Prepared(request, targets) /\ tokens' = Minted(plan')
      /\ CanPrepare(request, targets)
  BY DEF MonkeyExploration, ExplorerBusy
<1>2. plan' \in Plan /\ tokens' \in 0 .. MaxTokens /\ (plan' # NoPlan => plan'.token # 0)
  BY <1>1, PlanIsTyped, PlanHasToken DEF PlaneInv, CasesAreUsed, AnyRequest
<1>3. gate = "free" /\ \A d \in Clients : call[d].pc \notin Holding
  BY FreeGate DEF PlaneInv, MonkeyExploration
<1>4. CASE ExplorerRefuses(request, targets)
  <2>1. /\ call' \in {call, [call EXCEPT ![c].pc = "wipe"]}
        /\ UNCHANGED <<coordinatorVars, sessionVars>>
    BY <1>4 DEF MonkeyExploration
  <2>2. call' \in [Clients -> Call]
    BY <2>1 DEF PlaneInv, TypeOK, Call
  <2>3. \A d \in Clients : call'[d].pc \in {call[d].pc, "wipe"}
    BY <2>1 DEF PlaneInv, TypeOK, Call
  <2>4. GateIsHeld'
    BY <1>1, <1>3, <2>3, NamesAssumption DEF GateIsHeld, Holding
  <2>5. TypeOK'
    BY <1>1, <1>2, <2>1, <2>2
       DEF PlaneInv, TypeOK, CoordinatorTypeOK, coordinatorVars, sessionVars
  <2> QED
    BY <1>1, <1>2, <2>1, <2>3, <2>4, <2>5, HandlersKeepPlane
<1>5. CASE ~ExplorerRefuses(request, targets)
  <2>1. ExplorerStarts(request, targets) /\ call' = call
    BY <1>5 DEF MonkeyExploration
  <2>2. gate' \in Clients \cup {"free"} /\ call' \in [Clients -> Call] /\ GateIsHeld'
    BY <1>1, <2>1 DEF PlaneInv, TypeOK, GateIsHeld
  <2> QED
    BY <1>1, <1>2, <2>1, <2>2, ExplorerStartsKeepsPlane DEF AnyRequest
<1> QED
  BY <1>4, <1>5

\* A recording starts on a free device, with no run.
LEMMA StartRecordingKeepsPlane ==
  ASSUME PlaneInv, StartRecording
  PROVE  PlaneInv'
<1>1. /\ CoordinatorTypeOK' /\ CoordinatorInv'
      /\ active = NoIdentity
      /\ NewIdentity("recording") \in Identity
      /\ NewIdentity("recording").kind = "recording"
      /\ active' = NewIdentity("recording")
  BY AcquireMints DEF PlaneInv, TypeOK, StartRecording, Kinds
<1>2. /\ recorder' = [phase |-> "running", id |-> active', pc |-> "capture"]
      /\ UNCHANGED <<gate, call, plan, used, tokens, hook, explorer, xToken, replay, cancelled,
                     runner, poster, playedOut>>
      /\ ~RunnerBusy
  BY <1>1 DEF StartRecording, planVars, AdmitsInput
<1>3. /\ explorer.pc \notin Drives \cup {"release"}
      /\ replay.pc # "drive"
      /\ \A c \in Clients : call[c].pc # "measure"
  BY <1>1, FreeDevice
<1>4. TypeOK'
  BY <1>1, <1>2 DEF PlaneInv, TypeOK, Recorder, Phases
<1>5. FlagsFollow' /\ DriverOwns' /\ TargetReplayInsideHost'
  BY <1>1, <1>2, <1>3 DEF PlaneInv, FlagsFollow, DriverOwns, TargetReplayInsideHost
<1>6. GateIsHeld' /\ RunnerIsAlone' /\ StopRunnerSparesUserReplay' /\ CasesAreUsed'
  BY <1>2
     DEF PlaneInv, GateIsHeld, RunnerIsAlone, StopRunnerSparesUserReplay, CasesAreUsed,
         RunnerBusy, ReplayBusy
<1> QED
  BY <1>1, <1>4, <1>5, <1>6 DEF PlaneInv

\* A client's replay starts on a free device, with no run; while one is being
\* stopped the handler has the gate, and no replay starts.
LEMMA StartReplayKeepsPlane ==
  ASSUME PlaneInv, StartReplay
  PROVE  PlaneInv'
<1>1. /\ CoordinatorTypeOK' /\ CoordinatorInv'
      /\ active = NoIdentity
      /\ NewIdentity("replay") \in Identity /\ NewIdentity("replay").kind = "replay"
      /\ active' = NewIdentity("replay")
  BY AcquireMints DEF PlaneInv, TypeOK, StartReplay, Kinds
<1>2. /\ replay' = [phase |-> "running", id |-> active', parent |-> "user", token |-> 0,
                    reason |-> "none", pc |-> "drive"]
      /\ UNCHANGED <<gate, call, plan, used, tokens, hook, explorer, xToken, recorder, cancelled,
                     runner, poster, playedOut>>
      /\ ~RunnerBusy
  BY <1>1 DEF StartReplay, ReplayStarts, planVars, AdmitsInput
<1>3. /\ explorer.pc \notin Drives \cup {"release"}
      /\ recorder.pc \notin {"capture", "release"}
      /\ \A c \in Clients : call[c].pc # "measure"
  BY <1>1, FreeDevice
<1>4. \A c \in Clients : call[c].pc \notin Holding
  BY FreeGate DEF PlaneInv, StartReplay, AdmitsInput
<1>5. TypeOK'
  <2>1. 0 \in 0 .. MaxTokens
    BY BoundsAssumption
  <2>2. replay' \in Replay
    BY <1>1, <1>2, <2>1 DEF Replay, Phases
  <2> QED
    BY <1>1, <1>2, <2>2 DEF PlaneInv, TypeOK
<1>6. FlagsFollow' /\ DriverOwns' /\ TargetReplayInsideHost'
  BY <1>1, <1>2, <1>3 DEF PlaneInv, FlagsFollow, DriverOwns, TargetReplayInsideHost
<1>7. GateIsHeld' /\ RunnerIsAlone' /\ StopRunnerSparesUserReplay'
  BY <1>2, <1>4
     DEF PlaneInv, GateIsHeld, RunnerIsAlone, StopRunnerSparesUserReplay, RunnerBusy, Holding
<1>8. CasesAreUsed'
  BY <1>2, <1>3 DEF PlaneInv, CasesAreUsed, Drives, Hosting
<1> QED
  BY <1>1, <1>5, <1>6, <1>7, <1>8 DEF PlaneInv

\* A performance session starts on a free device, and nobody that drives minds.
LEMMA StartPerformanceKeepsPlane ==
  ASSUME PlaneInv, StartPerformance
  PROVE  PlaneInv'
<1>1. /\ CoordinatorTypeOK' /\ CoordinatorInv' /\ active = NoIdentity
      /\ UNCHANGED <<gate, call, plan, used, tokens, hook, explorer, xToken, recorder, replay,
                     cancelled, runner, poster, playedOut>>
  BY AcquireMints
     DEF PlaneInv, TypeOK, StartPerformance, Kinds, planVars, sessionVars
<1>2. /\ explorer.pc \notin Drives \cup {"release"}
      /\ recorder.pc \notin {"capture", "release"}
      /\ replay.pc # "drive"
      /\ \A c \in Clients : call[c].pc # "measure"
  BY <1>1, FreeDevice
<1>3. TypeOK' /\ GateIsHeld' /\ FlagsFollow'
  BY <1>1 DEF PlaneInv, TypeOK, GateIsHeld, FlagsFollow
<1>4. DriverOwns' /\ TargetReplayInsideHost'
  BY <1>1, <1>2 DEF PlaneInv, DriverOwns, TargetReplayInsideHost
<1>5. RunnerIsAlone' /\ StopRunnerSparesUserReplay' /\ CasesAreUsed'
  BY <1>1
     DEF PlaneInv, RunnerIsAlone, StopRunnerSparesUserReplay, CasesAreUsed, RunnerBusy,
         ExplorerBusy, RecorderBusy, ReplayBusy
<1> QED
  BY <1>1, <1>3, <1>4, <1>5 DEF PlaneInv

\* A startup measurement takes the device and the gate, with no run.
LEMMA MeasureKeepsPlane ==
  ASSUME PlaneInv, NEW c \in Clients, MeasureStartup(c)
  PROVE  PlaneInv'
<1>1. /\ CoordinatorTypeOK' /\ CoordinatorInv' /\ active = NoIdentity
      /\ active'.kind = "startup"
      /\ UNCHANGED <<plan, used, tokens, hook, explorer, xToken, recorder, replay, cancelled,
                     runner, poster, playedOut>>
      /\ ~RunnerBusy /\ gate' = c
  BY AcquireMints
     DEF PlaneInv, TypeOK, MeasureStartup, Kinds, planVars, sessionVars, AdmitsInput
<1>2. /\ explorer.pc \notin Drives \cup {"release"}
      /\ recorder.pc \notin {"capture", "release"}
      /\ replay.pc # "drive"
  BY <1>1, FreeDevice
<1>3. \A d \in Clients : call[d].pc \notin Holding
  BY FreeGate DEF PlaneInv, MeasureStartup, AdmitsInput
<1>4. /\ call' \in [Clients -> Call]
      /\ \A d \in Clients : call'[d].pc = IF d = c THEN "measure" ELSE call[d].pc
  BY DEF PlaneInv, TypeOK, MeasureStartup, Call
<1>5. TypeOK'
  BY <1>1, <1>4 DEF PlaneInv, TypeOK
<1>6. GateIsHeld'
  BY <1>1, <1>3, <1>4 DEF GateIsHeld, Holding
<1>7. FlagsFollow' /\ DriverOwns' /\ TargetReplayInsideHost'
  BY <1>1, <1>2, <1>4 DEF PlaneInv, FlagsFollow, DriverOwns, TargetReplayInsideHost
<1>8. RunnerIsAlone' /\ StopRunnerSparesUserReplay' /\ CasesAreUsed'
  BY <1>1, <1>4
     DEF PlaneInv, RunnerIsAlone, StopRunnerSparesUserReplay, CasesAreUsed, RunnerBusy, ReplayBusy
<1> QED
  BY <1>1, <1>5, <1>6, <1>7, <1>8 DEF PlaneInv

\* The runner starts beside no session; the gate is free, so no other start and no
\* measurement is under way.
LEMMA StartRunnerKeepsPlane ==
  ASSUME PlaneInv, NEW c \in Clients, NEW request \in Requests, NEW targets \in BOOLEAN,
         StartRunner(c, request, targets)
  PROVE  PlaneInv'
<1>1. plan' \in Plan /\ tokens' \in 0 .. MaxTokens /\ (plan' # NoPlan => plan'.token # 0)
  BY PlanIsTyped, PlanHasToken DEF PlaneInv, CasesAreUsed, StartRunner, AnyRequest
<1>2. /\ UNCHANGED <<generation, active, hosted, gate, call, used, hook, explorer, xToken,
                     recorder, replay, cancelled, poster, playedOut>>
      /\ ~ExplorerBusy /\ ~RecorderBusy /\ ~ReplayBusy
      /\ runner' = [phase |-> "running", run |-> runner.run + 1, request |-> request,
                    targets |-> targets, token |-> plan'.token]
  BY DEF StartRunner, coordinatorVars, AdmitsRun
<1>3. \A d \in Clients : call[d].pc \notin Holding
  BY FreeGate DEF PlaneInv, StartRunner, AdmitsRun
<1>4. TypeOK'
  <2>1. runner.run + 1 \in 0 .. MaxRuns
    BY BoundsAssumption DEF PlaneInv, TypeOK, Runner, StartRunner
  <2>2. plan'.token \in 0 .. MaxTokens
    BY <1>1 DEF Plan
  <2>3. runner' \in Runner
    BY <1>2, <2>1, <2>2 DEF Runner, Phases, AnyRequest
  <2> QED
    BY <1>1, <1>2, <2>3 DEF PlaneInv, TypeOK, CoordinatorTypeOK
<1>5. /\ CoordinatorInv' /\ GateIsHeld' /\ FlagsFollow' /\ TargetReplayInsideHost'
      /\ StopRunnerSparesUserReplay'
  BY <1>2
     DEF PlaneInv, CoordinatorInv, Owned, GateIsHeld, FlagsFollow, TargetReplayInsideHost,
         StopRunnerSparesUserReplay, ReplayBusy
<1>6. DriverOwns' /\ CasesAreUsed'
  BY <1>1, <1>2 DEF PlaneInv, DriverOwns, CasesAreUsed
<1>7. RunnerIsAlone'
  BY <1>2, <1>3 DEF RunnerIsAlone, ExplorerBusy, RecorderBusy, ReplayBusy, Holding
<1> QED
  BY <1>4, <1>5, <1>6, <1>7 DEF PlaneInv

\* The run posts its token: on a free device no exploration is between taking a
\* case and playing it, so the case that is not used is nobody's.
LEMMA PostKeepsPlane ==
  ASSUME PlaneInv, NEW n \in Runs, PostTarget(n)
  PROVE  PlaneInv'
<1>1. /\ CoordinatorTypeOK' /\ CoordinatorInv'
      /\ active = NoIdentity
      /\ NewIdentity("replay") \in Identity /\ NewIdentity("replay").kind = "replay"
      /\ active' = NewIdentity("replay")
  BY AcquireMints DEF PlaneInv, TypeOK, PostTarget, Kinds
<1>2. /\ replay' = [phase |-> "running", id |-> active', parent |-> "runner",
                    token |-> plan.token, reason |-> "none", pc |-> "drive"]
      /\ UNCHANGED <<gate, call, plan, tokens, hook, explorer, xToken, recorder, cancelled,
                     runner, playedOut>>
      /\ used' = used \cup {plan.token}
      /\ plan # NoPlan /\ plan.token \notin used
      /\ poster' = [poster EXCEPT ![n] = TRUE]
  BY <1>1 DEF PostTarget, ReplayStarts
<1>3. /\ explorer.pc \notin Drives \cup {"release"}
      /\ recorder.pc \notin {"capture", "release"}
      /\ \A c \in Clients : call[c].pc # "measure"
  BY <1>1, FreeDevice
<1>4. plan.token \in Tokens /\ plan.token \in 0 .. MaxTokens
  BY <1>2, BoundsAssumption DEF PlaneInv, TypeOK, CasesAreUsed, Plan, Tokens
<1>5. TypeOK'
  <2>1. replay' \in Replay
    BY <1>1, <1>2, <1>4 DEF Replay, Phases
  <2> QED
    BY <1>1, <1>2, <1>4, <2>1 DEF PlaneInv, TypeOK
<1>6. FlagsFollow' /\ DriverOwns' /\ TargetReplayInsideHost'
  BY <1>1, <1>2, <1>3 DEF PlaneInv, FlagsFollow, DriverOwns, TargetReplayInsideHost
<1>7. GateIsHeld' /\ RunnerIsAlone' /\ StopRunnerSparesUserReplay'
  BY <1>2
     DEF PlaneInv, GateIsHeld, RunnerIsAlone, StopRunnerSparesUserReplay, RunnerBusy,
         ExplorerBusy, RecorderBusy
<1>8. CasesAreUsed'
  BY <1>2, <1>3 DEF PlaneInv, CasesAreUsed, Drives, Hosting
<1> QED
  BY <1>1, <1>5, <1>6, <1>7, <1>8 DEF PlaneInv

-----------------------------------------------------------------------------
(* The steps that end a session, and the runner's.                         *)

\* Release: at most the session that is released stops owning the device, and a
\* guest leaves with its host.
LEMMA ReleaseOutcome ==
  ASSUME CoordinatorTypeOK, CoordinatorInv, NEW identity, Release(identity)
  PROVE  /\ CoordinatorTypeOK' /\ CoordinatorInv'
         /\ active' = IF active = identity THEN NoIdentity ELSE active
         /\ hosted' = IF identity \in {active, hosted} THEN NoIdentity ELSE hosted
<1>1. hosted' = IF identity \in {active, hosted} THEN NoIdentity ELSE hosted
  BY DEF CoordinatorInv, Owned, Release, SameOwner, Validates
<1> QED
  BY <1>1, ReleaseFreesOnlyIdentity

\* A session of recordings is stopped, releases the device and clears its flag.
LEMMA RecorderKeepsPlane ==
  ASSUME PlaneInv, RecorderEnds \/ RecorderReleases \/ RecorderClears
  PROVE  PlaneInv'
<1>1. /\ UNCHANGED <<gate, call, plan, used, tokens, hook, explorer, xToken, replay, cancelled,
                     runner, poster, playedOut>>
      /\ recorder' \in Recorder
      /\ recorder.phase # "idle" /\ recorder.pc # "none" /\ recorder'.id = recorder.id
      /\ recorder'.phase = "idle" <=> recorder'.pc = "none"
      /\ recorder'.pc # "capture"
  BY DEF PlaneInv, TypeOK, FlagsFollow, Recorder, Phases, RecorderEnds, RecorderReleases,
     RecorderClears, planVars
<1>2. /\ CoordinatorTypeOK' /\ CoordinatorInv'
      /\ \/ UNCHANGED <<active, hosted>>
         \/ recorder.pc = "release" /\ recorder'.pc = "clear" /\ active = recorder.id /\ active.kind = "recording"
  <2>1. CASE RecorderReleases
    BY <2>1, ReleaseOutcome DEF PlaneInv, TypeOK, DriverOwns, RecorderReleases
  <2>2. CASE RecorderEnds \/ RecorderClears
    BY <2>2
       DEF PlaneInv, TypeOK, CoordinatorTypeOK, CoordinatorInv, Owned, RecorderEnds,
           RecorderClears, coordinatorVars
  <2> QED
    BY <2>1, <2>2
<1>3. recorder.pc = "capture" \/ recorder'.pc # "release"
  BY DEF PlaneInv, TypeOK, Recorder, RecorderEnds, RecorderReleases, RecorderClears
<1>4. TypeOK' /\ GateIsHeld' /\ FlagsFollow'
  BY <1>1, <1>2 DEF PlaneInv, TypeOK, GateIsHeld, FlagsFollow
<1>5. DriverOwns' /\ TargetReplayInsideHost'
  <2>1. CASE UNCHANGED <<active, hosted>>
    BY <1>1, <1>3, <2>1 DEF PlaneInv, DriverOwns, TargetReplayInsideHost
  <2>2. CASE /\ recorder.pc = "release" /\ recorder'.pc = "clear"
             /\ active = recorder.id /\ active.kind = "recording"
    <3>1. /\ explorer.pc \notin Drives \cup {"release"}
          /\ replay.pc # "drive"
          /\ \A c \in Clients : call[c].pc # "measure"
      BY <2>2 DEF PlaneInv, DriverOwns, TargetReplayInsideHost, Drives
    <3> QED
      BY <1>1, <2>2, <3>1 DEF PlaneInv, DriverOwns, TargetReplayInsideHost
  <2> QED
    BY <1>2, <2>1, <2>2
<1>6. RunnerIsAlone' /\ StopRunnerSparesUserReplay' /\ CasesAreUsed'
  BY <1>1
     DEF PlaneInv, RunnerIsAlone, StopRunnerSparesUserReplay, CasesAreUsed, RunnerBusy,
         ExplorerBusy, RecorderBusy, ReplayBusy
<1> QED
  BY <1>2, <1>4, <1>5, <1>6 DEF PlaneInv

\* A performance session gives back the device, or a measurement does when its
\* handler returns: nobody drives then.
LEMMA OthersKeepPlane ==
  ASSUME PlaneInv, PerformanceEnds \/ \E c \in Clients : StartupMeasured(c)
  PROVE  PlaneInv'
<1>1. /\ UNCHANGED <<plan, used, tokens, hook, explorer, xToken, recorder, replay, cancelled,
                     runner, poster, playedOut>>
      /\ Release(active)
  BY DEF PerformanceEnds, StartupMeasured, planVars, sessionVars
<1>2. active.kind \in {"performance", "startup"}
  BY DEF PlaneInv, DriverOwns, PerformanceEnds, StartupMeasured
<1>3. CoordinatorTypeOK' /\ CoordinatorInv'
  BY <1>1, ReleaseOutcome DEF PlaneInv, TypeOK
<1>4. /\ explorer.pc \notin Drives \cup {"release"}
      /\ recorder.pc \notin {"capture", "release"}
      /\ replay.pc # "drive"
  BY <1>2 DEF PlaneInv, DriverOwns, TargetReplayInsideHost, Drives
<1>5. /\ GateIsHeld'
      /\ gate' \in Clients \cup {"free"} /\ call' \in [Clients -> Call]
      /\ \A d \in Clients : call'[d].pc \in {call[d].pc, "idle"} /\ call'[d].pc # "measure"
  <2>1. CASE PerformanceEnds
    <3>1. gate' = gate /\ call' = call /\ active.kind = "performance"
      BY <2>1 DEF PerformanceEnds
    <3> QED
      BY <3>1 DEF PlaneInv, TypeOK, GateIsHeld, DriverOwns
  <2>2. CASE \E c \in Clients : StartupMeasured(c)
    <3> PICK c \in Clients : StartupMeasured(c)
      BY <2>2
    <3>1. /\ GateIsHeld'
          /\ gate' \in Clients \cup {"free"} /\ call' \in [Clients -> Call]
          /\ \A d \in Clients : call'[d] = IF d = c THEN NoCall ELSE call[d]
      BY ReturnKeepsGate DEF PlaneInv, StartupMeasured
    <3>2. gate = c /\ \A d \in Clients : d # c => call[d].pc # "measure"
      BY DEF PlaneInv, GateIsHeld, StartupMeasured, Holding
    <3> QED
      BY <3>1, <3>2 DEF NoCall
  <2> QED
    BY <2>1, <2>2
<1>6. TypeOK'
  BY <1>1, <1>3, <1>5 DEF PlaneInv, TypeOK
<1>7. FlagsFollow' /\ DriverOwns' /\ TargetReplayInsideHost' /\ CasesAreUsed'
  BY <1>1, <1>4, <1>5
     DEF PlaneInv, FlagsFollow, DriverOwns, TargetReplayInsideHost, CasesAreUsed
<1>8. RunnerIsAlone' /\ StopRunnerSparesUserReplay'
  BY <1>1, <1>5
     DEF PlaneInv, RunnerIsAlone, StopRunnerSparesUserReplay, RunnerBusy, ExplorerBusy,
         RecorderBusy, ReplayBusy
<1> QED
  BY <1>3, <1>5, <1>6, <1>7, <1>8 DEF PlaneInv

\* A replay ends, releases the device and clears its flag.
LEMMA ReplayKeepsPlane ==
  ASSUME PlaneInv, ReplayEnds("completed") \/ ReplayStep
  PROVE  PlaneInv'
<1>1. UNCHANGED <<gate, call, plan, used, tokens, hook, explorer, xToken, recorder, cancelled,
                  runner, poster>>
  BY DEF ReplayEnds, ReplayStep, ReplayStopped, ReplayReleases, ReplayClears, planVars
<1>2. CASE \E reason \in {"completed", "aborted"} : ReplayEnds(reason)
  <2>1. PICK reason \in {"completed", "aborted"} : ReplayEnds(reason)
    BY <1>2
  <2>2. /\ replay.pc = "drive" /\ replay'.pc = "release" /\ replay'.reason = reason
        /\ replay' \in Replay /\ replay'.phase = "finalizing"
        /\ replay'.id = replay.id /\ replay'.parent = replay.parent
        /\ replay'.token = replay.token
    BY <2>1 DEF PlaneInv, TypeOK, Replay, Phases, ReplayEnds
  <2>3. /\ UNCHANGED <<generation, active, hosted>>
        /\ playedOut' = IF reason = "completed" THEN playedOut \cup ({replay.token} \ {0}) ELSE playedOut
    BY <2>1 DEF ReplayEnds, coordinatorVars
  <2>4. replay.token # 0 => replay.token \in used
    BY <2>2 DEF PlaneInv, CasesAreUsed
  <2>5. TypeOK'
    BY <1>1, <2>2, <2>3, <2>4 DEF PlaneInv, TypeOK, CoordinatorTypeOK
  <2>6. CoordinatorInv' /\ GateIsHeld' /\ FlagsFollow' /\ DriverOwns' /\ TargetReplayInsideHost'
    BY <1>1, <2>2, <2>3
       DEF PlaneInv, CoordinatorInv, Owned, GateIsHeld, FlagsFollow, DriverOwns,
           TargetReplayInsideHost
  <2>7. RunnerIsAlone' /\ StopRunnerSparesUserReplay'
    BY <1>1, <2>2
       DEF PlaneInv, FlagsFollow, RunnerIsAlone, StopRunnerSparesUserReplay, RunnerBusy, ExplorerBusy,
           RecorderBusy, ReplayBusy
  <2>8. CasesAreUsed'
    <3>1. explorer.pc = "start" => replay.token # xToken \/ replay.token = 0
      BY <2>2 DEF PlaneInv, DriverOwns, TargetReplayInsideHost, Drives
    <3> QED
      BY <1>1, <2>2, <2>3, <2>4, <3>1 DEF PlaneInv, CasesAreUsed
  <2> QED
    BY <2>5, <2>6, <2>7, <2>8 DEF PlaneInv
<1>3. CASE ReplayReleases
  <2>1. /\ replay.pc = "release" /\ replay'.pc = "clear"
        /\ replay' \in Replay /\ replay'.phase = replay.phase
        /\ replay'.parent = replay.parent /\ replay'.token = replay.token
        /\ replay'.reason = replay.reason
        /\ playedOut' = playedOut
    BY <1>3 DEF PlaneInv, TypeOK, Replay, ReplayReleases
  <2>2. /\ CoordinatorTypeOK' /\ CoordinatorInv'
        /\ active' = active \/ active.kind = "replay"
    BY <1>3, ReleaseOutcome DEF PlaneInv, TypeOK, DriverOwns, ReplayReleases
  <2>3. TypeOK' /\ GateIsHeld' /\ FlagsFollow' /\ CasesAreUsed'
    BY <1>1, <2>1, <2>2 DEF PlaneInv, TypeOK, GateIsHeld, FlagsFollow, CasesAreUsed
  <2>4. DriverOwns' /\ TargetReplayInsideHost'
    BY <1>1, <2>1, <2>2 DEF PlaneInv, DriverOwns, TargetReplayInsideHost, Drives
  <2>5. RunnerIsAlone' /\ StopRunnerSparesUserReplay'
    BY <1>1, <2>1
       DEF PlaneInv, RunnerIsAlone, StopRunnerSparesUserReplay, RunnerBusy, ExplorerBusy,
           RecorderBusy, ReplayBusy
  <2> QED
    BY <2>2, <2>3, <2>4, <2>5 DEF PlaneInv
<1>4. CASE ReplayClears
  <2>1. /\ replay'.pc = "none" /\ replay'.phase = "idle" /\ replay' \in Replay
        /\ replay'.parent = replay.parent /\ replay'.token = replay.token
        /\ replay'.reason = replay.reason
        /\ UNCHANGED <<generation, active, hosted, playedOut>>
    BY <1>4 DEF PlaneInv, TypeOK, Replay, Phases, ReplayClears, coordinatorVars
  <2>2. TypeOK' /\ CoordinatorInv' /\ GateIsHeld' /\ FlagsFollow' /\ DriverOwns' /\ TargetReplayInsideHost'
    BY <1>1, <2>1
       DEF PlaneInv, TypeOK, CoordinatorTypeOK, CoordinatorInv, Owned, GateIsHeld, FlagsFollow,
           DriverOwns, TargetReplayInsideHost
  <2>3. RunnerIsAlone' /\ StopRunnerSparesUserReplay' /\ CasesAreUsed'
    BY <1>1, <2>1
       DEF PlaneInv, RunnerIsAlone, StopRunnerSparesUserReplay, CasesAreUsed, RunnerBusy,
           ExplorerBusy, RecorderBusy, ReplayBusy
  <2> QED
    BY <2>2, <2>3 DEF PlaneInv
<1> QED
  BY <1>2, <1>3, <1>4 DEF ReplayStep, ReplayStopped

\* A replay is cancelled: by its owner, by the request of the run that is dropped
\* or by the handler that stops a run.
LEMMA CancelKeepsPlane ==
  ASSUME PlaneInv, CancelReplay, TypeOK', GateIsHeld',
         UNCHANGED <<generation, active, hosted, plan, used, explorer, xToken, recorder, runner,
                     playedOut>>,
         \A d \in Clients : call'[d].pc \in {call[d].pc, "wait"}
  PROVE  PlaneInv'
<1>1. /\ replay'.id = replay.id /\ replay'.parent = replay.parent
      /\ replay'.token = replay.token /\ replay'.pc = replay.pc
      /\ replay'.reason = replay.reason
      /\ replay'.phase = IF replay.phase = "running" THEN "stopping" ELSE replay.phase
  BY DEF PlaneInv, TypeOK, Replay, CancelReplay
<1>2. CoordinatorInv' /\ FlagsFollow' /\ DriverOwns' /\ TargetReplayInsideHost'
  BY <1>1
     DEF PlaneInv, CoordinatorInv, Owned, FlagsFollow, DriverOwns, TargetReplayInsideHost
<1>3. RunnerIsAlone' /\ StopRunnerSparesUserReplay' /\ CasesAreUsed'
  BY <1>1
     DEF PlaneInv, RunnerIsAlone, StopRunnerSparesUserReplay, CasesAreUsed, RunnerBusy,
         ExplorerBusy, RecorderBusy, ReplayBusy
<1> QED
  BY <1>2, <1>3 DEF PlaneInv

\* What is cancelled is a replay.
LEMMA CancelIsTyped ==
  ASSUME TypeOK, CancelReplay
  PROVE  replay' \in Replay /\ cancelled' \subseteq Generations
BY MaxGenerationAssumption
   DEF TypeOK, CancelReplay, Replay, Phases, Identity, NoIdentity, Generations

LEMMA StopReplayKeepsPlane ==
  ASSUME PlaneInv,
         \/ StopReplay
         \/ \E n \in Runs : PostIsDropped(n)
         \/ \E c \in Clients : StopRunnerReplay(c)
  PROVE  PlaneInv'
<1>1. /\ CancelReplay
      /\ UNCHANGED <<generation, active, hosted, gate, plan, used, tokens, hook, explorer, xToken,
                     recorder, runner, playedOut>>
      /\ poster' \in [Runs -> BOOLEAN]
  BY DEF PlaneInv, TypeOK, StopReplay, PostIsDropped, StopRunnerReplay, coordinatorVars, planVars
<1>2. /\ call' \in [Clients -> Call] /\ GateIsHeld'
      /\ \A d \in Clients : call'[d].pc \in {call[d].pc, "wait"}
  <2>1. CASE call' = call
    BY <1>1, <2>1 DEF PlaneInv, TypeOK, GateIsHeld
  <2>2. CASE \E c \in Clients : StopRunnerReplay(c)
    <3> PICK c \in Clients : StopRunnerReplay(c)
      BY <2>2
    <3>1. call' \in [Clients -> Call]
      BY DEF PlaneInv, TypeOK, StopRunnerReplay, Call
    <3>2. \A d \in Clients : call'[d].pc = IF d = c THEN "wait" ELSE call[d].pc
      BY DEF PlaneInv, TypeOK, StopRunnerReplay, Call
    <3> QED
      BY <1>1, <3>1, <3>2 DEF PlaneInv, GateIsHeld, StopRunnerReplay, Holding
  <2> QED
    BY <2>1, <2>2 DEF StopReplay, PostIsDropped
<1>3. TypeOK'
  BY <1>1, <1>2, CancelIsTyped DEF PlaneInv, TypeOK, CoordinatorTypeOK
<1> QED
  BY <1>1, <1>2, <1>3, CancelKeepsPlane

\* The runner's process ends and its artifacts are sealed; a request of it returns.
LEMMA RunnerKeepsPlane ==
  ASSUME PlaneInv, RunnerAdvances \/ \E n \in Runs : PostReturns(n)
  PROVE  PlaneInv'
<1>1. /\ UNCHANGED <<generation, active, hosted, gate, call, plan, used, tokens, hook, explorer,
                     xToken, recorder, replay, cancelled, playedOut>>
      /\ runner' \in Runner /\ (runner'.phase # "idle" => RunnerBusy)
      /\ poster' \in [Runs -> BOOLEAN]
  BY DEF PlaneInv, TypeOK, Runner, Phases, RunnerAdvances, PostReturns, RunnerBusy,
     coordinatorVars, planVars
<1>2. TypeOK' /\ CoordinatorInv' /\ GateIsHeld' /\ FlagsFollow'
  BY <1>1
     DEF PlaneInv, TypeOK, CoordinatorTypeOK, CoordinatorInv, Owned, GateIsHeld, FlagsFollow
<1>3. /\ DriverOwns' /\ TargetReplayInsideHost' /\ RunnerIsAlone'
      /\ StopRunnerSparesUserReplay' /\ CasesAreUsed'
  BY <1>1
     DEF PlaneInv, DriverOwns, TargetReplayInsideHost, RunnerIsAlone,
         StopRunnerSparesUserReplay, CasesAreUsed, RunnerBusy, ExplorerBusy, RecorderBusy,
         ReplayBusy
<1> QED
  BY <1>2, <1>3 DEF PlaneInv

-----------------------------------------------------------------------------
(* The exploration's steps.                                                *)

\* What a step of the exploration leaves alone, and what it does to its record.
\* A stop from outside changes the phase and cancels the context.
LEMMA StopExplorationKeepsPlane ==
  ASSUME PlaneInv, StopExploration
  PROVE  PlaneInv'
<1>1. /\ UNCHANGED <<generation, active, hosted, gate, call, plan, used, tokens, hook, xToken,
                     recorder, replay, runner, poster, playedOut>>
      /\ explorer' \in Explorer
      /\ explorer'.pc = explorer.pc /\ explorer'.id = explorer.id
      /\ explorer'.phase = IF explorer.phase = "running" THEN "stopping" ELSE explorer.phase
      /\ explorer.phase # "idle"
  BY DEF PlaneInv, TypeOK, Explorer, Phases, StopExploration, ExplorerBusy, coordinatorVars, planVars
<1>2. explorer.id.generation \in Generations
  <2>1. explorer.id.kind = "exploration"
    BY <1>1 DEF PlaneInv, FlagsFollow, DriverOwns
  <2> QED
    BY <2>1 DEF PlaneInv, TypeOK, Explorer, Identity, NoIdentity
<1>3. TypeOK'
  BY <1>1, <1>2 DEF PlaneInv, TypeOK, CoordinatorTypeOK, StopExploration
<1>4. /\ CoordinatorInv' /\ GateIsHeld' /\ FlagsFollow' /\ DriverOwns'
      /\ TargetReplayInsideHost'
  BY <1>1
     DEF PlaneInv, CoordinatorInv, Owned, GateIsHeld, FlagsFollow, DriverOwns,
         TargetReplayInsideHost
<1>5. RunnerIsAlone' /\ StopRunnerSparesUserReplay' /\ CasesAreUsed'
  BY <1>1
     DEF PlaneInv, RunnerIsAlone, StopRunnerSparesUserReplay, CasesAreUsed, RunnerBusy,
         ExplorerBusy, RecorderBusy, ReplayBusy
<1> QED
  BY <1>3, <1>4, <1>5 DEF PlaneInv

\* A step of the loop that keeps driving, without the replay, and leaves the cases
\* in order, keeps the rest in order.
LEMMA LoopKeepsPlane ==
  ASSUME PlaneInv,
         UNCHANGED <<generation, active, hosted, gate, call, plan, tokens, hook, recorder, replay,
                     cancelled, runner, poster, playedOut>>,
         explorer.pc \in Drives, explorer'.pc \in Drives,
         explorer' \in Explorer, explorer'.phase = explorer.phase, explorer'.id = explorer.id,
         xToken' \in 0 .. MaxTokens, used' \subseteq Tokens,
         explorer'.pc \in Hosting \/ replay.pc # "drive" \/ replay.parent # "exploration",
         CasesAreUsed'
  PROVE  PlaneInv'
<1>1. explorer.pc # "none" /\ explorer'.pc # "none" /\ explorer'.pc # "release"
  BY DEF Drives
<1>2. TypeOK' /\ CoordinatorInv' /\ GateIsHeld'
  BY DEF PlaneInv, TypeOK, CoordinatorTypeOK, CoordinatorInv, Owned, GateIsHeld
<1>3. FlagsFollow' /\ DriverOwns' /\ TargetReplayInsideHost'
  BY <1>1 DEF PlaneInv, FlagsFollow, DriverOwns, TargetReplayInsideHost, Hosting
<1>4. RunnerIsAlone' /\ StopRunnerSparesUserReplay'
  BY DEF PlaneInv, RunnerIsAlone, StopRunnerSparesUserReplay, RunnerBusy, ExplorerBusy,
         RecorderBusy, ReplayBusy
<1> QED
  BY <1>2, <1>3, <1>4 DEF PlaneInv

\* While the exploration drives, no replay drives but the one it hosts.
LEMMA OnlyHostedReplay ==
  ASSUME PlaneInv, explorer.pc \in Drives, replay.pc = "drive"
  PROVE  replay.parent = "exploration" /\ explorer.pc \in Hosting
BY DEF PlaneInv, DriverOwns, TargetReplayInsideHost, Hosting, Drives

\* The loop takes the plan's case, or passes it.
LEMMA TakeKeepsPlane ==
  ASSUME PlaneInv, TakeTarget \/ SkipTarget
  PROVE  PlaneInv'
<1>1. /\ explorer.pc = "loop"
      /\ UNCHANGED <<generation, active, hosted, gate, call, plan, tokens, hook, recorder, replay,
                     cancelled, runner, poster, playedOut>>
      /\ explorer' \in Explorer
      /\ explorer'.phase = explorer.phase /\ explorer'.id = explorer.id
      /\ explorer'.pc \in {"start", "loop", "end"}
  BY DEF PlaneInv, TypeOK, Explorer, TakeTarget, SkipTarget, LooksForTarget, NextPc, planVars,
         coordinatorVars
<1>2. replay.pc # "drive"
  BY <1>1, OnlyHostedReplay DEF Drives, Hosting
<1>3. CASE TakeTarget
  <2>1. /\ used' = used \cup {plan.token} /\ xToken' = plan.token
        /\ plan # NoPlan /\ plan.token \notin used
    BY <1>3 DEF TakeTarget
  <2>2. plan.token \in Tokens /\ plan.token \in 0 .. MaxTokens
    BY <2>1, BoundsAssumption DEF PlaneInv, TypeOK, CasesAreUsed, Plan, Tokens
  <2>3. used' \subseteq Tokens /\ CasesAreUsed'
    BY <1>1, <1>2, <2>1, <2>2 DEF PlaneInv, TypeOK, CasesAreUsed, Hosting
  <2> QED
    BY <1>1, <1>2, <2>1, <2>2, <2>3, LoopKeepsPlane DEF Drives
<1>4. CASE SkipTarget
  <2>1. UNCHANGED <<used, xToken>> /\ explorer'.pc \in {"loop", "end"}
    BY <1>4 DEF PlaneInv, TypeOK, Explorer, SkipTarget, NextPc, planVars
  <2>2. CasesAreUsed' /\ used' \subseteq Tokens /\ xToken' \in 0 .. MaxTokens
    BY <1>1, <2>1 DEF PlaneInv, TypeOK, CasesAreUsed, Hosting
  <2> QED
    BY <1>1, <1>2, <2>2, LoopKeepsPlane DEF Drives
<1> QED
  BY <1>3, <1>4

\* The case starts as a guest of the exploration.
LEMMA StartTargetKeepsPlane ==
  ASSUME PlaneInv, StartTarget
  PROVE  PlaneInv'
<1>1. /\ CoordinatorTypeOK' /\ CoordinatorInv'
      /\ active = explorer.id /\ active' = active
      /\ NewIdentity("replay") \in Identity /\ NewIdentity("replay").kind = "replay"
      /\ hosted' = NewIdentity("replay")
  BY AcquireHostedMints DEF PlaneInv, TypeOK, StartTarget, Kinds
<1>2. /\ explorer.pc = "start" /\ explorer'.pc = "wait"
      /\ explorer' \in Explorer
      /\ explorer'.phase = explorer.phase /\ explorer'.id = explorer.id
      /\ replay' = [phase |-> "running", id |-> hosted', parent |-> "exploration",
                    token |-> xToken, reason |-> "none", pc |-> "drive"]
      /\ UNCHANGED <<gate, call, plan, used, tokens, hook, xToken, recorder, cancelled, runner,
                     poster, playedOut>>
  BY <1>1 DEF PlaneInv, TypeOK, Explorer, StartTarget, ReplayStarts, planVars
<1>3. ~RunnerBusy
  BY <1>2 DEF PlaneInv, RunnerIsAlone, FlagsFollow, ExplorerBusy
<1>4. TypeOK'
  <2>1. replay' \in Replay
    BY <1>1, <1>2 DEF PlaneInv, TypeOK, Replay, Phases
  <2> QED
    BY <1>1, <1>2, <2>1 DEF PlaneInv, TypeOK
<1>5. GateIsHeld' /\ FlagsFollow' /\ DriverOwns' /\ TargetReplayInsideHost'
  BY <1>1, <1>2
     DEF PlaneInv, GateIsHeld, FlagsFollow, DriverOwns, TargetReplayInsideHost, Drives
<1>6. RunnerIsAlone' /\ StopRunnerSparesUserReplay'
  BY <1>2, <1>3
     DEF PlaneInv, RunnerIsAlone, StopRunnerSparesUserReplay, RunnerBusy, ReplayBusy
<1>7. CasesAreUsed'
  BY <1>2 DEF PlaneInv, CasesAreUsed, Hosting
<1> QED
  BY <1>1, <1>4, <1>5, <1>6, <1>7 DEF PlaneInv

\* A target returns.  A case that goes back was not played to its end, and the
\* replay of it has come to rest.
LEMMA ReturnKeepsPlane ==
  ASSUME PlaneInv, StartTargetFails \/ TargetEnds \/ TargetAbandoned
  PROVE  PlaneInv'
<1>1. explorer.pc \in {"start", "wait", "stop"} /\ replay.pc # "drive"
  BY OnlyHostedReplay
     DEF PlaneInv, FlagsFollow, StartTargetFails, TargetEnds, TargetAbandoned, ReplayBusy,
         Drives, Hosting
<1>2. PICK completed \in BOOLEAN :
        /\ TargetReturns(completed)
        /\ xToken \in playedOut => completed
  <2>1. CASE StartTargetFails
    BY <2>1 DEF PlaneInv, CasesAreUsed, StartTargetFails
  <2>2. CASE TargetEnds \/ TargetAbandoned
    BY <2>2 DEF PlaneInv, CasesAreUsed, TargetEnds, TargetAbandoned, Hosting
  <2> QED
    BY <2>1, <2>2
<1>3. /\ UNCHANGED <<generation, active, hosted, gate, call, plan, tokens, hook, recorder, replay,
                     cancelled, runner, poster, playedOut>>
      /\ explorer' \in Explorer
      /\ explorer'.phase = explorer.phase /\ explorer'.id = explorer.id
      /\ explorer'.pc \in {"loop", "end"}
      /\ xToken' = 0
      /\ used' = IF completed THEN used ELSE ReleaseCase(xToken)
  BY <1>2 DEF PlaneInv, TypeOK, Explorer, TargetReturns, NextPc, coordinatorVars
<1>4. used' \in {used, used \ {xToken}} /\ (xToken \in playedOut => used' = used)
  BY <1>2, <1>3 DEF ReleaseCase
<1>5. CasesAreUsed'
  BY <1>1, <1>3, <1>4 DEF PlaneInv, CasesAreUsed, Hosting
<1>6. xToken' \in 0 .. MaxTokens /\ used' \subseteq Tokens
  BY <1>3, <1>4, BoundsAssumption DEF PlaneInv, TypeOK
<1> QED
  BY <1>1, <1>3, <1>5, <1>6, LoopKeepsPlane DEF Drives

\* The loop gives up a case and cancels its replay, then waits for it to end.
LEMMA AbandonKeepsPlane ==
  ASSUME PlaneInv, AbandonTarget
  PROVE  PlaneInv'
<1>1. /\ CancelReplay
      /\ UNCHANGED <<generation, active, hosted, gate, call, plan, used, tokens, hook, xToken,
                     recorder, runner, poster, playedOut>>
      /\ explorer.pc = "wait" /\ explorer'.pc = "stop"
      /\ explorer' \in Explorer
      /\ explorer'.phase = explorer.phase /\ explorer'.id = explorer.id
  BY DEF PlaneInv, TypeOK, Explorer, AbandonTarget, coordinatorVars, planVars
<1>2. /\ replay'.id = replay.id /\ replay'.parent = replay.parent
      /\ replay'.token = replay.token /\ replay'.pc = replay.pc
      /\ replay'.reason = replay.reason
      /\ replay'.phase = IF replay.phase = "running" THEN "stopping" ELSE replay.phase
  BY <1>1 DEF PlaneInv, TypeOK, Replay, CancelReplay
<1>3. TypeOK'
  BY <1>1, CancelIsTyped DEF PlaneInv, TypeOK, CoordinatorTypeOK
<1>4. CoordinatorInv' /\ GateIsHeld' /\ FlagsFollow'
  BY <1>1, <1>2 DEF PlaneInv, CoordinatorInv, Owned, GateIsHeld, FlagsFollow, Drives
<1>5. DriverOwns' /\ TargetReplayInsideHost'
  BY <1>1, <1>2 DEF PlaneInv, DriverOwns, TargetReplayInsideHost, Drives
<1>6. RunnerIsAlone' /\ StopRunnerSparesUserReplay'
  BY <1>1, <1>2
     DEF PlaneInv, RunnerIsAlone, StopRunnerSparesUserReplay, RunnerBusy, ExplorerBusy,
         RecorderBusy, ReplayBusy
<1>7. CasesAreUsed'
  BY <1>1, <1>2 DEF PlaneInv, CasesAreUsed, Hosting
<1> QED
  BY <1>3, <1>4, <1>5, <1>6, <1>7 DEF PlaneInv

\* The exploration leaves its loop, releases the device and clears its flag.
LEMMA ExplorerEndKeepsPlane ==
  ASSUME PlaneInv, ExplorerEnds \/ ExplorerReleases \/ ExplorerClears
  PROVE  PlaneInv'
<1>1. /\ UNCHANGED <<gate, call, plan, used, tokens, hook, xToken, recorder, replay, cancelled,
                     runner, poster, playedOut>>
      /\ explorer' \in Explorer
      /\ explorer.pc \in {"loop", "end", "release", "clear"}
      /\ explorer'.id = explorer.id
      /\ explorer'.pc \in {"release", "clear", "none"}
      /\ explorer'.pc = "release" => explorer.pc # "release" /\ explorer'.phase = "finalizing"
      /\ explorer'.pc = "release" => explorer.pc \in Drives
      /\ explorer'.pc = "clear" => explorer.pc = "release" /\ explorer'.phase = explorer.phase
      /\ explorer'.pc = "none" => explorer'.phase = "idle"
  BY DEF PlaneInv, TypeOK, Explorer, Phases, ExplorerEnds, ExplorerReleases, ExplorerClears,
     planVars, Drives
<1>2. explorer.pc \in Drives \cup {"release"} => replay.pc # "drive"
  BY <1>1, OnlyHostedReplay
     DEF PlaneInv, DriverOwns, TargetReplayInsideHost, Drives, Hosting
<1>3. /\ CoordinatorTypeOK' /\ CoordinatorInv'
      /\ \/ UNCHANGED <<active, hosted>>
         \/ explorer'.pc = "clear" /\ active.kind = "exploration"
  <2>1. CASE ExplorerReleases
    <3>1. active = explorer.id /\ active.kind = "exploration" /\ explorer'.pc = "clear"
      BY <2>1 DEF PlaneInv, TypeOK, Explorer, DriverOwns, ExplorerReleases
    <3> QED
      BY <2>1, <3>1, ReleaseOutcome DEF PlaneInv, TypeOK, ExplorerReleases
  <2>2. CASE ExplorerEnds \/ ExplorerClears
    BY <2>2
       DEF PlaneInv, TypeOK, CoordinatorTypeOK, CoordinatorInv, Owned, ExplorerEnds,
           ExplorerClears, coordinatorVars
  <2> QED
    BY <2>1, <2>2
<1>4. TypeOK' /\ GateIsHeld'
  BY <1>1, <1>3 DEF PlaneInv, TypeOK, GateIsHeld
<1>5. FlagsFollow'
  BY <1>1 DEF PlaneInv, FlagsFollow, Drives
<1>6. DriverOwns' /\ TargetReplayInsideHost'
  <2>1. CASE UNCHANGED <<active, hosted>>
    BY <1>1, <1>2, <2>1 DEF PlaneInv, DriverOwns, TargetReplayInsideHost, Drives
  <2>2. CASE explorer'.pc = "clear" /\ active.kind = "exploration"
    <3>1. /\ recorder.pc \notin {"capture", "release"}
          /\ replay.pc # "drive"
          /\ \A c \in Clients : call[c].pc # "measure"
      BY <1>1, <1>2, <2>2 DEF PlaneInv, DriverOwns
    <3> QED
      BY <1>1, <2>2, <3>1 DEF PlaneInv, DriverOwns, TargetReplayInsideHost, Drives
  <2> QED
    BY <1>3, <2>1, <2>2
<1>7. RunnerIsAlone' /\ StopRunnerSparesUserReplay'
  BY <1>1
     DEF PlaneInv, FlagsFollow, RunnerIsAlone, StopRunnerSparesUserReplay, RunnerBusy,
         ExplorerBusy, RecorderBusy, ReplayBusy
<1>8. CasesAreUsed'
  BY <1>1 DEF PlaneInv, CasesAreUsed, Hosting
<1> QED
  BY <1>3, <1>4, <1>5, <1>6, <1>7, <1>8 DEF PlaneInv

-----------------------------------------------------------------------------
(* The theorems.                                                           *)

\* Every step keeps the state predicates.
LEMMA PlaneStep == PlaneInv /\ [Next]_vars => PlaneInv'
<1> SUFFICES ASSUME PlaneInv, [Next]_vars PROVE PlaneInv'
  OBVIOUS
<1>1. ASSUME NEW c \in Clients, Handlers(c) PROVE PlaneInv'
  <2>1. ASSUME NEW request \in Requests, NEW targets \in BOOLEAN,
               \/ BindExploration(c, request, targets)
               \/ MonkeyExploration(c, request, targets)
               \/ StartRunner(c, request, targets)
        PROVE  PlaneInv'
    BY <2>1, BindKeepsPlane, MonkeyKeepsPlane, StartRunnerKeepsPlane
  <2>2. CASE StartExploration(c) \/ MeasureStartup(c) \/ RetryRunner(c)
    BY <2>2, StartExplorationKeepsPlane, MeasureKeepsPlane, RetryKeepsPlane
  <2>3. CASE StartExplorationRefused(c) \/ WipePlan(c)
    BY <2>3, RefusalKeepsPlane
  <2>4. CASE StopRunner(c) \/ RunnerIsDown(c) \/ RunnerStopFails(c) \/ StopRunnerReturns(c)
    BY <2>4, StopRunnerKeepsPlane
  <2>5. CASE StopRunnerReplay(c)
    BY <2>5, StopReplayKeepsPlane
  <2>6. CASE StartupMeasured(c)
    BY <2>6, OthersKeepPlane
  <2> QED
    BY <1>1, <2>1, <2>2, <2>3, <2>4, <2>5, <2>6 DEF Handlers
<1>2. CASE StopExploration \/ StartRecording \/ StartReplay \/ StopReplay
  BY <1>2, StopExplorationKeepsPlane, StartRecordingKeepsPlane, StartReplayKeepsPlane,
     StopReplayKeepsPlane
<1>3. CASE StartPerformance \/ PerformanceEnds
  BY <1>3, StartPerformanceKeepsPlane, OthersKeepPlane
<1>4. CASE RecorderEnds \/ RecorderReleases \/ RecorderClears
  BY <1>4, RecorderKeepsPlane
<1>5. CASE ReplayEnds("completed") \/ ReplayStep
  BY <1>5, ReplayKeepsPlane
<1>6. CASE ExplorerStep
  BY <1>6, TakeKeepsPlane, StartTargetKeepsPlane, ReturnKeepsPlane, AbandonKeepsPlane,
     ExplorerEndKeepsPlane DEF ExplorerStep
<1>7. CASE RunnerAdvances
  BY <1>7, RunnerKeepsPlane
<1>8. ASSUME NEW n \in Runs, PostTarget(n) \/ PostReturns(n) \/ PostIsDropped(n)
      PROVE  PlaneInv'
  BY <1>8, PostKeepsPlane, RunnerKeepsPlane, StopReplayKeepsPlane
<1>9. CASE UNCHANGED vars
  BY <1>9
     DEF vars, coordinatorVars, planVars, sessionVars, PlaneInv, TypeOK, CoordinatorTypeOK,
         CoordinatorInv, Owned, GateIsHeld, FlagsFollow, DriverOwns, TargetReplayInsideHost,
         RunnerIsAlone, StopRunnerSparesUserReplay, CasesAreUsed, RunnerBusy, ExplorerBusy,
         RecorderBusy, ReplayBusy
<1> QED
  BY <1>1, <1>2, <1>3, <1>4, <1>5, <1>6, <1>7, <1>8, <1>9 DEF Next

\* The gate, the flags, the coordinator and the plan go together.
THEOREM PlaneInvariant == Spec => []PlaneInv
<1> QED
  BY PlaneInitially, PlaneStep, PTL DEF Spec

\* The variables have their types.
THEOREM PlaneTypes == Spec => []TypeOK
<1>1. PlaneInv => TypeOK
  BY DEF PlaneInv
<1> QED
  BY <1>1, PlaneInvariant, PTL

\* One session touches the screen: those that own the device are told apart by
\* the kind of the owner, and beside the runner there is none.
LEMMA OneSession == PlaneInv => OneInputSession
<1> SUFFICES ASSUME PlaneInv PROVE OneInputSession
  OBVIOUS
<1> DEFINE Driver == IF replay.parent = "user" THEN "replay" ELSE replay.parent
<1>1. \A s \in InputSessions :
        \/ s = "exploration" /\ (ExplorerDrives \/ (replay.pc = "drive" /\ replay.parent = "exploration"))
        \/ s = "recording" /\ recorder.pc = "capture"
        \/ s = "runner" /\ (runner.phase = "running" \/ (replay.pc = "drive" /\ replay.parent = "runner"))
        \/ s = "startup" /\ \E c \in Clients : call[c].pc = "measure"
        \/ s = "replay" /\ replay.pc = "drive" /\ replay.parent = "user"
  BY DEF InputSessions, PlaneInv, TypeOK, Replay, DriverOwns
<1>2. "exploration" \in InputSessions => explorer.pc \in Drives /\ active.kind = "exploration"
  BY <1>1 DEF PlaneInv, DriverOwns, TargetReplayInsideHost, ExplorerDrives, Drives
<1>3. "recording" \in InputSessions => recorder.pc = "capture" /\ active.kind = "recording"
  BY <1>1 DEF PlaneInv, DriverOwns
<1>4. "startup" \in InputSessions => active.kind = "startup" /\ ~RunnerBusy
  BY <1>1 DEF PlaneInv, DriverOwns, RunnerIsAlone
<1>5. "replay" \in InputSessions =>
        active.kind = "replay" /\ replay.pc = "drive" /\ replay.parent = "user"
  BY <1>1 DEF PlaneInv, DriverOwns
<1>6. "runner" \in InputSessions =>
        \/ RunnerBusy
        \/ replay.pc = "drive" /\ replay.parent = "runner" /\ active.kind = "replay"
  BY <1>1 DEF PlaneInv, DriverOwns, RunnerBusy
<1>7. RunnerBusy => InputSessions \subseteq {"runner"}
  BY <1>1, <1>2, <1>3, <1>4, <1>5
     DEF PlaneInv, RunnerIsAlone, FlagsFollow, ExplorerBusy, RecorderBusy, ReplayBusy, Drives
<1> QED
  BY <1>1, <1>2, <1>3, <1>4, <1>5, <1>6, <1>7 DEF OneInputSession

THEOREM OneSessionTouchesTheScreen == Spec => []OneInputSession
<1> QED
  BY OneSession, PlaneInvariant, PTL

\* A case replayed for the exploration drives inside the exploration's ownership.
THEOREM TargetStaysInside == Spec => []TargetReplayInsideHost
<1>1. PlaneInv => TargetReplayInsideHost
  BY DEF PlaneInv
<1> QED
  BY <1>1, PlaneInvariant, PTL

\* The handler that stops a run never finds a client's replay.
THEOREM StopSparesUserReplay == Spec => []StopRunnerSparesUserReplay
<1>1. PlaneInv => StopRunnerSparesUserReplay
  BY DEF PlaneInv
<1> QED
  BY <1>1, PlaneInvariant, PTL

\* A case played to its end is not played again under its token.
THEOREM CasesArePlayedOnce == Spec => []CaseOncePerToken
<1>1. PlaneInv => CaseOncePerToken
  BY DEF PlaneInv, TypeOK, Tokens, CasesAreUsed, CaseOncePerToken
<1> QED
  BY <1>1, PlaneInvariant, PTL
====
