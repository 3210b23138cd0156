---- MODULE PerformanceSession ----
(***************************************************************************)
(* perflog.Manager: a performance session samples the app under test from  *)
(* a goroutine of its own, a startup measurement runs inside its handler.  *)
(*                                                                         *)
(* The handlers run under the API's executionMu, called gate here; main    *)
(* stops the session without it once the agent shuts down, so that Stop    *)
(* has a mutex of the manager as well.  A session is named by the          *)
(* generation of its identity.                                             *)
(***************************************************************************)
EXTENDS Coordinator

CONSTANT Clients        \* callers of the handlers

ASSUME HolderAssumption == {"free", "main"} \cap Clients = {}

VARIABLES
  gate,           \* API.executionMu
  operation,      \* Manager.operation
  shuttingDown,   \* API.shuttingDown
  call,           \* the call each client, and main, is in
  sRunning,       \* State.Running
  sIdentity,      \* State.Identity
  sEvidence,      \* State.EvidenceIndexPath: the session it belongs to, 0 when empty
  sCancel,        \* Manager.cancel: the session it cancels, 0 when nil
  sDone,          \* Manager.done: the session it belongs to, 0 when nil
  report,         \* StartupReport.Identity of the last report that was committed
  sRun,           \* the goroutine of each session
  sCancelled      \* the sessions whose context is cancelled

managerVars == <<sRunning, sIdentity, sEvidence, sCancel, sDone, report>>
handlerVars == <<gate, operation, shuttingDown, call>>
vars == <<coordinatorVars, handlerVars, managerVars, sRun, sCancelled>>

Callers == Clients \cup {"main"}
Holders == Callers \cup {"free"}
NoCall == [pc |-> "idle", session |-> 0]

\* An identity minted from the clock, which the coordinator never issued.
Unissued == [kind |-> "startup", generation |-> 0]

TypeOK ==
  /\ CoordinatorTypeOK
  /\ gate \in Clients \cup {"free"}
  /\ operation \in Holders
  /\ shuttingDown \in BOOLEAN
  /\ call \in [Callers -> [pc : {"idle", "prepare", "measure", "validate", "stop", "wait"},
                           session : 0 .. MaxGeneration]]
  /\ sRunning \in BOOLEAN
  /\ sIdentity \in Identity \cup {NoIdentity}
  /\ sEvidence \in 0 .. MaxGeneration
  /\ sCancel \in 0 .. MaxGeneration
  /\ sDone \in 0 .. MaxGeneration
  /\ report \in Identity \cup {NoIdentity, Unissued}
  /\ sRun \in [Generations -> {"none", "sample", "summary", "index", "finish", "release",
                               "close", "ended"}]
  /\ sCancelled \subseteq Generations

Init ==
  /\ CoordinatorInit
  /\ gate = "free" /\ operation = "free" /\ shuttingDown = FALSE
  /\ call = [c \in Callers |-> NoCall]
  /\ sRunning = FALSE /\ sIdentity = NoIdentity /\ sEvidence = 0
  /\ sCancel = 0 /\ sDone = 0 /\ report = NoIdentity
  /\ sRun = [g \in Generations |-> "none"]
  /\ sCancelled = {}

Goto(c, pc, session) == call' = [call EXCEPT ![c] = [pc |-> pc, session |-> session]]

\* What a call holds goes with it.
Return(c) ==
  /\ call' = [call EXCEPT ![c] = NoCall]
  /\ gate' = IF gate = c THEN "free" ELSE gate
  /\ operation' = IF operation = c THEN "free" ELSE operation
  /\ UNCHANGED shuttingDown

-----------------------------------------------------------------------------
(* Starting a session, and measuring the startup.                          *)

\* Both handlers look at the flag of the session and take both mutexes.
Admits == gate = "free" /\ operation = "free" /\ ~shuttingDown /\ ~sRunning

Enter(c, pc, identity) ==
  /\ gate' = c /\ operation' = c
  /\ Goto(c, pc, identity.generation)
  /\ UNCHANGED <<shuttingDown, managerVars, sRun, sCancelled>>

StartConfig(c) ==
  Admits /\ Acquire("performance") /\ Enter(c, "prepare", NewIdentity("performance"))

\* The app cannot be sampled, or the files of the session not be written.
StartFails(c) ==
  /\ call[c].pc = "prepare"
  /\ Release(Session("performance", call[c].session))
  /\ Return(c)
  /\ UNCHANGED <<managerVars, sRun, sCancelled>>

\* The state is replaced as a whole, and the goroutine launched.
Publish(c) ==
  /\ call[c].pc = "prepare"
  /\ sRunning' = TRUE
  /\ sIdentity' = Session("performance", call[c].session)
  /\ sEvidence' = 0
  /\ sCancel' = call[c].session
  /\ sDone' = call[c].session
  /\ sRun' = [sRun EXCEPT ![call[c].session] = "sample"]
  /\ Return(c)
  /\ UNCHANGED <<coordinatorVars, report, sCancelled>>

MeasureStartup(c) ==
  Admits /\ Acquire("startup") /\ Enter(c, "measure", NewIdentity("startup"))

\* A measurement that fails leaves no report.  One that succeeds is committed
\* under the identity made before the acquisition: the one that Acquire
\* returned is another variable, of the inner block.
Measured(c) ==
  /\ call[c].pc = "measure"
  /\ report' \in {report, Unissued}
  /\ Release(Session("startup", call[c].session))
  /\ Return(c)
  /\ UNCHANGED <<sRunning, sIdentity, sEvidence, sCancel, sDone, sRun, sCancelled>>

-----------------------------------------------------------------------------
(* Stopping.                                                               *)

\* StopOwned: the token must be that of the last session, and known to the
\* coordinator while the session runs.
StopOwned(c, token) ==
  /\ gate = "free"
  /\ sIdentity = token
  /\ gate' = c
  /\ Goto(c, IF sRunning THEN "validate" ELSE "stop", token.generation)
  /\ UNCHANGED <<coordinatorVars, operation, shuttingDown, managerVars, sRun, sCancelled>>

Validate(c) ==
  /\ call[c].pc = "validate"
  /\ IF Validates(Session("performance", call[c].session))
       THEN Goto(c, "stop", call[c].session) /\ UNCHANGED <<gate, operation, shuttingDown>>
       ELSE Return(c)
  /\ UNCHANGED <<coordinatorVars, managerVars, sRun, sCancelled>>

\* The handler that stops all services asks for no token.
StopServices(c) ==
  /\ gate = "free"
  /\ gate' = c
  /\ Goto(c, "stop", 0)
  /\ UNCHANGED <<coordinatorVars, operation, shuttingDown, managerVars, sRun, sCancelled>>

BeginShutdown ==
  /\ gate = "free"
  /\ shuttingDown' = TRUE
  /\ UNCHANGED <<coordinatorVars, gate, operation, call, managerVars, sRun, sCancelled>>

MainStop ==
  /\ shuttingDown
  /\ call["main"].pc = "idle"
  /\ Goto("main", "stop", 0)
  /\ UNCHANGED <<coordinatorVars, gate, operation, shuttingDown, managerVars, sRun, sCancelled>>

\* Mutant: Stop waits for the session without cancelling it.
CancelNothing(c) ==
  /\ call[c].pc = "stop" /\ operation = "free" /\ sCancel # 0
  /\ operation' = c
  /\ Goto(c, "wait", sDone)
  /\ UNCHANGED <<coordinatorVars, gate, shuttingDown, managerVars, sRun, sCancelled>>

Cancel(c) ==
  /\ call[c].pc = "stop" /\ operation = "free" /\ sCancel # 0
  /\ operation' = c
  /\ sCancelled' = sCancelled \cup {sCancel}
  /\ Goto(c, "wait", sDone)
  /\ UNCHANGED <<coordinatorVars, gate, shuttingDown, managerVars, sRun>>

NothingToStop(c) ==
  /\ call[c].pc = "stop" /\ operation = "free" /\ sCancel = 0
  /\ Return(c)
  /\ UNCHANGED <<coordinatorVars, managerVars, sRun, sCancelled>>

StopReturns(c) ==
  /\ call[c].pc = "wait"
  /\ sRun[call[c].session] = "ended"
  /\ sDone' = 0
  /\ Return(c)
  /\ UNCHANGED <<coordinatorVars, sRunning, sIdentity, sEvidence, sCancel, report, sRun,
                 sCancelled>>

\* Mutant: a call that gives up takes the channel with it.
GiveUpForgetsDone(c) ==
  /\ call[c].pc = "wait"
  /\ sDone' = 0
  /\ Return(c)
  /\ UNCHANGED <<coordinatorVars, sRunning, sIdentity, sEvidence, sCancel, report, sRun,
                 sCancelled>>

\* Three seconds pass, or the request's context ends.
GiveUp(c) ==
  /\ call[c].pc = "wait"
  /\ Return(c)
  /\ UNCHANGED <<coordinatorVars, managerVars, sRun, sCancelled>>

-----------------------------------------------------------------------------
(* The goroutine of session g.                                             *)

RunGoto(g, pc) == sRun' = [sRun EXCEPT ![g] = pc]

\* Cancelled, its duration over, five failures in a row, or a full disk.
Sampled(g) ==
  /\ sRun[g] = "sample"
  /\ RunGoto(g, "summary")
  /\ UNCHANGED <<coordinatorVars, handlerVars, managerVars, sCancelled>>

\* Mutant: the device is given back before the summary is written.
SummaryReleases(g) ==
  /\ sRun[g] = "summary"
  /\ Release(sIdentity)
  /\ RunGoto(g, "index")
  /\ UNCHANGED <<handlerVars, managerVars, sCancelled>>

\* The summary is of the state the manager has now.
WriteSummary(g) ==
  /\ sRun[g] = "summary"
  /\ RunGoto(g, "index")
  /\ UNCHANGED <<coordinatorVars, handlerVars, managerVars, sCancelled>>

WriteIndex(g) ==
  /\ sRun[g] = "index"
  /\ RunGoto(g, "finish")
  /\ sEvidence' \in {sEvidence, g}
  /\ UNCHANGED <<coordinatorVars, handlerVars, sRunning, sIdentity, sCancel, sDone, report,
                 sCancelled>>

Finish(g) ==
  /\ sRun[g] = "finish"
  /\ RunGoto(g, "release")
  /\ sRunning' = FALSE
  /\ sCancel' = 0
  /\ UNCHANGED <<coordinatorVars, handlerVars, sIdentity, sEvidence, sDone, report, sCancelled>>

FinishReleases(g) ==
  /\ sRun[g] = "release"
  /\ Release(Session("performance", g))
  /\ RunGoto(g, "close")
  /\ UNCHANGED <<handlerVars, managerVars, sCancelled>>

Close(g) ==
  /\ sRun[g] = "close"
  /\ RunGoto(g, "ended")
  /\ UNCHANGED <<coordinatorVars, handlerVars, managerVars, sCancelled>>

-----------------------------------------------------------------------------
(* Other sessions of the device, whose finalizers may release twice.       *)

OtherAcquires ==
  /\ Acquire("exploration")
  /\ UNCHANGED <<handlerVars, managerVars, sRun, sCancelled>>

OtherReleases(identity) ==
  /\ identity.kind = "exploration"
  /\ Release(identity)
  /\ UNCHANGED <<handlerVars, managerVars, sRun, sCancelled>>

-----------------------------------------------------------------------------

ClientStep(c) ==
  \/ StartConfig(c)
  \/ StartFails(c)
  \/ Publish(c)
  \/ MeasureStartup(c)
  \/ Measured(c)
  \/ \E token \in Issued : StopOwned(c, token)
  \/ Validate(c)
  \/ StopServices(c)

StopStep(c) == Cancel(c) \/ NothingToStop(c) \/ StopReturns(c)

Sealing(g) ==
  \/ WriteSummary(g)
  \/ WriteIndex(g)
  \/ Finish(g)
  \/ FinishReleases(g)
  \/ Close(g)

Next ==
  \/ \E c \in Clients : ClientStep(c)
  \/ \E c \in Callers : StopStep(c) \/ GiveUp(c)
  \/ BeginShutdown
  \/ MainStop
  \/ \E g \in Generations : Sampled(g) \/ Sealing(g)
  \/ OtherAcquires
  \/ \E identity \in Issued : OtherReleases(identity)

Spec == Init /\ [][Next]_vars

\* A cancelled sample returns, within its fifteen seconds, and the rest of the
\* goroutine is file writing.  A call that has the mutex goes on.
Fairness ==
  /\ \A g \in Generations : WF_vars(g \in sCancelled /\ Sampled(g)) /\ WF_vars(Sealing(g))
  /\ \A c \in Clients : WF_vars(Validate(c)) /\ WF_vars(StopStep(c))
FairSpec == Spec /\ Fairness

-----------------------------------------------------------------------------
(* Properties.                                                             *)

Sampling == {"sample", "summary", "index", "finish"}

\* The goroutine reads and writes the manager's one state without comparing
\* whose it is: as long as it does, the state, the cancel function and the
\* channel a Stop waits for are its own.
StateIsSamplers ==
  \A g \in Generations : sRun[g] \in Sampling =>
    sRunning /\ sIdentity = Session("performance", g) /\ sCancel = g /\ sDone = g

\* From the acquisition, through a start that may still fail, to the last file
\* of the session, the device is the session's.
SamplerOwnsDevice ==
  /\ \A g \in Generations :
       sRun[g] \in Sampling \cup {"release"} => active = Session("performance", g)
  /\ \A c \in Clients :
       call[c].pc = "prepare" => active = Session("performance", call[c].session)

\* The index of the evidence that the state names is the one of its session.
EvidenceOfSession == sEvidence \in {0, sIdentity.generation}

\* The startup is measured with nothing else on the device: no sampler, whose
\* probes would be part of the times, and no other session.
MeasuresAlone ==
  \A c \in Clients : call[c].pc = "measure" =>
    /\ active = Session("startup", call[c].session)
    /\ \A g \in Generations : sRun[g] \in {"none", "close", "ended"}

\* A session that a call waits for seals its files and leaves the device to the
\* next, also when the call gives up waiting.
StopConverges ==
  \A g \in Generations :
    (\E c \in Callers : call[c].pc = "wait" /\ call[c].session = g)
      ~> sRun[g] = "ended" /\ active # Session("performance", g)

\* The identity that a startup report and its evidence carry is one that the
\* coordinator issued: docs/todos/trusted-execution-remediation-todo-20260912.md
\* binds performance results to the execution they were taken in.
ReportNamesExecution == report # NoIdentity => report \in Issued
====
