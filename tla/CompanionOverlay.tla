---- MODULE CompanionOverlay ----
(* The floating window of the companion during the agent's explorations.  The agent asks the *)
(* service to tuck the window into an edge handle and to open it again (overlay.go through   *)
(* PackageMetadataProvider): a request that may fail half way and is not repeated.  The      *)
(* service itself polls the agent every 500 ms and tucks and opens its window by what it     *)
(* hears, the user opens, tucks and leaves it meanwhile, and each of the three acts on what  *)
(* it saw before the others did (OverlayService.java).                                       *)
(*                                                                                           *)
(* The permission to draw over other apps is there; a session that is started in the window  *)
(* itself and the windows other than menu, handle and recording surface are left out: those  *)
(* behave as the menu does.                                                                  *)
EXTENDS Naturals, Sequences

CONSTANT MaxSessions   \* bound on the sessions of a behaviour

ASSUME OverlayAssumption == MaxSessions \in Nat \ {0}

VARIABLES
  oService,         \* OverlayService has been created and not destroyed
  oView,            \* what the window shows
  oAutoMinimized,   \* a restore or the end of the automation opens the menu
  oHandleRecalled,  \* the user asked for the menu during the automation
  oPoll,            \* what watchAutomationTasks has heard and not applied
  oIntents,         \* requests of the agent that Android has not delivered
  oRun,             \* where the run goroutine of the session is
  oRunning,         \* State.Running of the agent
  oSessions         \* sessions started so far

flags == <<oAutoMinimized, oHandleRecalled>>
companionVars == <<oService, oView, flags, oPoll>>
agentVars == <<oRun, oRunning, oSessions>>
overlayVars == <<companionVars, oIntents, agentVars>>

OverlayInit ==
  /\ oService = FALSE /\ oView = "none"
  /\ oAutoMinimized = FALSE /\ oHandleRecalled = FALSE
  /\ oPoll = "none"
  /\ oIntents = <<>>
  /\ oRun = "idle" /\ oRunning = FALSE /\ oSessions = 0

\* OverlayService.controlState, which each change of the window sets.
ControlState == CASE oView = "none"   -> "absent"
                  [] oView = "handle" -> "minimized"
                  [] OTHER            -> "visible"

-----------------------------------------------------------------------------
(* The service's own handlers, on its main thread.                         *)

\* suppressForAutomation; a recording keeps its controls.
Suppressed ==
  /\ oHandleRecalled' = FALSE
  /\ oView' = IF oView = "recording" THEN oView ELSE "handle"
  /\ oAutoMinimized' = (oView' = "handle")

\* restoreAfterAutomation.
Restored ==
  /\ oView' = IF oAutoMinimized /\ ~oHandleRecalled /\ oView = "handle" THEN "open" ELSE oView
  /\ oAutoMinimized' = FALSE
  /\ UNCHANGED oHandleRecalled

\* onStartCommand, after onCreate when there is no service.
Deliver ==
  /\ oIntents # <<>>
  /\ oIntents' = Tail(oIntents)
  /\ IF Head(oIntents) = "suppress" THEN Suppressed ELSE Restored
  /\ oService' = TRUE
  /\ oPoll' = IF oService THEN oPoll ELSE "wait"
  /\ UNCHANGED agentVars

\* automationTaskRunning: requests that fail count as an agent that does not run anything.
PollRead ==
  /\ oPoll = "wait"
  /\ oPoll' \in {"stopped", IF oRunning THEN "running" ELSE "stopped"}
  /\ UNCHANGED <<oService, oView, flags, oIntents, agentVars>>

\* applyAutomationWindow(true).
Tuck ==
  IF oHandleRecalled \/ oView = "recording"
    THEN UNCHANGED <<oView, flags>>
    ELSE oView' = "handle" /\ oAutoMinimized' = TRUE /\ UNCHANGED oHandleRecalled

\* Mutant: opening the menu is left to the request of the agent.
UntuckLater ==
  /\ oAutoMinimized' = FALSE /\ oHandleRecalled' = FALSE
  /\ UNCHANGED oView

\* applyAutomationWindow(false).
Untuck ==
  /\ oView' = IF oAutoMinimized /\ oView = "handle" THEN "open" ELSE oView
  /\ oAutoMinimized' = FALSE /\ oHandleRecalled' = FALSE

PollApply ==
  /\ oPoll \in {"running", "stopped"}
  /\ IF oPoll = "running" THEN Tuck ELSE Untuck
  /\ oPoll' = "wait"
  /\ UNCHANGED <<oService, oIntents, agentVars>>

-----------------------------------------------------------------------------
(* The user.                                                               *)

\* The launcher starts the service without an action.
UserOpens ==
  /\ oView = "none"
  /\ oView' = "open"
  /\ oService' = TRUE
  /\ oPoll' = IF oService THEN oPoll ELSE "wait"
  /\ UNCHANGED <<flags, oIntents, agentVars>>

UserMinimizes ==
  /\ oView = "open"
  /\ oView' = "handle"
  /\ UNCHANGED <<oService, flags, oPoll, oIntents, agentVars>>

UserRecords ==
  /\ oView \in {"open", "recording"}
  /\ oView' = IF oView = "open" THEN "recording" ELSE "open"
  /\ UNCHANGED <<oService, flags, oPoll, oIntents, agentVars>>


LongPress ==
  /\ oView = "handle"
  /\ oView' = "open" /\ oHandleRecalled' = TRUE /\ oAutoMinimized' = FALSE
  /\ UNCHANGED <<oService, oPoll, oIntents, agentVars>>

\* Mutant: the poll does not look whether the service was destroyed meanwhile.
ServiceEndsPollGoesOn ==
  /\ oService
  /\ oService' = FALSE /\ oView' = "none"
  /\ oAutoMinimized' = FALSE /\ oHandleRecalled' = FALSE
  /\ oIntents' \in {oIntents, <<>>}
  /\ UNCHANGED <<oPoll, agentVars>>

\* The row that leaves, or the end of the process: a request that has not been delivered may
\* be lost with the service, or create another one.
ServiceEnds ==
  /\ oService
  /\ oService' = FALSE /\ oView' = "none" /\ oPoll' = "none"
  /\ oAutoMinimized' = FALSE /\ oHandleRecalled' = FALSE
  /\ oIntents' \in {oIntents, <<>>}
  /\ UNCHANGED agentVars

-----------------------------------------------------------------------------
(* A session of the agent; a call to the companion may fail before or after it took effect. *)

AgentGoto(pc) == oRun' = pc
Request(request) == oIntents' = Append(oIntents, request)

BeginRun ==
  /\ oRun = "idle" /\ oSessions < MaxSessions
  /\ AgentGoto("check")
  /\ oRunning' = TRUE /\ oSessions' = oSessions + 1
  /\ UNCHANGED <<companionVars, oIntents>>

\* SuppressOverlay: a window that is absent or minimized, or whose state cannot be read, is
\* not touched.
CheckOverlay ==
  /\ oRun = "check"
  /\ \/ AgentGoto("loop")
     \/ ControlState = "visible" /\ AgentGoto("ask")
  /\ UNCHANGED <<companionVars, oIntents, oRunning, oSessions>>

AskToSuppress ==
  /\ oRun = "ask"
  /\ \/ Request("suppress") /\ oRun' \in {"await", "loop"}
     \/ AgentGoto("loop") /\ UNCHANGED oIntents
  /\ UNCHANGED <<companionVars, oRunning, oSessions>>

\* The window is tucked or gone, or the 3 seconds are over and the session goes on without a
\* restore before it.
AwaitTucked ==
  /\ oRun = "await"
  /\ AgentGoto("loop") \/ (ControlState # "visible" /\ AgentGoto("tucked"))
  /\ UNCHANGED <<companionVars, oIntents, oRunning, oSessions>>

\* The loop ends; one that was cancelled is reported as running until the finalizer.
LoopEnds ==
  /\ oRun \in {"loop", "tucked"}
  /\ AgentGoto(IF oRun = "tucked" THEN "restore" ELSE "seal")
  /\ oRunning' \in BOOLEAN
  /\ UNCHANGED <<companionVars, oIntents, oSessions>>

\* RestoreOverlay: one attempt.
AskToRestore ==
  /\ oRun = "restore"
  /\ Request("restore") \/ UNCHANGED oIntents
  /\ AgentGoto("seal")
  /\ UNCHANGED <<companionVars, oRunning, oSessions>>

SealRun ==
  /\ oRun = "seal"
  /\ AgentGoto("idle")
  /\ oRunning' = FALSE
  /\ UNCHANGED <<companionVars, oIntents, oSessions>>

-----------------------------------------------------------------------------

UserStep == UserOpens \/ UserMinimizes \/ UserRecords \/ LongPress \/ ServiceEnds
AgentStep == BeginRun \/ CheckOverlay \/ AskToSuppress \/ AwaitTucked \/ LoopEnds \/ AskToRestore \/ SealRun
OverlayNext == Deliver \/ PollRead \/ PollApply \/ UserStep \/ AgentStep

\* The main thread and the worker of the service go on while there is one.
OverlayFairness == WF_overlayVars(PollRead) /\ WF_overlayVars(PollApply)
OverlaySpec == OverlayInit /\ [][OverlayNext]_overlayVars /\ OverlayFairness

\* Types; a service that is gone has no window and no poll.
OverlayTypeOK ==
  /\ oService \in BOOLEAN
  /\ oView \in {"none", "open", "handle", "recording"}
  /\ oAutoMinimized \in BOOLEAN /\ oHandleRecalled \in BOOLEAN
  /\ oPoll \in {"none", "wait", "running", "stopped"}
  /\ oIntents \in Seq({"suppress", "restore"})
  /\ oRun \in {"idle", "check", "ask", "await", "loop", "tucked", "restore", "seal"}
  /\ oRunning \in BOOLEAN
  /\ oSessions \in 0 .. MaxSessions
  /\ ~oService <=> oPoll = "none"
  /\ ~oService => oView = "none"

\* The automation opens only a window that it has tucked itself and that the user has not
\* opened since: requests, polls and a long press in any order leave no claim on a menu.
TuckedIsNotRecalled == oAutoMinimized => oView = "handle" /\ ~oHandleRecalled


\* A window that was tucked for a session opens when none runs any more, although the request
\* that restores it may fail, come before a late request to tuck it, or never be made.
MenuComesBack == oView = "handle" /\ oAutoMinimized ~> oRunning \/ oView # "handle"
====
