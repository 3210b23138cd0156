---- MODULE RunnerSession ----
(***************************************************************************)
(* runner.Manager: the life of a random-traversal run.  Start launches the *)
(* Java runner process; a goroutine waits for the process, derives the     *)
(* artifacts of the run and publishes its result; Stop asks the process to *)
(* end through a marker file, and kills it when it does not.               *)
(*                                                                         *)
(* The handlers of the HTTP API run under executionMu, called gate here.   *)
(* The shutdown in main stops the runner without it, after BeginShutdown.  *)
(***************************************************************************)
EXTENDS Integers

CONSTANTS
  Clients,      \* callers of the handlers that stop a run
  MaxRuns       \* bound on the runs of a behaviour

ASSUME MaxRunsAssumption == MaxRuns \in Nat
ASSUME HolderAssumption == {"free", "main"} \cap Clients = {}

VARIABLES
  gate,           \* API.executionMu: the client whose handler holds it, or "free"
  shuttingDown,   \* API.shuttingDown
  call,           \* the Stop call each client, and main, is in
  phase,          \* the Running and Finalizing flags of the state
  run,            \* State.Identity: the last run, 0 before the first
  command,        \* Manager.command: the run whose process it is, 0 when nil
  stopRequested,  \* Manager.stopRequested
  reason,         \* State.StopReason
  suppressed,     \* State.OverlaySuppressed
  controlError,   \* State.OverlayControlError is not empty
  tucked,         \* the run whose request to hide the companion's overlay reached it and was
                  \* not followed by a restore that did, 0 for none
  unrestored,     \* the waiters that got an error from their restore
  marker,         \* the stop file: the run it was written for, 0 when absent
  process,        \* the Java process of each run
  killed,         \* the runs whose process was sent a kill
  waiter,         \* the wait goroutine of each run
  sawStop,        \* the runs whose waiter read stopRequested as set
  derived,        \* the stop reason each waiter is about to publish
  stopReturned    \* the runs for which a Stop call returned success

overlay == <<suppressed, controlError, tucked>>
managerVars == <<phase, run, command, stopRequested, reason, overlay>>
processVars == <<process, killed>>
waiterVars == <<waiter, sawStop, derived, unrestored>>
handlerVars == <<gate, shuttingDown, call, stopReturned>>
vars == <<handlerVars, managerVars, marker, processVars, waiterVars>>

Runs == 1 .. MaxRuns
FailedStart == MaxRuns + 1      \* the overlay was hidden by a start that then failed
Callers == Clients \cup {"main"}
Reasons == {"none", "stopped", "incident", "natural"}
NoCall == [pc |-> "idle", target |-> 0]

TypeOK ==
  /\ gate \in Clients \cup {"free"}
  /\ shuttingDown \in BOOLEAN
  /\ call \in [Callers -> [pc : {"idle", "mark", "write", "poll", "killed", "seal", "ended"},
                           target : 0 .. MaxRuns]]
  /\ phase \in {"idle", "running", "finalizing"}
  /\ run \in 0 .. MaxRuns
  /\ command \in 0 .. MaxRuns
  /\ stopRequested \in BOOLEAN
  /\ reason \in Reasons
  /\ suppressed \in BOOLEAN
  /\ controlError \in BOOLEAN
  /\ tucked \in 0 .. FailedStart
  /\ marker \in 0 .. MaxRuns
  /\ process \in [Runs -> {"none", "booting", "alive", "exited"}]
  /\ killed \subseteq Runs
  /\ waiter \in [Runs -> {"none", "wait", "derive", "restore", "publish", "ended"}]
  /\ sawStop \subseteq Runs
  /\ derived \in [Runs -> Reasons]
  /\ unrestored \subseteq Runs
  /\ stopReturned \subseteq Runs

Init ==
  /\ gate = "free"
  /\ shuttingDown = FALSE
  /\ call = [c \in Callers |-> NoCall]
  /\ phase = "idle" /\ run = 0 /\ command = 0
  /\ stopRequested = FALSE /\ reason = "none"
  /\ suppressed = FALSE /\ controlError = FALSE /\ tucked = 0
  /\ marker = 0
  /\ process = [g \in Runs |-> "none"]
  /\ killed = {}
  /\ waiter = [g \in Runs |-> "none"]
  /\ sawStop = {}
  /\ derived = [g \in Runs |-> "none"]
  /\ unrestored = {}
  /\ stopReturned = {}

-----------------------------------------------------------------------------
(* Start holds Manager.mu from the check to the publication of the state;  *)
(* a busy manager or a repeated request returns the old state.             *)

\* Mutant: the manager's own flags are not looked at.
AdmitsWhileBusy == gate = "free" /\ ~shuttingDown

Admits == gate = "free" /\ ~shuttingDown /\ phase = "idle"

\* SuppressOverlay for run g: nothing to hide, hidden, or an error, after which the request
\* may have taken effect all the same.
SuppressOverlay(g) ==
  \/ suppressed' = FALSE /\ controlError' = FALSE /\ UNCHANGED tucked
  \/ suppressed' = TRUE /\ controlError' = FALSE /\ tucked' = g
  \/ suppressed' = FALSE /\ controlError' = TRUE /\ tucked' \in {tucked, g}

Start ==
  /\ Admits
  /\ run < MaxRuns
  /\ marker' = 0
  /\ run' = run + 1
  /\ command' = run + 1
  /\ phase' = "running"
  /\ stopRequested' = FALSE
  /\ reason' = "none"
  /\ SuppressOverlay(run + 1)
  /\ process' = [process EXCEPT ![run + 1] = "booting"]
  /\ waiter' = [waiter EXCEPT ![run + 1] = "wait"]
  /\ UNCHANGED <<handlerVars, killed, sawStop, derived, unrestored>>

\* The session directory, the log or the process cannot be created: the stop file is gone by
\* then.  The overlay was not touched yet, or it is restored, or it stays as the start left
\* it: the error of that restore is dropped, and one of the hide with it.
StartFails ==
  /\ Admits
  /\ marker' = 0
  /\ tucked' \in {tucked, 0, FailedStart}
  /\ UNCHANGED <<handlerVars, phase, run, command, stopRequested, reason, suppressed,
                 controlError, processVars, waiterVars>>

-----------------------------------------------------------------------------
(* The Java process.  It deletes the stop file when it comes up, and ends  *)
(* by itself, or when it sees the file or is killed.                       *)

Boot(g) ==
  /\ process[g] = "booting"
  /\ process' = [process EXCEPT ![g] = "alive"]
  /\ marker' = 0
  /\ UNCHANGED <<handlerVars, managerVars, killed, waiterVars>>

Exit(g) ==
  /\ process[g] \in {"booting", "alive"}
  /\ process' = [process EXCEPT ![g] = "exited"]
  /\ UNCHANGED <<handlerVars, managerVars, marker, killed, waiterVars>>

-----------------------------------------------------------------------------
(* The wait goroutine of run g.                                            *)

\* Mutant: the waiter does not read stopRequested.
CollectIgnoresStop(g) ==
  /\ waiter[g] = "wait"
  /\ process[g] = "exited"
  /\ waiter' = [waiter EXCEPT ![g] = IF command = g THEN "derive" ELSE "ended"]
  /\ phase' = IF command = g THEN "finalizing" ELSE phase
  /\ UNCHANGED <<handlerVars, run, command, stopRequested, reason, overlay, marker,
                 processVars, sawStop, derived, unrestored>>

\* The process is over; a waiter whose command is not current any more leaves.
Collect(g) ==
  /\ waiter[g] = "wait"
  /\ process[g] = "exited"
  /\ IF command = g
       THEN /\ waiter' = [waiter EXCEPT ![g] = "derive"]
            /\ sawStop' = IF stopRequested THEN sawStop \cup {g} ELSE sawStop
            /\ phase' = "finalizing"
       ELSE /\ waiter' = [waiter EXCEPT ![g] = "ended"]
            /\ UNCHANGED <<sawStop, phase>>
  /\ UNCHANGED <<handlerVars, run, command, stopRequested, reason, overlay, marker,
                 processVars, derived, unrestored>>

\* Artifacts, diagnostics and the verdict: an incident of the target app
\* outranks a requested stop, which outranks what the log says.
Derive(g) ==
  /\ waiter[g] = "derive"
  /\ waiter' = [waiter EXCEPT ![g] = "restore"]
  /\ \E found \in {"incident", IF g \in sawStop THEN "stopped" ELSE "natural"} :
       derived' = [derived EXCEPT ![g] = found]
  /\ UNCHANGED <<handlerVars, managerVars, marker, processVars, sawStop, unrestored>>

\* Mutant: the error of the restore is dropped, as StartFails drops it.
RestoreQuietly(g) ==
  /\ waiter[g] = "restore"
  /\ waiter' = [waiter EXCEPT ![g] = "publish"]
  /\ IF suppressed THEN tucked' \in {0, tucked} ELSE UNCHANGED tucked
  /\ UNCHANGED <<handlerVars, phase, run, command, stopRequested, reason, suppressed,
                 controlError, marker, processVars, sawStop, derived, unrestored>>

\* One attempt, of 3 seconds, for a run that has hidden the overlay: one that fails is not
\* repeated, and may have reached the companion.
RestoreOverlay(g) ==
  /\ waiter[g] = "restore"
  /\ waiter' = [waiter EXCEPT ![g] = "publish"]
  /\ \/ ~suppressed /\ UNCHANGED <<tucked, unrestored>>
     \/ suppressed /\ tucked' = 0 /\ UNCHANGED unrestored
     \/ suppressed /\ tucked' \in {0, tucked} /\ unrestored' = unrestored \cup {g}
  /\ UNCHANGED <<handlerVars, phase, run, command, stopRequested, reason, suppressed,
                 controlError, marker, processVars, sawStop, derived>>

\* The final state replaces the state, and finalizationDone is closed.
Publish(g) ==
  /\ waiter[g] = "publish"
  /\ waiter' = [waiter EXCEPT ![g] = "ended"]
  /\ IF command = g
       THEN /\ phase' = "idle"
            /\ reason' = derived[g]
            /\ stopRequested' = FALSE
            /\ command' = 0
            /\ suppressed' = FALSE
            /\ controlError' = (controlError \/ g \in unrestored)
       ELSE UNCHANGED <<phase, reason, stopRequested, command, suppressed, controlError>>
  /\ unrestored' = unrestored \ {g}
  /\ UNCHANGED <<handlerVars, run, tucked, marker, processVars, sawStop, derived>>

-----------------------------------------------------------------------------
(* Stop.                                                                   *)

Goto(c, pc, target) == call' = [call EXCEPT ![c] = [pc |-> pc, target |-> target]]

\* A handler's call is over, and its lock free; main goes on to wait for the
\* finalization.
Return(c) ==
  /\ Goto(c, IF c = "main" THEN "seal" ELSE "idle", 0)
  /\ gate' = IF gate = c THEN "free" ELSE gate

\* Mutant: the handler that stops a run does not take executionMu.
StopOwnedUngated(c, token) ==
  /\ call[c].pc = "idle"
  /\ phase = "running"
  /\ run = token
  /\ Goto(c, "mark", 0)
  /\ UNCHANGED <<gate, shuttingDown, stopReturned, managerVars, marker, processVars, waiterVars>>

\* StopOwned: without a running run nothing happens, else the token must be
\* that of the run.
StopOwned(c, token) ==
  /\ gate = "free"
  /\ phase = "running"
  /\ run = token
  /\ gate' = c
  /\ Goto(c, "mark", 0)
  /\ UNCHANGED <<shuttingDown, stopReturned, managerVars, marker, processVars, waiterVars>>

BeginShutdown ==
  /\ gate = "free"
  /\ shuttingDown' = TRUE
  /\ UNCHANGED <<gate, call, stopReturned, managerVars, marker, processVars, waiterVars>>

\* main stops the runner in any case, with no token and no lock.
MainStop ==
  /\ shuttingDown
  /\ call["main"].pc = "idle"
  /\ Goto("main", "mark", 0)
  /\ UNCHANGED <<gate, shuttingDown, stopReturned, managerVars, marker, processVars, waiterVars>>

\* Mutant: the call aims one run too far.
MarkNext(c) ==
  /\ call[c].pc = "mark"
  /\ phase = "running"
  /\ stopRequested' = TRUE
  /\ Goto(c, "write", command + 1)
  /\ UNCHANGED <<gate, shuttingDown, stopReturned, phase, run, command, reason, overlay,
                 marker, processVars, waiterVars>>

\* The first section of Stop: the run may have ended since the token was
\* compared.
Mark(c) ==
  /\ call[c].pc = "mark"
  /\ IF phase = "running"
       THEN /\ stopRequested' = TRUE
            /\ Goto(c, "write", command)
            /\ UNCHANGED gate
       ELSE /\ Return(c)
            /\ UNCHANGED stopRequested
  /\ UNCHANGED <<shuttingDown, stopReturned, phase, run, command, reason, overlay, marker,
                 processVars, waiterVars>>

WriteMarker(c) ==
  /\ call[c].pc = "write"
  /\ marker' = call[c].target
  /\ Goto(c, "poll", call[c].target)
  /\ UNCHANGED <<gate, shuttingDown, stopReturned, managerVars, processVars, waiterVars>>

WriteFails(c) ==
  /\ call[c].pc = "write"
  /\ stopRequested' = IF command = call[c].target THEN FALSE ELSE stopRequested
  /\ Return(c)
  /\ UNCHANGED <<shuttingDown, stopReturned, phase, run, command, reason, overlay, marker,
                 processVars, waiterVars>>

\* Mutant: the call waits on without killing the process.
KillNothing(c) ==
  /\ call[c].pc = "poll"
  /\ phase = "running"
  /\ Goto(c, "killed", call[c].target)
  /\ UNCHANGED <<gate, shuttingDown, stopReturned, managerVars, marker, processVars, waiterVars>>

\* Five seconds without effect: the process of the run is killed.
Kill(c) ==
  /\ call[c].pc = "poll"
  /\ phase = "running"
  /\ killed' = killed \cup {call[c].target}
  /\ Goto(c, "killed", call[c].target)
  /\ UNCHANGED <<gate, shuttingDown, stopReturned, managerVars, marker, process, waiterVars>>

PollSeesEnd(c) ==
  /\ call[c].pc \in {"poll", "killed"}
  /\ phase # "running"
  /\ stopReturned' = stopReturned \cup {call[c].target}
  /\ Return(c)
  /\ UNCHANGED <<shuttingDown, managerVars, marker, processVars, waiterVars>>

\* Two seconds after the kill the call reports that the run did not converge.
PollGivesUp(c) ==
  /\ call[c].pc = "killed"
  /\ phase = "running"
  /\ Return(c)
  /\ UNCHANGED <<shuttingDown, stopReturned, managerVars, marker, processVars, waiterVars>>

\* WaitFinalized of main: the channel of the current run, or an idle manager.
MainSealed ==
  /\ call["main"].pc = "seal"
  /\ phase = "idle"
  /\ Goto("main", "ended", 0)
  /\ UNCHANGED <<gate, shuttingDown, stopReturned, managerVars, marker, processVars, waiterVars>>

-----------------------------------------------------------------------------

RunStep(g) ==
  \/ Boot(g)
  \/ Exit(g)
  \/ Collect(g)
  \/ Derive(g)
  \/ RestoreOverlay(g)
  \/ Publish(g)

WaiterStep(g) == Collect(g) \/ Derive(g) \/ RestoreOverlay(g) \/ Publish(g)

CallStep(c) ==
  \/ Mark(c)
  \/ WriteMarker(c)
  \/ WriteFails(c)
  \/ Kill(c)
  \/ PollSeesEnd(c)
  \/ PollGivesUp(c)

Next ==
  \/ Start
  \/ StartFails
  \/ \E g \in Runs : RunStep(g)
  \/ \E c \in Clients, token \in Runs : StopOwned(c, token)
  \/ \E c \in Callers : CallStep(c)
  \/ BeginShutdown
  \/ MainStop
  \/ MainSealed

Spec == Init /\ [][Next]_vars

\* A killed process is reaped, waiters and calls go on, and main stops the
\* runner once it shuts down.  No process is trusted to look at the marker.
FairSpec ==
  /\ Spec
  /\ \A g \in Runs : WF_vars(g \in killed /\ Exit(g)) /\ WF_vars(WaiterStep(g))
  /\ \A c \in Callers : WF_vars(CallStep(c))
  /\ WF_vars(MainStop)
  /\ WF_vars(MainSealed)

-----------------------------------------------------------------------------
(* Properties.                                                             *)

\* There is one runner process, and the state knows it: no run starts while
\* the process of the last one is still there.
OneProcess ==
  \A g \in Runs :
    process[g] \in {"booting", "alive"} => run = g /\ command = g /\ phase = "running"

\* The stop file is shared by all runs, and a run that sees it ends: it is
\* never there for a run other than the one it was written for.
MarkerIsForThisRun ==
  \A g \in Runs : process[g] = "alive" => marker \in {0, g}

\* A run that a Stop call ended, after it asked and saw the end, is published
\* as stopped unless the target app had an incident.  During the shutdown the
\* stop of main is not serialised with a handler's: if writing its marker
\* fails, it takes back the request of both.
StoppedRunIsReported ==
  phase = "idle" /\ run \in stopReturned /\ ~shuttingDown
    => reason \in {"stopped", "incident"}

\* A run that has hidden the companion's overlay is not published yet, or its state says
\* that the overlay could not be controlled, although hide, restore and publication are
\* steps of two goroutines and each of the first two may fail half way.
HiddenOverlayIsAnswered ==
  /\ suppressed => phase # "idle"
  /\ run # 0 /\ tucked = run => suppressed \/ controlError

\* A marker that was written, and even one the booting process deletes, ends
\* the run it is for: the kill converges what the marker does not.
StopConverges ==
  \A c \in Callers : \A g \in Runs :
    call[c].pc \in {"poll", "killed"} /\ call[c].target = g ~> process[g] = "exited"
====
