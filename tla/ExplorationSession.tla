---- MODULE ExplorationSession ----
(***************************************************************************)
(* exploration.Manager: the life of an intelligent-exploration session.    *)
(* Start takes the device and launches the run goroutine; the goroutine    *)
(* explores, finishes, seals its artifacts, gives the device back and      *)
(* closes its done channel; Stop and StopOwned cancel it and wait.  Every  *)
(* action is one critical section of Manager.mu or one step between two.   *)
(*                                                                         *)
(* A session is named by the generation of its identity.  The goroutine of *)
(* an old session may still be closing while the next one runs, hence the  *)
(* functions over generations.                                             *)
(***************************************************************************)
EXTENDS Coordinator

CONSTANTS
  Clients,      \* callers of Stop and StopOwned
  Requests      \* request ids

ASSUME RequestsAssumption == "none" \notin Requests

VARIABLES
  xPhase,          \* the Running, Stopping and Finalizing flags of the state
  xRequest,        \* the request id of the last session
  xIdentity,       \* Manager.identity
  xReason,         \* State.StopReason
  xStopRequested,  \* Manager.stopRequested
  xCancel,         \* Manager.cancel: the session it cancels, 0 when nil
  xPc,             \* where the run goroutine of a session is
  xCancelled,      \* the sessions whose context is cancelled
  xSealed,         \* the identity the run's finalizer read and will release
  xSuppressed,     \* State.OverlaySuppressed
  xControlError,   \* State.OverlayControlError is not empty
  xTucked,         \* the session whose request to hide the companion's overlay reached it
                   \* and was not followed by a restore that did, 0 for none
  xCall            \* the Stop or StopOwned call each client is in

xState == <<xPhase, xRequest, xIdentity, xReason, xStopRequested, xCancel>>
xOverlay == <<xSuppressed, xControlError, xTucked>>
xGoroutines == <<xPc, xCancelled, xSealed, xOverlay>>
xVars == <<xState, xGoroutines, xCall>>

Phases == {"idle", "running", "stopping", "finalizing"}
Driving == {"start", "loop"}                    \* the run may use the device
Pcs == Driving \cup {"none", "restore", "seal", "release", "clear", "close", "ended"}
Reasons == {"none", "stopped", "natural"}
NoRequest == "none"
CallPcs == {"idle", "validate", "stop", "cancel", "wait"}
Call == [pc : CallPcs, owner : Identity \cup {NoIdentity},
         target : 0 .. MaxGeneration, cancel : 0 .. MaxGeneration]
NoCall == [pc |-> "idle", owner |-> NoIdentity, target |-> 0, cancel |-> 0]

XTypeOK ==
  /\ CoordinatorTypeOK
  /\ xPhase \in Phases
  /\ xRequest \in Requests \cup {NoRequest}
  /\ xIdentity \in Identity \cup {NoIdentity}
  /\ xReason \in Reasons
  /\ xStopRequested \in BOOLEAN
  /\ xCancel \in 0 .. MaxGeneration
  /\ xPc \in [Generations -> Pcs]
  /\ xCancelled \in SUBSET Generations
  /\ xSealed \in [Generations -> Identity \cup {NoIdentity}]
  /\ xSuppressed \in BOOLEAN
  /\ xControlError \in BOOLEAN
  /\ xTucked \in 0 .. MaxGeneration
  /\ xCall \in [Clients -> Call]

XInit ==
  /\ xPhase = "idle"
  /\ xRequest = NoRequest
  /\ xIdentity = NoIdentity
  /\ xReason = "none"
  /\ xStopRequested = FALSE
  /\ xCancel = 0
  /\ xPc = [g \in Generations |-> "none"]
  /\ xCancelled = {}
  /\ xSealed = [g \in Generations |-> NoIdentity]
  /\ xSuppressed = FALSE
  /\ xControlError = FALSE
  /\ xTucked = 0
  /\ xCall = [c \in Clients |-> NoCall]

Busy == xPhase # "idle"
Current == xIdentity.generation

-----------------------------------------------------------------------------
(* Start.  A busy manager, and the request id of the last session, return  *)
(* without effect: the same request gets the old state or a conflict.      *)

Start(request) ==
  /\ ~Busy
  /\ request # xRequest
  /\ Acquire("exploration")
  /\ xPhase' = "running"
  /\ xRequest' = request
  /\ xIdentity' = NewIdentity("exploration")
  /\ xReason' = "none"
  /\ xStopRequested' = FALSE
  /\ xCancel' = generation + 1
  /\ xPc' = [xPc EXCEPT ![generation + 1] = "start"]
  /\ xSuppressed' = FALSE
  /\ xControlError' = FALSE
  /\ UNCHANGED <<xCancelled, xSealed, xTucked, xCall>>

-----------------------------------------------------------------------------
(* The run goroutine of session g.                                         *)

\* Mutants: the loop's own reason hides a requested stop; the session counts
\* as over before it is sealed and released.
FinishLockedKeepsReason(reason) ==
  IF xPhase \in {"running", "stopping"}
    THEN xPhase' = "finalizing" /\ xReason' = reason
    ELSE UNCHANGED <<xPhase, xReason>>

FinishLockedSkipsFinalizing(reason) ==
  IF xPhase \in {"running", "stopping"}
    THEN xPhase' = "idle" /\ xReason' = IF xStopRequested THEN "stopped" ELSE reason
    ELSE UNCHANGED <<xPhase, xReason>>

\* finishLocked: only the first caller counts, and a requested stop is the
\* reason whatever ended the loop.
FinishLocked(reason) ==
  IF xPhase \in {"running", "stopping"}
    THEN /\ xPhase' = "finalizing"
         /\ xReason' = IF xStopRequested THEN "stopped" ELSE reason
    ELSE UNCHANGED <<xPhase, xReason>>

\* SuppressOverlay: nothing to hide, hidden, or an error, after which the request may have
\* taken effect all the same.
SuppressOverlay(g) ==
  \/ UNCHANGED xOverlay
  \/ xSuppressed' = TRUE /\ xTucked' = g /\ UNCHANGED xControlError
  \/ xControlError' = TRUE /\ xTucked' \in {xTucked, g} /\ UNCHANGED xSuppressed

RunStart(g) ==
  /\ xPc[g] = "start"
  /\ xPc' = [xPc EXCEPT ![g] = "loop"]
  /\ SuppressOverlay(g)
  /\ UNCHANGED <<coordinatorVars, xState, xCancelled, xSealed, xCall>>

\* The loop ends itself: duration, low battery, safety stop, unstable pages.
RunFinish(g) ==
  /\ xPc[g] = "loop"
  /\ FinishLocked("natural")
  /\ xPc' = [xPc EXCEPT ![g] = "restore"]
  /\ UNCHANGED <<coordinatorVars, xRequest, xIdentity, xStopRequested, xCancel,
                 xCancelled, xSealed, xOverlay, xCall>>

\* The loop, or a wait inside it, sees its context cancelled and returns.
RunObserveCancel(g) ==
  /\ xPc[g] = "loop"
  /\ g \in xCancelled
  /\ xPc' = [xPc EXCEPT ![g] = "restore"]
  /\ UNCHANGED <<coordinatorVars, xState, xCancelled, xSealed, xOverlay, xCall>>

\* Mutant: the error of the restore is dropped, as a failed start of the runner drops it.
RestoreOverlayQuietly ==
  /\ xSuppressed' = FALSE
  /\ xTucked' \in {0, xTucked}
  /\ UNCHANGED xControlError

\* One attempt, of 3 seconds: one that fails is reported and not repeated, and may have
\* reached the companion.
RestoreOverlay ==
  /\ xSuppressed' = FALSE
  /\ \/ xTucked' = 0 /\ UNCHANGED xControlError
     \/ xTucked' \in {0, xTucked} /\ xControlError' = TRUE

\* The restore is deferred only by a run whose SuppressOverlay succeeded.
RunRestoreOverlay(g) ==
  /\ xPc[g] = "restore"
  /\ xPc' = [xPc EXCEPT ![g] = "seal"]
  /\ IF xSuppressed THEN RestoreOverlay ELSE UNCHANGED xOverlay
  /\ UNCHANGED <<coordinatorVars, xState, xCancelled, xSealed, xCall>>

\* The first section of the deferred finalizer: a session that is still
\* running was cancelled.  It reads the identity it will release.
RunSeal(g) ==
  /\ xPc[g] = "seal"
  /\ IF Current = g
       THEN FinishLocked("stopped") /\ xCancel' = 0
       ELSE UNCHANGED <<xPhase, xReason, xCancel>>
  /\ xSealed' = [xSealed EXCEPT ![g] = xIdentity]
  /\ xPc' = [xPc EXCEPT ![g] = "release"]
  /\ UNCHANGED <<coordinatorVars, xRequest, xIdentity, xStopRequested,
                 xCancelled, xOverlay, xCall>>

\* Mutant: the finalizer forgets the device.
RunReleasesNothing(g) ==
  /\ xPc[g] = "release"
  /\ xPc' = [xPc EXCEPT ![g] = "clear"]
  /\ UNCHANGED <<coordinatorVars, xState, xCancelled, xSealed, xOverlay, xCall>>

\* Artifacts are on disk; the device is given back.
RunRelease(g) ==
  /\ xPc[g] = "release"
  /\ Release(xSealed[g])
  /\ xPc' = [xPc EXCEPT ![g] = "clear"]
  /\ UNCHANGED <<xState, xCancelled, xSealed, xOverlay, xCall>>

RunClear(g) ==
  /\ xPc[g] = "clear"
  /\ xPhase' = IF Current = g THEN "idle" ELSE xPhase
  /\ xPc' = [xPc EXCEPT ![g] = "close"]
  /\ UNCHANGED <<coordinatorVars, xRequest, xIdentity, xReason, xStopRequested,
                 xCancel, xCancelled, xSealed, xOverlay, xCall>>

RunClose(g) ==
  /\ xPc[g] = "close"
  /\ xPc' = [xPc EXCEPT ![g] = "ended"]
  /\ UNCHANGED <<coordinatorVars, xState, xCancelled, xSealed, xOverlay, xCall>>

-----------------------------------------------------------------------------
(* Stop and StopOwned, called by client c.                                 *)

\* StopOwned compares the token with the identity it read under the lock; a
\* mismatch is refused at once.  The lock is dropped before anything is done.
OwnedRead(c, token) ==
  /\ xCall[c].pc = "idle"
  /\ xIdentity = token
  /\ xCall' = [xCall EXCEPT ![c] = [NoCall EXCEPT !.owner = token,
                                       !.pc = IF Busy THEN "validate" ELSE "stop"]]
  /\ UNCHANGED <<coordinatorVars, xState, xGoroutines>>

OwnedValidate(c) ==
  /\ xCall[c].pc = "validate"
  /\ xCall' = [xCall EXCEPT ![c] = IF Validates(xCall[c].owner)
                                     THEN [xCall[c] EXCEPT !.pc = "stop"]
                                     ELSE NoCall]
  /\ UNCHANGED <<coordinatorVars, xState, xGoroutines>>

\* The first section of Stop: it captures the cancel function and the done
\* channel of whichever session is current now.
StopSection(c, owner) ==
  /\ IF Busy
       THEN /\ xCall' = [xCall EXCEPT ![c] = [pc |-> "cancel", owner |-> owner,
                                              target |-> Current, cancel |-> xCancel]]
            /\ xStopRequested' = (xStopRequested \/ xPhase = "running")
            /\ xPhase' = IF xPhase = "running" THEN "stopping" ELSE xPhase
       ELSE /\ xCall' = [xCall EXCEPT ![c] = NoCall]
            /\ UNCHANGED <<xStopRequested, xPhase>>
  /\ UNCHANGED <<coordinatorVars, xRequest, xIdentity, xReason, xCancel, xGoroutines>>

\* Stop with no owner: the shutdown handler stops whatever runs.
StopAny(c) == xCall[c].pc = "idle" /\ StopSection(c, NoIdentity)

OwnedStop(c) == xCall[c].pc = "stop" /\ StopSection(c, xCall[c].owner)

\* Mutant: the session is cancelled only if it still counts as running, which
\* the call itself has ended.
CallCancelIfRunning(c) ==
  /\ xCall[c].pc = "cancel"
  /\ xCancelled' = IF xPhase = "running" THEN xCancelled \cup ({xCall[c].cancel} \ {0})
                                         ELSE xCancelled
  /\ xCall' = [xCall EXCEPT ![c].pc = "wait"]
  /\ UNCHANGED <<coordinatorVars, xState, xPc, xSealed, xOverlay>>

CallCancel(c) ==
  /\ xCall[c].pc = "cancel"
  /\ xCancelled' = xCancelled \cup ({xCall[c].cancel} \ {0})
  /\ xCall' = [xCall EXCEPT ![c].pc = "wait"]
  /\ UNCHANGED <<coordinatorVars, xState, xPc, xSealed, xOverlay>>

WaitDone(c) ==
  /\ xCall[c].pc = "wait"
  /\ xPc[xCall[c].target] = "ended"
  /\ xCall' = [xCall EXCEPT ![c] = NoCall]
  /\ UNCHANGED <<coordinatorVars, xState, xGoroutines>>

\* The request's context ends, or 120 seconds pass.
WaitGiveUp(c) ==
  /\ xCall[c].pc = "wait"
  /\ xCall' = [xCall EXCEPT ![c] = NoCall]
  /\ UNCHANGED <<coordinatorVars, xState, xGoroutines>>

-----------------------------------------------------------------------------
(* The rest of the agent, as far as it reaches the coordinator: recordings,*)
(* replays, performance sessions and startup measurements take the device, *)
(* a replay is hosted by the exploration, and their finalizers release,    *)
(* also twice and also late.                                               *)

ForeignAcquire(kind) == Acquire(kind) /\ UNCHANGED xVars

ForeignHosted ==
  /\ \E g \in Generations : xPc[g] = "loop"
  /\ AcquireHosted(xIdentity, "replay")
  /\ UNCHANGED xVars

ForeignRelease(identity) ==
  /\ identity.kind # "exploration"
  /\ Release(identity)
  /\ UNCHANGED xVars

-----------------------------------------------------------------------------

RunStep(g) ==
  \/ RunStart(g)
  \/ RunFinish(g)
  \/ RunObserveCancel(g)
  \/ RunRestoreOverlay(g)
  \/ RunSeal(g)
  \/ RunRelease(g)
  \/ RunClear(g)
  \/ RunClose(g)

CallStep(c) ==
  \/ \E token \in Issued : OwnedRead(c, token)
  \/ OwnedValidate(c)
  \/ OwnedStop(c)
  \/ StopAny(c)
  \/ CallCancel(c)
  \/ WaitDone(c)
  \/ WaitGiveUp(c)

ForeignStep ==
  \/ \E kind \in Kinds \ {"exploration"} : ForeignAcquire(kind)
  \/ ForeignHosted
  \/ \E identity \in Issued : ForeignRelease(identity)

Init == CoordinatorInit /\ XInit

Next ==
  \/ \E request \in Requests : Start(request)
  \/ \E g \in Generations : RunStep(g)
  \/ \E c \in Clients : CallStep(c)
  \/ ForeignStep

vars == <<coordinatorVars, xVars>>

Spec == Init /\ [][Next]_vars

-----------------------------------------------------------------------------
(* Fairness.  The Go scheduler runs every goroutine that can run: the run  *)
(* goroutine outside its loop, its look at a cancelled context, and a Stop *)
(* call that has begun.  Nothing is assumed of clients deciding to call,   *)
(* of the loop ending by itself, nor of a Stop call giving up waiting.     *)
RunFairness(g) ==
  /\ WF_vars(RunStart(g))
  /\ WF_vars(RunObserveCancel(g))
  /\ WF_vars(RunRestoreOverlay(g))
  /\ WF_vars(RunSeal(g))
  /\ WF_vars(RunRelease(g))
  /\ WF_vars(RunClear(g))
  /\ WF_vars(RunClose(g))

CallFairness(c) ==
  /\ WF_vars(OwnedValidate(c))
  /\ WF_vars(OwnedStop(c))
  /\ WF_vars(CallCancel(c))
  /\ WF_vars(WaitDone(c))

FairSpec ==
  /\ Spec
  /\ \A g \in Generations : RunFairness(g)
  /\ \A c \in Clients : CallFairness(c)

-----------------------------------------------------------------------------
(* Properties.                                                             *)

\* From its launch until it gives the device back, a run holds it: nothing
\* another session does, and no late release of an older identity, can make
\* the coordinator lend the device to someone else meanwhile.
Holding == Driving \cup {"restore", "seal", "release"}

DriverOwnsDevice ==
  \A g \in Generations :
    xPc[g] \in Holding => active = Session("exploration", g)

\* The flags that admit or refuse the next Start follow the goroutine of the
\* current session; the goroutines of older sessions are past their last
\* write to the shared state, so they cannot clear a newer session's flags.
FlagsFollowGoroutine ==
  /\ Busy <=> Current # 0 /\ xPc[Current] \in Holding \cup {"clear"}
  /\ \A g \in Generations \ {Current} : xPc[g] \in {"none", "close", "ended"}
  /\ Current # 0 => /\ (xPc[Current] \in {"release", "clear"} => xPhase = "finalizing")
                    /\ xPc[Current] = "start" => xPhase \in {"running", "stopping"}

\* What a Stop call learns from the done channel: the session of the channel
\* has given the device back, and its manager takes a new session.
DoneAfterRelease ==
  \A g \in Generations :
    xPc[g] \in {"close", "ended"} =>
      /\ active # Session("exploration", g)
      /\ Current = g => ~Busy

\* A stop that was accepted while the session ran is what the session
\* reports, even when the loop ended by itself before it saw the stop.
AcceptedStopIsReported ==
  xStopRequested => \/ xPhase = "stopping"
                    \/ xPhase \in {"finalizing", "idle"} /\ xReason = "stopped"

\* A session that has hidden the companion's overlay still has its restore before it, and
\* the device until then, or its state says that the overlay could not be controlled: a hide
\* or a restore that fails half way never leaves the overlay hidden without a word.
HiddenOverlayIsAnswered ==
  /\ xSuppressed => /\ Current # 0
                    /\ xPc[Current] \in {"loop", "restore"}
                    /\ active = xIdentity
  /\ Current # 0 /\ xTucked = Current => xSuppressed \/ xControlError

\* Every Stop and StopOwned call returns through the done channel, without
\* its 120 second limit: no call waits on a session nobody cancelled.
CallsReturn == \A c \in Clients : xCall[c].pc # "idle" ~> xCall[c].pc = "idle"

\* The coordinator together with the run goroutine is a device lease: a
\* session counts as host as long as the coordinator names it or its
\* goroutine may still touch the device.
Role(g) ==
  CASE g > generation -> "new"
    [] g <= generation /\ (active.generation = g \/ xPc[g] \in Holding) -> "host"
    [] g <= generation /\ active.generation # g /\ xPc[g] \notin Holding ->
         IF hosted.generation = g THEN "guest" ELSE "over"

Lease == INSTANCE DeviceLease WITH lease <- [g \in Generations |-> Role(g)]

RunsUnderLease == Lease!LeaseSpec

\* A call that presented the owner token of a session stops that session: a
\* delayed client cannot stop a newer one.  StopOwned compares the token in
\* one critical section and Stop picks its target in a later one.
OwnedStopTargetsOwnSession ==
  \A c \in Clients :
    xCall[c].owner # NoIdentity /\ xCall[c].target # 0 =>
      xCall[c].target = xCall[c].owner.generation
====
