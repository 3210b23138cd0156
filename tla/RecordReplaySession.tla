---- MODULE RecordReplaySession ----
(***************************************************************************)
(* recordreplay.Manager: one recording or one replay at a time, a capture  *)
(* goroutine, finalizers that run after the call that started them has     *)
(* given up, drafts and cases on disk, and an agent that may crash.        *)
(*                                                                         *)
(* The HTTP handlers run under the API's executionMu, called gate here.    *)
(* Each action is one critical section of Manager.mu, or one step between  *)
(* two.  A cancel function is called right after the section that reads    *)
(* it; it only marks the context of that session, so it is part of the     *)
(* section.  A session is named by the generation of its identity.         *)
(***************************************************************************)
EXTENDS Coordinator

CONSTANTS
  Clients,        \* callers of the HTTP handlers
  MaxAttempts,    \* bound on the finalizations of a behaviour
  MaxCrashes      \* bound on the crashes of a behaviour

ASSUME BoundsAssumption == MaxAttempts \in Nat /\ MaxCrashes \in Nat
ASSUME FreeAssumption == "free" \notin Clients

VARIABLES
  gate,         \* API.executionMu: the client whose handler holds it, or "free"
  call,         \* where the handler of each client is
  rPhase,       \* the Running, Stopping and Finalizing flags of the recording
  rIdentity,    \* Manager.recordIdentity
  rCurrent,     \* the recording whose case is Manager.current, 0 before the first
  rSaved,       \* RecordingState.Path is set
  rLatest,      \* the capture that recordGeneration stands for, 0 for none
  rDone,        \* Manager.recordDone: the capture it belongs to, 0 when nil
  rAttempt,     \* Manager.recordFinalizeDone: the attempt it belongs to, 0 when nil
  rPersisting,  \* Manager.recordPersisting
  rCapture,     \* the capture goroutine of each recording
  rCancelled,   \* the sessions, of either kind, whose context is cancelled
  rFin,         \* the finalizer goroutines, one per attempt
  rStore,       \* what of each recording is on disk
  pPhase,       \* the flags of the replay
  pIdentity,    \* Manager.replayIdentity
  pReason,      \* ReplayState.StopReason
  pRun,         \* the goroutine of each replay
  crashes

recVars == <<rPhase, rIdentity, rCurrent, rSaved, rLatest, rDone, rAttempt, rPersisting>>
repVars == <<pPhase, pIdentity, pReason, pRun>>
handlerVars == <<gate, call>>
vars == <<coordinatorVars, handlerVars, recVars, rCapture, rCancelled, rFin, rStore,
          repVars, crashes>>

Attempts == 1 .. MaxAttempts
Phases == {"idle", "running", "stopping", "finalizing"}
Recovery(draft) == Session("recovery", draft)
Owners == Identity \cup {NoIdentity} \cup {Recovery(d) : d \in Generations}
FinPcs == {"none", "persist", "committed", "release", "clear", "late", "ended"}
NoFin == [rec |-> 0, identity |-> NoIdentity, pc |-> "none"]
RunPcs == {"none", "drive", "persist", "release", "clear", "close", "ended"}
CallPcs == {"idle", "undo", "recStop", "recDone", "recDecide", "recFinal",
            "repStop", "repDone", "delete"}
NoCall == [pc |-> "idle", wait |-> 0]

TypeOK ==
  /\ CoordinatorTypeOK
  /\ gate \in Clients \cup {"free"}
  /\ call \in [Clients -> [pc : CallPcs, wait : Nat]]
  /\ rPhase \in Phases
  /\ rIdentity \in Owners
  /\ rCurrent \in 0 .. MaxGeneration
  /\ rSaved \in BOOLEAN
  /\ rLatest \in 0 .. MaxGeneration
  /\ rDone \in 0 .. MaxGeneration
  /\ rAttempt \in 0 .. MaxAttempts
  /\ rPersisting \in BOOLEAN
  /\ rCapture \in [Generations -> {"none", "on", "closed"}]
  /\ rCancelled \subseteq Generations
  /\ rFin \in [Attempts -> [rec : 0 .. MaxGeneration, identity : Owners, pc : FinPcs]]
  /\ rStore \in [Generations -> {"none", "draft", "both", "case", "deleted"}]
  /\ pPhase \in Phases
  /\ pIdentity \in Owners
  /\ pReason \in {"none", "completed", "stopped", "failed"}
  /\ pRun \in [Generations -> RunPcs]
  /\ crashes \in 0 .. MaxCrashes

Init ==
  /\ CoordinatorInit
  /\ gate = "free"
  /\ call = [c \in Clients |-> NoCall]
  /\ rPhase = "idle" /\ rIdentity = NoIdentity /\ rCurrent = 0 /\ rSaved = FALSE
  /\ rLatest = 0 /\ rDone = 0 /\ rAttempt = 0 /\ rPersisting = FALSE
  /\ pPhase = "idle" /\ pIdentity = NoIdentity /\ pReason = "none"
  /\ rCapture = [g \in Generations |-> "none"]
  /\ rCancelled = {}
  /\ rFin = [a \in Attempts |-> NoFin]
  /\ rStore = [g \in Generations |-> "none"]
  /\ pRun = [g \in Generations |-> "none"]
  /\ crashes = 0

-----------------------------------------------------------------------------

\* recordingPendingLocked: there is a case in memory that was not saved.
Pending == rCurrent # 0 /\ ~rSaved

Idle == rPhase = "idle" /\ pPhase = "idle"

\* Finalizers are numbered in the order they are launched.
Unused(a) == rFin[a].pc = "none" /\ \A b \in Attempts : b < a => rFin[b].pc # "none"

\* The bound on the finalizers: a call that may launch one finds one left.
AttemptLeft == \E a \in Attempts : Unused(a)

HasDraft(d) == rStore[d] \in {"draft", "both"}

\* What the handlers that start something check before they call the manager.
Admits == gate = "free" /\ active.kind # "exploration"

Enter(c, pc, wait) ==
  /\ gate' = c
  /\ call' = [call EXCEPT ![c] = [pc |-> pc, wait |-> wait]]

Goto(c, pc, wait) ==
  /\ call' = [call EXCEPT ![c] = [pc |-> pc, wait |-> wait]]
  /\ UNCHANGED gate

\* Mutant: a handler returns without unlocking.
ReturnKeepsGate(c) ==
  /\ UNCHANGED gate
  /\ call' = [call EXCEPT ![c] = NoCall]

Return(c) ==
  /\ gate' = "free"
  /\ call' = [call EXCEPT ![c] = NoCall]

-----------------------------------------------------------------------------
(* Starting.                                                               *)

StartRecording ==
  /\ Admits /\ ~Pending /\ Idle
  /\ Acquire("recording")
  /\ rPhase' = "running"
  /\ rIdentity' = NewIdentity("recording")
  /\ rCurrent' = generation + 1
  /\ rSaved' = FALSE
  /\ rLatest' = generation + 1
  /\ rDone' = generation + 1
  /\ rAttempt' = 0
  /\ rPersisting' = FALSE
  /\ rCapture' = [rCapture EXCEPT ![generation + 1] = "on"]
  /\ rStore' = [rStore EXCEPT ![generation + 1] = "draft"]
  /\ UNCHANGED <<handlerVars, rCancelled, rFin, repVars, crashes>>

\* The draft directory or its first write fails.  Manager.current is already
\* the new case; the state of the last recording stays what it was.
StartRecordingFails(c) ==
  /\ Admits /\ ~Pending /\ Idle
  /\ Acquire("recording")
  /\ rCurrent' = generation + 1
  /\ Enter(c, "undo", generation + 1)
  /\ UNCHANGED <<rPhase, rIdentity, rSaved, rLatest, rDone, rAttempt, rPersisting,
                 rCapture, rCancelled, rFin, rStore, repVars, crashes>>

UndoStart(c) ==
  /\ call[c].pc = "undo"
  /\ Release(Session("recording", call[c].wait))
  /\ Return(c)
  /\ UNCHANGED <<recVars, rCapture, rCancelled, rFin, rStore, repVars, crashes>>

ReplayStarted ==
  /\ pPhase' = "running"
  /\ pIdentity' = NewIdentity("replay")
  /\ pReason' = "none"
  /\ pRun' = [pRun EXCEPT ![generation + 1] = "drive"]
  /\ UNCHANGED <<recVars, rCapture, rCancelled, rFin, rStore, crashes>>

\* Mutant: a replay starts although a recording waits to be saved.
StartReplayIgnoresPending ==
  /\ Admits /\ Idle
  /\ Acquire("replay")
  /\ ReplayStarted
  /\ UNCHANGED handlerVars

StartReplay ==
  /\ Admits /\ ~Pending /\ Idle
  /\ Acquire("replay")
  /\ ReplayStarted
  /\ UNCHANGED handlerVars

-----------------------------------------------------------------------------
(* Stopping and finalizing a recording.                                    *)

\* validateExecutionOwner: the token must be the manager's own, and while the
\* session is active the coordinator must know it too.
OwnerAccepted(identity, phase, token) ==
  identity = token /\ (phase # "idle" => Validates(token))

\* Mutant: the handler that stops a recording does not take executionMu.
OwnedStopRecordingUngated(c, token) ==
  /\ call[c].pc = "idle"
  /\ AttemptLeft
  /\ OwnerAccepted(rIdentity, rPhase, token)
  /\ Goto(c, "recStop", 0)
  /\ UNCHANGED <<coordinatorVars, recVars, rCapture, rCancelled, rFin, rStore, repVars, crashes>>

OwnedStopRecording(c, token) ==
  /\ gate = "free"
  /\ AttemptLeft
  /\ OwnerAccepted(rIdentity, rPhase, token)
  /\ Enter(c, "recStop", 0)
  /\ UNCHANGED <<coordinatorVars, recVars, rCapture, rCancelled, rFin, rStore, repVars, crashes>>

\* Read the cancel function and the done channel, and cancel.
RecStop(c) ==
  /\ call[c].pc = "recStop"
  /\ rPhase' = IF rPhase = "running" THEN "stopping" ELSE rPhase
  /\ rCancelled' = rCancelled \cup ({rDone} \ {0})
  /\ Goto(c, IF rDone = 0 THEN "recDecide" ELSE "recDone", rDone)
  /\ UNCHANGED <<coordinatorVars, rIdentity, rCurrent, rSaved, rLatest, rDone, rAttempt,
                 rPersisting, rCapture, rFin, rStore, repVars, crashes>>

RecDone(c) ==
  /\ call[c].pc = "recDone"
  /\ rCapture[call[c].wait] = "closed"
  /\ Goto(c, "recDecide", 0)
  /\ UNCHANGED <<coordinatorVars, recVars, rCapture, rCancelled, rFin, rStore, repVars, crashes>>

\* Nothing to save, or saved by somebody else meanwhile.
RecNothingToSave(c) ==
  /\ call[c].pc = "recDecide"
  /\ ~Pending
  /\ Return(c)
  /\ UNCHANGED <<coordinatorVars, recVars, rCapture, rCancelled, rFin, rStore, repVars, crashes>>

\* A finalizer is at work: wait for that one.
RecJoin(c) ==
  /\ call[c].pc = "recDecide"
  /\ Pending /\ rPersisting
  /\ Goto(c, "recFinal", rAttempt)
  /\ UNCHANGED <<coordinatorVars, recVars, rCapture, rCancelled, rFin, rStore, repVars, crashes>>

\* Take the snapshot and launch a finalizer for it.
RecLaunch(c) ==
  /\ call[c].pc = "recDecide"
  /\ Pending /\ ~rPersisting
  /\ \E a \in Attempts :
       /\ Unused(a)
       /\ rFin' = [rFin EXCEPT ![a] = [rec |-> rCurrent, identity |-> rIdentity, pc |-> "persist"]]
       /\ rAttempt' = a
       /\ Goto(c, "recFinal", a)
  /\ rPhase' = "finalizing"
  /\ rPersisting' = TRUE
  /\ UNCHANGED <<coordinatorVars, rIdentity, rCurrent, rSaved, rLatest, rDone, rCapture,
                 rCancelled, rStore, repVars, crashes>>

RecFinal(c) ==
  /\ call[c].pc = "recFinal"
  /\ rFin[call[c].wait].pc = "ended"
  /\ Return(c)
  /\ UNCHANGED <<coordinatorVars, recVars, rCapture, rCancelled, rFin, rStore, repVars, crashes>>

\* Three seconds pass, or the request's context ends.
GiveUp(c) ==
  /\ call[c].pc \in {"recDone", "recFinal", "repDone"}
  /\ Return(c)
  /\ UNCHANGED <<coordinatorVars, recVars, rCapture, rCancelled, rFin, rStore, repVars, crashes>>

\* The capture returns, cancelled or failed, and closes its done channel.  A
\* capture that is not the manager's own any more only closes it.
CaptureEnds(g) ==
  /\ rCapture[g] = "on"
  /\ rCapture' = [rCapture EXCEPT ![g] = "closed"]
  /\ rPhase' = IF rLatest = g THEN "finalizing" ELSE rPhase
  /\ UNCHANGED <<coordinatorVars, handlerVars, rIdentity, rCurrent, rSaved, rLatest, rDone,
                 rAttempt, rPersisting, rCancelled, rFin, rStore, repVars, crashes>>

FinGoto(a, pc) == rFin' = [rFin EXCEPT ![a].pc = pc]

\* The staged directory is renamed into place, where no directory may be: a
\* recording whose case was committed before the finalizer failed is refused.
FinCommit(a) ==
  /\ rFin[a].pc = "persist"
  /\ rStore[rFin[a].rec] \notin {"both", "case"}
  /\ FinGoto(a, "committed")
  /\ rStore' = [rStore EXCEPT ![rFin[a].rec] =
                  IF @ \in {"draft", "both"} THEN "both" ELSE "case"]
  /\ UNCHANGED <<coordinatorVars, handlerVars, recVars, rCapture, rCancelled, repVars, crashes>>

\* Persisting fails, before the commit or (pruning old cases) after it.  The
\* flags are cleared before the device is released.
FinFails(a) ==
  /\ rFin[a].pc \in {"persist", "committed"}
  /\ FinGoto(a, "late")
  /\ IF rIdentity = rFin[a].identity
       THEN /\ rPhase' = IF rPhase = "finalizing" THEN "idle" ELSE rPhase
            /\ rDone' = 0
            /\ rPersisting' = FALSE
       ELSE UNCHANGED <<rPhase, rDone, rPersisting>>
  /\ UNCHANGED <<coordinatorVars, handlerVars, rIdentity, rCurrent, rSaved, rLatest, rAttempt,
                 rCapture, rCancelled, rStore, repVars, crashes>>

\* Mutant: the failed finalizer keeps the device.
FinLateKeepsDevice(a) ==
  /\ rFin[a].pc = "late"
  /\ FinGoto(a, "ended")
  /\ UNCHANGED <<coordinatorVars, handlerVars, recVars, rCapture, rCancelled, rStore,
                 repVars, crashes>>

FinLateRelease(a) ==
  /\ rFin[a].pc = "late"
  /\ Release(rFin[a].identity)
  /\ FinGoto(a, "ended")
  /\ UNCHANGED <<handlerVars, recVars, rCapture, rCancelled, rStore, repVars, crashes>>

\* The draft goes, as far as the file system lets it; then the state learns
\* the path of the case.
FinPublish(a) ==
  /\ rFin[a].pc = "committed"
  /\ FinGoto(a, "release")
  /\ \E left \in {"case", "both"} :
       rStore' = [rStore EXCEPT ![rFin[a].rec] = IF @ = "both" THEN left ELSE @]
  /\ IF rIdentity = rFin[a].identity
       THEN /\ rPhase' = IF rPhase \in {"running", "stopping"} THEN "idle" ELSE rPhase
            /\ rCurrent' = rFin[a].rec
            /\ rSaved' = TRUE
            /\ rDone' = 0
       ELSE UNCHANGED <<rPhase, rCurrent, rSaved, rDone>>
  /\ UNCHANGED <<coordinatorVars, handlerVars, rIdentity, rLatest, rAttempt, rPersisting,
                 rCapture, rCancelled, repVars, crashes>>

FinRelease(a) ==
  /\ rFin[a].pc = "release"
  /\ Release(rFin[a].identity)
  /\ FinGoto(a, "clear")
  /\ UNCHANGED <<handlerVars, recVars, rCapture, rCancelled, rStore, repVars, crashes>>

FinClear(a) ==
  /\ rFin[a].pc = "clear"
  /\ FinGoto(a, "ended")
  /\ IF rIdentity = rFin[a].identity
       THEN /\ rPhase' = IF rPhase = "finalizing" THEN "idle" ELSE rPhase
            /\ rPersisting' = FALSE
       ELSE UNCHANGED <<rPhase, rPersisting>>
  /\ UNCHANGED <<coordinatorVars, handlerVars, rIdentity, rCurrent, rSaved, rLatest, rDone,
                 rAttempt, rCapture, rCancelled, rStore, repVars, crashes>>

-----------------------------------------------------------------------------
(* Drafts on disk.                                                         *)

\* Finalizing a draft makes it the current case under an identity that the
\* coordinator does not know, and goes on as a stop does.
FinalizeDraft(c, d) ==
  /\ Admits /\ ~Pending /\ Idle
  /\ HasDraft(d)
  /\ AttemptLeft
  /\ rCurrent' = d
  /\ rSaved' = FALSE
  /\ rIdentity' = Recovery(d)
  /\ rLatest' = 0
  /\ Enter(c, "recStop", 0)
  /\ UNCHANGED <<coordinatorVars, rPhase, rDone, rAttempt, rPersisting, rCapture,
                 rCancelled, rFin, rStore, repVars, crashes>>

\* Mutant: any draft may be deleted.
DeleteAnyDraft(c, d) ==
  /\ gate = "free"
  /\ HasDraft(d)
  /\ Enter(c, "delete", d)
  /\ UNCHANGED <<coordinatorVars, recVars, rCapture, rCancelled, rFin, rStore, repVars, crashes>>

\* The draft of the pending recording is refused; the check and the removal
\* are two steps.
DeleteDraftCheck(c, d) ==
  /\ gate = "free"
  /\ HasDraft(d)
  /\ ~(Pending /\ rCurrent = d)
  /\ Enter(c, "delete", d)
  /\ UNCHANGED <<coordinatorVars, recVars, rCapture, rCancelled, rFin, rStore, repVars, crashes>>

DeleteDraftRemove(c) ==
  /\ call[c].pc = "delete"
  /\ rStore' = [rStore EXCEPT ![call[c].wait] = CASE @ = "draft" -> "deleted"
                                                 [] @ = "both"  -> "case"
                                                 [] OTHER -> @]
  /\ Return(c)
  /\ UNCHANGED <<coordinatorVars, recVars, rCapture, rCancelled, rFin, repVars, crashes>>

-----------------------------------------------------------------------------
(* Stopping and finishing a replay.                                        *)

OwnedStopReplay(c, token) ==
  /\ gate = "free"
  /\ OwnerAccepted(pIdentity, pPhase, token)
  /\ Enter(c, "repStop", 0)
  /\ UNCHANGED <<coordinatorVars, recVars, rCapture, rCancelled, rFin, rStore, repVars, crashes>>

\* The first section of StopReplay: mark and cancel the replay there is.
CancelReplay ==
  /\ pPhase' = IF pPhase = "running" THEN "stopping" ELSE pPhase
  /\ rCancelled' = rCancelled \cup ({pIdentity.generation} \ {0})
  /\ UNCHANGED <<coordinatorVars, recVars, rCapture, rFin, rStore, pIdentity, pReason,
                 pRun, crashes>>

RepStop(c) ==
  /\ call[c].pc = "repStop"
  /\ CancelReplay
  /\ IF pIdentity = NoIdentity THEN Return(c)
                               ELSE Goto(c, "repDone", pIdentity.generation)

RepDone(c) ==
  /\ call[c].pc = "repDone"
  /\ pRun[call[c].wait] = "ended"
  /\ Return(c)
  /\ UNCHANGED <<coordinatorVars, recVars, rCapture, rCancelled, rFin, rStore, repVars, crashes>>

\* finishReplay of the replay's goroutine: it may complete, or fail, whether
\* it was cancelled or not; it reports a stop only when it was.
ReplayFinish(g, reason) ==
  /\ pRun[g] = "drive"
  /\ reason = "stopped" => g \in rCancelled
  /\ pPhase' = "finalizing"
  /\ pReason' = reason
  /\ pRun' = [pRun EXCEPT ![g] = "persist"]
  /\ UNCHANGED <<coordinatorVars, handlerVars, recVars, rCapture, rCancelled, rFin, rStore,
                 pIdentity, crashes>>

ReplayGoto(g, from, to) ==
  /\ pRun[g] = from
  /\ pRun' = [pRun EXCEPT ![g] = to]
  /\ UNCHANGED <<handlerVars, recVars, rCapture, rCancelled, rFin, rStore, pIdentity,
                 pReason, crashes>>

ReplayPersist(g) ==
  /\ ReplayGoto(g, "persist", "release")
  /\ UNCHANGED <<coordinatorVars, pPhase>>

ReplayRelease(g) ==
  /\ ReplayGoto(g, "release", "clear")
  /\ Release(Session("replay", g))
  /\ UNCHANGED pPhase

ReplayClear(g) ==
  /\ ReplayGoto(g, "clear", "close")
  /\ pPhase' = IF pIdentity.generation = g /\ pPhase = "finalizing" THEN "idle" ELSE pPhase
  /\ UNCHANGED coordinatorVars

ReplayClose(g) ==
  /\ ReplayGoto(g, "close", "ended")
  /\ UNCHANGED <<coordinatorVars, pPhase>>

-----------------------------------------------------------------------------
(* The exploration, as far as it reaches this manager: it takes the device *)
(* when no recording or replay is active, hosts the replay of a target     *)
(* page, stops it without an owner token, and is over only when the replay *)
(* does not drive any more.                                                *)

unchangedButCoordinator ==
  UNCHANGED <<handlerVars, recVars, rCapture, rCancelled, rFin, rStore, repVars, crashes>>

HostBegin ==
  /\ gate = "free"
  /\ Idle
  /\ Acquire("exploration")
  /\ unchangedButCoordinator

HostStartReplay ==
  /\ active.kind = "exploration"
  /\ ~Pending /\ Idle
  /\ AcquireHosted(active, "replay")
  /\ ReplayStarted
  /\ UNCHANGED handlerVars

HostStopReplay ==
  /\ active.kind = "exploration"
  /\ hosted # NoIdentity
  /\ CancelReplay
  /\ UNCHANGED handlerVars

HostEnd ==
  /\ active.kind = "exploration"
  /\ pPhase \notin {"running", "stopping"}
  /\ Release(active)
  /\ unchangedButCoordinator

\* A performance session takes the device with no look at the recording or
\* the replay, and the handlers here do not look at it.
PerformanceBegin ==
  /\ gate = "free"
  /\ Acquire("performance")
  /\ unchangedButCoordinator

PerformanceEnd ==
  /\ active.kind = "performance"
  /\ Release(active)
  /\ unchangedButCoordinator

-----------------------------------------------------------------------------

\* The agent dies: memory and goroutines go, the disk stays.  Identities are
\* random, so the sessions of the dead process keep their names.
Crash ==
  /\ crashes < MaxCrashes
  /\ crashes' = crashes + 1
  /\ active' = NoIdentity /\ hosted' = NoIdentity /\ UNCHANGED generation
  /\ gate' = "free"
  /\ call' = [c \in Clients |-> NoCall]
  /\ rPhase' = "idle" /\ rIdentity' = NoIdentity /\ rCurrent' = 0 /\ rSaved' = FALSE
  /\ rLatest' = 0 /\ rDone' = 0 /\ rAttempt' = 0 /\ rPersisting' = FALSE
  /\ pPhase' = "idle" /\ pIdentity' = NoIdentity /\ pReason' = "none"
  /\ rCapture' = [g \in Generations |-> IF rCapture[g] = "on" THEN "closed" ELSE rCapture[g]]
  /\ rFin' = [a \in Attempts |->
                IF rFin[a].pc = "none" THEN NoFin ELSE [rFin[a] EXCEPT !.pc = "ended"]]
  /\ pRun' = [g \in Generations |-> IF pRun[g] = "none" THEN "none" ELSE "ended"]
  /\ UNCHANGED <<rCancelled, rStore>>

-----------------------------------------------------------------------------

HandlerStep(c) ==
  \/ StartRecordingFails(c)
  \/ UndoStart(c)
  \/ \E token \in Issued \cup {NoIdentity} \cup {Recovery(d) : d \in Generations} :
       OwnedStopRecording(c, token) \/ OwnedStopReplay(c, token)
  \/ RecStop(c)
  \/ RecDone(c)
  \/ RecNothingToSave(c)
  \/ RecJoin(c)
  \/ RecLaunch(c)
  \/ RecFinal(c)
  \/ RepStop(c)
  \/ RepDone(c)
  \/ GiveUp(c)
  \/ \E d \in Generations : FinalizeDraft(c, d) \/ DeleteDraftCheck(c, d)
  \/ DeleteDraftRemove(c)

FinStep(a) ==
  \/ FinCommit(a)
  \/ FinFails(a)
  \/ FinLateRelease(a)
  \/ FinPublish(a)
  \/ FinRelease(a)
  \/ FinClear(a)

ReplayStep(g) ==
  \/ \E reason \in {"completed", "stopped", "failed"} : ReplayFinish(g, reason)
  \/ ReplayPersist(g)
  \/ ReplayRelease(g)
  \/ ReplayClear(g)
  \/ ReplayClose(g)

HostStep == HostBegin \/ HostStartReplay \/ HostStopReplay \/ HostEnd

PerformanceStep == PerformanceBegin \/ PerformanceEnd

Next ==
  \/ StartRecording
  \/ StartReplay
  \/ \E c \in Clients : HandlerStep(c)
  \/ \E g \in Generations : CaptureEnds(g) \/ ReplayStep(g)
  \/ \E a \in Attempts : FinStep(a)
  \/ HostStep
  \/ PerformanceStep
  \/ Crash

Spec == Init /\ [][Next]_vars

\* The scheduler runs the goroutines and the handlers that can run; a capture
\* or a replay ends once it is cancelled; the timer of a waiting handler
\* fires.  Clients and crashes are free.
Fairness ==
  /\ \A g \in Generations :
       /\ WF_vars(g \in rCancelled /\ CaptureEnds(g))
       /\ WF_vars(g \in rCancelled /\ ReplayStep(g))
       /\ WF_vars(pRun[g] # "drive" /\ ReplayStep(g))
  /\ \A a \in Attempts : WF_vars(FinStep(a))
  /\ \A c \in Clients :
       WF_vars(gate = c /\ HandlerStep(c))

FairSpec == Spec /\ Fairness

-----------------------------------------------------------------------------
(* Properties.                                                             *)

\* A capture reads touches, and a replay injects them, only while the
\* coordinator says the device is theirs, however late older finalizers run.
SessionOwnsDevice ==
  \A g \in Generations :
    /\ rCapture[g] = "on" => active = Session("recording", g)
    /\ pRun[g] = "drive" => Session("replay", g) \in {active, hosted}

\* A recording is sealed only after its capture has stopped: no finalizer
\* takes its snapshot from a recording that still receives touches.
FinalizedAfterCapture ==
  \A a \in Attempts :
    rFin[a].pc \notin {"none", "ended"} /\ rFin[a].rec # 0 => rCapture[rFin[a].rec] # "on"

\* Recording and replaying exclude each other, up to the saving of the
\* recording and even when saving it has failed.
ExclusiveSessions == rPhase # "idle" \/ Pending => pPhase = "idle"

\* What was recorded and is not saved yet is also on disk, so that a crash at
\* any moment leaves a draft to recover, or the case.  A draft may lack what came
\* after the last update of it that could be written.
PendingIsOnDisk ==
  Pending /\ rCapture[rCurrent] # "none" => rStore[rCurrent] \in {"draft", "both", "case"}

\* A manager at rest has given the device back: no failed start, failed save
\* or abandoned stop leaks the ownership.
IdleMeansReturned ==
  (/\ Idle
   /\ \A a \in Attempts : rFin[a].pc # "late"
   /\ \A c \in Clients : call[c].pc # "undo")
  => active.kind \notin {"recording", "replay"} /\ hosted = NoIdentity

\* Every handler lets the gate go, whatever it waits for.
GateIsReleased == \A c \in Clients : gate = c ~> gate # c

\* Recordings, replays, hosted replays and explorations are sessions of one
\* device lease.  A replay that drives although nothing lends it the device
\* would be a second host.
Role(g) ==
  CASE g > generation -> "new"
    [] g <= generation ->
         IF active.generation = g \/ rCapture[g] = "on"
            \/ (pRun[g] = "drive" /\ hosted.generation # g)
           THEN "host"
           ELSE IF hosted.generation = g THEN "guest" ELSE "over"

Lease == INSTANCE DeviceLease WITH lease <- [g \in Generations |-> Role(g)]

RunsUnderLease == Lease!LeaseSpec

\* A recording that could not be started leaves nothing behind that has to be
\* finalized before the next one.
RefusedStartLeavesNothing ==
  Pending /\ gate = "free" => rCapture[rCurrent] # "none"
====
