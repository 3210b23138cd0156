---- MODULE RecordReplaySessionProofs ----
(***************************************************************************)
(* Proofs about RecordReplaySession, for any clients, identities and       *)
(* finalizations, and any number of crashes: who has the device, when a    *)
(* recording is saved, and what of it is on disk.                          *)
(*                                                                         *)
(* A finalizer releases an identity it took long ago and compares it with  *)
(* the manager's before it writes a flag.  That this is enough rests on    *)
(* the stop having waited for the capture before it took its snapshot      *)
(* (StopHasWaited), on the phase staying "finalizing" while a finalizer    *)
(* works (OneFinalizer), so that no session starts under it, and on the    *)
(* gate, which keeps the recording that a handler looked at in place.      *)
(***************************************************************************)
EXTENDS RecordReplaySession, CoordinatorProofs

Live == {"persist", "committed", "late", "release", "clear"}
Working == {"persist", "committed", "release", "clear"}
Driving == {"drive", "persist", "release"}

\* A handler that is under way holds the gate.
GateIsHeld == \A c \in Clients : call[c].pc # "idle" => gate = c

\* Identities, goroutines and files are of generations that were handed out.
AllAreIssued ==
  /\ rCurrent <= generation
  /\ \A g \in Generations :
       rCapture[g] # "none" \/ rStore[g] # "none" \/ pRun[g] # "none" => g <= generation
  /\ rIdentity.kind \in {"none", "recording", "recovery"}
  /\ rIdentity.kind = "recording" => rIdentity.generation <= generation
  /\ \A a \in Attempts :
       /\ rFin[a].rec <= generation
       /\ rFin[a].identity.kind \in {"none", "recording", "recovery"}
       /\ rFin[a].identity.kind = "recording" => rFin[a].identity.generation <= generation
  /\ \A c \in Clients : call[c].pc = "undo" =>
       call[c].wait \in Generations /\ call[c].wait <= generation /\ rCapture[call[c].wait] = "none"

\* A capture is of the manager's recording, which owns the device and is not saved.
CaptureIsCurrent ==
  \A g \in Generations : rCapture[g] = "on" =>
    /\ active = Session("recording", g) /\ rIdentity = active
    /\ rCurrent = g /\ rLatest = g /\ rDone = g
    /\ ~rSaved /\ rPhase \in {"running", "stopping"}
    /\ \A a \in Attempts : rFin[a].pc \in Live => rFin[a].identity # active

\* A stop decides about the recording when no capture runs any more, or waits for
\* the one that does.
StopHasWaited ==
  \A c \in Clients, g \in Generations : rCapture[g] = "on" =>
    /\ call[c].pc # "recDecide"
    /\ call[c].pc = "recDone" => call[c].wait = g

\* Until a finalizer that has not failed is done the manager is finalizing its
\* recording; when it is about to clear the flags the device is released.
OneFinalizer ==
  \A a \in Attempts : rFin[a].pc \in Working =>
    /\ rPhase = "finalizing" /\ rPersisting /\ rIdentity = rFin[a].identity
    /\ rFin[a].pc = "clear" /\ active.kind = "recording" => active # rFin[a].identity
    /\ \A b \in Attempts : rFin[b].pc \in Working => b = a

\* The draft that is being deleted is not the pending one.
DeleteSparesPending ==
  \A c \in Clients : call[c].pc = "delete" => ~(Pending /\ rCurrent = call[c].wait)

\* Who is going to give the device of a recording back.
RecordingIsReturned ==
  active.kind = "recording" =>
    \/ rPhase # "idle" /\ rIdentity = active
    \/ \E a \in Attempts : rFin[a].pc = "late" /\ rFin[a].identity = active
    \/ \E c \in Clients : call[c].pc = "undo" /\ call[c].wait = active.generation

\* The replay that is not over is the manager's.
ReplayIsCurrent ==
  \A g \in Generations :
    /\ pRun[g] \in Driving \cup {"clear"} => pIdentity = Session("replay", g)
    /\ pRun[g] = "drive" => /\ pPhase \in {"running", "stopping"}
                            /\ Session("replay", g) \in {active, hosted}
    /\ pRun[g] \in {"persist", "release", "clear"} => pPhase = "finalizing"

\* The device of a replay is given back by its goroutine.
ReplayIsReturned ==
  /\ active.kind = "replay" => pRun[active.generation] \in Driving
  /\ hosted # NoIdentity =>
       hosted.kind = "replay" /\ pRun[hosted.generation] \in Driving /\ active.kind = "exploration"

RecordReplayInv ==
  /\ TypeOK
  /\ CoordinatorInv
  /\ GateIsHeld
  /\ AllAreIssued
  /\ CaptureIsCurrent
  /\ StopHasWaited
  /\ OneFinalizer
  /\ FinalizedAfterCapture
  /\ PendingIsOnDisk
  /\ DeleteSparesPending
  /\ ExclusiveSessions
  /\ RecordingIsReturned
  /\ ReplayIsCurrent
  /\ ReplayIsReturned
-----------------------------------------------------------------------------
(* Small facts.                                                            *)

\* Sessions of two generations, or of two kinds, are two sessions.
LEMMA SessionsDiffer ==
  ASSUME NEW kind, NEW kind2, NEW g, NEW h
  PROVE  /\ Session(kind, g).generation = g
         /\ Session(kind, g).kind = kind
         /\ g # h => Session(kind, g) # Session(kind2, h)
         /\ kind # kind2 => Session(kind, g) # Session(kind2, h)
         /\ NoIdentity.kind = "none" /\ NoIdentity.generation = 0
         /\ kind # "none" => Session(kind, g) # NoIdentity
BY DEF Session, NoIdentity

\* Release: what it does to both slots.
LEMMA ReleaseOutcome ==
  ASSUME CoordinatorTypeOK, CoordinatorInv, NEW identity, Release(identity)
  PROVE  /\ CoordinatorTypeOK' /\ CoordinatorInv'
         /\ generation' = generation
         /\ active' = IF active = identity THEN NoIdentity ELSE active
         /\ hosted' = IF identity \in {active, hosted} THEN NoIdentity ELSE hosted
<1>1. hosted' = IF identity \in {active, hosted} THEN NoIdentity ELSE hosted
  BY DEF CoordinatorInv, Owned, Release, SameOwner, Validates
<1> QED
  BY <1>1, ReleaseFreesOnlyIdentity

\* What the owner of the device looks like.
LEMMA SlotsAreTyped ==
  ASSUME TypeOK
  PROVE  /\ generation \in 0 .. MaxGeneration /\ generation \in Nat
         /\ \A id \in {active, hosted} :
              /\ id = Session(id.kind, id.generation)
              /\ id # NoIdentity => id.kind \in Kinds /\ id.generation \in Generations
              /\ id.kind # "none" => id # NoIdentity
BY MaxGenerationAssumption
   DEF TypeOK, CoordinatorTypeOK, Identity, NoIdentity, Session, Kinds, Generations

\* The initial state has no session and nothing on disk.
LEMMA RecordReplayInitially == Init => RecordReplayInv
<1> SUFFICES ASSUME Init PROVE RecordReplayInv
  OBVIOUS
<1> USE MaxGenerationAssumption, BoundsAssumption
<1>1. CoordinatorTypeOK /\ CoordinatorInv /\ generation = 0 /\ active = NoIdentity
      /\ hosted = NoIdentity
  BY CoordinatorInitially DEF Init, CoordinatorInit
<1>2. TypeOK
  <2>1. NoFin \in [rec : 0 .. MaxGeneration, identity : Owners, pc : FinPcs]
    BY DEF NoFin, Owners, FinPcs
  <2>2. NoCall \in [pc : CallPcs, wait : Nat]
    BY DEF NoCall, CallPcs
  <2>3. /\ rFin \in [Attempts -> [rec : 0 .. MaxGeneration, identity : Owners, pc : FinPcs]]
        /\ call \in [Clients -> [pc : CallPcs, wait : Nat]]
    BY <2>1, <2>2 DEF Init
  <2>4. /\ rCapture \in [Generations -> {"none", "on", "closed"}]
        /\ rStore \in [Generations -> {"none", "draft", "both", "case", "deleted"}]
        /\ pRun \in [Generations -> RunPcs]
    BY DEF Init, RunPcs
  <2>5. /\ NoIdentity \in Owners /\ "idle" \in Phases
        /\ 0 \in 0 .. MaxGeneration /\ 0 \in 0 .. MaxAttempts /\ 0 \in 0 .. MaxCrashes
    BY DEF Owners, Phases
  <2> QED
    BY <1>1, <2>3, <2>4, <2>5 DEF Init, TypeOK
<1>3. AllAreIssued
  BY <1>1 DEF Init, AllAreIssued, NoFin, NoCall, NoIdentity
<1>4. GateIsHeld /\ CaptureIsCurrent /\ StopHasWaited /\ DeleteSparesPending
  BY DEF Init, GateIsHeld, CaptureIsCurrent, StopHasWaited, DeleteSparesPending, NoCall
<1>5. OneFinalizer /\ FinalizedAfterCapture
  BY DEF Init, OneFinalizer, FinalizedAfterCapture, NoFin, Working
<1>6. PendingIsOnDisk /\ ExclusiveSessions /\ RecordingIsReturned
  BY <1>1 DEF Init, PendingIsOnDisk, Pending, ExclusiveSessions, RecordingIsReturned, NoIdentity
<1>7. ReplayIsCurrent /\ ReplayIsReturned
  BY <1>1 DEF Init, ReplayIsCurrent, ReplayIsReturned, Driving, NoIdentity
<1> QED
  BY <1>1, <1>2, <1>3, <1>4, <1>5, <1>6, <1>7 DEF RecordReplayInv

-----------------------------------------------------------------------------
(* The handlers.                                                           *)

\* Enter and Goto: one call moves, its handler has the gate.
LEMMA CallMoves ==
  ASSUME TypeOK, GateIsHeld, NEW c \in Clients, NEW pc \in CallPcs, NEW wait \in Nat,
         \/ gate = "free" /\ Enter(c, pc, wait)
         \/ call[c].pc # "idle" /\ Goto(c, pc, wait)
  PROVE  /\ gate' \in Clients \cup {"free"}
         /\ call' \in [Clients -> [pc : CallPcs, wait : Nat]]
         /\ \A d \in Clients : call'[d] = IF d = c THEN [pc |-> pc, wait |-> wait] ELSE call[d]
         /\ \A d \in Clients : d # c => call[d].pc = "idle"
         /\ GateIsHeld'
<1>1. \A d \in Clients : call'[d] = IF d = c THEN [pc |-> pc, wait |-> wait] ELSE call[d]
  BY DEF TypeOK, Enter, Goto
<1>2. \A d \in Clients : d # c => call[d].pc = "idle"
  BY FreeAssumption DEF GateIsHeld
<1>3. call' \in [Clients -> [pc : CallPcs, wait : Nat]]
  BY DEF TypeOK, Enter, Goto
<1>4. GateIsHeld'
  BY <1>1, <1>2 DEF GateIsHeld, Enter, Goto
<1> QED
  BY <1>1, <1>2, <1>3, <1>4 DEF TypeOK, Enter, Goto

\* Return: no call is left.
LEMMA CallReturns ==
  ASSUME TypeOK, GateIsHeld, NEW c \in Clients, call[c].pc # "idle", Return(c)
  PROVE  /\ gate' \in Clients \cup {"free"}
         /\ call' \in [Clients -> [pc : CallPcs, wait : Nat]]
         /\ \A d \in Clients : call'[d].pc = "idle"
         /\ \A d \in Clients : d # c => call'[d] = call[d]
         /\ GateIsHeld'
<1>1. NoCall \in [pc : CallPcs, wait : Nat] /\ NoCall.pc = "idle"
  BY DEF NoCall, CallPcs
<1>2. \A d \in Clients : call'[d] = IF d = c THEN NoCall ELSE call[d]
  BY DEF TypeOK, Return
<1>3. \A d \in Clients : d # c => call[d].pc = "idle"
  BY DEF GateIsHeld
<1>4. call' \in [Clients -> [pc : CallPcs, wait : Nat]]
  BY <1>1 DEF TypeOK, Return
<1> QED
  BY <1>1, <1>2, <1>3, <1>4 DEF TypeOK, Return, GateIsHeld

\* A step of a handler that changes nothing but where it is.
LEMMA QuietHandlersPreserve ==
  ASSUME RecordReplayInv, GateIsHeld', gate' \in Clients \cup {"free"},
         call' \in [Clients -> [pc : CallPcs, wait : Nat]],
         UNCHANGED <<coordinatorVars, recVars, rCapture, rCancelled, rFin, rStore, repVars, crashes>>,
         \A d \in Clients : call'[d].pc = "undo" <=> call[d].pc = "undo",
         \A d \in Clients : call[d].pc = "undo" => call'[d] = call[d],
         StopHasWaited', DeleteSparesPending'
  PROVE  RecordReplayInv'
<1> USE DEF RecordReplayInv, coordinatorVars, recVars, repVars
<1>1. TypeOK' /\ CoordinatorInv'
  BY DEF TypeOK, CoordinatorTypeOK, CoordinatorInv, Owned
<1>2. AllAreIssued' /\ CaptureIsCurrent'
  BY DEF AllAreIssued, CaptureIsCurrent
<1>3. OneFinalizer' /\ FinalizedAfterCapture'
  BY DEF OneFinalizer, FinalizedAfterCapture
<1>4. PendingIsOnDisk' /\ ExclusiveSessions'
  BY DEF PendingIsOnDisk, Pending, ExclusiveSessions
<1>5. RecordingIsReturned'
  BY DEF RecordingIsReturned
<1>6. ReplayIsCurrent' /\ ReplayIsReturned'
  BY DEF ReplayIsCurrent, ReplayIsReturned
<1> QED
  BY <1>1, <1>2, <1>3, <1>4, <1>5, <1>6
\* The steps of a handler that wait, look or give up.
LEMMA WaitingPreserves ==
  ASSUME RecordReplayInv, NEW c \in Clients,
         \/ \E token \in Issued \cup {NoIdentity} \cup {Recovery(d) : d \in Generations} :
              OwnedStopRecording(c, token) \/ OwnedStopReplay(c, token)
         \/ RecDone(c) \/ RecNothingToSave(c) \/ RecJoin(c) \/ RecFinal(c)
         \/ RepDone(c) \/ GiveUp(c)
         \/ \E d \in Generations : DeleteDraftCheck(c, d)
  PROVE  RecordReplayInv'
<1>1. TypeOK /\ GateIsHeld /\ MaxGeneration \in Nat
  BY MaxGenerationAssumption DEF RecordReplayInv
<1>2. /\ UNCHANGED <<coordinatorVars, recVars, rCapture, rFin, rStore, repVars, crashes>>
      /\ UNCHANGED rCancelled
  BY DEF OwnedStopRecording, OwnedStopReplay, RecDone, RecNothingToSave, RecJoin, RecFinal,
     RepDone, GiveUp, DeleteDraftCheck
<1>3. ASSUME Return(c), call[c].pc \notin {"idle", "undo"}
      PROVE  RecordReplayInv'
  <2>1. /\ gate' \in Clients \cup {"free"}
        /\ call' \in [Clients -> [pc : CallPcs, wait : Nat]]
        /\ \A d \in Clients : call'[d].pc = "idle"
        /\ \A d \in Clients : d # c => call'[d] = call[d]
        /\ GateIsHeld'
    BY <1>1, <1>3, CallReturns
  <2>2. StopHasWaited' /\ DeleteSparesPending'
    BY <2>1 DEF StopHasWaited, DeleteSparesPending
  <2> QED
    BY <1>2, <1>3, <2>1, <2>2, QuietHandlersPreserve
<1>4. ASSUME NEW pc \in CallPcs \ {"undo"}, NEW wait \in Nat,
             \/ gate = "free" /\ Enter(c, pc, wait)
             \/ call[c].pc \notin {"idle", "undo"} /\ Goto(c, pc, wait),
             pc = "recDecide" => \A g \in Generations : rCapture[g] # "on",
             pc # "recDone",
             pc = "delete" => ~(Pending /\ rCurrent = wait)
      PROVE  RecordReplayInv'
  <2>1. /\ gate' \in Clients \cup {"free"}
        /\ call' \in [Clients -> [pc : CallPcs, wait : Nat]]
        /\ \A d \in Clients : call'[d] = IF d = c THEN [pc |-> pc, wait |-> wait] ELSE call[d]
        /\ GateIsHeld'
    BY <1>1, <1>4, CallMoves
  <2>2. call[c].pc # "undo"
    BY <1>1, <1>4, FreeAssumption DEF GateIsHeld
  <2>3. StopHasWaited'
    BY <1>2, <1>4, <2>1 DEF RecordReplayInv, StopHasWaited
  <2>4. DeleteSparesPending'
    BY <1>2, <1>4, <2>1 DEF RecordReplayInv, DeleteSparesPending, Pending, recVars
  <2> QED
    BY <1>2, <1>4, <2>1, <2>2, <2>3, <2>4, QuietHandlersPreserve
<1>5. ASSUME NEW token, OwnedStopRecording(c, token) \/ OwnedStopReplay(c, token)
      PROVE  RecordReplayInv'
  BY <1>4, <1>5 DEF OwnedStopRecording, OwnedStopReplay, CallPcs
<1>6. CASE RecDone(c)
  <2>1. \A g \in Generations : rCapture[g] # "on"
    BY <1>6 DEF RecordReplayInv, StopHasWaited, RecDone
  <2> QED
    BY <1>4, <1>6, <2>1 DEF RecDone, CallPcs
<1>7. CASE RecNothingToSave(c) \/ RecFinal(c) \/ RepDone(c) \/ GiveUp(c)
  BY <1>3, <1>7 DEF RecNothingToSave, RecFinal, RepDone, GiveUp
<1>8. CASE RecJoin(c)
  <2>1. rAttempt \in Nat
    BY <1>1, BoundsAssumption DEF TypeOK
  <2> QED
    BY <1>4, <1>8, <2>1 DEF RecJoin, CallPcs
<1>9. ASSUME NEW d \in Generations, DeleteDraftCheck(c, d)
      PROVE  RecordReplayInv'
  <2>1. d \in Nat
    BY DEF Generations
  <2> QED
    BY <1>4, <1>9, <2>1 DEF DeleteDraftCheck, CallPcs
<1> QED
  BY <1>5, <1>6, <1>7, <1>8, <1>9

\* A stop marks the recording and reads what it has to wait for: every capture that
\* runs is the manager's.
LEMMA RecStopPreserves ==
  ASSUME RecordReplayInv, NEW c \in Clients, RecStop(c)
  PROVE  RecordReplayInv'
<1> DEFINE pc == IF rDone = 0 THEN "recDecide" ELSE "recDone"
<1>1. /\ TypeOK /\ GateIsHeld /\ rDone \in Nat /\ rDone \in 0 .. MaxGeneration
      /\ \A g \in Generations : g # 0
  BY MaxGenerationAssumption DEF RecordReplayInv, TypeOK, Generations
<1>2. pc \in CallPcs /\ call[c].pc # "idle" /\ Goto(c, pc, rDone)
  BY DEF RecStop, CallPcs
<1>3. /\ gate' \in Clients \cup {"free"}
      /\ call' \in [Clients -> [pc : CallPcs, wait : Nat]]
      /\ \A d \in Clients : call'[d] = IF d = c THEN [pc |-> pc, wait |-> rDone] ELSE call[d]
      /\ GateIsHeld'
  BY <1>1, <1>2, CallMoves
<1>4. /\ UNCHANGED <<coordinatorVars, rIdentity, rCurrent, rSaved, rLatest, rDone, rAttempt,
                     rPersisting, rCapture, rFin, rStore, repVars, crashes>>
      /\ rPhase' = IF rPhase = "running" THEN "stopping" ELSE rPhase
  BY DEF RecStop
<1> USE <1>4 DEF RecordReplayInv, coordinatorVars, repVars
<1>5. TypeOK'
  <2>1. rCancelled' \subseteq Generations
    BY <1>1, MaxGenerationAssumption DEF RecStop, TypeOK, Generations
  <2> QED
    BY <1>3, <2>1 DEF TypeOK, CoordinatorTypeOK, Phases
<1>6. CoordinatorInv' /\ CaptureIsCurrent' /\ OneFinalizer' /\ FinalizedAfterCapture'
  BY DEF CoordinatorInv, Owned, CaptureIsCurrent, OneFinalizer, FinalizedAfterCapture
<1>7. AllAreIssued'
  BY <1>3 DEF AllAreIssued
<1>8. StopHasWaited' /\ DeleteSparesPending'
  BY <1>1, <1>3 DEF StopHasWaited, CaptureIsCurrent, DeleteSparesPending, Pending
<1>9. PendingIsOnDisk' /\ ExclusiveSessions'
  BY DEF PendingIsOnDisk, ExclusiveSessions, Pending
<1>10. RecordingIsReturned'
  BY <1>3 DEF RecordingIsReturned, RecStop
<1>11. ReplayIsCurrent' /\ ReplayIsReturned'
  BY DEF ReplayIsCurrent, ReplayIsReturned
<1> QED
  BY <1>3, <1>5, <1>6, <1>7, <1>8, <1>9, <1>10, <1>11

\* The snapshot is taken when nothing captures any more, and by one call.
LEMMA RecLaunchPreserves ==
  ASSUME RecordReplayInv, NEW c \in Clients, RecLaunch(c)
  PROVE  RecordReplayInv'
<1>1. /\ TypeOK /\ GateIsHeld /\ call[c].pc = "recDecide" /\ Pending /\ ~rPersisting
      /\ \A g \in Generations : rCapture[g] # "on"
      /\ rPhase' = "finalizing" /\ rPersisting' = TRUE
      /\ UNCHANGED <<coordinatorVars, rIdentity, rCurrent, rSaved, rLatest, rDone, rCapture,
                     rCancelled, rStore, repVars, crashes>>
  BY DEF RecordReplayInv, StopHasWaited, RecLaunch
<1>2. PICK a \in Attempts :
        /\ Unused(a)
        /\ rFin' = [rFin EXCEPT ![a] = [rec |-> rCurrent, identity |-> rIdentity, pc |-> "persist"]]
        /\ rAttempt' = a
        /\ Goto(c, "recFinal", a)
  BY DEF RecLaunch
<1>3. a \in Nat /\ a \in 0 .. MaxAttempts /\ "recFinal" \in CallPcs
  BY BoundsAssumption DEF Attempts, CallPcs
<1>4. /\ gate' \in Clients \cup {"free"}
      /\ call' \in [Clients -> [pc : CallPcs, wait : Nat]]
      /\ \A d \in Clients : call'[d] = IF d = c THEN [pc |-> "recFinal", wait |-> a] ELSE call[d]
      /\ GateIsHeld'
  BY <1>1, <1>2, <1>3, CallMoves
<1>5. \A b \in Attempts : rFin'[b] = IF b = a THEN [rec |-> rCurrent, identity |-> rIdentity,
                                                     pc |-> "persist"] ELSE rFin[b]
  BY <1>1, <1>2 DEF TypeOK
<1> USE <1>1 DEF RecordReplayInv, coordinatorVars, repVars
<1>6. TypeOK'
  <2>1. rFin' \in [Attempts -> [rec : 0 .. MaxGeneration, identity : Owners, pc : FinPcs]]
    BY <1>2 DEF TypeOK, FinPcs
  <2> QED
    BY <1>2, <1>3, <1>4, <2>1 DEF TypeOK, CoordinatorTypeOK, Phases
<1>7. AllAreIssued'
  BY <1>4, <1>5 DEF AllAreIssued
<1>8. CoordinatorInv' /\ CaptureIsCurrent' /\ StopHasWaited' /\ FinalizedAfterCapture'
  <2>1. CoordinatorInv' /\ CaptureIsCurrent' /\ StopHasWaited'
    BY DEF CoordinatorInv, Owned, CaptureIsCurrent, StopHasWaited
  <2>2. \A g \in 0 .. MaxGeneration : g = 0 \/ g \in Generations
    BY MaxGenerationAssumption DEF Generations
  <2>3. rCurrent \in 0 .. MaxGeneration /\ \A b \in Attempts : rFin[b].rec \in 0 .. MaxGeneration
    BY DEF TypeOK
  <2>4. FinalizedAfterCapture'
    BY <1>5, <2>2, <2>3 DEF FinalizedAfterCapture
  <2> QED
    BY <2>1, <2>4
<1>9. OneFinalizer'
  BY <1>5 DEF OneFinalizer, Working
<1>10. PendingIsOnDisk' /\ DeleteSparesPending' /\ ExclusiveSessions'
  BY <1>4 DEF PendingIsOnDisk, DeleteSparesPending, ExclusiveSessions, Pending
<1>11. RecordingIsReturned'
  BY <1>2, <1>4, <1>5 DEF RecordingIsReturned, Unused
<1>12. ReplayIsCurrent' /\ ReplayIsReturned'
  BY DEF ReplayIsCurrent, ReplayIsReturned
<1> QED
  BY <1>4, <1>6, <1>7, <1>8, <1>9, <1>10, <1>11, <1>12

\* The draft that is removed was not pending when the handler looked, and the gate
\* has kept every other from becoming so.
LEMMA DeleteDraftPreserves ==
  ASSUME RecordReplayInv, NEW c \in Clients, DeleteDraftRemove(c)
  PROVE  RecordReplayInv'
<1>1. /\ TypeOK /\ GateIsHeld /\ call[c].pc = "delete"
      /\ UNCHANGED <<coordinatorVars, recVars, rCapture, rCancelled, rFin, repVars, crashes>>
  BY DEF RecordReplayInv, DeleteDraftRemove
<1>2. /\ gate' \in Clients \cup {"free"}
      /\ call' \in [Clients -> [pc : CallPcs, wait : Nat]]
      /\ \A d \in Clients : call'[d].pc = "idle"
      /\ \A d \in Clients : d # c => call'[d] = call[d]
      /\ GateIsHeld'
  BY <1>1, CallReturns DEF DeleteDraftRemove
<1>3. \A g \in Generations :
        /\ rStore'[g] \in {"none", "draft", "both", "case", "deleted"}
        /\ g # call[c].wait => rStore'[g] = rStore[g]
        /\ rStore[g] = "none" => rStore'[g] = "none"
  BY DEF RecordReplayInv, TypeOK, DeleteDraftRemove
<1>4. rStore' \in [Generations -> {"none", "draft", "both", "case", "deleted"}]
  <2>1. DOMAIN rStore' = Generations
    BY DEF RecordReplayInv, TypeOK, DeleteDraftRemove
  <2>2. rStore' = [g \in Generations |-> rStore'[g]]
    BY <2>1 DEF DeleteDraftRemove
  <2> QED
    BY <1>3, <2>2
<1> USE <1>1 DEF RecordReplayInv, coordinatorVars, recVars, repVars
<1>5. TypeOK' /\ CoordinatorInv'
  BY <1>2, <1>4 DEF TypeOK, CoordinatorTypeOK, CoordinatorInv, Owned
<1>6. AllAreIssued'
  BY <1>2, <1>3 DEF AllAreIssued
<1>7. CaptureIsCurrent' /\ OneFinalizer' /\ FinalizedAfterCapture'
  BY DEF CaptureIsCurrent, OneFinalizer, FinalizedAfterCapture
<1>8. StopHasWaited' /\ DeleteSparesPending' /\ ExclusiveSessions'
  BY <1>2 DEF StopHasWaited, DeleteSparesPending, ExclusiveSessions, Pending
<1>9. PendingIsOnDisk'
  <2>1. Pending => rCurrent \in Generations /\ rCurrent # call[c].wait
    BY MaxGenerationAssumption DEF DeleteSparesPending, Pending, TypeOK, Generations
  <2> QED
    BY <1>3, <2>1 DEF PendingIsOnDisk, Pending
<1>10. RecordingIsReturned' /\ ReplayIsCurrent' /\ ReplayIsReturned'
  <2>1. RecordingIsReturned'
    BY <1>2 DEF RecordingIsReturned
  <2> QED
    BY <2>1 DEF ReplayIsCurrent, ReplayIsReturned
<1> QED
  BY <1>2, <1>5, <1>6, <1>7, <1>8, <1>9, <1>10

\* StopReplay marks and cancels the replay there is, for a handler or for the
\* exploration that hosts it.
LEMMA CancelReplayPreserves ==
  ASSUME RecordReplayInv, (\E c \in Clients : RepStop(c)) \/ HostStopReplay
  PROVE  RecordReplayInv'
<1>1. TypeOK /\ GateIsHeld /\ pIdentity.generation \in 0 .. MaxGeneration
  BY MaxGenerationAssumption
     DEF RecordReplayInv, TypeOK, Owners, Identity, Recovery, Session, NoIdentity, Generations
<1>2. /\ CancelReplay
      /\ UNCHANGED <<coordinatorVars, recVars, rCapture, rFin, rStore, pIdentity, pReason,
                     pRun, crashes>>
      /\ pPhase' = IF pPhase = "running" THEN "stopping" ELSE pPhase
  BY DEF RepStop, HostStopReplay, CancelReplay
<1>3. /\ gate' \in Clients \cup {"free"}
      /\ call' \in [Clients -> [pc : CallPcs, wait : Nat]]
      /\ \A d \in Clients : call'[d] # call[d] =>
            call'[d].pc \in {"idle", "repDone"} /\ call[d].pc = "repStop"
      /\ GateIsHeld'
  <2>1. CASE HostStopReplay
    BY <1>1, <2>1 DEF HostStopReplay, handlerVars, TypeOK, GateIsHeld
  <2>2. ASSUME NEW c \in Clients, RepStop(c), pIdentity = NoIdentity
        PROVE  <1>3!:
    BY <1>1, <2>2, CallReturns DEF RepStop
  <2>3. ASSUME NEW c \in Clients, RepStop(c), pIdentity # NoIdentity
        PROVE  <1>3!:
    <3>1. "repDone" \in CallPcs /\ pIdentity.generation \in Nat
      BY <1>1 DEF CallPcs
    <3>2. Goto(c, "repDone", pIdentity.generation) /\ call[c].pc = "repStop"
      BY <2>3 DEF RepStop
    <3>3. /\ gate' \in Clients \cup {"free"}
          /\ call' \in [Clients -> [pc : CallPcs, wait : Nat]]
          /\ \A d \in Clients : call'[d] = IF d = c THEN [pc |-> "repDone",
                                   wait |-> pIdentity.generation] ELSE call[d]
          /\ GateIsHeld'
      BY <1>1, <3>1, <3>2, CallMoves
    <3> QED
      BY <3>2, <3>3
  <2> QED
    BY <2>1, <2>2, <2>3
<1> USE <1>2 DEF RecordReplayInv, coordinatorVars, recVars
<1>4. TypeOK'
  <2>1. rCancelled' = rCancelled \cup ({pIdentity.generation} \ {0})
    BY DEF CancelReplay
  <2>2. {pIdentity.generation} \ {0} \subseteq Generations
    BY <1>1, MaxGenerationAssumption DEF Generations
  <2> QED
    BY <1>3, <2>1, <2>2 DEF TypeOK, CoordinatorTypeOK, Phases
<1>5. CoordinatorInv' /\ CaptureIsCurrent' /\ OneFinalizer' /\ FinalizedAfterCapture'
  BY DEF CoordinatorInv, Owned, CaptureIsCurrent, OneFinalizer, FinalizedAfterCapture
<1>6. AllAreIssued'
  BY <1>3 DEF AllAreIssued
<1>7. StopHasWaited' /\ DeleteSparesPending'
  BY <1>3 DEF StopHasWaited, DeleteSparesPending, Pending
<1>8. PendingIsOnDisk' /\ ExclusiveSessions'
  BY DEF PendingIsOnDisk, ExclusiveSessions, Pending
<1>9. RecordingIsReturned'
  BY <1>3 DEF RecordingIsReturned
<1>10. ReplayIsCurrent' /\ ReplayIsReturned'
  BY DEF ReplayIsCurrent, ReplayIsReturned
<1> QED
  BY <1>3, <1>4, <1>5, <1>6, <1>7, <1>8, <1>9, <1>10

-----------------------------------------------------------------------------
(* The beginnings.                                                         *)

\* While nothing is active there is no capture, no working finalizer and no replay
\* that has the device.
LEMMA IdleMeansNothingRuns ==
  ASSUME RecordReplayInv, Idle
  PROVE  /\ \A g \in Generations : rCapture[g] # "on"
         /\ \A a \in Attempts : rFin[a].pc \notin Working
         /\ \A g \in Generations : pRun[g] \notin Driving \cup {"clear"}
         /\ active.kind # "replay" /\ hosted = NoIdentity
<1>1. /\ \A g \in Generations : rCapture[g] # "on"
      /\ \A a \in Attempts : rFin[a].pc \notin Working
      /\ \A g \in Generations : pRun[g] \notin Driving \cup {"clear"}
  BY DEF RecordReplayInv, CaptureIsCurrent, OneFinalizer, ReplayIsCurrent, Driving, Idle
<1>2. active.kind # "replay" /\ hosted = NoIdentity
  <2>1. TypeOK
    BY DEF RecordReplayInv
  <2>2. active.kind = "replay" => active.generation \in Generations
    BY <2>1, SlotsAreTyped DEF NoIdentity
  <2>3. hosted # NoIdentity => hosted.generation \in Generations
    BY <2>1, SlotsAreTyped
  <2> QED
    BY <1>1, <2>2, <2>3 DEF RecordReplayInv, ReplayIsReturned
<1> QED
  BY <1>1, <1>2

\* The next identity belongs to nothing yet.
LEMMA NextIsUnused ==
  ASSUME RecordReplayInv
  PROVE  /\ generation \in Nat
         /\ \A g \in Generations : g > generation =>
              rCapture[g] = "none" /\ rStore[g] = "none" /\ pRun[g] = "none"
         /\ rCurrent # generation + 1
         /\ rIdentity # Session("recording", generation + 1)
         /\ \A a \in Attempts : /\ rFin[a].rec # generation + 1
                                 /\ rFin[a].identity # Session("recording", generation + 1)
<1>1. generation \in Nat /\ \A g \in Generations : g \in Nat
  BY SlotsAreTyped DEF RecordReplayInv, Generations
<1>2. /\ rCurrent \in Nat /\ \A a \in Attempts : rFin[a].rec \in Nat
  BY MaxGenerationAssumption DEF RecordReplayInv, TypeOK
<1>3. /\ Session("recording", generation + 1).kind = "recording"
      /\ Session("recording", generation + 1).generation = generation + 1
  BY DEF Session
<1> QED
  BY <1>1, <1>2, <1>3 DEF RecordReplayInv, AllAreIssued

\* A recording starts.
LEMMA StartRecordingPreserves ==
  ASSUME RecordReplayInv, StartRecording
  PROVE  RecordReplayInv'
<1> DEFINE s == generation + 1
<1>1. /\ CoordinatorTypeOK' /\ CoordinatorInv' /\ generation' = s /\ s \in Generations
      /\ active = NoIdentity /\ active' = Session("recording", s) /\ hosted' = NoIdentity
  BY AcquireTakesFreeDevice DEF RecordReplayInv, TypeOK, StartRecording, Kinds
<1>2. /\ TypeOK /\ gate = "free" /\ Idle /\ s \in Nat /\ s > generation /\ s # 0
      /\ s \in 0 .. MaxGeneration /\ \A c \in Clients : call[c].pc = "idle"
  BY <1>1, NextIsUnused, FreeAssumption, MaxGenerationAssumption
     DEF RecordReplayInv, StartRecording, Admits, GateIsHeld, Generations
<1>3. /\ rPhase' = "running" /\ rIdentity' = Session("recording", s) /\ rCurrent' = s
      /\ rSaved' = FALSE /\ rLatest' = s /\ rDone' = s /\ rAttempt' = 0 /\ rPersisting' = FALSE
      /\ \A g \in Generations : rCapture'[g] = IF g = s THEN "on" ELSE rCapture[g]
      /\ \A g \in Generations : rStore'[g] = IF g = s THEN "draft" ELSE rStore[g]
      /\ UNCHANGED <<handlerVars, rCancelled, rFin, repVars, crashes>>
  BY <1>2 DEF StartRecording, NewIdentity, TypeOK
<1> HIDE DEF s
<1>4. TypeOK'
  <2>1. Session("recording", s) \in Owners
    BY <1>1 DEF Owners, Session, Identity, Kinds
  <2>2. rCapture' \in [Generations -> {"none", "on", "closed"}]
    BY <1>2 DEF StartRecording, TypeOK, s
  <2>3. rStore' \in [Generations -> {"none", "draft", "both", "case", "deleted"}]
    BY <1>2 DEF StartRecording, TypeOK, s
  <2>4. 0 \in 0 .. MaxAttempts /\ "running" \in Phases
    BY BoundsAssumption DEF Phases
  <2> QED
    BY <1>1, <1>2, <1>3, <2>1, <2>2, <2>3, <2>4 DEF TypeOK, handlerVars, repVars
<1>5. GateIsHeld' /\ StopHasWaited' /\ DeleteSparesPending'
  BY <1>2, <1>3 DEF GateIsHeld, StopHasWaited, DeleteSparesPending, handlerVars
<1>6. AllAreIssued'
  <2>1. rIdentity'.kind = "recording" /\ rIdentity'.generation = s
    BY <1>3 DEF Session
  <2>2. \A n \in Nat : n <= generation => n <= s
    BY NextIsUnused DEF s
  <2>3. /\ \A g \in Generations : g \in Nat
        /\ \A a \in Attempts : rFin[a].rec \in Nat
        /\ \A a \in Attempts : rFin[a].identity.kind = "recording" => rFin[a].identity.generation \in Nat
    BY <1>2, MaxGenerationAssumption
       DEF TypeOK, Generations, Owners, Identity, NoIdentity, Recovery, Session
  <2> QED
    BY <1>1, <1>2, <1>3, <2>1, <2>2, <2>3
       DEF RecordReplayInv, AllAreIssued, handlerVars, repVars
<1>7. CaptureIsCurrent'
  BY <1>1, <1>2, <1>3, IdleMeansNothingRuns, NextIsUnused
     DEF RecordReplayInv, CaptureIsCurrent, s
<1>8. OneFinalizer' /\ FinalizedAfterCapture'
  <2>1. OneFinalizer'
    BY <1>2, <1>3, IdleMeansNothingRuns DEF OneFinalizer
  <2>2. \A a \in Attempts : rFin[a].rec = 0 \/ rFin[a].rec \in Generations
    BY <1>2, MaxGenerationAssumption DEF TypeOK, Generations
  <2>3. FinalizedAfterCapture'
    BY <1>3, <2>2, NextIsUnused DEF RecordReplayInv, FinalizedAfterCapture, s
  <2> QED
    BY <2>1, <2>3
<1>9. PendingIsOnDisk' /\ ExclusiveSessions'
  BY <1>1, <1>2, <1>3 DEF PendingIsOnDisk, ExclusiveSessions, Idle, repVars
<1>10. RecordingIsReturned'
  BY <1>1, <1>3 DEF RecordingIsReturned
<1>11. ReplayIsCurrent' /\ ReplayIsReturned'
  <2>1. active'.kind = "recording"
    BY <1>1 DEF Session
  <2> QED
    BY <1>1, <1>2, <1>3, <2>1, IdleMeansNothingRuns
       DEF ReplayIsCurrent, ReplayIsReturned, repVars, Driving
<1> QED
  BY <1>1, <1>4, <1>5, <1>6, <1>7, <1>8, <1>9, <1>10, <1>11 DEF RecordReplayInv

\* A recording that fails to start leaves its case in the manager and has to give the
\* device back.
LEMMA StartFailsPreserves ==
  ASSUME RecordReplayInv, NEW c \in Clients, StartRecordingFails(c)
  PROVE  RecordReplayInv'
<1> DEFINE s == generation + 1
<1>1. /\ CoordinatorTypeOK' /\ CoordinatorInv' /\ generation' = s /\ s \in Generations
      /\ active = NoIdentity /\ active' = Session("recording", s) /\ hosted' = NoIdentity
  BY AcquireTakesFreeDevice DEF RecordReplayInv, TypeOK, StartRecordingFails, Kinds
<1>2. /\ TypeOK /\ GateIsHeld /\ gate = "free" /\ Idle /\ s \in Nat /\ s > generation
      /\ s \in 0 .. MaxGeneration /\ "undo" \in CallPcs /\ Enter(c, "undo", s)
      /\ rCurrent' = s /\ rCapture[s] = "none"
      /\ UNCHANGED <<rPhase, rIdentity, rSaved, rLatest, rDone, rAttempt, rPersisting,
                     rCapture, rCancelled, rFin, rStore, repVars, crashes>>
  BY <1>1, NextIsUnused, MaxGenerationAssumption
     DEF RecordReplayInv, StartRecordingFails, Admits, Generations, CallPcs
<1> HIDE DEF s
<1>3. /\ gate' \in Clients \cup {"free"}
      /\ call' \in [Clients -> [pc : CallPcs, wait : Nat]]
      /\ \A d \in Clients : call'[d] = IF d = c THEN [pc |-> "undo", wait |-> s] ELSE call[d]
      /\ \A d \in Clients : d # c => call[d].pc = "idle"
      /\ GateIsHeld'
  BY <1>2, CallMoves
<1>4. TypeOK'
  BY <1>1, <1>2, <1>3 DEF TypeOK, repVars
<1>5. StopHasWaited' /\ DeleteSparesPending'
  BY <1>2, <1>3, IdleMeansNothingRuns DEF StopHasWaited, DeleteSparesPending
<1>6. AllAreIssued'
  <2>1. \A n \in Nat : n <= generation => n <= s
    BY NextIsUnused DEF s
  <2>2. /\ \A g \in Generations : g \in Nat
        /\ \A a \in Attempts : rFin[a].rec \in Nat
        /\ \A a \in Attempts : rFin[a].identity.kind = "recording" => rFin[a].identity.generation \in Nat
        /\ rIdentity.kind = "recording" => rIdentity.generation \in Nat
    BY <1>2, MaxGenerationAssumption
       DEF TypeOK, Generations, Owners, Identity, NoIdentity, Recovery, Session
  <2> QED
    BY <1>1, <1>2, <1>3, <2>1, <2>2 DEF RecordReplayInv, AllAreIssued, repVars
<1>7. CaptureIsCurrent' /\ FinalizedAfterCapture'
  <2>1. FinalizedAfterCapture'
    BY <1>2 DEF RecordReplayInv, FinalizedAfterCapture
  <2> QED
    BY <1>2, <2>1, IdleMeansNothingRuns DEF CaptureIsCurrent
<1>8. OneFinalizer'
  BY <1>2, IdleMeansNothingRuns DEF OneFinalizer
<1>9. PendingIsOnDisk' /\ ExclusiveSessions'
  BY <1>2 DEF PendingIsOnDisk, ExclusiveSessions, Idle, repVars
<1>10. RecordingIsReturned'
  BY <1>1, <1>3, SessionsDiffer DEF RecordingIsReturned
<1>11. ReplayIsCurrent' /\ ReplayIsReturned'
  <2>1. active'.kind = "recording"
    BY <1>1 DEF Session
  <2> QED
    BY <1>1, <1>2, <2>1, IdleMeansNothingRuns DEF ReplayIsCurrent, ReplayIsReturned, repVars, Driving
<1> QED
  BY <1>1, <1>3, <1>4, <1>5, <1>6, <1>7, <1>8, <1>9, <1>10, <1>11 DEF RecordReplayInv

\* A draft becomes the current recording, when nothing else runs.
LEMMA FinalizeDraftPreserves ==
  ASSUME RecordReplayInv, NEW c \in Clients, NEW d \in Generations, FinalizeDraft(c, d)
  PROVE  RecordReplayInv'
<1>1. /\ TypeOK /\ GateIsHeld /\ gate = "free" /\ Idle /\ HasDraft(d)
      /\ "recStop" \in CallPcs /\ Enter(c, "recStop", 0)
      /\ rCurrent' = d /\ rSaved' = FALSE /\ rIdentity' = Recovery(d) /\ rLatest' = 0
      /\ UNCHANGED <<coordinatorVars, rPhase, rDone, rAttempt, rPersisting, rCapture,
                     rCancelled, rFin, rStore, repVars, crashes>>
  BY DEF RecordReplayInv, FinalizeDraft, Admits, CallPcs
<1>2. /\ gate' \in Clients \cup {"free"}
      /\ call' \in [Clients -> [pc : CallPcs, wait : Nat]]
      /\ \A e \in Clients : call'[e] = IF e = c THEN [pc |-> "recStop", wait |-> 0] ELSE call[e]
      /\ \A e \in Clients : call[e].pc = "idle"
      /\ GateIsHeld'
  BY <1>1, CallMoves, FreeAssumption DEF GateIsHeld
<1>3. d \in 0 .. MaxGeneration /\ d # 0 /\ d <= generation /\ rStore[d] \in {"draft", "both"}
  BY <1>1, MaxGenerationAssumption DEF RecordReplayInv, AllAreIssued, HasDraft, Generations
<1>4. Recovery(d) \in Owners /\ Recovery(d).kind = "recovery"
  BY DEF Owners, Recovery, Session
<1>5. TypeOK'
  <2>1. 0 \in 0 .. MaxGeneration
    BY MaxGenerationAssumption
  <2> QED
    BY <1>1, <1>2, <1>3, <1>4, <2>1 DEF TypeOK, CoordinatorTypeOK, coordinatorVars, repVars
<1>6. CoordinatorInv' /\ StopHasWaited' /\ DeleteSparesPending'
  BY <1>1, <1>2 DEF RecordReplayInv, CoordinatorInv, Owned, StopHasWaited, DeleteSparesPending,
     coordinatorVars
<1>7. AllAreIssued'
  BY <1>1, <1>2, <1>3, <1>4 DEF RecordReplayInv, AllAreIssued, coordinatorVars, repVars
<1>8. CaptureIsCurrent' /\ OneFinalizer' /\ FinalizedAfterCapture'
  <2>1. FinalizedAfterCapture'
    BY <1>1 DEF RecordReplayInv, FinalizedAfterCapture
  <2> QED
    BY <1>1, <2>1, IdleMeansNothingRuns DEF CaptureIsCurrent, OneFinalizer
<1>9. PendingIsOnDisk' /\ ExclusiveSessions'
  BY <1>1, <1>3 DEF PendingIsOnDisk, ExclusiveSessions, Idle, repVars
<1>10. RecordingIsReturned'
  BY <1>1, <1>2 DEF RecordReplayInv, RecordingIsReturned, Idle, coordinatorVars
<1>11. ReplayIsCurrent' /\ ReplayIsReturned'
  BY <1>1 DEF RecordReplayInv, ReplayIsCurrent, ReplayIsReturned, coordinatorVars, repVars
<1> QED
  BY <1>2, <1>5, <1>6, <1>7, <1>8, <1>9, <1>10, <1>11 DEF RecordReplayInv

\* A replay starts, by itself or hosted by an exploration.
LEMMA ReplayStartsPreserve ==
  ASSUME RecordReplayInv, StartReplay \/ HostStartReplay
  PROVE  RecordReplayInv'
<1> DEFINE s == generation + 1
<1>1. /\ CoordinatorTypeOK' /\ CoordinatorInv' /\ generation' = s /\ s \in Generations
      /\ \/ /\ active = NoIdentity
            /\ active' = Session("replay", s) /\ hosted' = NoIdentity
         \/ /\ active.kind = "exploration" /\ active' = active
            /\ hosted' = Session("replay", s)
  BY AcquireTakesFreeDevice, AcquireHostedKeepsOwner
     DEF RecordReplayInv, TypeOK, StartReplay, HostStartReplay, Kinds
<1>2. /\ TypeOK /\ Idle /\ ~Pending /\ s \in Nat /\ s > generation
      /\ pPhase' = "running" /\ pIdentity' = Session("replay", s) /\ pReason' = "none"
      /\ pRun' = [pRun EXCEPT ![s] = "drive"]
      /\ UNCHANGED <<handlerVars, recVars, rCapture, rCancelled, rFin, rStore, crashes>>
  BY <1>1, NextIsUnused
     DEF RecordReplayInv, StartReplay, HostStartReplay, ReplayStarted, NewIdentity
<1> HIDE DEF s
<1>3. \A g \in Generations : pRun'[g] = IF g = s THEN "drive" ELSE pRun[g]
  BY <1>2 DEF TypeOK
<1>4. TypeOK'
  <2>1. Session("replay", s) \in Owners
    BY <1>1 DEF Owners, Session, Identity, Kinds
  <2>2. pRun' \in [Generations -> RunPcs]
    BY <1>1, <1>2 DEF TypeOK, RunPcs
  <2> QED
    BY <1>1, <1>2, <2>1, <2>2 DEF TypeOK, handlerVars, recVars, Phases
<1>5. GateIsHeld' /\ StopHasWaited' /\ DeleteSparesPending'
  BY <1>2 DEF RecordReplayInv, GateIsHeld, StopHasWaited, DeleteSparesPending, Pending,
     handlerVars, recVars
<1>6. AllAreIssued'
  <2>1. \A n \in Nat : n <= generation => n <= s
    BY NextIsUnused DEF s
  <2>2. /\ \A g \in Generations : g \in Nat
        /\ rCurrent \in Nat
        /\ \A c \in Clients : call[c].wait \in Nat
        /\ \A a \in Attempts : rFin[a].rec \in Nat
        /\ \A a \in Attempts : rFin[a].identity.kind = "recording" => rFin[a].identity.generation \in Nat
        /\ rIdentity.kind = "recording" => rIdentity.generation \in Nat
    BY <1>2, MaxGenerationAssumption
       DEF TypeOK, Generations, Owners, Identity, NoIdentity, Recovery, Session
  <2> QED
    BY <1>1, <1>2, <1>3, <2>1, <2>2 DEF RecordReplayInv, AllAreIssued, handlerVars, recVars
<1>7. CaptureIsCurrent' /\ FinalizedAfterCapture'
  <2>1. FinalizedAfterCapture'
    BY <1>2 DEF RecordReplayInv, FinalizedAfterCapture
  <2> QED
    BY <1>2, <2>1, IdleMeansNothingRuns DEF CaptureIsCurrent
<1>8. OneFinalizer'
  BY <1>2, IdleMeansNothingRuns DEF OneFinalizer
<1>9. PendingIsOnDisk' /\ ExclusiveSessions'
  BY <1>2 DEF RecordReplayInv, PendingIsOnDisk, ExclusiveSessions, Idle, Pending, recVars
<1>10. RecordingIsReturned'
  BY <1>1 DEF RecordingIsReturned, Session
<1>11. ReplayIsCurrent' /\ ReplayIsReturned'
  BY <1>1, <1>2, <1>3, IdleMeansNothingRuns, SessionsDiffer
     DEF ReplayIsCurrent, ReplayIsReturned, Driving
<1> QED
  BY <1>1, <1>4, <1>5, <1>6, <1>7, <1>8, <1>9, <1>10, <1>11 DEF RecordReplayInv

-----------------------------------------------------------------------------
(* The capture and the finalizers.                                         *)

\* A recording or a finalizer gives its identity back: a replay is not touched.
LEMMA RecordingReleased ==
  ASSUME RecordReplayInv, NEW id, id.kind \in {"none", "recording", "recovery"}, Release(id)
  PROVE  /\ CoordinatorTypeOK' /\ CoordinatorInv'
         /\ generation' = generation /\ hosted' = hosted
         /\ active' = IF active = id THEN NoIdentity ELSE active
<1>1. /\ CoordinatorTypeOK' /\ CoordinatorInv' /\ generation' = generation
      /\ active' = IF active = id THEN NoIdentity ELSE active
      /\ hosted' = IF id \in {active, hosted} THEN NoIdentity ELSE hosted
  BY ReleaseOutcome DEF RecordReplayInv, TypeOK
<1>2. id \in {active, hosted} => hosted = NoIdentity
  BY DEF RecordReplayInv, ReplayIsReturned
<1> QED
  BY <1>1, <1>2

\* What a step of a recording leaves alone.
LEMMA ReplaySideKept ==
  ASSUME RecordReplayInv, hosted' = hosted, UNCHANGED repVars,
         active' # active => active.kind \in {"none", "recording"} /\ active' = NoIdentity
  PROVE  ReplayIsCurrent' /\ ReplayIsReturned'
<1>1. \A g : Session("replay", g).kind = "replay"
  BY DEF Session
<1>2. NoIdentity.kind = "none"
  BY DEF NoIdentity
<1> QED
  BY <1>1, <1>2 DEF RecordReplayInv, ReplayIsCurrent, ReplayIsReturned, repVars

\* A start that failed gives back an identity under which nothing captures.
LEMMA UndoStartPreserves ==
  ASSUME RecordReplayInv, NEW c \in Clients, UndoStart(c)
  PROVE  RecordReplayInv'
<1> DEFINE id == Session("recording", call[c].wait)
<1>1. /\ TypeOK /\ GateIsHeld /\ call[c].pc = "undo" /\ Release(id) /\ Return(c)
      /\ UNCHANGED <<recVars, rCapture, rCancelled, rFin, rStore, repVars, crashes>>
      /\ rCapture[call[c].wait] = "none"
  BY DEF RecordReplayInv, AllAreIssued, UndoStart
<1>2. /\ gate' \in Clients \cup {"free"}
      /\ call' \in [Clients -> [pc : CallPcs, wait : Nat]]
      /\ \A d \in Clients : call'[d].pc = "idle"
      /\ \A d \in Clients : d # c => call[d].pc = "idle"
      /\ GateIsHeld'
  <2>1. \A d \in Clients : d # c => call[d].pc = "idle"
    BY <1>1 DEF GateIsHeld
  <2> QED
    BY <1>1, <2>1, CallReturns
<1>3. /\ CoordinatorTypeOK' /\ CoordinatorInv'
      /\ generation' = generation /\ hosted' = hosted
      /\ active' = IF active = id THEN NoIdentity ELSE active
      /\ id.kind = "recording" /\ id.generation = call[c].wait
  BY <1>1, RecordingReleased, SessionsDiffer
<1>4. active.kind = "recording" /\ active # id => active.generation # call[c].wait
  BY <1>1, SlotsAreTyped
<1> HIDE DEF id
<1>5. NoIdentity.kind = "none"
  BY DEF NoIdentity
<1>6. TypeOK'
  BY <1>1, <1>2, <1>3 DEF TypeOK, recVars, repVars
<1>7. AllAreIssued' /\ StopHasWaited' /\ DeleteSparesPending'
  BY <1>1, <1>2, <1>3 DEF RecordReplayInv, AllAreIssued, StopHasWaited, DeleteSparesPending,
     recVars, repVars
<1>8. CaptureIsCurrent'
  <2>1. \A g \in Generations : rCapture[g] = "on" => active # id
    BY <1>1, SessionsDiffer DEF RecordReplayInv, CaptureIsCurrent, id
  <2> QED
    BY <1>1, <1>3, <2>1 DEF RecordReplayInv, CaptureIsCurrent, recVars
<1>9. OneFinalizer' /\ FinalizedAfterCapture'
  <2>1. OneFinalizer'
    BY <1>1, <1>3, <1>5 DEF RecordReplayInv, OneFinalizer, recVars
  <2> QED
    BY <1>1, <2>1 DEF RecordReplayInv, FinalizedAfterCapture
<1>10. PendingIsOnDisk' /\ ExclusiveSessions'
  BY <1>1 DEF RecordReplayInv, PendingIsOnDisk, ExclusiveSessions, Pending, recVars, repVars
<1>11. RecordingIsReturned'
  BY <1>1, <1>2, <1>3, <1>4, <1>5 DEF RecordReplayInv, RecordingIsReturned, recVars
<1>12. ReplayIsCurrent' /\ ReplayIsReturned'
  BY <1>1, <1>3, ReplaySideKept
<1> QED
  BY <1>2, <1>3, <1>6, <1>7, <1>8, <1>9, <1>10, <1>11, <1>12 DEF RecordReplayInv

\* A capture that ends is the manager's, so it leaves the manager finalizing.
LEMMA CaptureEndsPreserves ==
  ASSUME RecordReplayInv, NEW g \in Generations, CaptureEnds(g)
  PROVE  RecordReplayInv'
<1>1. /\ TypeOK /\ rCapture[g] = "on" /\ active = Session("recording", g) /\ rLatest = g
      /\ rPhase' = "finalizing" /\ rPhase \in {"running", "stopping"} /\ rIdentity = active
      /\ UNCHANGED <<coordinatorVars, handlerVars, rIdentity, rCurrent, rSaved, rLatest, rDone,
                     rAttempt, rPersisting, rCancelled, rFin, rStore, repVars, crashes>>
  BY DEF RecordReplayInv, CaptureIsCurrent, CaptureEnds
<1>2. \A h \in Generations : rCapture'[h] = IF h = g THEN "closed" ELSE rCapture[h]
  BY DEF RecordReplayInv, TypeOK, CaptureEnds
<1>3. rCapture' \in [Generations -> {"none", "on", "closed"}]
  BY DEF RecordReplayInv, TypeOK, CaptureEnds
<1>4. \A h \in Generations : rCapture'[h] # "on"
  BY <1>1, <1>2, SessionsDiffer DEF RecordReplayInv, CaptureIsCurrent
<1> USE <1>1 DEF RecordReplayInv, coordinatorVars, handlerVars, repVars
<1>5. TypeOK' /\ CoordinatorInv' /\ GateIsHeld'
  BY <1>3 DEF TypeOK, CoordinatorTypeOK, Phases, CoordinatorInv, Owned, GateIsHeld
<1>6. AllAreIssued'
  BY <1>2 DEF AllAreIssued
<1>7. CaptureIsCurrent' /\ StopHasWaited' /\ OneFinalizer'
  BY <1>4 DEF CaptureIsCurrent, StopHasWaited, OneFinalizer
<1>8. FinalizedAfterCapture'
  <2>1. \A a \in Attempts : rFin[a].rec = 0 \/ rFin[a].rec \in Generations
    BY MaxGenerationAssumption DEF TypeOK, Generations
  <2> QED
    BY <1>4, <2>1 DEF FinalizedAfterCapture
<1>9. PendingIsOnDisk' /\ DeleteSparesPending' /\ ExclusiveSessions'
  <2>1. Pending => rCurrent \in Generations
    BY MaxGenerationAssumption DEF Pending, TypeOK, Generations
  <2> QED
    BY <1>2, <2>1 DEF PendingIsOnDisk, DeleteSparesPending, ExclusiveSessions, Pending
<1>10. RecordingIsReturned' /\ ReplayIsCurrent' /\ ReplayIsReturned'
  <2>1. RecordingIsReturned'
    BY DEF RecordingIsReturned
  <2> QED
    BY <2>1 DEF ReplayIsCurrent, ReplayIsReturned
<1> QED
  BY <1>5, <1>6, <1>7, <1>8, <1>9, <1>10

\* FinGoto: one finalizer moves on.
LEMMA FinMoves ==
  ASSUME TypeOK, NEW a \in Attempts, NEW pc \in FinPcs, FinGoto(a, pc)
  PROVE  /\ rFin' \in [Attempts -> [rec : 0 .. MaxGeneration, identity : Owners, pc : FinPcs]]
         /\ \A b \in Attempts : /\ rFin'[b].rec = rFin[b].rec
                                 /\ rFin'[b].identity = rFin[b].identity
                                 /\ rFin'[b].pc = IF b = a THEN pc ELSE rFin[b].pc
BY DEF TypeOK, FinGoto

\* While a finalizer works nothing captures and nothing is replayed.
LEMMA WorkingMeansAlone ==
  ASSUME RecordReplayInv, NEW a \in Attempts, rFin[a].pc \in Working
  PROVE  /\ rPhase = "finalizing" /\ rPersisting /\ rIdentity = rFin[a].identity
         /\ \A b \in Attempts : rFin[b].pc \in Working => b = a
         /\ \A g \in Generations : rCapture[g] # "on"
         /\ pPhase = "idle"
BY DEF RecordReplayInv, OneFinalizer, CaptureIsCurrent, ExclusiveSessions

\* The case is committed: one more thing on disk.
LEMMA FinCommitPreserves ==
  ASSUME RecordReplayInv, NEW a \in Attempts, FinCommit(a)
  PROVE  RecordReplayInv'
<1>1. /\ TypeOK /\ rFin[a].pc = "persist" /\ "committed" \in FinPcs /\ FinGoto(a, "committed")
      /\ UNCHANGED <<coordinatorVars, handlerVars, recVars, rCapture, rCancelled, repVars, crashes>>
  BY DEF RecordReplayInv, FinCommit, FinPcs
<1>2. /\ rFin' \in [Attempts -> [rec : 0 .. MaxGeneration, identity : Owners, pc : FinPcs]]
      /\ \A b \in Attempts : /\ rFin'[b].rec = rFin[b].rec
                              /\ rFin'[b].identity = rFin[b].identity
                              /\ rFin'[b].pc = IF b = a THEN "committed" ELSE rFin[b].pc
  BY <1>1, FinMoves
<1>3. \A g \in Generations :
        \/ rStore'[g] \in {"both", "case"} /\ g = rFin[a].rec
        \/ rStore'[g] = rStore[g]
  BY DEF RecordReplayInv, TypeOK, FinCommit
<1>4. rStore' \in [Generations -> {"none", "draft", "both", "case", "deleted"}]
  BY DEF RecordReplayInv, TypeOK, FinCommit
<1> USE <1>1 DEF RecordReplayInv, coordinatorVars, handlerVars, recVars, repVars
<1>5. TypeOK' /\ CoordinatorInv' /\ GateIsHeld'
  BY <1>2, <1>4 DEF TypeOK, CoordinatorTypeOK, CoordinatorInv, Owned, GateIsHeld
<1>6. AllAreIssued'
  BY <1>2, <1>3 DEF AllAreIssued
<1>7. CaptureIsCurrent' /\ StopHasWaited' /\ OneFinalizer'
  BY <1>2 DEF CaptureIsCurrent, StopHasWaited, OneFinalizer, Working, Live
<1>8. FinalizedAfterCapture'
  BY <1>2 DEF FinalizedAfterCapture
<1>9. PendingIsOnDisk' /\ DeleteSparesPending' /\ ExclusiveSessions'
  <2>1. Pending => rCurrent \in Generations
    BY MaxGenerationAssumption DEF Pending, TypeOK, Generations
  <2> QED
    BY <1>3, <2>1 DEF PendingIsOnDisk, DeleteSparesPending, ExclusiveSessions, Pending
<1>10. RecordingIsReturned'
  BY <1>2 DEF RecordingIsReturned
<1>11. ReplayIsCurrent' /\ ReplayIsReturned'
  BY ReplaySideKept
<1> QED
  BY <1>5, <1>6, <1>7, <1>8, <1>9, <1>10, <1>11

\* A finalizer that fails leaves the manager idle; it still has the device to return.
LEMMA FinFailsPreserves ==
  ASSUME RecordReplayInv, NEW a \in Attempts, FinFails(a)
  PROVE  RecordReplayInv'
<1>1. /\ TypeOK /\ rFin[a].pc \in {"persist", "committed"} /\ "late" \in FinPcs
      /\ FinGoto(a, "late")
      /\ UNCHANGED <<coordinatorVars, handlerVars, rIdentity, rCurrent, rSaved, rLatest, rAttempt,
                     rCapture, rCancelled, rStore, repVars, crashes>>
  BY DEF RecordReplayInv, FinFails, FinPcs
<1>2. /\ rPhase = "finalizing" /\ rPersisting /\ rIdentity = rFin[a].identity
      /\ \A b \in Attempts : rFin[b].pc \in Working => b = a
      /\ \A g \in Generations : rCapture[g] # "on"
      /\ pPhase = "idle"
  BY <1>1, WorkingMeansAlone DEF Working
<1>3. rPhase' = "idle" /\ rDone' = 0 /\ rPersisting' = FALSE
  BY <1>2 DEF FinFails
<1>4. /\ rFin' \in [Attempts -> [rec : 0 .. MaxGeneration, identity : Owners, pc : FinPcs]]
      /\ \A b \in Attempts : /\ rFin'[b].rec = rFin[b].rec
                              /\ rFin'[b].identity = rFin[b].identity
                              /\ rFin'[b].pc = IF b = a THEN "late" ELSE rFin[b].pc
  BY <1>1, FinMoves
<1> USE <1>1 DEF RecordReplayInv, coordinatorVars, handlerVars, repVars
<1>5. TypeOK'
  <2>1. 0 \in 0 .. MaxGeneration
    BY MaxGenerationAssumption
  <2> QED
    BY <1>3, <1>4, <2>1 DEF TypeOK, CoordinatorTypeOK, Phases
<1>6. CoordinatorInv' /\ GateIsHeld' /\ AllAreIssued'
  BY <1>4 DEF CoordinatorInv, Owned, GateIsHeld, AllAreIssued
<1>7. CaptureIsCurrent' /\ StopHasWaited' /\ OneFinalizer'
  BY <1>2, <1>4 DEF CaptureIsCurrent, StopHasWaited, OneFinalizer, Working
<1>8. FinalizedAfterCapture'
  BY <1>1, <1>4 DEF FinalizedAfterCapture
<1>9. PendingIsOnDisk' /\ DeleteSparesPending' /\ ExclusiveSessions'
  BY <1>2 DEF PendingIsOnDisk, DeleteSparesPending, ExclusiveSessions, Pending
<1>10. RecordingIsReturned'
  <2>1. rFin'[a].pc = "late" /\ rFin'[a].identity = rIdentity
    BY <1>2, <1>4
  <2> QED
    BY <1>4, <2>1 DEF RecordingIsReturned
<1>11. ReplayIsCurrent' /\ ReplayIsReturned'
  BY ReplaySideKept
<1> QED
  BY <1>5, <1>6, <1>7, <1>8, <1>9, <1>10, <1>11

\* What a failed finalizer releases late is not the device of a capture.
LEMMA FinLateReleasePreserves ==
  ASSUME RecordReplayInv, NEW a \in Attempts, FinLateRelease(a)
  PROVE  RecordReplayInv'
<1> DEFINE id == rFin[a].identity
<1>1. /\ TypeOK /\ rFin[a].pc = "late" /\ "ended" \in FinPcs /\ FinGoto(a, "ended") /\ Release(id)
      /\ id.kind \in {"none", "recording", "recovery"}
      /\ UNCHANGED <<handlerVars, recVars, rCapture, rCancelled, rStore, repVars, crashes>>
  BY DEF RecordReplayInv, AllAreIssued, FinLateRelease, FinPcs
<1>2. /\ rFin' \in [Attempts -> [rec : 0 .. MaxGeneration, identity : Owners, pc : FinPcs]]
      /\ \A b \in Attempts : /\ rFin'[b].rec = rFin[b].rec
                              /\ rFin'[b].identity = rFin[b].identity
                              /\ rFin'[b].pc = IF b = a THEN "ended" ELSE rFin[b].pc
  BY <1>1, FinMoves
<1>3. /\ CoordinatorTypeOK' /\ CoordinatorInv'
      /\ generation' = generation /\ hosted' = hosted
      /\ active' = IF active = id THEN NoIdentity ELSE active
      /\ NoIdentity.kind = "none"
  BY <1>1, RecordingReleased DEF NoIdentity
<1> USE <1>1 DEF RecordReplayInv, handlerVars, recVars, repVars
<1>4. TypeOK'
  BY <1>2, <1>3 DEF TypeOK
<1>5. GateIsHeld' /\ AllAreIssued'
  BY <1>2, <1>3 DEF GateIsHeld, AllAreIssued
<1>6. CaptureIsCurrent'
  BY <1>2, <1>3 DEF CaptureIsCurrent, Live
<1>7. StopHasWaited' /\ OneFinalizer' /\ FinalizedAfterCapture'
  <2>1. OneFinalizer'
    BY <1>2, <1>3 DEF OneFinalizer, Working
  <2> QED
    BY <1>2, <2>1 DEF StopHasWaited, FinalizedAfterCapture
<1>8. PendingIsOnDisk' /\ DeleteSparesPending' /\ ExclusiveSessions'
  BY DEF PendingIsOnDisk, DeleteSparesPending, ExclusiveSessions, Pending
<1>9. RecordingIsReturned'
  BY <1>2, <1>3 DEF RecordingIsReturned
<1>10. ReplayIsCurrent' /\ ReplayIsReturned'
  <2>1. active' # active => active.kind \in {"none", "recording"} /\ active' = NoIdentity
    BY <1>3 DEF TypeOK, CoordinatorTypeOK, Identity, Kinds
  <2> QED
    BY <1>3, <2>1, ReplaySideKept
<1> QED
  BY <1>3, <1>4, <1>5, <1>6, <1>7, <1>8, <1>9, <1>10

\* The recording is saved.
LEMMA FinPublishPreserves ==
  ASSUME RecordReplayInv, NEW a \in Attempts, FinPublish(a)
  PROVE  RecordReplayInv'
<1>1. /\ TypeOK /\ rFin[a].pc = "committed" /\ "release" \in FinPcs /\ FinGoto(a, "release")
      /\ UNCHANGED <<coordinatorVars, handlerVars, rIdentity, rLatest, rAttempt, rPersisting,
                     rCapture, rCancelled, repVars, crashes>>
  BY DEF RecordReplayInv, FinPublish, FinPcs
<1>2. /\ rPhase = "finalizing" /\ rPersisting /\ rIdentity = rFin[a].identity
      /\ \A b \in Attempts : rFin[b].pc \in Working => b = a
      /\ \A g \in Generations : rCapture[g] # "on"
      /\ pPhase = "idle"
  BY <1>1, WorkingMeansAlone DEF Working
<1>3. rPhase' = "finalizing" /\ rCurrent' = rFin[a].rec /\ rSaved' = TRUE /\ rDone' = 0
  BY <1>2 DEF FinPublish
<1>4. /\ rFin' \in [Attempts -> [rec : 0 .. MaxGeneration, identity : Owners, pc : FinPcs]]
      /\ \A b \in Attempts : /\ rFin'[b].rec = rFin[b].rec
                              /\ rFin'[b].identity = rFin[b].identity
                              /\ rFin'[b].pc = IF b = a THEN "release" ELSE rFin[b].pc
  BY <1>1, FinMoves
<1>5. /\ rStore' \in [Generations -> {"none", "draft", "both", "case", "deleted"}]
      /\ \A g \in Generations : rStore[g] = "none" => rStore'[g] = "none"
  <2>1. PICK left \in {"case", "both"} :
          rStore' = [rStore EXCEPT ![rFin[a].rec] = IF @ = "both" THEN left ELSE @]
    BY DEF FinPublish
  <2> QED
    BY <1>1, <2>1 DEF TypeOK
<1> USE <1>1 DEF RecordReplayInv, coordinatorVars, handlerVars, repVars
<1>6. TypeOK'
  <2>1. 0 \in 0 .. MaxGeneration /\ rFin[a].rec \in 0 .. MaxGeneration
    BY MaxGenerationAssumption DEF TypeOK
  <2> QED
    BY <1>3, <1>4, <1>5, <2>1 DEF TypeOK, CoordinatorTypeOK, Phases
<1>7. CoordinatorInv' /\ GateIsHeld' /\ AllAreIssued'
  BY <1>3, <1>4, <1>5 DEF CoordinatorInv, Owned, GateIsHeld, AllAreIssued
<1>8. CaptureIsCurrent' /\ StopHasWaited' /\ OneFinalizer'
  BY <1>2, <1>3, <1>4 DEF CaptureIsCurrent, StopHasWaited, OneFinalizer, Working
<1>9. FinalizedAfterCapture'
  BY <1>4 DEF FinalizedAfterCapture
<1>10. PendingIsOnDisk' /\ DeleteSparesPending' /\ ExclusiveSessions'
  BY <1>2, <1>3 DEF PendingIsOnDisk, DeleteSparesPending, ExclusiveSessions, Pending
<1>11. RecordingIsReturned'
  BY <1>3, <1>4 DEF RecordingIsReturned
<1>12. ReplayIsCurrent' /\ ReplayIsReturned'
  BY ReplaySideKept
<1> QED
  BY <1>6, <1>7, <1>8, <1>9, <1>10, <1>11, <1>12

\* It gives the device back before it clears the flags.
LEMMA FinReleasePreserves ==
  ASSUME RecordReplayInv, NEW a \in Attempts, FinRelease(a)
  PROVE  RecordReplayInv'
<1> DEFINE id == rFin[a].identity
<1>1. /\ TypeOK /\ rFin[a].pc = "release" /\ "clear" \in FinPcs /\ FinGoto(a, "clear") /\ Release(id)
      /\ id.kind \in {"none", "recording", "recovery"}
      /\ UNCHANGED <<handlerVars, recVars, rCapture, rCancelled, rStore, repVars, crashes>>
  BY DEF RecordReplayInv, AllAreIssued, FinRelease, FinPcs
<1>2. /\ rIdentity = id
      /\ \A b \in Attempts : rFin[b].pc \in Working => b = a
      /\ \A g \in Generations : rCapture[g] # "on"
  BY <1>1, WorkingMeansAlone DEF Working
<1>3. /\ rFin' \in [Attempts -> [rec : 0 .. MaxGeneration, identity : Owners, pc : FinPcs]]
      /\ \A b \in Attempts : /\ rFin'[b].rec = rFin[b].rec
                              /\ rFin'[b].identity = rFin[b].identity
                              /\ rFin'[b].pc = IF b = a THEN "clear" ELSE rFin[b].pc
  BY <1>1, FinMoves
<1>4. /\ CoordinatorTypeOK' /\ CoordinatorInv'
      /\ generation' = generation /\ hosted' = hosted
      /\ active' = IF active = id THEN NoIdentity ELSE active
      /\ NoIdentity.kind = "none"
  BY <1>1, RecordingReleased DEF NoIdentity
<1> HIDE DEF id
<1> USE <1>1 DEF RecordReplayInv, handlerVars, recVars, repVars
<1>5. TypeOK'
  BY <1>3, <1>4 DEF TypeOK
<1>6. GateIsHeld' /\ AllAreIssued'
  BY <1>3, <1>4 DEF GateIsHeld, AllAreIssued
<1>7. CaptureIsCurrent' /\ StopHasWaited' /\ FinalizedAfterCapture'
  BY <1>2, <1>3 DEF CaptureIsCurrent, StopHasWaited, FinalizedAfterCapture
<1>8. OneFinalizer'
  <2>1. rFin'[a].identity = id
    BY <1>3 DEF id
  <2> QED
    BY <1>2, <1>3, <1>4, <2>1 DEF OneFinalizer, Working
<1>9. PendingIsOnDisk' /\ DeleteSparesPending' /\ ExclusiveSessions'
  BY DEF PendingIsOnDisk, DeleteSparesPending, ExclusiveSessions, Pending
<1>10. RecordingIsReturned'
  BY <1>2, <1>3, <1>4 DEF RecordingIsReturned
<1>11. ReplayIsCurrent' /\ ReplayIsReturned'
  <2>1. active' # active => active.kind \in {"none", "recording"} /\ active' = NoIdentity
    BY <1>4 DEF TypeOK, CoordinatorTypeOK, Identity, Kinds
  <2> QED
    BY <1>4, <2>1, ReplaySideKept
<1> QED
  BY <1>4, <1>5, <1>6, <1>7, <1>8, <1>9, <1>10, <1>11

\* The flags go when the device of the recording is free, or somebody else's.
LEMMA FinClearPreserves ==
  ASSUME RecordReplayInv, NEW a \in Attempts, FinClear(a)
  PROVE  RecordReplayInv'
<1>1. /\ TypeOK /\ rFin[a].pc = "clear" /\ "ended" \in FinPcs /\ FinGoto(a, "ended")
      /\ UNCHANGED <<coordinatorVars, handlerVars, rIdentity, rCurrent, rSaved, rLatest, rDone,
                     rAttempt, rCapture, rCancelled, rStore, repVars, crashes>>
  BY DEF RecordReplayInv, FinClear, FinPcs
<1>2. /\ rPhase = "finalizing" /\ rPersisting /\ rIdentity = rFin[a].identity
      /\ \A b \in Attempts : rFin[b].pc \in Working => b = a
      /\ \A g \in Generations : rCapture[g] # "on"
      /\ pPhase = "idle"
  BY <1>1, WorkingMeansAlone DEF Working
<1>3. rPhase' = "idle" /\ rPersisting' = FALSE
  BY <1>2 DEF FinClear
<1>4. /\ rFin' \in [Attempts -> [rec : 0 .. MaxGeneration, identity : Owners, pc : FinPcs]]
      /\ \A b \in Attempts : /\ rFin'[b].rec = rFin[b].rec
                              /\ rFin'[b].identity = rFin[b].identity
                              /\ rFin'[b].pc = IF b = a THEN "ended" ELSE rFin[b].pc
  BY <1>1, FinMoves
<1> USE <1>1 DEF RecordReplayInv, coordinatorVars, handlerVars, repVars
<1>5. TypeOK'
  BY <1>3, <1>4 DEF TypeOK, CoordinatorTypeOK, Phases
<1>6. CoordinatorInv' /\ GateIsHeld' /\ AllAreIssued'
  BY <1>4 DEF CoordinatorInv, Owned, GateIsHeld, AllAreIssued
<1>7. CaptureIsCurrent' /\ StopHasWaited' /\ OneFinalizer'
  BY <1>2, <1>4 DEF CaptureIsCurrent, StopHasWaited, OneFinalizer, Working
<1>8. FinalizedAfterCapture'
  BY <1>4 DEF FinalizedAfterCapture
<1>9. PendingIsOnDisk' /\ DeleteSparesPending' /\ ExclusiveSessions'
  BY <1>2 DEF PendingIsOnDisk, DeleteSparesPending, ExclusiveSessions, Pending
<1>10. RecordingIsReturned'
  <2>1. active.kind = "recording" => active # rIdentity
    BY <1>2 DEF OneFinalizer, Working
  <2> QED
    BY <1>4, <2>1 DEF RecordingIsReturned
<1>11. ReplayIsCurrent' /\ ReplayIsReturned'
  BY ReplaySideKept
<1> QED
  BY <1>5, <1>6, <1>7, <1>8, <1>9, <1>10, <1>11

-----------------------------------------------------------------------------
(* The replays, the exploration and the performance sessions.              *)

\* What these leave alone: the device of a recording is not theirs.
LEMMA RecordingSideKept ==
  ASSUME RecordReplayInv, TypeOK',
         UNCHANGED <<handlerVars, recVars, rCapture, rFin, rStore>>,
         generation <= generation',
         \A g \in Generations : pRun'[g] # "none" => pRun[g] # "none",
         active.kind = "recording" \/ active'.kind = "recording" => active' = active
  PROVE  /\ GateIsHeld' /\ AllAreIssued' /\ CaptureIsCurrent' /\ StopHasWaited'
         /\ OneFinalizer' /\ FinalizedAfterCapture' /\ PendingIsOnDisk' /\ DeleteSparesPending'
         /\ RecordingIsReturned'
<1> USE DEF handlerVars, recVars
<1>1. GateIsHeld' /\ StopHasWaited' /\ FinalizedAfterCapture'
  BY DEF RecordReplayInv, GateIsHeld, StopHasWaited, FinalizedAfterCapture
<1>2. AllAreIssued'
  <2>1. generation \in Nat /\ generation' \in Nat
    BY MaxGenerationAssumption DEF RecordReplayInv, TypeOK, CoordinatorTypeOK
  <2>2. \A n \in Nat : n <= generation => n <= generation'
    BY <2>1
  <2>3. /\ \A g \in Generations : g \in Nat
        /\ rCurrent \in Nat
        /\ \A c \in Clients : call[c].wait \in Nat
        /\ \A a \in Attempts : rFin[a].rec \in Nat
        /\ \A a \in Attempts : rFin[a].identity.kind = "recording" => rFin[a].identity.generation \in Nat
        /\ rIdentity.kind = "recording" => rIdentity.generation \in Nat
    BY MaxGenerationAssumption
       DEF RecordReplayInv, TypeOK, Generations, Owners, Identity, NoIdentity, Recovery, Session
  <2> QED
    BY <2>2, <2>3 DEF RecordReplayInv, AllAreIssued
<1>3. CaptureIsCurrent'
  <2>1. \A g : Session("recording", g).kind = "recording"
    BY DEF Session
  <2> QED
    BY <2>1 DEF RecordReplayInv, CaptureIsCurrent
<1>4. OneFinalizer'
  BY DEF RecordReplayInv, OneFinalizer
<1>5. PendingIsOnDisk' /\ DeleteSparesPending'
  BY DEF RecordReplayInv, PendingIsOnDisk, DeleteSparesPending, Pending
<1>6. RecordingIsReturned'
  BY DEF RecordReplayInv, RecordingIsReturned
<1> QED
  BY <1>1, <1>2, <1>3, <1>4, <1>5, <1>6

\* A goroutine of a replay: there is one that is not over, the manager's.
LEMMA ReplayMoves ==
  ASSUME RecordReplayInv, NEW g \in Generations, NEW pc \in RunPcs,
         pRun[g] \in Driving \cup {"clear"},
         pRun' = [pRun EXCEPT ![g] = pc]
  PROVE  /\ pRun' \in [Generations -> RunPcs]
         /\ pRun'[g] = pc
         /\ \A h \in Generations : pRun'[h] # "none" => pRun[h] # "none"
         /\ \A h \in Generations : h # g => pRun'[h] = pRun[h]
         /\ \A h \in Generations : h # g => pRun[h] \notin Driving \cup {"clear"}
         /\ pIdentity = Session("replay", g)
<1>1. pIdentity = Session("replay", g)
  BY DEF RecordReplayInv, ReplayIsCurrent
<1>2. \A h \in Generations : h # g => pRun[h] \notin Driving \cup {"clear"}
  BY <1>1, SessionsDiffer DEF RecordReplayInv, ReplayIsCurrent
<1> QED
  BY <1>1, <1>2 DEF RecordReplayInv, TypeOK, Driving

\* A replay ends, is written down and clears its flags, without the coordinator.
LEMMA ReplayFinishPreserves ==
  ASSUME RecordReplayInv, NEW g \in Generations,
         \/ \E reason \in {"completed", "stopped", "failed"} : ReplayFinish(g, reason)
         \/ ReplayPersist(g)
  PROVE  RecordReplayInv'
<1>1. PICK pc \in {"persist", "release"} :
        /\ pRun[g] \in {"drive", "persist"} /\ pRun' = [pRun EXCEPT ![g] = pc]
        /\ pPhase' = "finalizing" /\ pPhase # "idle"
        /\ pReason' \in {"none", "completed", "stopped", "failed"}
        /\ UNCHANGED <<coordinatorVars, handlerVars, recVars, rCapture, rCancelled, rFin, rStore,
                       pIdentity, crashes>>
  BY DEF RecordReplayInv, TypeOK, ReplayIsCurrent, ReplayFinish, ReplayPersist, ReplayGoto
<1>2. pc \in RunPcs /\ pc \in Driving /\ pRun[g] \in Driving
  BY <1>1 DEF RunPcs, Driving
<1>3. /\ pRun' \in [Generations -> RunPcs]
      /\ pRun'[g] = pc
      /\ \A h \in Generations : pRun'[h] # "none" => pRun[h] # "none"
      /\ \A h \in Generations : h # g => pRun'[h] = pRun[h]
      /\ \A h \in Generations : h # g => pRun[h] \notin Driving \cup {"clear"}
      /\ pIdentity = Session("replay", g)
  BY <1>1, <1>2, ReplayMoves
<1>4. TypeOK'
  BY <1>1, <1>3 DEF RecordReplayInv, TypeOK, CoordinatorTypeOK, Phases, coordinatorVars,
     handlerVars, recVars
<1>5. CoordinatorInv' /\ ExclusiveSessions'
  BY <1>1 DEF RecordReplayInv, CoordinatorInv, Owned, ExclusiveSessions, Pending, coordinatorVars,
     recVars
<1>6. generation <= generation' /\ active' = active
  BY <1>1, SlotsAreTyped DEF RecordReplayInv, coordinatorVars
<1>7. ReplayIsCurrent'
  BY <1>1, <1>3 DEF ReplayIsCurrent, Driving
<1>8. ReplayIsReturned'
  <2>1. \A id \in {active, hosted} : id # NoIdentity => id.generation \in Generations
    BY SlotsAreTyped DEF RecordReplayInv
  <2>2. \A h \in Generations : pRun[h] \in Driving => pRun'[h] \in Driving
    BY <1>2, <1>3
  <2>3. active.kind = "replay" => active # NoIdentity
    BY DEF NoIdentity
  <2> QED
    BY <1>1, <2>1, <2>2, <2>3 DEF RecordReplayInv, ReplayIsReturned, coordinatorVars
<1> QED
  BY <1>1, <1>3, <1>4, <1>5, <1>6, <1>7, <1>8, RecordingSideKept DEF RecordReplayInv

\* The device of a replay is released, whether it was hosted or not.
LEMMA ReplayReleasePreserves ==
  ASSUME RecordReplayInv, NEW g \in Generations, ReplayRelease(g)
  PROVE  RecordReplayInv'
<1> DEFINE id == Session("replay", g)
<1>1. /\ TypeOK /\ pRun[g] = "release" /\ pRun' = [pRun EXCEPT ![g] = "clear"] /\ Release(id)
      /\ pPhase = "finalizing"
      /\ UNCHANGED <<handlerVars, recVars, rCapture, rCancelled, rFin, rStore, pPhase, pIdentity,
                     pReason, crashes>>
  BY DEF RecordReplayInv, ReplayIsCurrent, ReplayRelease, ReplayGoto
<1>2. "clear" \in RunPcs /\ pRun[g] \in Driving
  BY <1>1 DEF RunPcs, Driving
<1>3. /\ pRun' \in [Generations -> RunPcs]
      /\ pRun'[g] = "clear"
      /\ \A h \in Generations : pRun'[h] # "none" => pRun[h] # "none"
      /\ \A h \in Generations : h # g => pRun'[h] = pRun[h]
      /\ \A h \in Generations : h # g => pRun[h] \notin Driving \cup {"clear"}
      /\ pIdentity = id
  BY <1>1, <1>2, ReplayMoves
<1>4. /\ CoordinatorTypeOK' /\ CoordinatorInv' /\ generation' = generation
      /\ active' = IF active = id THEN NoIdentity ELSE active
      /\ hosted' = IF id \in {active, hosted} THEN NoIdentity ELSE hosted
  BY <1>1, ReleaseOutcome DEF RecordReplayInv, TypeOK
<1>5. id.kind = "replay" /\ id.generation = g /\ NoIdentity.kind = "none"
  BY SessionsDiffer
<1>6. /\ active.kind = "replay" /\ active # id =>
           active.generation # g /\ active.generation \in Generations
      /\ hosted # NoIdentity /\ hosted # id =>
           hosted.generation # g /\ hosted.generation \in Generations /\ hosted.kind = "replay"
  BY <1>1, <1>5, SlotsAreTyped DEF RecordReplayInv, ReplayIsReturned
<1> HIDE DEF id
<1>7. TypeOK'
  BY <1>1, <1>3, <1>4 DEF TypeOK, handlerVars, recVars
<1>8. ExclusiveSessions'
  BY <1>1 DEF RecordReplayInv, ExclusiveSessions, Pending, recVars
<1>9. generation <= generation'
  BY <1>4, SlotsAreTyped DEF RecordReplayInv
<1>10. ReplayIsCurrent'
  <2>1. "clear" \notin {"drive", "persist", "release"}
    OBVIOUS
  <2> QED
    BY <1>1, <1>3, <2>1 DEF ReplayIsCurrent, Driving, id
<1>11. ReplayIsReturned'
  BY <1>3, <1>4, <1>5, <1>6 DEF RecordReplayInv, ReplayIsReturned
<1>12. active.kind = "recording" \/ active'.kind = "recording" => active' = active
  BY <1>4, <1>5
<1> QED
  BY <1>1, <1>3, <1>4, <1>7, <1>8, <1>9, <1>10, <1>11, <1>12, RecordingSideKept DEF RecordReplayInv

\* Only then it clears the flags and closes its done channel.
LEMMA ReplayClearPreserves ==
  ASSUME RecordReplayInv, NEW g \in Generations, ReplayClear(g) \/ ReplayClose(g)
  PROVE  RecordReplayInv'
<1>1. PICK pc \in {"close", "ended"} :
        /\ pRun[g] \in {"clear", "close"} /\ pRun' = [pRun EXCEPT ![g] = pc]
        /\ pRun[g] = "close" => pPhase' = pPhase
        /\ pPhase' \in {pPhase, "idle"}
        /\ UNCHANGED <<coordinatorVars, handlerVars, recVars, rCapture, rCancelled, rFin, rStore,
                       pIdentity, pReason, crashes>>
  BY DEF ReplayClear, ReplayClose, ReplayGoto
<1>2. /\ pRun' \in [Generations -> RunPcs]
      /\ \A h \in Generations : pRun'[h] # "none" => pRun[h] # "none"
      /\ \A h \in Generations : h # g => pRun'[h] = pRun[h]
      /\ pRun'[g] \notin Driving \cup {"clear"} /\ pRun[g] \notin Driving
  BY <1>1 DEF RecordReplayInv, TypeOK, RunPcs, Driving
<1>3. TypeOK'
  <2>1. pPhase' \in Phases
    BY <1>1 DEF RecordReplayInv, TypeOK, Phases
  <2> QED
    BY <1>1, <1>2, <2>1 DEF RecordReplayInv, TypeOK, CoordinatorTypeOK, coordinatorVars,
       handlerVars, recVars
<1>4. CoordinatorInv' /\ ExclusiveSessions'
  BY <1>1 DEF RecordReplayInv, CoordinatorInv, Owned, ExclusiveSessions, Pending, coordinatorVars,
     recVars
<1>5. generation <= generation' /\ active' = active
  BY <1>1, SlotsAreTyped DEF RecordReplayInv, coordinatorVars
<1>6. ReplayIsCurrent'
  <2>1. pRun[g] = "clear" =>
          \A h \in Generations : h # g => pRun[h] \notin Driving \cup {"clear"}
    BY SessionsDiffer DEF RecordReplayInv, ReplayIsCurrent
  <2> QED
    BY <1>1, <1>2, <2>1 DEF RecordReplayInv, ReplayIsCurrent, Driving, coordinatorVars
<1>7. ReplayIsReturned'
  <2>1. \A id \in {active, hosted} : id # NoIdentity => id.generation \in Generations
    BY SlotsAreTyped DEF RecordReplayInv
  <2>2. active.kind = "replay" => active # NoIdentity
    BY DEF NoIdentity
  <2>3. \A h \in Generations : pRun[h] \in Driving => pRun'[h] \in Driving
    BY <1>2
  <2> QED
    BY <1>1, <2>1, <2>2, <2>3 DEF RecordReplayInv, ReplayIsReturned, coordinatorVars
<1> QED
  BY <1>1, <1>2, <1>3, <1>4, <1>5, <1>6, <1>7, RecordingSideKept DEF RecordReplayInv

\* Another session takes the free device.
LEMMA OtherBeginsPreserve ==
  ASSUME RecordReplayInv, HostBegin \/ PerformanceBegin
  PROVE  RecordReplayInv'
<1>1. PICK kind \in {"exploration", "performance"} : Acquire(kind)
  BY DEF HostBegin, PerformanceBegin
<1>2. UNCHANGED <<handlerVars, recVars, rCapture, rCancelled, rFin, rStore, repVars, crashes>>
  BY DEF HostBegin, PerformanceBegin, unchangedButCoordinator
<1>3. /\ CoordinatorTypeOK' /\ CoordinatorInv' /\ generation' = generation + 1
      /\ active = NoIdentity /\ active' = Session(kind, generation + 1) /\ hosted' = NoIdentity
  <2>1. kind \in Kinds
    BY DEF Kinds
  <2> QED
    BY <1>1, <2>1, AcquireTakesFreeDevice DEF RecordReplayInv, TypeOK
<1>4. active'.kind = kind /\ active.kind = "none"
  BY <1>3 DEF Session, NoIdentity
<1>5. hosted = NoIdentity
  BY <1>3 DEF RecordReplayInv, CoordinatorInv, Owned
<1>6. TypeOK'
  BY <1>2, <1>3 DEF RecordReplayInv, TypeOK, handlerVars, recVars, repVars
<1>7. ExclusiveSessions'
  BY <1>2 DEF RecordReplayInv, ExclusiveSessions, Pending, recVars, repVars
<1>8. generation <= generation'
  BY <1>3, SlotsAreTyped DEF RecordReplayInv
<1>9. ReplayIsCurrent'
  <2>1. \A g \in Generations : Session("replay", g) \notin {active, hosted}
    BY <1>3, <1>5 DEF Session, NoIdentity
  <2> QED
    BY <1>2, <2>1 DEF RecordReplayInv, ReplayIsCurrent, repVars
<1>10. ReplayIsReturned'
  BY <1>3, <1>4 DEF ReplayIsReturned
<1> QED
  BY <1>2, <1>3, <1>4, <1>6, <1>7, <1>8, <1>9, <1>10, RecordingSideKept DEF RecordReplayInv, repVars

\* It gives the device back; an exploration does when no replay drives any more.
LEMMA OtherEndsPreserve ==
  ASSUME RecordReplayInv, HostEnd \/ PerformanceEnd
  PROVE  RecordReplayInv'
<1>1. /\ Release(active) /\ active.kind \in {"exploration", "performance"}
      /\ active.kind = "exploration" => pPhase \notin {"running", "stopping"}
      /\ UNCHANGED <<handlerVars, recVars, rCapture, rCancelled, rFin, rStore, repVars, crashes>>
  BY DEF HostEnd, PerformanceEnd, unchangedButCoordinator
<1>2. /\ CoordinatorTypeOK' /\ CoordinatorInv' /\ generation' = generation
      /\ active' = NoIdentity /\ hosted' = NoIdentity
  BY <1>1, ReleaseOutcome DEF RecordReplayInv, TypeOK
<1>3. active'.kind = "none"
  BY <1>2 DEF NoIdentity
<1>4. TypeOK'
  BY <1>1, <1>2 DEF RecordReplayInv, TypeOK, handlerVars, recVars, repVars
<1>5. ExclusiveSessions'
  BY <1>1 DEF RecordReplayInv, ExclusiveSessions, Pending, recVars, repVars
<1>6. generation <= generation'
  BY <1>2, SlotsAreTyped DEF RecordReplayInv
<1>7. ReplayIsCurrent'
  <2>1. \A g : Session("replay", g).kind = "replay" /\ Session("replay", g) # NoIdentity
    BY DEF Session, NoIdentity
  <2>2. \A g \in Generations : pRun[g] # "drive"
    BY <1>1, <2>1 DEF RecordReplayInv, ReplayIsCurrent, ReplayIsReturned
  <2> QED
    BY <1>1, <2>2 DEF RecordReplayInv, ReplayIsCurrent, repVars
<1>8. ReplayIsReturned'
  BY <1>2, <1>3 DEF ReplayIsReturned
<1> QED
  BY <1>1, <1>2, <1>3, <1>4, <1>5, <1>6, <1>7, <1>8, RecordingSideKept DEF RecordReplayInv, repVars

-----------------------------------------------------------------------------
(* The crash, and the whole.                                               *)

\* A crash forgets everything but what is on disk.
LEMMA CrashPreserves ==
  ASSUME RecordReplayInv, Crash
  PROVE  RecordReplayInv'
<1> USE MaxGenerationAssumption, BoundsAssumption
<1>1. /\ TypeOK /\ crashes' \in 0 .. MaxCrashes
      /\ generation' = generation /\ active' = NoIdentity /\ hosted' = NoIdentity
      /\ gate' = "free" /\ call' = [c \in Clients |-> NoCall]
      /\ rPhase' = "idle" /\ rIdentity' = NoIdentity /\ rCurrent' = 0 /\ rSaved' = FALSE
      /\ rLatest' = 0 /\ rDone' = 0 /\ rAttempt' = 0 /\ rPersisting' = FALSE
      /\ pPhase' = "idle" /\ pIdentity' = NoIdentity /\ pReason' = "none"
      /\ rCancelled' = rCancelled /\ rStore' = rStore
  BY DEF RecordReplayInv, TypeOK, Crash
<1>2. /\ rCapture' \in [Generations -> {"none", "on", "closed"}]
      /\ \A g \in Generations : rCapture'[g] # "on" /\ (rCapture'[g] # "none" => rCapture[g] # "none")
  BY <1>1 DEF TypeOK, Crash
<1>3. NoFin \in [rec : 0 .. MaxGeneration, identity : Owners, pc : FinPcs]
  BY DEF NoFin, Owners, FinPcs
<1>4. \A a \in Attempts :
        \/ rFin'[a] = NoFin
        \/ /\ rFin'[a] \in [rec : 0 .. MaxGeneration, identity : Owners, pc : FinPcs]
           /\ rFin'[a].pc = "ended" /\ rFin'[a].rec = rFin[a].rec
           /\ rFin'[a].identity = rFin[a].identity
  BY <1>1 DEF TypeOK, Crash, FinPcs
<1>5. rFin' \in [Attempts -> [rec : 0 .. MaxGeneration, identity : Owners, pc : FinPcs]]
  <2>1. rFin' = [a \in Attempts |-> rFin'[a]]
    BY DEF Crash
  <2> QED
    BY <1>3, <1>4, <2>1
<1>6. /\ pRun' \in [Generations -> RunPcs]
      /\ \A g \in Generations : /\ pRun'[g] \in {"none", "ended"}
                                /\ pRun'[g] # "none" => pRun[g] # "none"
  BY DEF Crash, RunPcs
<1>7. \A a \in Attempts : rFin'[a].pc \in {"none", "ended"}
  BY <1>4 DEF NoFin
<1>8. TypeOK' /\ CoordinatorInv' /\ GateIsHeld'
  <2>1. /\ NoIdentity \in Owners /\ "idle" \in Phases
        /\ 0 \in 0 .. MaxGeneration /\ 0 \in 0 .. MaxAttempts
    BY DEF Owners, Phases
  <2>2. NoCall \in [pc : CallPcs, wait : Nat] /\ NoCall.pc = "idle"
    BY DEF NoCall, CallPcs
  <2>3. call' \in [Clients -> [pc : CallPcs, wait : Nat]]
    BY <1>1, <2>2
  <2>4. CoordinatorInv'
    BY <1>1 DEF TypeOK, CoordinatorTypeOK, CoordinatorInv, NoIdentity
  <2>5. GateIsHeld'
    BY <1>1, <2>2 DEF GateIsHeld
  <2>6. TypeOK'
    BY <1>1, <1>2, <1>5, <1>6, <2>1, <2>3 DEF TypeOK, CoordinatorTypeOK
  <2> QED
    BY <2>4, <2>5, <2>6
<1>9. AllAreIssued'
  <2>1. \A c \in Clients : call'[c].pc = "idle"
    BY <1>1 DEF NoCall
  <2>2. NoFin.rec = 0 /\ NoFin.identity = NoIdentity /\ NoIdentity.kind = "none"
    BY DEF NoFin, NoIdentity
  <2>3. generation \in Nat
    BY <1>1, SlotsAreTyped
  <2> QED
    BY <1>1, <1>2, <1>4, <1>6, <2>1, <2>2, <2>3 DEF RecordReplayInv, AllAreIssued
<1>10. CaptureIsCurrent' /\ StopHasWaited' /\ OneFinalizer' /\ FinalizedAfterCapture'
  BY <1>2, <1>7 DEF CaptureIsCurrent, StopHasWaited, OneFinalizer, FinalizedAfterCapture, Working
<1>11. PendingIsOnDisk' /\ DeleteSparesPending' /\ ExclusiveSessions'
  BY <1>1 DEF PendingIsOnDisk, DeleteSparesPending, ExclusiveSessions, Pending
<1>12. RecordingIsReturned' /\ ReplayIsCurrent' /\ ReplayIsReturned'
  BY <1>1, <1>6 DEF RecordingIsReturned, ReplayIsCurrent, ReplayIsReturned, NoIdentity, Driving
<1> QED
  BY <1>8, <1>9, <1>10, <1>11, <1>12 DEF RecordReplayInv

\* No step of the manager breaks the invariant.
LEMMA RecordReplayStep ==
  ASSUME RecordReplayInv, [Next]_vars
  PROVE  RecordReplayInv'
<1>1. CASE StartRecording
  BY <1>1, StartRecordingPreserves
<1>2. CASE StartReplay
  BY <1>2, ReplayStartsPreserve
<1>3. ASSUME NEW c \in Clients, HandlerStep(c)
      PROVE  RecordReplayInv'
  BY <1>3, StartFailsPreserves, UndoStartPreserves, WaitingPreserves, RecStopPreserves,
     RecLaunchPreserves, CancelReplayPreserves, FinalizeDraftPreserves, DeleteDraftPreserves
     DEF HandlerStep
<1>4. ASSUME NEW g \in Generations, CaptureEnds(g) \/ ReplayStep(g)
      PROVE  RecordReplayInv'
  BY <1>4, CaptureEndsPreserves, ReplayFinishPreserves, ReplayReleasePreserves,
     ReplayClearPreserves DEF ReplayStep
<1>5. ASSUME NEW a \in Attempts, FinStep(a)
      PROVE  RecordReplayInv'
  BY <1>5, FinCommitPreserves, FinFailsPreserves, FinLateReleasePreserves, FinPublishPreserves,
     FinReleasePreserves, FinClearPreserves DEF FinStep
<1>6. CASE HostStep \/ PerformanceStep
  BY <1>6, OtherBeginsPreserve, OtherEndsPreserve, ReplayStartsPreserve, CancelReplayPreserves
     DEF HostStep, PerformanceStep
<1>7. CASE Crash
  BY <1>7, CrashPreserves
<1>8. CASE UNCHANGED vars
  <2>1. /\ UNCHANGED <<handlerVars, coordinatorVars, recVars, rCapture, rCancelled, rFin, rStore,
                       repVars, crashes>>
        /\ UNCHANGED <<gate, call>>
    BY <1>8 DEF vars, handlerVars
  <2>2. StopHasWaited' /\ DeleteSparesPending' /\ GateIsHeld'
    BY <2>1 DEF RecordReplayInv, StopHasWaited, DeleteSparesPending, GateIsHeld, Pending, recVars
  <2> QED
    BY <2>1, <2>2, QuietHandlersPreserve DEF RecordReplayInv, TypeOK
<1> QED
  BY <1>1, <1>2, <1>3, <1>4, <1>5, <1>6, <1>7, <1>8 DEF Next

-----------------------------------------------------------------------------
(* The theorems.                                                           *)

\* RecordReplayInv holds in every state the manager reaches: the argument the
\* theorems below are read from.
THEOREM RecordReplayInvariant == Spec => []RecordReplayInv
<1>1. Init => RecordReplayInv
  BY RecordReplayInitially
<1>2. RecordReplayInv /\ [Next]_vars => RecordReplayInv'
  BY RecordReplayStep
<1> QED
  BY <1>1, <1>2, PTL DEF Spec

\* The variables keep their types.
THEOREM RecordReplayTypeCorrect == Spec => []TypeOK
<1>1. RecordReplayInv => TypeOK
  BY DEF RecordReplayInv
<1> QED
  BY <1>1, RecordReplayInvariant, PTL

\* A capture reads touches, and a replay injects them, only while the coordinator
\* says the device is theirs, however late the finalizer of an older recording runs.
THEOREM DeviceAlwaysOwned == Spec => []SessionOwnsDevice
<1>1. RecordReplayInv => SessionOwnsDevice
  BY DEF RecordReplayInv, CaptureIsCurrent, ReplayIsCurrent, SessionOwnsDevice
<1> QED
  BY <1>1, RecordReplayInvariant, PTL

\* No finalizer saves a recording that still receives touches.
THEOREM AlwaysFinalizedAfterCapture == Spec => []FinalizedAfterCapture
<1>1. RecordReplayInv => FinalizedAfterCapture
  BY DEF RecordReplayInv
<1> QED
  BY <1>1, RecordReplayInvariant, PTL

\* What was recorded and is not saved yet is on disk, whenever the agent dies.
THEOREM PendingAlwaysOnDisk == Spec => []PendingIsOnDisk
<1>1. RecordReplayInv => PendingIsOnDisk
  BY DEF RecordReplayInv
<1> QED
  BY <1>1, RecordReplayInvariant, PTL

\* Recording and replaying exclude each other, also after a save that has failed.
THEOREM SessionsAlwaysExclusive == Spec => []ExclusiveSessions
<1>1. RecordReplayInv => ExclusiveSessions
  BY DEF RecordReplayInv
<1> QED
  BY <1>1, RecordReplayInvariant, PTL

\* A manager at rest has given the device back.
THEOREM DeviceAlwaysReturned == Spec => []IdleMeansReturned
<1>1. ASSUME RecordReplayInv
      PROVE  IdleMeansReturned
  <2>1. SUFFICES ASSUME Idle, \A a \in Attempts : rFin[a].pc # "late",
                        \A c \in Clients : call[c].pc # "undo"
                 PROVE  active.kind \notin {"recording", "replay"} /\ hosted = NoIdentity
    BY DEF IdleMeansReturned
  <2>2. active.kind # "recording"
    BY <1>1, <2>1 DEF RecordReplayInv, RecordingIsReturned, Idle
  <2> QED
    BY <1>1, <2>1, <2>2, IdleMeansNothingRuns
<1> QED
  BY <1>1, RecordReplayInvariant, PTL

-----------------------------------------------------------------------------
(* The device lease.                                                       *)

\* A capture or a replay that drives adds nothing to what the coordinator knows.
LEMMA RoleIsStanding ==
  ASSUME RecordReplayInv, NEW g \in Generations
  PROVE  Role(g) = Standing(g)
<1>1. g \in Nat /\ generation \in Nat
  BY SlotsAreTyped DEF RecordReplayInv, Generations
<1>2. rCapture[g] = "on" => active.generation = g
  BY SessionsDiffer DEF RecordReplayInv, CaptureIsCurrent
<1>3. pRun[g] = "drive" /\ hosted.generation # g => active.generation = g
  BY SessionsDiffer DEF RecordReplayInv, ReplayIsCurrent
<1>4. CASE g > generation
  BY <1>1, <1>4 DEF Role, Standing
<1>5. CASE g <= generation
  BY <1>1, <1>2, <1>3, <1>5 DEF Role, Standing
<1> QED
  BY <1>1, <1>4, <1>5

\* So the lease is the coordinator's.
LEMMA LeaseIsStanding ==
  RecordReplayInv => [g \in Generations |-> Role(g)] = standing
BY RoleIsStanding DEF standing

\* A step of the coordinator's lease is one of the manager's.
LEMMA LeaseSteps ==
  ASSUME RecordReplayInv, RecordReplayInv', [Slots!LeaseNext]_standing
  PROVE  [Lease!LeaseNext]_[g \in Generations |-> Role(g)]
<1> DEFINE L == [g \in Generations |-> Role(g)]
<1>1. L = standing /\ L' = standing'
  <2>1. (RecordReplayInv => L = standing)'
    BY LeaseIsStanding, PTL
  <2> QED
    BY <2>1, LeaseIsStanding
<1> HIDE DEF L
<1>2. CASE UNCHANGED standing
  <2>1. UNCHANGED L
    BY <1>1, <1>2
  <2> QED
    BY <2>1 DEF L
<1>3. ASSUME NEW s \in Slots!Sessions, Slots!Begin(s)
      PROVE  Lease!Begin(s)
  BY <1>1, <1>3 DEF Lease!Begin, Lease!Fresh, Lease!In, Lease!Sessions,
     Slots!Begin, Slots!Fresh, Slots!In, Slots!Sessions, L
<1>4. ASSUME NEW s \in Slots!Sessions, Slots!BeginGuest(s)
      PROVE  Lease!BeginGuest(s)
  BY <1>1, <1>4 DEF Lease!BeginGuest, Lease!Fresh, Lease!In, Lease!Sessions,
     Slots!BeginGuest, Slots!Fresh, Slots!In, Slots!Sessions, L
<1>5. ASSUME NEW s \in Slots!Sessions, Slots!EndGuest(s)
      PROVE  Lease!EndGuest(s)
  BY <1>1, <1>5 DEF Lease!EndGuest, Slots!EndGuest, L
<1>6. ASSUME NEW s \in Slots!Sessions, Slots!EndHost(s)
      PROVE  Lease!EndHost(s)
  BY <1>1, <1>6 DEF Lease!EndHost, Lease!Sessions, Slots!EndHost, Slots!Sessions, L
<1>7. CASE Slots!LeaseNext
  BY <1>3, <1>4, <1>5, <1>6, <1>7
     DEF Slots!LeaseNext, Lease!LeaseNext, Slots!Sessions, Lease!Sessions
<1> QED
  BY <1>2, <1>7 DEF L

\* To the device a crash is a release by whoever owns it.
LEMMA CrashReleases ==
  ASSUME RecordReplayInv, Crash
  PROVE  Release(active)
<1>1. /\ active' = NoIdentity /\ hosted' = NoIdentity /\ generation' = generation
      /\ hosted # NoIdentity => active # NoIdentity /\ hosted # active
  BY GenerationsAreOrdered DEF RecordReplayInv, TypeOK, Crash
<1> QED
  BY <1>1 DEF Release, SameOwner, Validates

\* Recordings, replays, hosted replays, explorations and performance sessions are
\* sessions of one device lease, and a crash ends the one there is.
THEOREM RecordReplayRunsUnderLease == Spec => RunsUnderLease
<1> DEFINE L == [g \in Generations |-> Role(g)]
<1>1. Init => Lease!LeaseInit
  <2> SUFFICES ASSUME Init PROVE Lease!LeaseInit
    OBVIOUS
  <2>1. \A g \in Generations : Role(g) = "new"
    <3>1. \A g \in Generations : Standing(g) = "new"
      BY DEF Init, CoordinatorInit, Standing, Generations
    <3> QED
      BY <3>1, RecordReplayInitially, RoleIsStanding
  <2> QED
    BY <2>1 DEF Lease!LeaseInit, Lease!Sessions, Generations
<1>2. RecordReplayInv /\ RecordReplayInv' /\ [Next]_vars => [Lease!LeaseNext]_L
  <2> SUFFICES ASSUME RecordReplayInv, RecordReplayInv', [Next]_vars PROVE [Lease!LeaseNext]_L
    OBVIOUS
  <2>1. CoordinatorTypeOK /\ CoordinatorInv
    BY DEF RecordReplayInv, TypeOK
  <2>2. ASSUME NEW kind \in Kinds, Acquire(kind) PROVE [Lease!LeaseNext]_L
    BY <2>1, <2>2, AcquireBegins, LeaseSteps
  <2>3. ASSUME NEW kind \in Kinds, NEW parent, AcquireHosted(parent, kind)
        PROVE  [Lease!LeaseNext]_L
    BY <2>1, <2>3, AcquireHostedBeginsGuest, LeaseSteps
  <2>4. ASSUME NEW identity, Release(identity) PROVE [Lease!LeaseNext]_L
    BY <2>1, <2>4, ReleaseEnds, LeaseSteps
  <2>5. CASE UNCHANGED coordinatorVars
    BY <2>5, CoordinatorIdles, LeaseSteps
  <2>6. CASE StartRecording \/ StartReplay
    BY <2>2, <2>6 DEF StartRecording, StartReplay, Kinds
  <2>7. ASSUME NEW c \in Clients, HandlerStep(c) PROVE [Lease!LeaseNext]_L
    <3>1. CASE StartRecordingFails(c) \/ UndoStart(c)
      BY <2>2, <2>4, <3>1 DEF StartRecordingFails, UndoStart, Kinds
    <3>2. CASE ~StartRecordingFails(c) /\ ~UndoStart(c)
      BY <2>5, <2>7, <3>2
         DEF HandlerStep, OwnedStopRecording, OwnedStopReplay, RecStop, RecDone,
             RecNothingToSave, RecJoin, RecLaunch, RecFinal, RepStop, CancelReplay, RepDone,
             GiveUp, FinalizeDraft, DeleteDraftCheck, DeleteDraftRemove
    <3> QED
      BY <3>1, <3>2
  <2>8. ASSUME NEW g \in Generations, CaptureEnds(g) \/ ReplayStep(g)
        PROVE  [Lease!LeaseNext]_L
    <3>1. CASE ReplayRelease(g)
      BY <2>4, <3>1 DEF ReplayRelease
    <3>2. CASE ~ReplayRelease(g)
      BY <2>5, <2>8, <3>2
         DEF CaptureEnds, ReplayStep, ReplayFinish, ReplayPersist, ReplayClear, ReplayClose
    <3> QED
      BY <3>1, <3>2
  <2>9. ASSUME NEW a \in Attempts, FinStep(a) PROVE [Lease!LeaseNext]_L
    <3>1. CASE FinLateRelease(a) \/ FinRelease(a)
      BY <2>4, <3>1 DEF FinLateRelease, FinRelease
    <3>2. CASE ~FinLateRelease(a) /\ ~FinRelease(a)
      BY <2>5, <2>9, <3>2 DEF FinStep, FinCommit, FinFails, FinPublish, FinClear
    <3> QED
      BY <3>1, <3>2
  <2>10. CASE HostStep
    BY <2>2, <2>3, <2>4, <2>5, <2>10
       DEF HostStep, HostBegin, HostStartReplay, HostStopReplay, CancelReplay, HostEnd, Kinds
  <2>11. CASE PerformanceStep
    BY <2>2, <2>4, <2>11 DEF PerformanceStep, PerformanceBegin, PerformanceEnd, Kinds
  <2>12. CASE Crash
    BY <2>4, <2>12, CrashReleases
  <2>13. CASE UNCHANGED vars
    BY <2>5, <2>13 DEF vars
  <2> QED
    BY <2>6, <2>7, <2>8, <2>9, <2>10, <2>11, <2>12, <2>13 DEF Next
<1> QED
  BY <1>1, <1>2, RecordReplayInvariant, PTL DEF Spec, RunsUnderLease, Lease!LeaseSpec
====
