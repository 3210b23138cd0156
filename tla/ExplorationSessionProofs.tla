---- MODULE ExplorationSessionProofs ----
(***************************************************************************)
(* Proofs about ExplorationSession, for any clients, any requests and any  *)
(* number of identities: the session's types, that a run holds the device  *)
(* from its launch to its release, that the flags follow its goroutine and *)
(* that a closed done channel means the device was given back.             *)
(*                                                                         *)
(* None of these is inductive alone.  That a run's release frees its own   *)
(* device, and only that, needs that the finalizer read its own identity;  *)
(* that in turn needs that no other session can have started before the    *)
(* run is over, which the flags ensure.  SessionInv puts them together.    *)
(***************************************************************************)
EXTENDS ExplorationSession, CoordinatorProofs

\* The identity of the manager is the one the coordinator gave it.
IdentityIsOwn ==
  \/ xIdentity = NoIdentity
  \/ /\ Current \in Generations
     /\ Current <= generation
     /\ xIdentity = Session("exploration", Current)

\* Goroutines exist for identities that were handed out.
RunsAreIssued == \A g \in Generations : xPc[g] # "none" => g <= generation

\* The finalizer releases the identity of its own session.
SealedIsOwn ==
  \A g \in Generations : xPc[g] = "release" => xSealed[g] = Session("exploration", g)

\* A run past its release does not own the device.
PastRunsOwnNothing ==
  \A g \in Generations :
    xPc[g] \in {"clear", "close", "ended"} => active # Session("exploration", g)

SessionInv ==
  /\ XTypeOK
  /\ CoordinatorInv
  /\ DriverOwnsDevice
  /\ FlagsFollowGoroutine
  /\ IdentityIsOwn
  /\ RunsAreIssued
  /\ SealedIsOwn
  /\ PastRunsOwnNothing

-----------------------------------------------------------------------------

\* Sessions of two generations are two sessions, and none of them is nobody.
LEMMA SessionsDiffer ==
  ASSUME NEW kind, NEW kind2, NEW g, NEW h
  PROVE  /\ Session(kind, g).generation = g
         /\ Session(kind, g).kind = kind
         /\ g # h => Session(kind, g) # Session(kind2, h)
         /\ kind # kind2 => Session(kind, g) # Session(kind2, h)
         /\ kind # "none" => Session(kind, g) # NoIdentity
BY DEF Session, NoIdentity
-----------------------------------------------------------------------------
(* The state of the manager, read off the invariant.                       *)

\* A goroutine that has not reached its last section is the current session's,
\* whose identity is the one it stands for.
LEMMA UnfinishedRunIsCurrent ==
  ASSUME SessionInv, NEW g \in Generations, xPc[g] \in Holding \cup {"clear"}
  PROVE  /\ Current = g
         /\ Current # 0
         /\ xIdentity = Session("exploration", g)
         /\ Busy
<1>1. Current = g
  BY DEF SessionInv, FlagsFollowGoroutine, Holding, Driving
<1>2. Current # 0
  BY <1>1 DEF Generations
<1>3. xIdentity = Session("exploration", g)
  BY <1>1, <1>2 DEF SessionInv, IdentityIsOwn, NoIdentity, Current
<1>4. Busy
  BY <1>1, <1>2 DEF SessionInv, FlagsFollowGoroutine
<1> QED
  BY <1>1, <1>2, <1>3, <1>4

-----------------------------------------------------------------------------
(* One lemma per action or group of alike actions.                         *)

\* A start finds every goroutine past its last section and takes the device.
LEMMA StartPreserves ==
  ASSUME SessionInv, NEW request \in Requests, Start(request)
  PROVE  SessionInv'
<1> DEFINE s == generation + 1
<1>1. /\ CoordinatorTypeOK' /\ CoordinatorInv'
      /\ generation' = s /\ s \in Generations
      /\ active' = Session("exploration", s)
  BY AcquireTakesFreeDevice DEF SessionInv, XTypeOK, Start, Kinds
<1>2. /\ xPhase' = "running" /\ xRequest' = request
      /\ xIdentity' = Session("exploration", s)
      /\ xReason' = "none" /\ xStopRequested' = FALSE
      /\ xCancel' = s /\ xPc' = [xPc EXCEPT ![s] = "start"]
      /\ xSuppressed' = FALSE /\ xControlError' = FALSE
      /\ UNCHANGED <<xCancelled, xSealed, xTucked, xCall>>
  BY DEF Start, NewIdentity
<1>3. xPc \in [Generations -> Pcs] /\ generation \in 0 .. MaxGeneration
  BY DEF SessionInv, XTypeOK, CoordinatorTypeOK
<1>4. \A g \in Generations : xPc[g] \in {"none", "close", "ended"}
  BY <1>3 DEF SessionInv, FlagsFollowGoroutine, Start, Pcs, Driving, Holding, Generations
<1>5. \A g \in Generations : xPc'[g] = IF g = s THEN "start" ELSE xPc[g]
  BY <1>2, <1>3
<1>6. Current' = s /\ s \in Nat /\ s # 0 /\ s \in 0 .. MaxGeneration
  BY <1>1, <1>2, <1>3, MaxGenerationAssumption, SessionsDiffer DEF Current, Generations
<1>7. XTypeOK'
  <2>1. xPc' \in [Generations -> Pcs]
    BY <1>2, <1>3 DEF Pcs, Driving
  <2>2. xIdentity' \in Identity
    BY <1>1, <1>2 DEF Session, Identity, Kinds
  <2> QED
    BY <1>1, <1>2, <1>6, <2>1, <2>2 DEF SessionInv, XTypeOK, Phases, Reasons
<1>8. DriverOwnsDevice'
  BY <1>1, <1>4, <1>5 DEF DriverOwnsDevice, Holding, Driving
<1>9. FlagsFollowGoroutine'
  BY <1>1, <1>2, <1>4, <1>5, <1>6 DEF FlagsFollowGoroutine, Busy, Holding, Driving
<1>10. IdentityIsOwn'
  BY <1>1, <1>2, <1>6 DEF IdentityIsOwn
<1>11. RunsAreIssued'
  BY <1>1, <1>3, <1>5 DEF SessionInv, RunsAreIssued, Generations
<1>12. SealedIsOwn'
  BY <1>2, <1>5 DEF SessionInv, SealedIsOwn
<1>13. PastRunsOwnNothing'
  <2> SUFFICES ASSUME NEW g \in Generations, xPc'[g] \in {"clear", "close", "ended"}
               PROVE  active' # Session("exploration", g)
    BY DEF PastRunsOwnNothing
  <2>1. g # s
    BY <1>5
  <2> QED
    BY <1>1, <2>1, SessionsDiffer
<1> QED
  BY <1>1, <1>7, <1>8, <1>9, <1>10, <1>11, <1>12, <1>13 DEF SessionInv

\* A goroutine that moves on without the coordinator: before its release it
\* goes on holding the device, after it it goes on without.
LEMMA RunMovesOn ==
  ASSUME SessionInv, NEW g \in Generations, NEW pc \in Pcs,
         UNCHANGED <<coordinatorVars, xIdentity>>,
         xPc' = [xPc EXCEPT ![g] = pc],
         \/ xPc[g] \in Holding /\ pc \in Holding
         \/ xPc[g] \in {"clear", "close"} /\ pc \in {"close", "ended"}
  PROVE  /\ xPc' \in [Generations -> Pcs]
         /\ \A h \in Generations : xPc'[h] = IF h = g THEN pc ELSE xPc[h]
         /\ CoordinatorTypeOK' /\ CoordinatorInv'
         /\ Current' = Current
         /\ DriverOwnsDevice' /\ IdentityIsOwn' /\ RunsAreIssued' /\ PastRunsOwnNothing'
<1>1. xPc \in [Generations -> Pcs]
  BY DEF SessionInv, XTypeOK
<1>2. /\ xPc' \in [Generations -> Pcs]
      /\ \A h \in Generations : xPc'[h] = IF h = g THEN pc ELSE xPc[h]
  BY <1>1
<1>3. CoordinatorTypeOK' /\ CoordinatorInv'
  BY DEF SessionInv, XTypeOK, CoordinatorTypeOK, CoordinatorInv, Owned, coordinatorVars
<1>4. Current' = Current
  BY DEF Current
<1>5. DriverOwnsDevice'
  BY <1>2 DEF SessionInv, DriverOwnsDevice, Holding, Driving, coordinatorVars
<1>6. IdentityIsOwn'
  BY <1>4 DEF SessionInv, IdentityIsOwn, coordinatorVars
<1>7. RunsAreIssued'
  BY <1>2 DEF SessionInv, RunsAreIssued, Holding, Driving, coordinatorVars
<1>8. PastRunsOwnNothing'
  BY <1>2 DEF SessionInv, PastRunsOwnNothing, Holding, Driving, coordinatorVars
<1> QED
  BY <1>2, <1>3, <1>4, <1>5, <1>6, <1>7, <1>8

\* The first step of a run, its loop's end and its overlay's return.
LEMMA LoopPreserves ==
  ASSUME SessionInv, NEW g \in Generations,
         RunStart(g) \/ RunFinish(g) \/ RunObserveCancel(g) \/ RunRestoreOverlay(g)
  PROVE  SessionInv'
<1> DEFINE pc == IF xPc[g] = "start" THEN "loop"
                 ELSE IF xPc[g] = "loop" THEN "restore" ELSE "seal"
<1>1. /\ xPc[g] \in {"start", "loop", "restore"}
      /\ UNCHANGED <<coordinatorVars, xRequest, xIdentity, xStopRequested, xCancel,
                     xCancelled, xSealed, xCall>>
      /\ xPc' = [xPc EXCEPT ![g] = pc]
      /\ \/ UNCHANGED <<xPhase, xReason>>
         \/ /\ xPhase \in {"running", "stopping"} /\ xPhase' = "finalizing"
            /\ xReason' \in Reasons /\ pc = "restore"
  BY DEF SessionInv, XTypeOK, RunStart, RunFinish, RunObserveCancel, RunRestoreOverlay,
         FinishLocked, xState, Reasons
<1>0. xSuppressed' \in BOOLEAN /\ xControlError' \in BOOLEAN /\ xTucked' \in 0 .. MaxGeneration
  <2>0. /\ xSuppressed \in BOOLEAN /\ xControlError \in BOOLEAN /\ xTucked \in 0 .. MaxGeneration
        /\ g \in 0 .. MaxGeneration /\ 0 \in 0 .. MaxGeneration
    BY MaxGenerationAssumption DEF SessionInv, XTypeOK, Generations
  <2>1. UNCHANGED xOverlay \/ SuppressOverlay(g) \/ RestoreOverlay
    BY DEF RunStart, RunFinish, RunObserveCancel, RunRestoreOverlay, xOverlay
  <2> QED
    BY <2>0, <2>1 DEF SuppressOverlay, RestoreOverlay, xOverlay
<1>2. pc \in Pcs /\ pc \in Holding /\ xPc[g] \in Holding
  BY <1>1 DEF Pcs, Holding, Driving
<1>3. /\ xPc' \in [Generations -> Pcs]
      /\ \A h \in Generations : xPc'[h] = IF h = g THEN pc ELSE xPc[h]
      /\ CoordinatorTypeOK' /\ CoordinatorInv'
      /\ Current' = Current
      /\ DriverOwnsDevice' /\ IdentityIsOwn' /\ RunsAreIssued' /\ PastRunsOwnNothing'
  BY <1>1, <1>2, RunMovesOn
<1>4. Current = g /\ Current # 0 /\ Busy
  BY <1>2, UnfinishedRunIsCurrent
<1>5. XTypeOK'
  BY <1>0, <1>1, <1>3 DEF SessionInv, XTypeOK, Phases
<1>6. FlagsFollowGoroutine'
  BY <1>1, <1>2, <1>3, <1>4 DEF SessionInv, FlagsFollowGoroutine, Busy
<1>7. SealedIsOwn'
  BY <1>1, <1>3 DEF SessionInv, SealedIsOwn
<1> QED
  BY <1>3, <1>5, <1>6, <1>7 DEF SessionInv

\* The finalizer's first section finds its own session current, ends it if
\* nobody has, and reads the identity it will release.
LEMMA SealPreserves ==
  ASSUME SessionInv, NEW g \in Generations, RunSeal(g)
  PROVE  SessionInv'
<1>1. xPc[g] = "seal" /\ xPc[g] \in Holding /\ "release" \in Pcs /\ "release" \in Holding
  BY DEF RunSeal, Holding, Pcs
<1>2. Current = g /\ Current # 0 /\ xIdentity = Session("exploration", g) /\ Busy
  BY <1>1, UnfinishedRunIsCurrent
<1>3. /\ UNCHANGED <<coordinatorVars, xRequest, xIdentity, xStopRequested, xCancelled,
                     xOverlay, xCall>>
      /\ xPc' = [xPc EXCEPT ![g] = "release"]
      /\ xSealed' = [xSealed EXCEPT ![g] = xIdentity]
      /\ xCancel' = 0
      /\ xPhase' = "finalizing"
      /\ xReason' \in Reasons
  BY <1>2 DEF SessionInv, XTypeOK, RunSeal, FinishLocked, Busy, Phases, Reasons
<1>4. /\ xPc' \in [Generations -> Pcs]
      /\ \A h \in Generations : xPc'[h] = IF h = g THEN "release" ELSE xPc[h]
      /\ CoordinatorTypeOK' /\ CoordinatorInv'
      /\ Current' = Current
      /\ DriverOwnsDevice' /\ IdentityIsOwn' /\ RunsAreIssued' /\ PastRunsOwnNothing'
  BY <1>1, <1>3, RunMovesOn
<1>5. XTypeOK'
  BY <1>3, <1>4, MaxGenerationAssumption DEF SessionInv, XTypeOK, Phases, xOverlay
<1>6. FlagsFollowGoroutine'
  BY <1>1, <1>2, <1>3, <1>4 DEF SessionInv, FlagsFollowGoroutine, Busy
<1>7. SealedIsOwn'
  BY <1>2, <1>3, <1>4 DEF SessionInv, XTypeOK, SealedIsOwn
<1> QED
  BY <1>4, <1>5, <1>6, <1>7 DEF SessionInv

\* The release frees the device the run held, and no other session's: every
\* other goroutine is past its own.
LEMMA ReleasePreserves ==
  ASSUME SessionInv, NEW g \in Generations, RunRelease(g)
  PROVE  SessionInv'
<1>1. /\ xPc[g] = "release" /\ xPc[g] \in Holding
      /\ Release(xSealed[g])
      /\ xPc' = [xPc EXCEPT ![g] = "clear"]
      /\ UNCHANGED <<xState, xCancelled, xSealed, xOverlay, xCall>>
  BY DEF RunRelease, Holding
<1>2. Current = g /\ Current # 0 /\ Busy
  BY <1>1, UnfinishedRunIsCurrent
<1>3. xSealed[g] = Session("exploration", g) /\ active = Session("exploration", g)
  BY <1>1 DEF SessionInv, SealedIsOwn, DriverOwnsDevice
<1>4. /\ CoordinatorTypeOK' /\ CoordinatorInv'
      /\ generation' = generation
      /\ active' = NoIdentity
  BY <1>1, <1>3, ReleaseFreesOnlyIdentity DEF SessionInv, XTypeOK
<1>5. /\ xPc' \in [Generations -> Pcs]
      /\ \A h \in Generations : xPc'[h] = IF h = g THEN "clear" ELSE xPc[h]
  BY <1>1 DEF SessionInv, XTypeOK, Pcs
<1>6. XTypeOK'
  BY <1>1, <1>4, <1>5 DEF SessionInv, XTypeOK, xState, xOverlay
<1>7. DriverOwnsDevice'
  <2> SUFFICES ASSUME NEW h \in Generations, xPc'[h] \in Holding PROVE FALSE
    BY DEF DriverOwnsDevice
  <2> QED
    BY <1>2, <1>5 DEF SessionInv, FlagsFollowGoroutine, Holding, Driving
<1>8. FlagsFollowGoroutine'
  BY <1>1, <1>2, <1>5 DEF SessionInv, FlagsFollowGoroutine, Busy, Current, xState
<1>9. IdentityIsOwn'
  BY <1>1, <1>4 DEF SessionInv, IdentityIsOwn, Current, xState
<1>10. RunsAreIssued'
  BY <1>1, <1>4, <1>5 DEF SessionInv, RunsAreIssued
<1>11. SealedIsOwn'
  BY <1>1, <1>5 DEF SessionInv, SealedIsOwn
<1>12. PastRunsOwnNothing'
  BY <1>4, SessionsDiffer DEF PastRunsOwnNothing
<1> QED
  BY <1>4, <1>6, <1>7, <1>8, <1>9, <1>10, <1>11, <1>12 DEF SessionInv

\* The last two steps of a run: its flags are cleared, its channel is closed.
LEMMA ClearAndClosePreserve ==
  ASSUME SessionInv, NEW g \in Generations, RunClear(g) \/ RunClose(g)
  PROVE  SessionInv'
<1> DEFINE pc == IF xPc[g] = "clear" THEN "close" ELSE "ended"
<1>1. /\ xPc[g] \in {"clear", "close"}
      /\ UNCHANGED <<coordinatorVars, xRequest, xIdentity, xReason, xStopRequested, xCancel,
                     xCancelled, xSealed, xOverlay, xCall>>
      /\ xPc' = [xPc EXCEPT ![g] = pc]
      /\ xPhase' = IF xPc[g] = "clear" /\ Current = g THEN "idle" ELSE xPhase
  BY DEF RunClear, RunClose, xState
<1>2. pc \in Pcs /\ pc \in {"close", "ended"} /\ pc \notin Holding \cup {"clear"}
  BY DEF Pcs, Holding, Driving
<1>3. /\ xPc' \in [Generations -> Pcs]
      /\ \A h \in Generations : xPc'[h] = IF h = g THEN pc ELSE xPc[h]
      /\ CoordinatorTypeOK' /\ CoordinatorInv'
      /\ Current' = Current
      /\ DriverOwnsDevice' /\ IdentityIsOwn' /\ RunsAreIssued' /\ PastRunsOwnNothing'
  BY <1>1, <1>2, RunMovesOn
<1>4. xPc[g] = "clear" => Current = g /\ Current # 0
  BY UnfinishedRunIsCurrent
<1>5. XTypeOK'
  BY <1>1, <1>3 DEF SessionInv, XTypeOK, Phases, xOverlay
<1>6. FlagsFollowGoroutine'
  BY <1>1, <1>2, <1>3, <1>4
     DEF SessionInv, FlagsFollowGoroutine, Busy, Holding, Driving
<1>7. SealedIsOwn'
  BY <1>1, <1>2, <1>3 DEF SessionInv, SealedIsOwn
<1> QED
  BY <1>3, <1>5, <1>6, <1>7 DEF SessionInv

\* A call takes a running session to stopping and touches nothing else that
\* the invariant is about.
LEMMA CallPreserves ==
  ASSUME SessionInv, NEW c \in Clients, CallStep(c)
  PROVE  SessionInv'
<1>1. /\ UNCHANGED <<coordinatorVars, xRequest, xIdentity, xReason, xCancel, xPc, xSealed,
                     xOverlay>>
      /\ \/ UNCHANGED <<xPhase, xStopRequested>>
         \/ /\ xPhase = "running" /\ xPhase' = "stopping"
            /\ xStopRequested' \in BOOLEAN
         \/ /\ xPhase # "running" /\ UNCHANGED xPhase
            /\ xStopRequested' \in BOOLEAN
  BY DEF SessionInv, XTypeOK, CallStep, OwnedRead, OwnedValidate, OwnedStop, StopAny,
         StopSection, CallCancel, WaitDone, WaitGiveUp, xState, xGoroutines
<1>2. xCancelled' \in SUBSET Generations /\ xCall' \in [Clients -> Call]
  <2>0. /\ xCancelled \in SUBSET Generations /\ xCall \in [Clients -> Call]
        /\ xCall[c] \in Call
        /\ Current \in 0 .. MaxGeneration /\ xCancel \in 0 .. MaxGeneration
        /\ 0 \in 0 .. MaxGeneration
    BY MaxGenerationAssumption
       DEF SessionInv, XTypeOK, Current, Identity, NoIdentity, Generations
  <2>1. ASSUME NEW token \in Issued, OwnedRead(c, token)
        PROVE  xCancelled' \in SUBSET Generations /\ xCall' \in [Clients -> Call]
    BY <2>0, <2>1 DEF OwnedRead, NoCall, Call, CallPcs, Issued, xGoroutines
  <2>2. NoCall \in Call
    BY <2>0 DEF NoCall, Call, CallPcs
  <2>3. CASE OwnedValidate(c)
    BY <2>0, <2>2, <2>3 DEF OwnedValidate, Call, CallPcs, xGoroutines
  <2>4. CASE OwnedStop(c) \/ StopAny(c)
    <3>1. PICK owner \in Identity \cup {NoIdentity} : StopSection(c, owner)
      BY <2>0, <2>4 DEF OwnedStop, StopAny, Call
    <3> QED
      BY <2>0, <2>2, <3>1 DEF StopSection, Call, CallPcs, xGoroutines
  <2>5. CASE CallCancel(c)
    BY <2>0, <2>5 DEF CallCancel, Call, CallPcs, Generations
  <2>6. CASE WaitDone(c) \/ WaitGiveUp(c)
    BY <2>0, <2>2, <2>6 DEF WaitDone, WaitGiveUp, xGoroutines
  <2> QED
    BY <2>1, <2>3, <2>4, <2>5, <2>6 DEF CallStep
<1>3. XTypeOK'
  BY <1>1, <1>2 DEF SessionInv, XTypeOK, CoordinatorTypeOK, coordinatorVars, Phases,
         xOverlay
<1>4. FlagsFollowGoroutine'
  BY <1>1 DEF SessionInv, FlagsFollowGoroutine, Busy, Current
<1> QED
  BY <1>1, <1>3, <1>4
     DEF SessionInv, CoordinatorInv, Owned, DriverOwnsDevice, IdentityIsOwn, RunsAreIssued,
         SealedIsOwn, PastRunsOwnNothing, Current, coordinatorVars

\* Other sessions take a free device only, and their releases name themselves.
LEMMA ForeignPreserves ==
  ASSUME SessionInv, ForeignStep
  PROVE  SessionInv'
<1>1. /\ CoordinatorTypeOK' /\ CoordinatorInv'
      /\ generation' \in {generation, generation + 1}
      /\ \A g \in Generations : active = Session("exploration", g) => active' = active
      /\ \A g \in Generations : active' = Session("exploration", g) => active' = active
  <2>1. CASE \E kind \in Kinds \ {"exploration"} : ForeignAcquire(kind)
    <3>1. PICK kind \in Kinds \ {"exploration"} : Acquire(kind)
      BY <2>1 DEF ForeignAcquire
    <3> QED
      BY <3>1, AcquireTakesFreeDevice, SessionsDiffer DEF SessionInv, XTypeOK, Kinds
  <2>2. CASE ForeignHosted
    BY <2>2, AcquireHostedKeepsOwner DEF SessionInv, XTypeOK, ForeignHosted, Kinds
  <2>3. CASE \E identity \in Issued : ForeignRelease(identity)
    <3>1. PICK identity \in Issued : identity.kind # "exploration" /\ Release(identity)
      BY <2>3 DEF ForeignRelease
    <3> QED
      BY <3>1, ReleaseFreesOnlyIdentity, SessionsDiffer DEF SessionInv, XTypeOK
  <2> QED
    BY <2>1, <2>2, <2>3 DEF ForeignStep
<1>2. UNCHANGED xVars
  BY DEF ForeignStep, ForeignAcquire, ForeignHosted, ForeignRelease
<1>3. XTypeOK'
  BY <1>1, <1>2 DEF SessionInv, XTypeOK, xVars, xState, xGoroutines, xOverlay
<1>4. DriverOwnsDevice'
  BY <1>1, <1>2 DEF SessionInv, DriverOwnsDevice, xVars, xGoroutines
<1>5. FlagsFollowGoroutine'
  BY <1>2 DEF SessionInv, FlagsFollowGoroutine, Busy, Current, xVars, xState, xGoroutines
<1>6. IdentityIsOwn' /\ RunsAreIssued'
  BY <1>1, <1>2
     DEF SessionInv, XTypeOK, CoordinatorTypeOK, IdentityIsOwn, RunsAreIssued, Generations,
         Current, xVars, xState, xGoroutines
<1>7. SealedIsOwn' /\ PastRunsOwnNothing'
  BY <1>1, <1>2 DEF SessionInv, SealedIsOwn, PastRunsOwnNothing, xVars, xGoroutines
<1> QED
  BY <1>1, <1>3, <1>4, <1>5, <1>6, <1>7 DEF SessionInv

-----------------------------------------------------------------------------
(* The inductive invariant.                                                *)

\* Before the first start nothing is owned and nothing runs.
LEMMA SessionInitially == Init => SessionInv
<1> SUFFICES ASSUME Init PROVE SessionInv
  OBVIOUS
<1> USE DEF Init, XInit
<1>1. CoordinatorTypeOK /\ CoordinatorInv /\ generation = 0 /\ active = NoIdentity
  BY CoordinatorInitially DEF CoordinatorInit
<1>2. XTypeOK
  <2>1. 0 \in 0 .. MaxGeneration
    BY MaxGenerationAssumption
  <2>2. NoCall \in Call
    BY <2>1 DEF NoCall, Call, CallPcs
  <2> QED
    BY <1>1, <2>1, <2>2 DEF XTypeOK, Phases, Reasons, Pcs
<1>3. FlagsFollowGoroutine
  BY DEF FlagsFollowGoroutine, Busy, Current, NoIdentity
<1>4. /\ DriverOwnsDevice /\ IdentityIsOwn /\ RunsAreIssued
      /\ SealedIsOwn /\ PastRunsOwnNothing
  BY DEF DriverOwnsDevice, IdentityIsOwn, RunsAreIssued, SealedIsOwn, PastRunsOwnNothing,
         Holding, Driving
<1> QED
  BY <1>1, <1>2, <1>3, <1>4 DEF SessionInv

\* No step of the session, of a caller or of another session breaks it.
LEMMA SessionPreserved == SessionInv /\ [Next]_vars => SessionInv'
<1> SUFFICES ASSUME SessionInv, [Next]_vars PROVE SessionInv'
  OBVIOUS
<1>1. ASSUME NEW request \in Requests, Start(request) PROVE SessionInv'
  BY <1>1, StartPreserves
<1>2. ASSUME NEW g \in Generations, RunStep(g) PROVE SessionInv'
  BY <1>2, LoopPreserves, SealPreserves, ReleasePreserves, ClearAndClosePreserve DEF RunStep
<1>3. ASSUME NEW c \in Clients, CallStep(c) PROVE SessionInv'
  BY <1>3, CallPreserves
<1>4. CASE ForeignStep
  BY <1>4, ForeignPreserves
<1>5. CASE UNCHANGED vars
  BY <1>5 DEF vars, coordinatorVars, xVars, xState, xGoroutines, xOverlay, SessionInv, XTypeOK,
              CoordinatorTypeOK, CoordinatorInv, Owned, DriverOwnsDevice,
              FlagsFollowGoroutine, Busy, Current, IdentityIsOwn, RunsAreIssued,
              SealedIsOwn, PastRunsOwnNothing
<1> QED
  BY <1>1, <1>2, <1>3, <1>4, <1>5 DEF Next

\* The invariant holds of every behaviour of the manager.
THEOREM SessionInvariant == Spec => []SessionInv
<1>1. Init => SessionInv
  BY SessionInitially
<1>2. SessionInv /\ [Next]_vars => SessionInv'
  BY SessionPreserved
<1> QED
  BY <1>1, <1>2, PTL DEF Spec

\* Every variable keeps its type: no generation is skipped, no goroutine and no
\* call leaves its steps.
THEOREM TypesAreKept == Spec => []XTypeOK
<1>1. SessionInv => XTypeOK
  BY DEF SessionInv
<1> QED
  BY <1>1, SessionInvariant, PTL

\* From its launch to its release a run owns the device, whatever the finalizers
\* of older sessions and of recordings and replays release meanwhile.
THEOREM DriverOwnsDeviceAlways == Spec => []DriverOwnsDevice
<1>1. SessionInv => DriverOwnsDevice
  BY DEF SessionInv
<1> QED
  BY <1>1, SessionInvariant, PTL

\* The flags that admit the next Start follow the goroutine of the current
\* session, and older goroutines no longer write the shared state.
THEOREM FlagsFollowGoroutineAlways == Spec => []FlagsFollowGoroutine
<1>1. SessionInv => FlagsFollowGoroutine
  BY DEF SessionInv
<1> QED
  BY <1>1, SessionInvariant, PTL

\* Whoever has seen the done channel of a session closed finds the device given
\* back and the manager ready for a start.
THEOREM DoneAfterReleaseAlways == Spec => []DoneAfterRelease
<1>1. SessionInv => DoneAfterRelease
  <2> SUFFICES ASSUME SessionInv, NEW g \in Generations, xPc[g] \in {"close", "ended"}
               PROVE  active # Session("exploration", g) /\ (Current = g => ~Busy)
    BY DEF DoneAfterRelease
  <2>1. active # Session("exploration", g)
    BY DEF SessionInv, PastRunsOwnNothing
  <2>2. Current = g => ~Busy
    BY DEF SessionInv, FlagsFollowGoroutine, Holding, Driving
  <2> QED
    BY <2>1, <2>2
<1> QED
  BY <1>1, SessionInvariant, PTL

-----------------------------------------------------------------------------
(* Two invariants of their own, on top of SessionInv.                      *)

\* A stop accepted while the session ran is what the session reports, also when
\* the loop has ended by itself in the meantime.
THEOREM AcceptedStopIsReportedAlways == Spec => []AcceptedStopIsReported
<1>1. Init => AcceptedStopIsReported
  BY DEF Init, XInit, AcceptedStopIsReported
<1>2. SessionInv /\ AcceptedStopIsReported /\ [Next]_vars => AcceptedStopIsReported'
  <2> SUFFICES ASSUME SessionInv, AcceptedStopIsReported, [Next]_vars
               PROVE  AcceptedStopIsReported'
    OBVIOUS
  <2> USE DEF AcceptedStopIsReported
  <2>1. ASSUME NEW request \in Requests, Start(request) PROVE AcceptedStopIsReported'
    BY <2>1 DEF Start
  <2>2. ASSUME NEW g \in Generations, RunStep(g) PROVE AcceptedStopIsReported'
    <3>1. xPhase \in Phases
      BY DEF SessionInv, XTypeOK
    <3>2. xPc[g] = "clear" => Busy
      BY UnfinishedRunIsCurrent
    <3>3. xPc[g] = "clear" => xPhase = "finalizing"
      BY UnfinishedRunIsCurrent DEF SessionInv, FlagsFollowGoroutine
    <3> QED
      BY <2>2, <3>1, <3>3
         DEF RunStep, RunStart, RunFinish, RunObserveCancel, RunRestoreOverlay, RunSeal,
             RunRelease, RunClear, RunClose, FinishLocked, xState, Phases
  <2>3. ASSUME NEW c \in Clients, CallStep(c) PROVE AcceptedStopIsReported'
    BY <2>3 DEF CallStep, OwnedRead, OwnedValidate, OwnedStop, StopAny, StopSection,
                CallCancel, WaitDone, WaitGiveUp, xState, xGoroutines
  <2>4. CASE ForeignStep
    BY <2>4 DEF ForeignStep, ForeignAcquire, ForeignHosted, ForeignRelease, xVars, xState
  <2>5. CASE UNCHANGED vars
    BY <2>5 DEF vars, xVars, xState
  <2> QED
    BY <2>1, <2>2, <2>3, <2>4, <2>5 DEF Next
<1> QED
  BY <1>1, <1>2, SessionInvariant, PTL DEF Spec

\* A session that has hidden the companion's overlay still has the restore before it, under
\* its lease of the device, or reports that the overlay could not be controlled, whatever
\* hide or restore fails and whether or not it took effect.
THEOREM HiddenOverlayIsAnsweredAlways == Spec => []HiddenOverlayIsAnswered
<1> DEFINE Hidden == xSuppressed => Current # 0 /\ xPc[Current] \in {"loop", "restore"}
           Answered == Current # 0 /\ xTucked = Current => xSuppressed \/ xControlError
           Told == xTucked <= generation
           Owing == Hidden /\ Answered /\ Told
<1>1. Init => Owing
  BY DEF Init, XInit, CoordinatorInit, NoIdentity, Current
<1>2. SessionInv /\ Owing /\ [Next]_vars => Owing'
  <2> SUFFICES ASSUME SessionInv, Hidden, Answered, Told, [Next]_vars
               PROVE  Hidden' /\ Answered' /\ Told'
    OBVIOUS
  <2>0. generation \in Nat /\ xTucked \in Nat /\ xPc \in [Generations -> Pcs]
    BY MaxGenerationAssumption DEF SessionInv, XTypeOK, CoordinatorTypeOK
  <2>1. ASSUME NEW request \in Requests, Start(request) PROVE Hidden' /\ Answered' /\ Told'
    <3>1. generation' = generation + 1 /\ active' = Session("exploration", generation + 1)
      BY <2>1, AcquireTakesFreeDevice DEF SessionInv, XTypeOK, Start, Kinds
    <3>2. xSuppressed' = FALSE /\ xTucked' = xTucked /\ xIdentity' = NewIdentity("exploration")
      BY <2>1 DEF Start
    <3>3. Current' = generation + 1
      BY <3>2 DEF Current, NewIdentity, Session
    <3> QED
      BY <2>0, <3>1, <3>2, <3>3
  <2>2. ASSUME NEW g \in Generations, RunStep(g) PROVE Hidden' /\ Answered' /\ Told'
    <3>1. Current' = Current /\ generation' = generation
      <4>1. xIdentity' = xIdentity
        BY <2>2 DEF RunStep, RunStart, RunFinish, RunObserveCancel, RunRestoreOverlay, RunSeal,
           RunRelease, RunClear, RunClose, xState
      <4>2. CASE RunRelease(g)
        BY <4>1, <4>2 DEF RunRelease, Release, Current
      <4>3. CASE ~RunRelease(g)
        BY <2>2, <4>1, <4>3 DEF RunStep, RunStart, RunFinish, RunObserveCancel,
           RunRestoreOverlay, RunSeal, RunClear, RunClose, coordinatorVars, Current
      <4> QED
        BY <4>2, <4>3
    <3>2. xPc[g] \in Holding \cup {"clear"} => g = Current /\ Current # 0
      BY UnfinishedRunIsCurrent
    <3>3. g <= generation \/ xPc[g] # "start"
      BY DEF SessionInv, RunsAreIssued
    <3>4. xSuppressed => Current \in Generations
      BY DEF SessionInv, IdentityIsOwn, NoIdentity, Current
    <3>5. CASE RunStart(g)
      <4>1. g = Current /\ Current # 0 /\ g \in Nat /\ g <= generation
        BY <3>2, <3>3, <3>5 DEF RunStart, Holding, Driving, Generations
      <4>2. Hidden'
        BY <2>0, <3>1, <3>5, <4>1 DEF RunStart
      <4>3. Answered'
        BY <3>1, <3>5 DEF RunStart, SuppressOverlay, xOverlay
      <4>4. Told'
        BY <2>0, <3>1, <3>5, <4>1 DEF RunStart, SuppressOverlay, xOverlay
      <4> QED
        BY <4>2, <4>3, <4>4
    <3>6. CASE RunFinish(g) \/ RunObserveCancel(g)
      <4>1. g = Current /\ Current # 0
        BY <3>2, <3>6 DEF RunFinish, RunObserveCancel, Holding, Driving
      <4> QED
        BY <2>0, <3>1, <3>6, <4>1 DEF RunFinish, RunObserveCancel, xOverlay
    <3>7. CASE RunRestoreOverlay(g)
      <4>1. UNCHANGED xOverlay \/ RestoreOverlay
        BY <3>7 DEF RunRestoreOverlay
      <4>2. Hidden'
        <5>1. ~xSuppressed'
          BY <3>7 DEF RunRestoreOverlay, RestoreOverlay, xOverlay
        <5> QED
          BY <5>1
      <4>3. Answered' /\ Told'
        BY <2>0, <3>1, <4>1 DEF RestoreOverlay, xOverlay
      <4> QED
        BY <4>2, <4>3
    <3>8. CASE RunSeal(g) \/ RunRelease(g) \/ RunClear(g) \/ RunClose(g)
      <4>1. UNCHANGED <<xSuppressed, xControlError, xTucked>>
        BY <3>8 DEF RunSeal, RunRelease, RunClear, RunClose, xOverlay
      <4>2. Hidden'
        BY <2>0, <3>1, <3>4, <3>8, <4>1 DEF RunSeal, RunRelease, RunClear, RunClose
      <4> QED
        BY <3>1, <4>1, <4>2
    <3> QED
      BY <2>2, <3>5, <3>6, <3>7, <3>8 DEF RunStep
  <2>3. ASSUME NEW c \in Clients, CallStep(c) PROVE Hidden' /\ Answered' /\ Told'
    <3>1. UNCHANGED <<generation, xIdentity, xPc, xSuppressed, xControlError, xTucked>>
      BY <2>3 DEF CallStep, OwnedRead, OwnedValidate, OwnedStop, StopAny, StopSection,
                  CallCancel, WaitDone, WaitGiveUp, xState, xGoroutines, xOverlay,
                  coordinatorVars
    <3> QED
      BY <3>1 DEF Current
  <2>4. CASE ForeignStep
    <3>1. UNCHANGED <<xIdentity, xPc, xSuppressed, xControlError, xTucked>>
      BY <2>4 DEF ForeignStep, ForeignAcquire, ForeignHosted, ForeignRelease, xVars, xState,
                  xGoroutines, xOverlay
    <3>2. generation' \in Nat /\ generation <= generation'
      BY <2>0, <2>4 DEF ForeignStep, ForeignAcquire, ForeignHosted, ForeignRelease, Acquire,
                       AcquireHosted, Release
    <3> QED
      BY <2>0, <3>1, <3>2 DEF Current
  <2>5. CASE UNCHANGED vars
    BY <2>5 DEF vars, Current, coordinatorVars, xVars, xState, xGoroutines, xOverlay
  <2> QED
    BY <2>1, <2>2, <2>3, <2>4, <2>5 DEF Next
<1>3. SessionInv /\ Owing => HiddenOverlayIsAnswered
  <2> SUFFICES ASSUME SessionInv, Hidden, Answered, xSuppressed PROVE active = xIdentity
    BY DEF HiddenOverlayIsAnswered
  <2>1. Current \in Generations /\ xPc[Current] \in Holding
    BY DEF SessionInv, IdentityIsOwn, NoIdentity, Current, Holding, Driving
  <2>2. xIdentity = Session("exploration", Current)
    BY <2>1, UnfinishedRunIsCurrent
  <2> QED
    BY <2>1, <2>2 DEF SessionInv, DriverOwnsDevice
<1> QED
  BY <1>1, <1>2, <1>3, SessionInvariant, PTL DEF Spec

(***************************************************************************)
(* The exploration manager and the coordinator implement DeviceLease, for  *)
(* any number of clients, requests and identities.  A run that may touch   *)
(* the device owns it, so the role of a session is what the coordinator's  *)
(* two slots say, and every step is a step of the lease or none.           *)
(***************************************************************************)

\* A goroutine before its release adds nothing to what the coordinator knows.
LEMMA RoleIsStanding ==
  ASSUME SessionInv, NEW g \in Generations
  PROVE  Role(g) = Standing(g)
<1>1. g \in Nat /\ generation \in Nat
  BY MaxGenerationAssumption DEF SessionInv, XTypeOK, CoordinatorTypeOK, Generations
<1>2. xPc[g] \in Holding => active.generation = g
  BY SessionsDiffer DEF SessionInv, DriverOwnsDevice
<1>3. CASE g > generation
  BY <1>1, <1>3 DEF Role, Standing
<1>4. CASE g <= generation /\ active.generation = g
  BY <1>1, <1>4 DEF Role, Standing
<1>5. CASE g <= generation /\ active.generation # g
  BY <1>1, <1>2, <1>5 DEF Role, Standing
<1> QED
  BY <1>1, <1>3, <1>4, <1>5

\* So the lease is the coordinator's.
LEMMA LeaseIsStanding ==
  SessionInv => [g \in Generations |-> Role(g)] = standing
BY RoleIsStanding DEF standing

\* A step of the coordinator's lease is one of the exploration's.
LEMMA LeaseSteps ==
  ASSUME SessionInv, SessionInv', [Slots!LeaseNext]_standing
  PROVE  [Lease!LeaseNext]_[g \in Generations |-> Role(g)]
<1> DEFINE L == [g \in Generations |-> Role(g)]
<1>1. L = standing /\ L' = standing'
  <2>1. (SessionInv => L = standing)'
    BY LeaseIsStanding, PTL
  <2> QED
    BY <2>1, LeaseIsStanding
<1> HIDE DEF L
<1>2. CASE UNCHANGED standing
  <2>1. UNCHANGED L
    BY <1>1, <1>2
  <2> QED
    BY <2>1 DEF L
<1>3. ASSUME NEW s \in Slots!Sessions, Slots!Begin(s)
      PROVE  Lease!Begin(s)
  BY <1>1, <1>3 DEF Lease!Begin, Lease!Fresh, Lease!In, Lease!Sessions,
     Slots!Begin, Slots!Fresh, Slots!In, Slots!Sessions, L
<1>4. ASSUME NEW s \in Slots!Sessions, Slots!BeginGuest(s)
      PROVE  Lease!BeginGuest(s)
  BY <1>1, <1>4 DEF Lease!BeginGuest, Lease!Fresh, Lease!In, Lease!Sessions,
     Slots!BeginGuest, Slots!Fresh, Slots!In, Slots!Sessions, L
<1>5. ASSUME NEW s \in Slots!Sessions, Slots!EndGuest(s)
      PROVE  Lease!EndGuest(s)
  BY <1>1, <1>5 DEF Lease!EndGuest, Slots!EndGuest, L
<1>6. ASSUME NEW s \in Slots!Sessions, Slots!EndHost(s)
      PROVE  Lease!EndHost(s)
  BY <1>1, <1>6 DEF Lease!EndHost, Lease!Sessions, Slots!EndHost, Slots!Sessions, L
<1>7. CASE Slots!LeaseNext
  BY <1>3, <1>4, <1>5, <1>6, <1>7
     DEF Slots!LeaseNext, Lease!LeaseNext, Slots!Sessions, Lease!Sessions
<1> QED
  BY <1>2, <1>7 DEF L

\* The exploration manager, the coordinator and the rest of the agent that shares
\* it are a device lease: one host at a time, one guest under it, and a session
\* that is over never drives again.
THEOREM ExplorationRunsUnderLease == Spec => RunsUnderLease
<1> DEFINE L == [g \in Generations |-> Role(g)]
<1>1. Init => Lease!LeaseInit
  <2> SUFFICES ASSUME Init PROVE Lease!LeaseInit
    OBVIOUS
  <2>1. \A g \in Generations : Role(g) = "new"
    <3>1. \A g \in Generations : Standing(g) = "new"
      BY DEF Init, CoordinatorInit, Standing, Generations
    <3> QED
      BY <3>1, SessionInitially, RoleIsStanding
  <2> QED
    BY <2>1 DEF Lease!LeaseInit, Lease!Sessions, Generations
<1>2. SessionInv /\ SessionInv' /\ [Next]_vars => [Lease!LeaseNext]_L
  <2> SUFFICES ASSUME SessionInv, SessionInv', [Next]_vars PROVE [Lease!LeaseNext]_L
    OBVIOUS
  <2>1. ASSUME NEW request \in Requests, Start(request) PROVE [Lease!LeaseNext]_L
    BY <2>1, AcquireBegins, LeaseSteps DEF Start, Kinds, SessionInv, XTypeOK
  <2>2. ASSUME NEW g \in Generations, RunStep(g) PROVE [Lease!LeaseNext]_L
    <3>1. CASE RunRelease(g)
      BY <3>1, ReleaseEnds, LeaseSteps DEF RunRelease, SessionInv, XTypeOK
    <3>2. CASE ~RunRelease(g)
      BY <2>2, <3>2, CoordinatorIdles, LeaseSteps
         DEF RunStep, RunStart, RunFinish, RunObserveCancel, RunRestoreOverlay, RunSeal,
             RunClear, RunClose
    <3> QED
      BY <3>1, <3>2
  <2>3. ASSUME NEW c \in Clients, CallStep(c) PROVE [Lease!LeaseNext]_L
    BY <2>3, CoordinatorIdles, LeaseSteps
       DEF CallStep, OwnedRead, OwnedValidate, OwnedStop, StopAny, StopSection, CallCancel,
           WaitDone, WaitGiveUp
  <2>4. CASE ForeignStep
    <3>1. CASE \E kind \in Kinds \ {"exploration"} : ForeignAcquire(kind)
      BY <3>1, AcquireBegins, LeaseSteps DEF ForeignAcquire, Kinds, SessionInv, XTypeOK
    <3>2. CASE ForeignHosted
      BY <3>2, AcquireHostedBeginsGuest, LeaseSteps DEF ForeignHosted, Kinds, SessionInv, XTypeOK
    <3>3. CASE \E identity \in Issued : ForeignRelease(identity)
      BY <3>3, ReleaseEnds, LeaseSteps DEF ForeignRelease, SessionInv, XTypeOK
    <3> QED
      BY <2>4, <3>1, <3>2, <3>3 DEF ForeignStep
  <2>5. CASE UNCHANGED vars
    BY <2>5, CoordinatorIdles, LeaseSteps DEF vars
  <2> QED
    BY <2>1, <2>2, <2>3, <2>4, <2>5 DEF Next
<1> QED
  BY <1>1, <1>2, SessionInvariant, PTL DEF Spec, RunsUnderLease, Lease!LeaseSpec
====
