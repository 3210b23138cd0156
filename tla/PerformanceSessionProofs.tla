---- MODULE PerformanceSessionProofs ----
(***************************************************************************)
(* Proofs about PerformanceSession, for any clients and any number of      *)
(* identities: the sampling goroutine works on the state and the device of *)
(* its own session, and a startup is measured alone.                       *)
(*                                                                         *)
(* The goroutine compares nothing when it writes the state.  What makes    *)
(* that safe is spread over three places: the device a start must have     *)
(* acquired, the mutex of the manager that a start and a waiting stop both *)
(* hold, and the order in which a session ends.  SamplerInv says what each *)
(* of them contributes.                                                    *)
(***************************************************************************)
EXTENDS PerformanceSession, CoordinatorProofs

\* A call that starts, measures or waits holds the mutex of the manager.
MutexIsHeld ==
  \A c \in Callers : call[c].pc \in {"prepare", "measure", "wait"} => operation = c

\* A session that is being prepared is new: it has no goroutine yet.
PreparedIsNew ==
  \A c \in Clients : call[c].pc = "prepare" =>
    call[c].session \in Generations /\ sRun[call[c].session] = "none"

\* A stop waits for the session that samples, if one does.
WaiterWaitsForSampler ==
  \A c \in Callers, g \in Generations :
    call[c].pc = "wait" /\ sRun[g] \in Sampling => call[c].session = g

\* A startup measurement holds the device.
MeasurerOwnsDevice ==
  \A c \in Clients : call[c].pc = "measure" => active = Session("startup", call[c].session)

RunsAreIssued == \A g \in Generations : sRun[g] # "none" => g <= generation

SamplerInv ==
  /\ TypeOK
  /\ CoordinatorInv
  /\ StateIsSamplers
  /\ SamplerOwnsDevice
  /\ EvidenceOfSession
  /\ MutexIsHeld
  /\ PreparedIsNew
  /\ WaiterWaitsForSampler
  /\ MeasurerOwnsDevice
  /\ RunsAreIssued

-----------------------------------------------------------------------------

\* Sessions of two generations, or of two kinds, are two sessions.
LEMMA SessionsDiffer ==
  ASSUME NEW kind, NEW kind2, NEW g, NEW h
  PROVE  /\ Session(kind, g).generation = g
         /\ Session(kind, g).kind = kind
         /\ g # h => Session(kind, g) # Session(kind2, h)
         /\ kind # kind2 => Session(kind, g) # Session(kind2, h)
         /\ kind # "none" => Session(kind, g) # NoIdentity
BY DEF Session, NoIdentity

\* The initial state has no session.
LEMMA InitSatisfies == Init => SamplerInv
<1> SUFFICES ASSUME Init PROVE SamplerInv
  OBVIOUS
<1>1. CoordinatorTypeOK /\ CoordinatorInv /\ generation = 0 /\ active = NoIdentity
  BY CoordinatorInitially DEF Init, CoordinatorInit
<1>2. 0 \in 0 .. MaxGeneration
  BY MaxGenerationAssumption
<1>3. TypeOK
  BY <1>1, <1>2 DEF Init, TypeOK, NoCall, Callers, Holders
<1> QED
  BY <1>1, <1>3 DEF Init, SamplerInv, StateIsSamplers, SamplerOwnsDevice, EvidenceOfSession,
     MutexIsHeld, PreparedIsNew, WaiterWaitsForSampler, MeasurerOwnsDevice, RunsAreIssued,
     NoCall, NoIdentity, Sampling, Callers

-----------------------------------------------------------------------------
(* Steps of the calls.                                                     *)

\* Return: the call is idle, and what it holds is free.
LEMMA ReturnIsTyped ==
  ASSUME TypeOK, MutexIsHeld, NEW c \in Callers, Return(c)
  PROVE  /\ call' \in [Callers -> [pc : {"idle", "prepare", "measure", "validate", "stop",
                                         "wait"}, session : 0 .. MaxGeneration]]
         /\ \A d \in Callers : call'[d] = IF d = c THEN NoCall ELSE call[d]
         /\ gate' \in Clients \cup {"free"}
         /\ operation' \in Holders
         /\ shuttingDown' \in BOOLEAN
         /\ MutexIsHeld'
<1>1. 0 \in 0 .. MaxGeneration
  BY MaxGenerationAssumption
<1>2. \A d \in Callers : call'[d] = IF d = c THEN NoCall ELSE call[d]
  BY DEF TypeOK, Return
<1>3. MutexIsHeld'
  BY <1>2, HolderAssumption DEF MutexIsHeld, Return, NoCall, TypeOK, Callers
<1> QED
  BY <1>1, <1>2, <1>3 DEF TypeOK, Return, NoCall, Holders

\* A step that leaves the session alone and ends, or begins, no start,
\* measurement or wait, preserves the invariant.
LEMMA OtherCallsPreserve ==
  ASSUME SamplerInv, TypeOK', MutexIsHeld',
         UNCHANGED <<coordinatorVars, managerVars, sRun>>,
         \A d \in Callers : call'[d].pc \in {"prepare", "measure", "wait"} => call'[d] = call[d]
  PROVE  SamplerInv'
<1>1. Clients \subseteq Callers
  BY DEF Callers
<1>2. CoordinatorInv' /\ StateIsSamplers' /\ EvidenceOfSession' /\ RunsAreIssued'
  BY DEF SamplerInv, CoordinatorInv, coordinatorVars, managerVars, StateIsSamplers,
     EvidenceOfSession, RunsAreIssued, Owned
<1>3. SamplerOwnsDevice' /\ PreparedIsNew' /\ MeasurerOwnsDevice'
  BY <1>1 DEF SamplerInv, SamplerOwnsDevice, PreparedIsNew, MeasurerOwnsDevice,
     coordinatorVars, managerVars
<1>4. WaiterWaitsForSampler'
  BY DEF SamplerInv, WaiterWaitsForSampler
<1> QED
  BY <1>2, <1>3, <1>4 DEF SamplerInv

\* The steps of a stop up to its wait, and the calls that end without one.
LEMMA StopStepsPreserve ==
  ASSUME SamplerInv, NEW c \in Callers,
         \/ c \in Clients /\ \E token \in Issued : StopOwned(c, token)
         \/ c \in Clients /\ (Validate(c) \/ StopServices(c))
         \/ BeginShutdown
         \/ c = "main" /\ MainStop
         \/ NothingToStop(c)
         \/ GiveUp(c)
  PROVE  SamplerInv'
<1>1. TypeOK /\ MutexIsHeld /\ c \in Callers /\ 0 \in 0 .. MaxGeneration
  BY MaxGenerationAssumption DEF SamplerInv
<1>2. ASSUME Return(c), UNCHANGED <<coordinatorVars, managerVars, sRun, sCancelled>>
      PROVE  SamplerInv'
  <2>1. TypeOK' /\ MutexIsHeld'
    BY <1>1, <1>2, ReturnIsTyped DEF TypeOK, CoordinatorTypeOK, coordinatorVars, managerVars
  <2>2. \A d \in Callers : call'[d] = IF d = c THEN NoCall ELSE call[d]
    BY <1>1, <1>2, ReturnIsTyped
  <2>3. \A d \in Callers : call'[d].pc \in {"prepare", "measure", "wait"} => call'[d] = call[d]
    BY <2>2 DEF NoCall
  <2> QED
    BY <1>2, <2>1, <2>3, OtherCallsPreserve
<1>3. ASSUME NEW pc \in {"validate", "stop"}, NEW session \in 0 .. MaxGeneration,
             Goto(c, pc, session), gate' \in Clients \cup {"free"},
             UNCHANGED <<coordinatorVars, operation, shuttingDown, managerVars, sRun, sCancelled>>
      PROVE  SamplerInv'
  <2>1. /\ call' \in [Callers -> [pc : {"idle", "prepare", "measure", "validate", "stop",
                                         "wait"}, session : 0 .. MaxGeneration]]
        /\ \A d \in Callers :
             call'[d] = IF d = c THEN [pc |-> pc, session |-> session] ELSE call[d]
    BY <1>1, <1>3 DEF TypeOK, Goto
  <2>2. TypeOK'
    BY <1>1, <1>3, <2>1 DEF TypeOK, CoordinatorTypeOK, coordinatorVars, managerVars
  <2>3. \A d \in Callers : call'[d].pc \in {"prepare", "measure", "wait"} => call'[d] = call[d]
    BY <2>1
  <2>4. MutexIsHeld'
    BY <1>1, <1>3, <2>3 DEF MutexIsHeld
  <2> QED
    BY <1>3, <2>2, <2>3, <2>4, OtherCallsPreserve
<1>4. CASE BeginShutdown
  <2>1. TypeOK' /\ MutexIsHeld'
    BY <1>1, <1>4 DEF BeginShutdown, TypeOK, CoordinatorTypeOK, coordinatorVars, managerVars,
       MutexIsHeld
  <2> QED
    BY <1>4, <2>1, OtherCallsPreserve DEF BeginShutdown
<1>5. CASE NothingToStop(c) \/ GiveUp(c)
  BY <1>2, <1>5 DEF NothingToStop, GiveUp
<1>6. CASE c = "main" /\ MainStop
  BY <1>1, <1>3, <1>6 DEF MainStop, TypeOK
<1>7. CASE c \in Clients /\ StopServices(c)
  BY <1>1, <1>3, <1>7 DEF StopServices
<1>8. CASE c \in Clients /\ Validate(c)
  <2>1. call[c].session \in 0 .. MaxGeneration
    BY <1>1 DEF TypeOK
  <2>2. gate \in Clients \cup {"free"}
    BY <1>1 DEF TypeOK
  <2> QED
    BY <1>2, <1>3, <1>8, <2>1, <2>2 DEF Validate
<1>9. CASE c \in Clients /\ \E token \in Issued : StopOwned(c, token)
  <2>1. PICK token \in Issued : StopOwned(c, token)
    BY <1>9
  <2>2. token.generation \in 0 .. MaxGeneration
    BY MaxGenerationAssumption DEF Issued, Identity, Generations
  <2>3. gate' \in Clients \cup {"free"}
    BY <1>9, <2>1 DEF StopOwned
  <2> QED
    BY <1>3, <2>1, <2>2, <2>3 DEF StopOwned
<1> QED
  BY <1>4, <1>5, <1>6, <1>7, <1>8, <1>9

Busy == {"prepare", "measure", "wait"}

\* The device belongs to one session: at most one goroutine has not given it
\* back, and none has while it is free or another session's.
LEMMA OneSampler ==
  ASSUME SamplerInv, NEW g \in Generations, sRun[g] \in Sampling \cup {"release"}
  PROVE  /\ active = Session("performance", g)
         /\ active # NoIdentity
         /\ \A h \in Generations : sRun[h] \in Sampling \cup {"release"} => h = g
<1>1. \A h \in Generations :
        sRun[h] \in Sampling \cup {"release"} => active = Session("performance", h)
  BY DEF SamplerInv, SamplerOwnsDevice
<1> QED
  BY <1>1, SessionsDiffer

\* A call that holds the mutex is the only one that starts, measures or waits.
LEMMA LastCallEnds ==
  ASSUME SamplerInv, NEW c \in Callers, call[c].pc \in Busy, Return(c)
  PROVE  \A d \in Callers : call'[d].pc \notin Busy
<1>1. \A d \in Callers : call'[d] = IF d = c THEN NoCall ELSE call[d]
  BY ReturnIsTyped DEF SamplerInv
<1>2. \A d \in Callers : call[d].pc \in Busy => d = c
  BY DEF SamplerInv, MutexIsHeld, Busy
<1> QED
  BY <1>1, <1>2 DEF NoCall, Busy

\* Nobody starts, measures or waits while the mutex is free.
LEMMA MutexIsFree ==
  ASSUME SamplerInv, operation = "free"
  PROVE  \A d \in Callers : call[d].pc \notin Busy
BY HolderAssumption DEF SamplerInv, MutexIsHeld, Busy, Callers

\* StartConfig, MeasureStartup: the device was free, so that nothing samples,
\* and the identity is new, so that no goroutine has it.
LEMMA EnterPreserves ==
  ASSUME SamplerInv, NEW c \in Clients, StartConfig(c) \/ MeasureStartup(c)
  PROVE  SamplerInv'
<1>1. PICK kind \in {"performance", "startup"},
           pc \in {"prepare", "measure"} :
        /\ kind = "performance" <=> pc = "prepare"
        /\ Admits /\ Acquire(kind) /\ Enter(c, pc, NewIdentity(kind))
  BY DEF StartConfig, MeasureStartup
<1>2. kind \in Kinds /\ c \in Callers
  BY <1>1 DEF Kinds, Callers
<1>3. /\ CoordinatorTypeOK' /\ CoordinatorInv'
      /\ active = NoIdentity
      /\ generation' = generation + 1
      /\ generation' \in Generations
      /\ active' = Session(kind, generation')
  BY <1>1, <1>2, AcquireTakesFreeDevice DEF SamplerInv, TypeOK
<1>4. NewIdentity(kind) = active' /\ NewIdentity(kind).generation = generation'
  BY <1>3, SessionsDiffer DEF NewIdentity
<1>5. \A g \in Generations : sRun[g] \notin Sampling \cup {"release"}
  BY <1>3, OneSampler
<1>6. sRun[generation'] = "none"
  <2>1. generation \in Int
    BY DEF SamplerInv, TypeOK, CoordinatorTypeOK
  <2> QED
    BY <1>3, <2>1 DEF SamplerInv, RunsAreIssued
<1>7. \A d \in Callers :
        call'[d] = IF d = c THEN [pc |-> pc, session |-> generation'] ELSE call[d]
  BY <1>1, <1>4 DEF Enter, Goto, SamplerInv, TypeOK
<1>8. \A d \in Callers : d # c => call'[d].pc \notin Busy
  BY <1>1, <1>7, MutexIsFree DEF Admits
<1>9. TypeOK'
  <2>1. generation' \in 0 .. MaxGeneration
    BY <1>3 DEF CoordinatorTypeOK
  <2>2. call' \in [Callers -> [pc : {"idle", "prepare", "measure", "validate", "stop",
                                      "wait"}, session : 0 .. MaxGeneration]]
    BY <1>1, <1>4, <2>1 DEF Enter, Goto, SamplerInv, TypeOK
  <2> QED
    BY <1>1, <1>2, <1>3, <2>2 DEF Enter, SamplerInv, TypeOK, managerVars, Holders
<1>10. StateIsSamplers' /\ EvidenceOfSession' /\ WaiterWaitsForSampler'
  BY <1>1, <1>5 DEF Enter, managerVars, SamplerInv, StateIsSamplers, EvidenceOfSession,
     WaiterWaitsForSampler
<1>11. MutexIsHeld'
  BY <1>1, <1>8 DEF Enter, MutexIsHeld, Busy
<1>12. SamplerOwnsDevice' /\ PreparedIsNew' /\ MeasurerOwnsDevice'
  <2>1. \A d \in Clients : d # c => call'[d].pc \notin Busy
    BY <1>8 DEF Callers
  <2>2. call'[c] = [pc |-> pc, session |-> generation'] /\ sRun' = sRun
    BY <1>1, <1>2, <1>7 DEF Enter
  <2> QED
    BY <1>1, <1>3, <1>5, <1>6, <2>1, <2>2
       DEF SamplerOwnsDevice, PreparedIsNew, MeasurerOwnsDevice, Busy
<1>13. RunsAreIssued'
  <2>1. generation \in Int
    BY DEF SamplerInv, TypeOK, CoordinatorTypeOK
  <2> QED
    BY <1>1, <1>3, <2>1 DEF Enter, SamplerInv, RunsAreIssued, Generations
<1> QED
  BY <1>3, <1>9, <1>10, <1>11, <1>12, <1>13 DEF SamplerInv

\* StartFails, Measured: the device goes back, and nothing was sampling on it.
LEMMA StartEndsPreserve ==
  ASSUME SamplerInv, NEW c \in Clients, StartFails(c) \/ Measured(c)
  PROVE  SamplerInv'
<1>1. c \in Callers
  BY DEF Callers
<1>2. PICK kind \in {"performance", "startup"} :
        /\ active = Session(kind, call[c].session)
        /\ Release(active)
        /\ call[c].pc \in Busy
        /\ kind = "performance" => sRun[call[c].session] = "none"
        /\ Return(c)
        /\ report' \in {report, Unissued}
        /\ UNCHANGED <<sRunning, sIdentity, sEvidence, sCancel, sDone, sRun, sCancelled>>
  BY DEF StartFails, Measured, SamplerInv, SamplerOwnsDevice, PreparedIsNew, MeasurerOwnsDevice,
     managerVars, Busy
<1>3. CoordinatorTypeOK' /\ CoordinatorInv' /\ generation' = generation
  BY <1>2, ReleaseFreesOnlyIdentity DEF SamplerInv, TypeOK
<1>4. \A g \in Generations : sRun[g] \notin Sampling \cup {"release"}
  <2> SUFFICES ASSUME NEW g \in Generations, sRun[g] \in Sampling \cup {"release"}
               PROVE  FALSE
    OBVIOUS
  <2>1. Session("performance", g) = Session(kind, call[c].session)
    BY <1>2, OneSampler
  <2>2. kind = "performance" /\ g = call[c].session
    BY <2>1, SessionsDiffer
  <2> QED
    BY <1>2, <2>2 DEF Sampling
<1>5. \A d \in Callers : call'[d].pc \notin Busy
  BY <1>1, <1>2, LastCallEnds
<1>6. TypeOK' /\ MutexIsHeld'
  <2>1. /\ call' \in [Callers -> [pc : {"idle", "prepare", "measure", "validate", "stop",
                                         "wait"}, session : 0 .. MaxGeneration]]
        /\ gate' \in Clients \cup {"free"}
        /\ operation' \in Holders
        /\ shuttingDown' \in BOOLEAN
        /\ MutexIsHeld'
    BY <1>1, <1>2, ReturnIsTyped DEF SamplerInv
  <2> QED
    BY <1>2, <1>3, <2>1 DEF SamplerInv, TypeOK
<1>7. StateIsSamplers' /\ EvidenceOfSession' /\ RunsAreIssued'
  BY <1>2, <1>3, <1>4 DEF SamplerInv, StateIsSamplers, EvidenceOfSession, RunsAreIssued
<1>8. SamplerOwnsDevice' /\ PreparedIsNew' /\ MeasurerOwnsDevice' /\ WaiterWaitsForSampler'
  BY <1>2, <1>4, <1>5 DEF SamplerOwnsDevice, PreparedIsNew, MeasurerOwnsDevice,
     WaiterWaitsForSampler, Busy, Callers
<1> QED
  BY <1>3, <1>6, <1>7, <1>8 DEF SamplerInv

\* Publish: the state replaced as a whole is that of the only goroutine.
LEMMA PublishPreserves ==
  ASSUME SamplerInv, NEW c \in Clients, Publish(c)
  PROVE  SamplerInv'
<1> DEFINE h == call[c].session
<1>1. c \in Callers /\ 0 \in 0 .. MaxGeneration
  BY MaxGenerationAssumption DEF Callers
<1>2. /\ h \in Generations /\ h \in 0 .. MaxGeneration
      /\ sRun[h] = "none"
      /\ active = Session("performance", h)
      /\ call[c].pc \in Busy
  BY DEF Publish, SamplerInv, SamplerOwnsDevice, PreparedIsNew, Busy, Generations
<1>3. h <= generation
  BY <1>2 DEF SamplerInv, CoordinatorInv, Session
<1>4. \A g \in Generations : sRun[g] \notin Sampling \cup {"release"}
  <2> SUFFICES ASSUME NEW g \in Generations, sRun[g] \in Sampling \cup {"release"}
               PROVE  FALSE
    OBVIOUS
  <2>1. Session("performance", g) = Session("performance", h)
    BY <1>2, OneSampler
  <2>2. g = h
    BY <2>1, SessionsDiffer
  <2> QED
    BY <1>2, <2>2 DEF Sampling
<1>5. \A d \in Callers : call'[d].pc \notin Busy
  BY <1>1, <1>2, LastCallEnds DEF Publish
<1>6. \A g \in Generations : sRun'[g] = IF g = h THEN "sample" ELSE sRun[g]
  BY DEF Publish, SamplerInv, TypeOK
<1>7. TypeOK' /\ MutexIsHeld'
  <2>1. /\ call' \in [Callers -> [pc : {"idle", "prepare", "measure", "validate", "stop",
                                         "wait"}, session : 0 .. MaxGeneration]]
        /\ gate' \in Clients \cup {"free"}
        /\ operation' \in Holders
        /\ shuttingDown' \in BOOLEAN
        /\ MutexIsHeld'
    BY <1>1, ReturnIsTyped DEF SamplerInv, Publish
  <2>2. Session("performance", h) \in Identity
    BY <1>2 DEF Session, Identity, Kinds
  <2>3. CoordinatorTypeOK'
    BY DEF Publish, coordinatorVars, SamplerInv, TypeOK, CoordinatorTypeOK
  <2>4. sRun' \in [Generations -> {"none", "sample", "summary", "index", "finish", "release",
                                   "close", "ended"}]
    BY DEF Publish, SamplerInv, TypeOK
  <2> QED
    BY <1>1, <1>2, <2>1, <2>2, <2>3, <2>4 DEF Publish, SamplerInv, TypeOK
<1>8. StateIsSamplers' /\ EvidenceOfSession'
  BY <1>4, <1>6 DEF Publish, StateIsSamplers, EvidenceOfSession, Sampling
<1>9. SamplerOwnsDevice' /\ PreparedIsNew' /\ MeasurerOwnsDevice' /\ WaiterWaitsForSampler'
  BY <1>2, <1>4, <1>5, <1>6 DEF Publish, coordinatorVars, SamplerOwnsDevice, PreparedIsNew,
     MeasurerOwnsDevice, WaiterWaitsForSampler, Busy, Callers
<1>10. RunsAreIssued' /\ CoordinatorInv'
  BY <1>3, <1>6 DEF Publish, coordinatorVars, SamplerInv, RunsAreIssued, CoordinatorInv, Owned
<1> QED
  BY <1>7, <1>8, <1>9, <1>10 DEF SamplerInv

\* Cancel: the channel the call waits for is the sampler's, if there is one.
LEMMA CancelPreserves ==
  ASSUME SamplerInv, NEW c \in Callers, Cancel(c)
  PROVE  SamplerInv'
<1>1. \A d \in Callers : call[d].pc \notin Busy
  BY MutexIsFree DEF Cancel
<1>2. sDone \in 0 .. MaxGeneration
  BY DEF SamplerInv, TypeOK
<1>3. /\ call' \in [Callers -> [pc : {"idle", "prepare", "measure", "validate", "stop",
                                       "wait"}, session : 0 .. MaxGeneration]]
      /\ \A d \in Callers : call'[d] = IF d = c THEN [pc |-> "wait", session |-> sDone]
                                       ELSE call[d]
  BY <1>2 DEF Cancel, Goto, SamplerInv, TypeOK
<1>4. TypeOK'
  <2>1. sCancel \in Generations
    BY MaxGenerationAssumption DEF Cancel, SamplerInv, TypeOK, Generations
  <2>2. CoordinatorTypeOK'
    BY DEF Cancel, coordinatorVars, SamplerInv, TypeOK, CoordinatorTypeOK
  <2> QED
    BY <1>3, <2>1, <2>2 DEF Cancel, SamplerInv, TypeOK, managerVars, Holders
<1>5. StateIsSamplers' /\ EvidenceOfSession' /\ RunsAreIssued' /\ CoordinatorInv'
  BY DEF Cancel, coordinatorVars, managerVars, SamplerInv, StateIsSamplers, EvidenceOfSession,
     RunsAreIssued, CoordinatorInv, Owned
<1>6. MutexIsHeld'
  BY <1>1, <1>3 DEF Cancel, MutexIsHeld, Busy
<1>7. SamplerOwnsDevice' /\ PreparedIsNew' /\ MeasurerOwnsDevice'
  BY <1>1, <1>3 DEF Cancel, coordinatorVars, SamplerInv, SamplerOwnsDevice, PreparedIsNew,
     MeasurerOwnsDevice, Busy, Callers
<1>8. WaiterWaitsForSampler'
  BY <1>1, <1>3 DEF Cancel, SamplerInv, StateIsSamplers, WaiterWaitsForSampler, Busy
<1> QED
  BY <1>4, <1>5, <1>6, <1>7, <1>8 DEF SamplerInv

\* StopReturns: the session waited for has ended, so that nothing samples.
LEMMA StopReturnsPreserves ==
  ASSUME SamplerInv, NEW c \in Callers, StopReturns(c)
  PROVE  SamplerInv'
<1>1. \A g \in Generations : sRun[g] \notin Sampling
  BY DEF StopReturns, SamplerInv, WaiterWaitsForSampler, Sampling
<1>2. \A d \in Callers : call'[d].pc \notin Busy
  BY LastCallEnds DEF StopReturns, Busy
<1>3. TypeOK' /\ MutexIsHeld'
  <2>1. /\ call' \in [Callers -> [pc : {"idle", "prepare", "measure", "validate", "stop",
                                         "wait"}, session : 0 .. MaxGeneration]]
        /\ gate' \in Clients \cup {"free"}
        /\ operation' \in Holders
        /\ shuttingDown' \in BOOLEAN
        /\ MutexIsHeld'
    BY ReturnIsTyped DEF SamplerInv, StopReturns
  <2>2. CoordinatorTypeOK'
    BY DEF StopReturns, coordinatorVars, SamplerInv, TypeOK, CoordinatorTypeOK
  <2>3. 0 \in 0 .. MaxGeneration
    BY MaxGenerationAssumption
  <2> QED
    BY <2>1, <2>2, <2>3 DEF StopReturns, SamplerInv, TypeOK
<1>4. StateIsSamplers' /\ EvidenceOfSession' /\ RunsAreIssued' /\ CoordinatorInv'
  BY <1>1 DEF StopReturns, coordinatorVars, SamplerInv, StateIsSamplers, EvidenceOfSession,
     RunsAreIssued, CoordinatorInv, Owned
<1>5. SamplerOwnsDevice'
  BY <1>2 DEF StopReturns, coordinatorVars, SamplerInv, SamplerOwnsDevice, Busy, Callers
<1>6. PreparedIsNew' /\ MeasurerOwnsDevice' /\ WaiterWaitsForSampler'
  BY <1>2 DEF PreparedIsNew, MeasurerOwnsDevice, WaiterWaitsForSampler, Busy, Callers
<1> QED
  BY <1>3, <1>4, <1>5, <1>6 DEF SamplerInv

-----------------------------------------------------------------------------
(* Steps of the goroutines, and of the other sessions of the device.       *)

\* A step of a goroutine that neither starts nor gives back anything; what it
\* does to the state while it is the sampler, it does to its own.
LEMMA SealingPreserves ==
  ASSUME SamplerInv, NEW g \in Generations,
         Sampled(g) \/ WriteSummary(g) \/ WriteIndex(g) \/ Finish(g) \/ Close(g)
  PROVE  SamplerInv'
<1>1. PICK to \in {"summary", "index", "finish", "release", "ended"} :
        /\ sRun' = [sRun EXCEPT ![g] = to]
        /\ to # "ended" => sRun[g] \in Sampling
        /\ to = "ended" => sRun[g] = "close"
        /\ to = "release" \/ UNCHANGED <<sRunning, sCancel>>
        /\ sRunning' \in BOOLEAN /\ sCancel' \in {0, sCancel}
        /\ sEvidence' = sEvidence \/ (sRun[g] \in Sampling /\ sEvidence' = g)
        /\ UNCHANGED <<coordinatorVars, handlerVars, sIdentity, sDone, report, sCancelled>>
  BY DEF Sampled, WriteSummary, WriteIndex, Finish, Close, RunGoto, managerVars, Sampling,
     SamplerInv, TypeOK
<1>2. \A h \in Generations : sRun'[h] = IF h = g THEN to ELSE sRun[h]
  BY <1>1 DEF SamplerInv, TypeOK
<1>3. \A h \in Generations : sRun[g] \in Sampling /\ sRun[h] \in Sampling => h = g
  BY OneSampler
<1>4. sRun[g] # "none" /\ (to \in Sampling \cup {"release"} => sRun[g] \in Sampling)
  BY <1>1 DEF Sampling
<1>5. TypeOK'
  <2>1. CoordinatorTypeOK'
    BY <1>1 DEF coordinatorVars, SamplerInv, TypeOK, CoordinatorTypeOK
  <2>2. sRun' \in [Generations -> {"none", "sample", "summary", "index", "finish", "release",
                                   "close", "ended"}]
    BY <1>1 DEF SamplerInv, TypeOK
  <2>3. 0 \in 0 .. MaxGeneration /\ g \in 0 .. MaxGeneration
    BY MaxGenerationAssumption DEF Generations
  <2> QED
    BY <1>1, <2>1, <2>2, <2>3 DEF handlerVars, SamplerInv, TypeOK
<1>6. StateIsSamplers'
  <2> SUFFICES ASSUME NEW h \in Generations, sRun'[h] \in Sampling
               PROVE  /\ sRunning' /\ sIdentity' = Session("performance", h)
                      /\ sCancel' = h /\ sDone' = h
    BY DEF StateIsSamplers
  <2>1. sRun[h] \in Sampling
    BY <1>2, <1>4 DEF Sampling
  <2>2. to # "release"
    BY <1>1, <1>2, <1>3, <2>1 DEF Sampling
  <2> QED
    BY <1>1, <2>1, <2>2 DEF SamplerInv, StateIsSamplers
<1>7. EvidenceOfSession'
  <2>1. sRun[g] \in Sampling => sIdentity.generation = g
    BY SessionsDiffer DEF SamplerInv, StateIsSamplers
  <2> QED
    BY <1>1, <2>1 DEF SamplerInv, EvidenceOfSession
<1>8. SamplerOwnsDevice'
  <2>1. \A h \in Generations :
          sRun'[h] \in Sampling \cup {"release"} => sRun[h] \in Sampling \cup {"release"}
    BY <1>2, <1>4
  <2> QED
    BY <1>1, <2>1 DEF coordinatorVars, handlerVars, SamplerInv, SamplerOwnsDevice
<1>9. PreparedIsNew' /\ MeasurerOwnsDevice' /\ MutexIsHeld'
  BY <1>1, <1>2, <1>4 DEF coordinatorVars, handlerVars, SamplerInv, PreparedIsNew,
     MeasurerOwnsDevice, MutexIsHeld
<1>10. WaiterWaitsForSampler'
  BY <1>1, <1>2, <1>4 DEF handlerVars, SamplerInv, WaiterWaitsForSampler, Sampling
<1>11. RunsAreIssued' /\ CoordinatorInv'
  BY <1>1, <1>2, <1>4 DEF coordinatorVars, SamplerInv, RunsAreIssued, CoordinatorInv, Owned
<1> QED
  BY <1>5, <1>6, <1>7, <1>8, <1>9, <1>10, <1>11 DEF SamplerInv

\* FinishReleases: the device it frees is its own, so that no start and no
\* measurement loses it.
LEMMA FinishReleasesPreserves ==
  ASSUME SamplerInv, NEW g \in Generations, FinishReleases(g)
  PROVE  SamplerInv'
<1>1. CoordinatorTypeOK' /\ CoordinatorInv' /\ generation' = generation
  BY ReleaseFreesOnlyIdentity DEF FinishReleases, SamplerInv, TypeOK
<1>2. /\ active = Session("performance", g)
      /\ \A h \in Generations : sRun[h] \notin Sampling
  BY OneSampler DEF FinishReleases, Sampling
<1>3. \A h \in Generations : sRun'[h] = IF h = g THEN "close" ELSE sRun[h]
  BY DEF FinishReleases, RunGoto, SamplerInv, TypeOK
<1>4. \A h \in Generations : sRun'[h] \notin Sampling \cup {"release"}
  BY <1>2, <1>3, OneSampler DEF FinishReleases, Sampling
<1>5. \A c \in Clients : call[c].pc \notin {"prepare", "measure"}
  <2> SUFFICES ASSUME NEW c \in Clients, call[c].pc \in {"prepare", "measure"} PROVE FALSE
    OBVIOUS
  <2>1. CASE call[c].pc = "prepare"
    <3>1. Session("performance", g) = Session("performance", call[c].session)
      BY <1>2, <2>1 DEF SamplerInv, SamplerOwnsDevice
    <3>2. call[c].session = g /\ sRun[call[c].session] = "none"
      BY <2>1, <3>1, SessionsDiffer DEF SamplerInv, PreparedIsNew
    <3> QED
      BY <3>2 DEF FinishReleases
  <2>2. CASE call[c].pc = "measure"
    <3>1. Session("performance", g) = Session("startup", call[c].session)
      BY <1>2, <2>2 DEF SamplerInv, MeasurerOwnsDevice
    <3> QED
      BY <3>1, SessionsDiffer
  <2> QED
    BY <2>1, <2>2
<1>6. TypeOK'
  <2>1. sRun' \in [Generations -> {"none", "sample", "summary", "index", "finish", "release",
                                   "close", "ended"}]
    BY DEF FinishReleases, RunGoto, SamplerInv, TypeOK
  <2> QED
    BY <1>1, <2>1 DEF FinishReleases, handlerVars, managerVars, SamplerInv, TypeOK
<1>7. StateIsSamplers' /\ WaiterWaitsForSampler' /\ SamplerOwnsDevice'
  BY <1>4, <1>5 DEF FinishReleases, handlerVars, StateIsSamplers, WaiterWaitsForSampler,
     SamplerOwnsDevice
<1>8. PreparedIsNew' /\ MeasurerOwnsDevice' /\ MutexIsHeld' /\ EvidenceOfSession'
  BY <1>5 DEF FinishReleases, handlerVars, managerVars, SamplerInv, PreparedIsNew,
     MeasurerOwnsDevice, MutexIsHeld, EvidenceOfSession
<1>9. RunsAreIssued'
  BY <1>1, <1>3 DEF FinishReleases, SamplerInv, RunsAreIssued
<1> QED
  BY <1>1, <1>6, <1>7, <1>8, <1>9 DEF SamplerInv

\* OtherAcquires finds the device free, and OtherReleases frees at most the
\* device of another kind of session: no sampler, start or measurement is hit.
LEMMA OthersPreserve ==
  ASSUME SamplerInv, OtherAcquires \/ \E identity \in Issued : OtherReleases(identity)
  PROVE  SamplerInv'
<1> DEFINE Spared ==
      /\ CoordinatorTypeOK' /\ CoordinatorInv' /\ generation <= generation'
      /\ \A kind \in {"performance", "startup"} : \A h :
           active = Session(kind, h) => active' = active
      /\ UNCHANGED <<handlerVars, managerVars, sRun, sCancelled>>
<1>1. Spared
  <2>0. generation \in Int
    BY DEF SamplerInv, TypeOK, CoordinatorTypeOK
  <2>1. CASE OtherAcquires
    <3>1. "exploration" \in Kinds
      BY DEF Kinds
    <3>2. /\ CoordinatorTypeOK' /\ CoordinatorInv'
          /\ active = NoIdentity /\ generation' = generation + 1
      BY <2>1, <3>1, AcquireTakesFreeDevice DEF OtherAcquires, SamplerInv, TypeOK
    <3>3. \A kind \in {"performance", "startup"} : \A h : active # Session(kind, h)
      BY <3>2, SessionsDiffer
    <3> QED
      BY <2>0, <2>1, <3>2, <3>3 DEF OtherAcquires
  <2>2. ASSUME NEW identity \in Issued, OtherReleases(identity)
        PROVE  Spared
    <3>1. /\ CoordinatorTypeOK' /\ CoordinatorInv' /\ generation' = generation
          /\ active' = IF active = identity THEN NoIdentity ELSE active
      BY <2>2, ReleaseFreesOnlyIdentity DEF OtherReleases, SamplerInv, TypeOK
    <3>2. \A kind \in {"performance", "startup"} : \A h : Session(kind, h) # identity
      BY <2>2, SessionsDiffer DEF OtherReleases
    <3> QED
      BY <2>0, <2>2, <3>1, <3>2 DEF OtherReleases
  <2> QED
    BY <2>1, <2>2
<1>2. TypeOK'
  BY <1>1 DEF handlerVars, managerVars, SamplerInv, TypeOK
<1>3. StateIsSamplers' /\ EvidenceOfSession' /\ MutexIsHeld' /\ PreparedIsNew'
      /\ WaiterWaitsForSampler'
  BY <1>1 DEF handlerVars, managerVars, SamplerInv, StateIsSamplers, EvidenceOfSession,
     MutexIsHeld, PreparedIsNew, WaiterWaitsForSampler
<1>4. SamplerOwnsDevice' /\ MeasurerOwnsDevice'
  BY <1>1 DEF handlerVars, SamplerInv, SamplerOwnsDevice, MeasurerOwnsDevice
<1>5. RunsAreIssued'
  <2>1. generation \in Int /\ generation' \in Int
    BY <1>1 DEF SamplerInv, TypeOK, CoordinatorTypeOK
  <2> QED
    BY <1>1, <2>1 DEF SamplerInv, RunsAreIssued, Generations
<1> QED
  BY <1>1, <1>2, <1>3, <1>4, <1>5 DEF SamplerInv

-----------------------------------------------------------------------------
(* The theorems.                                                           *)

\* Every step preserves the invariant.
LEMMA SamplerInvPreserved == SamplerInv /\ [Next]_vars => SamplerInv'
<1> SUFFICES ASSUME SamplerInv, [Next]_vars PROVE SamplerInv'
  OBVIOUS
<1>1. ASSUME NEW c \in Clients, ClientStep(c) PROVE SamplerInv'
  <2>1. c \in Callers
    BY DEF Callers
  <2>2. CASE StartConfig(c) \/ MeasureStartup(c)
    BY <2>2, EnterPreserves
  <2>3. CASE StartFails(c) \/ Measured(c)
    BY <2>3, StartEndsPreserve
  <2>4. CASE Publish(c)
    BY <2>4, PublishPreserves
  <2>5. CASE (\E token \in Issued : StopOwned(c, token)) \/ Validate(c) \/ StopServices(c)
    BY <2>1, <2>5, StopStepsPreserve
  <2> QED
    BY <1>1, <2>2, <2>3, <2>4, <2>5 DEF ClientStep
<1>2. ASSUME NEW c \in Callers, StopStep(c) \/ GiveUp(c) PROVE SamplerInv'
  <2>1. CASE Cancel(c)
    BY <2>1, CancelPreserves
  <2>2. CASE StopReturns(c)
    BY <2>2, StopReturnsPreserves
  <2>3. CASE NothingToStop(c) \/ GiveUp(c)
    BY <2>3, StopStepsPreserve
  <2> QED
    BY <1>2, <2>1, <2>2, <2>3 DEF StopStep
<1>3. CASE BeginShutdown \/ MainStop
  <2>1. "main" \in Callers
    BY DEF Callers
  <2> QED
    BY <1>3, <2>1, StopStepsPreserve
<1>4. ASSUME NEW g \in Generations, Sampled(g) \/ Sealing(g) PROVE SamplerInv'
  BY <1>4, SealingPreserves, FinishReleasesPreserves DEF Sealing
<1>5. CASE OtherAcquires \/ \E identity \in Issued : OtherReleases(identity)
  BY <1>5, OthersPreserve
<1>6. CASE UNCHANGED vars
  <2>1. TypeOK'
    BY <1>6 DEF vars, coordinatorVars, handlerVars, managerVars, SamplerInv, TypeOK,
       CoordinatorTypeOK
  <2>2. MutexIsHeld'
    BY <1>6 DEF vars, handlerVars, SamplerInv, MutexIsHeld
  <2> QED
    BY <1>6, <2>1, <2>2, OtherCallsPreserve DEF vars, handlerVars
<1> QED
  BY <1>1, <1>2, <1>3, <1>4, <1>5, <1>6 DEF Next

\* The inductive invariant of the performance manager.
THEOREM SamplerInvariant == Spec => []SamplerInv
<1>1. Init => SamplerInv
  BY InitSatisfies
<1>2. SamplerInv /\ [Next]_vars => SamplerInv'
  BY SamplerInvPreserved
<1> QED
  BY <1>1, <1>2, PTL DEF Spec

\* Every variable keeps its type.
THEOREM SamplerTypesAreKept == Spec => []TypeOK
<1>1. SamplerInv => TypeOK
  BY DEF SamplerInv
<1> QED
  BY <1>1, SamplerInvariant, PTL

\* The state a goroutine writes without comparing whose it is, the cancel
\* function it clears and the channel a Stop waits for are its own.
THEOREM StateIsSamplersAlways == Spec => []StateIsSamplers
<1>1. SamplerInv => StateIsSamplers
  BY DEF SamplerInv
<1> QED
  BY <1>1, SamplerInvariant, PTL

\* A session owns the device from its acquisition to the last of its files.
THEOREM SamplerOwnsDeviceAlways == Spec => []SamplerOwnsDevice
<1>1. SamplerInv => SamplerOwnsDevice
  BY DEF SamplerInv
<1> QED
  BY <1>1, SamplerInvariant, PTL

\* The evidence index named in the state is that of the state's session.
THEOREM EvidenceOfSessionAlways == Spec => []EvidenceOfSession
<1>1. SamplerInv => EvidenceOfSession
  BY DEF SamplerInv
<1> QED
  BY <1>1, SamplerInvariant, PTL

\* While a startup is measured the device is the measurement's, and no
\* goroutine of a session has a probe or a file to go.
THEOREM MeasuresAloneAlways == Spec => []MeasuresAlone
<1>1. SamplerInv => MeasuresAlone
  <2> SUFFICES ASSUME SamplerInv, NEW c \in Clients, call[c].pc = "measure"
               PROVE  /\ active = Session("startup", call[c].session)
                      /\ \A g \in Generations : sRun[g] \in {"none", "close", "ended"}
    BY DEF MeasuresAlone
  <2>1. active = Session("startup", call[c].session)
    BY DEF SamplerInv, MeasurerOwnsDevice
  <2>2. ASSUME NEW g \in Generations, sRun[g] \in Sampling \cup {"release"} PROVE FALSE
    <3>1. Session("performance", g) = Session("startup", call[c].session)
      BY <2>1, <2>2, OneSampler
    <3> QED
      BY <3>1, SessionsDiffer
  <2>3. \A g \in Generations : sRun[g] \in {"none", "close", "ended"}
    BY <2>2 DEF SamplerInv, TypeOK, Sampling
  <2> QED
    BY <2>1, <2>3
<1> QED
  BY <1>1, SamplerInvariant, PTL
====
