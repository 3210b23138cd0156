---- MODULE RunnerSessionProofs ----
(***************************************************************************)
(* Proofs about RunnerSession, for any clients and any number of runs: one *)
(* process at a time, a stop file that is never another run's, the report  *)
(* of a stopped run and the report of a hidden overlay.                     *)
(*                                                                         *)
(* The runner holds no identity of the coordinator and its stop file names *)
(* no run.  What keeps a stop from reaching the next run is that no run    *)
(* starts during a stop: a handler's stop holds executionMu, and main's    *)
(* comes after BeginShutdown.  RunnerInv joins this with the places that   *)
(* the flags, the waiter and the process of the run can be in together.    *)
(***************************************************************************)
EXTENDS RunnerSession, TLAPS

Alive == {"booting", "alive"}
Sealing == {"derive", "restore", "publish"}
Asking == {"write", "poll", "killed"}
StoppedReasons == {"stopped", "incident"}

\* The flags, the command and the waiter are those of the last run, and no run
\* but one that is waited for has a process.
FlagsFollowWaiter ==
  /\ phase = "idle" => command = 0
  /\ phase # "idle" => run \in Runs /\ command = run
  /\ \A g \in Runs :
       /\ waiter[g] = "wait" <=> phase = "running" /\ run = g
       /\ waiter[g] \in Sealing <=> phase = "finalizing" /\ run = g
       /\ process[g] \in Alive => waiter[g] = "wait"

\* A stop excludes starts: it holds the gate, or the shutdown has begun.
StopExcludesStart ==
  \A c \in Callers : call[c].pc \in Asking \cup {"mark"} =>
    IF c = "main" THEN shuttingDown ELSE gate = c

\* A stop that has asked is for the last run, and so is the stop file.
StopIsForLastRun ==
  /\ \A c \in Callers : call[c].pc \in Asking => call[c].target = run /\ run # 0
  /\ marker \in {0, run}

\* The request of a stop is where the waiter will find it, or has found it.
Credited ==
  /\ phase = "running" => stopRequested
  /\ phase = "finalizing" => run \in sawStop
  /\ \A g \in Runs : waiter[g] \in {"restore", "publish"} => derived[g] \in StoppedReasons
  /\ phase = "idle" => reason \in StoppedReasons

StopIsCredited ==
  /\ \A g \in stopReturned : g <= run
  /\ run \in stopReturned => phase # "running"
  /\ ~shuttingDown =>
       /\ run \in stopReturned => Credited
       /\ \A c \in Callers : call[c].pc \in Asking => Credited

\* A hidden overlay is the last run's only if that run hid it; between its restore and its
\* publication the waiter carries the error.
OverlayIsAnswered ==
  /\ HiddenOverlayIsAnswered
  /\ tucked <= run \/ tucked = FailedStart
  /\ \A g \in Runs : waiter[g] = "publish" /\ tucked = g => controlError \/ g \in unrestored

RunnerInv ==
  /\ TypeOK
  /\ FlagsFollowWaiter
  /\ StopExcludesStart
  /\ StopIsForLastRun
  /\ StopIsCredited
  /\ OverlayIsAnswered

-----------------------------------------------------------------------------

\* The initial state has no run and no stop.
LEMMA RunnerInitially == Init => RunnerInv
<1> SUFFICES ASSUME Init PROVE RunnerInv
  OBVIOUS
<1> USE MaxRunsAssumption
<1>1. TypeOK
  <2>1. NoCall \in [pc : {"idle", "mark", "write", "poll", "killed", "seal", "ended"},
                   target : 0 .. MaxRuns]
    BY DEF NoCall
  <2> QED
    <3>1. call \in [Callers -> [pc : {"idle", "mark", "write", "poll", "killed", "seal", "ended"},
                                target : 0 .. MaxRuns]]
      BY <2>1 DEF Init
    <3>2. /\ process \in [Runs -> {"none", "booting", "alive", "exited"}]
          /\ waiter \in [Runs -> {"none", "wait", "derive", "restore", "publish", "ended"}]
          /\ derived \in [Runs -> Reasons]
      BY DEF Init, Reasons
    <3>3. 0 \in 0 .. MaxRuns /\ 0 \in 0 .. FailedStart
      BY DEF FailedStart
    <3> QED
      BY <3>1, <3>2, <3>3 DEF Init, TypeOK, Reasons
<1>2. FlagsFollowWaiter
  BY DEF Init, FlagsFollowWaiter, Runs, Sealing, Alive
<1>3. StopExcludesStart /\ StopIsForLastRun /\ StopIsCredited
  BY DEF Init, StopExcludesStart, StopIsForLastRun, StopIsCredited, NoCall, Asking
<1>4. OverlayIsAnswered
  BY DEF Init, OverlayIsAnswered, HiddenOverlayIsAnswered
<1> QED
  BY <1>1, <1>2, <1>3, <1>4 DEF RunnerInv

\* A start: nobody is stopping a run, and the new one has neither a stop file
\* nor a stop to its name.
LEMMA StartsPreserve == RunnerInv /\ (Start \/ StartFails) => RunnerInv'
<1> SUFFICES ASSUME RunnerInv, Start \/ StartFails PROVE RunnerInv'
  OBVIOUS
<1> USE MaxRunsAssumption, HolderAssumption
<1>1. \A c \in Callers : call[c].pc \notin Asking \cup {"mark"}
  BY DEF RunnerInv, StopExcludesStart, Start, StartFails, Admits, Callers
<1>2. CASE Start
  <2>1. run + 1 \in Runs /\ run \in Nat /\ phase = "idle"
    BY <1>2 DEF RunnerInv, TypeOK, Start, Admits, Runs
  <2>2. TypeOK'
    <3>1. run' \in 0 .. MaxRuns /\ command' \in 0 .. MaxRuns /\ marker' \in 0 .. MaxRuns
      BY <1>2, <2>1 DEF Start, Runs
    <3>2. process' \in [Runs -> {"none", "booting", "alive", "exited"}]
      BY <1>2 DEF RunnerInv, TypeOK, Start
    <3>3. waiter' \in [Runs -> {"none", "wait", "derive", "restore", "publish", "ended"}]
      BY <1>2 DEF RunnerInv, TypeOK, Start
    <3>4. suppressed' \in BOOLEAN /\ controlError' \in BOOLEAN /\ tucked' \in 0 .. FailedStart
      <4>1. run + 1 \in 0 .. FailedStart /\ tucked \in 0 .. FailedStart
        BY <2>1 DEF RunnerInv, TypeOK, Runs, FailedStart
      <4> QED
        BY <1>2, <4>1 DEF Start, SuppressOverlay
    <3> QED
      BY <1>2, <3>1, <3>2, <3>3, <3>4 DEF RunnerInv, TypeOK, Start, handlerVars, Reasons
  <2>3. \A g \in Runs :
          /\ waiter'[g] = IF g = run + 1 THEN "wait" ELSE waiter[g]
          /\ process'[g] = IF g = run + 1 THEN "booting" ELSE process[g]
    BY <1>2 DEF RunnerInv, TypeOK, Start
  <2>4. FlagsFollowWaiter'
    BY <1>2, <2>1, <2>3 DEF RunnerInv, FlagsFollowWaiter, Start, Alive, Sealing
  <2>5. StopExcludesStart' /\ StopIsForLastRun'
    BY <1>1, <1>2 DEF StopExcludesStart, StopIsForLastRun, Start, handlerVars
  <2>6. \A g \in stopReturned : g \in Nat /\ g <= run
    BY DEF RunnerInv, TypeOK, StopIsCredited, Runs
  <2>7. StopIsCredited'
    BY <1>1, <1>2, <2>1, <2>6 DEF StopIsCredited, Start, handlerVars
  <2>8. OverlayIsAnswered'
    <3>1. run' = run + 1 /\ phase' = "running" /\ unrestored' = unrestored
      BY <1>2 DEF Start
    <3>2. tucked # run + 1 /\ tucked \in Nat
      BY <2>1 DEF RunnerInv, TypeOK, OverlayIsAnswered, FailedStart, Runs
    <3>3. tucked' = run + 1 => suppressed' \/ controlError'
      BY <1>2, <3>2 DEF Start, SuppressOverlay
    <3>4. tucked' = run + 1 \/ tucked' = tucked
      BY <1>2 DEF Start, SuppressOverlay
    <3>5. tucked' <= run + 1 \/ tucked' = FailedStart
      BY <2>1, <3>2, <3>4 DEF RunnerInv, OverlayIsAnswered
    <3>6. \A g \in Runs : waiter'[g] # "publish"
      BY <2>1, <2>3 DEF RunnerInv, FlagsFollowWaiter, Sealing
    <3> QED
      BY <2>1, <3>1, <3>3, <3>5, <3>6 DEF OverlayIsAnswered, HiddenOverlayIsAnswered, FailedStart
  <2> QED
    BY <2>2, <2>4, <2>5, <2>7, <2>8 DEF RunnerInv
<1>3. CASE StartFails
  <2>1. /\ UNCHANGED <<handlerVars, phase, run, command, stopRequested, reason, suppressed,
                       controlError, processVars, waiterVars>>
        /\ marker' = 0 /\ tucked' \in {tucked, 0, FailedStart}
    BY <1>3 DEF StartFails
  <2>2. TypeOK'
    BY <2>1 DEF RunnerInv, TypeOK, handlerVars, processVars, waiterVars, FailedStart
  <2>3. FlagsFollowWaiter' /\ StopExcludesStart' /\ StopIsForLastRun' /\ StopIsCredited'
    BY <2>1 DEF RunnerInv, FlagsFollowWaiter, StopExcludesStart, StopIsForLastRun,
       StopIsCredited, Credited, handlerVars, processVars, waiterVars
  <2>4. run \in 0 .. MaxRuns
    BY DEF RunnerInv, TypeOK
  <2>5. \A g \in Runs : g # 0 /\ g # FailedStart
    BY DEF Runs, FailedStart
  <2>6. OverlayIsAnswered'
    BY <2>1, <2>4, <2>5 DEF RunnerInv, OverlayIsAnswered, HiddenOverlayIsAnswered, FailedStart,
       waiterVars
  <2> QED
    BY <2>2, <2>3, <2>6 DEF RunnerInv
<1> QED
  BY <1>2, <1>3

\* The process of a run boots and ends.
LEMMA ProcessPreserves ==
  ASSUME RunnerInv, NEW g \in Runs, Boot(g) \/ Exit(g)
  PROVE  RunnerInv'
<1> USE MaxRunsAssumption
<1>1. \A h \in Runs : process'[h] \in Alive => process[h] \in Alive
  BY DEF RunnerInv, TypeOK, Boot, Exit, Alive
<1>2. TypeOK'
  BY DEF RunnerInv, TypeOK, Boot, Exit, handlerVars, managerVars, overlay, waiterVars
<1>3. FlagsFollowWaiter'
  BY <1>1 DEF RunnerInv, FlagsFollowWaiter, Boot, Exit, managerVars, overlay, waiterVars
<1>4. StopExcludesStart' /\ StopIsForLastRun' /\ StopIsCredited' /\ OverlayIsAnswered'
  BY DEF RunnerInv, StopExcludesStart, StopIsForLastRun, StopIsCredited, Credited,
     OverlayIsAnswered, HiddenOverlayIsAnswered, Boot, Exit, handlerVars, managerVars, overlay, waiterVars
<1> QED
  BY <1>2, <1>3, <1>4 DEF RunnerInv

\* The waiter of a run: it is the last one, so that what it publishes is about
\* the run that was stopped.
LEMMA WaiterPreserves ==
  ASSUME RunnerInv, NEW g \in Runs, WaiterStep(g)
  PROVE  RunnerInv'
<1> USE MaxRunsAssumption
<1>1. run = g /\ command = g /\ g # 0
  BY DEF RunnerInv, FlagsFollowWaiter, WaiterStep, Collect, Derive, RestoreOverlay, Publish,
     Sealing, Runs
<1>2. StopExcludesStart' /\ StopIsForLastRun'
  BY DEF RunnerInv, StopExcludesStart, StopIsForLastRun, WaiterStep, Collect, Derive,
     RestoreOverlay, Publish, handlerVars, managerVars, overlay
<1>3. CASE Collect(g)
  <2>1. \A h \in Runs : waiter'[h] = IF h = g THEN "derive" ELSE waiter[h]
    BY <1>1, <1>3 DEF RunnerInv, TypeOK, Collect
  <2>2. TypeOK'
    BY <1>1, <1>3 DEF RunnerInv, TypeOK, Collect, handlerVars, processVars, overlay
  <2>3. FlagsFollowWaiter'
    BY <1>1, <1>3, <2>1 DEF RunnerInv, FlagsFollowWaiter, Collect, processVars, Sealing, Alive
  <2>4. StopIsCredited'
    BY <1>1, <1>3, <2>1 DEF RunnerInv, FlagsFollowWaiter, StopIsCredited, Credited, Collect,
       handlerVars, Sealing
  <2>5. OverlayIsAnswered'
    BY <1>1, <1>3, <2>1 DEF RunnerInv, OverlayIsAnswered, HiddenOverlayIsAnswered, Collect,
       overlay
  <2> QED
    BY <1>2, <2>2, <2>3, <2>4, <2>5 DEF RunnerInv
<1>4. CASE Derive(g)
  <2>1. \A h \in Runs : waiter'[h] = IF h = g THEN "restore" ELSE waiter[h]
    BY <1>4 DEF RunnerInv, TypeOK, Derive
  <2>2. PICK found \in {"incident", IF g \in sawStop THEN "stopped" ELSE "natural"} :
          derived' = [derived EXCEPT ![g] = found]
    BY <1>4 DEF Derive
  <2>3. TypeOK'
    BY <1>4, <2>2 DEF RunnerInv, TypeOK, Derive, handlerVars, managerVars, overlay, processVars, Reasons
  <2>4. FlagsFollowWaiter'
    BY <1>1, <1>4, <2>1 DEF RunnerInv, FlagsFollowWaiter, Derive, managerVars, overlay, processVars,
       Sealing, Alive
  <2>5. \A h \in Runs : derived'[h] = IF h = g THEN found ELSE derived[h]
    BY <2>2 DEF RunnerInv, TypeOK
  <2>6. StopIsCredited'
    BY <1>1, <1>4, <2>1, <2>5 DEF RunnerInv, FlagsFollowWaiter, StopIsCredited, Credited,
       Derive, handlerVars, managerVars, overlay, Sealing, StoppedReasons
  <2>7. OverlayIsAnswered'
    BY <1>4, <2>1 DEF RunnerInv, OverlayIsAnswered, HiddenOverlayIsAnswered, Derive, managerVars, overlay
  <2> QED
    BY <1>2, <2>3, <2>4, <2>6, <2>7 DEF RunnerInv
<1>5. CASE RestoreOverlay(g)
  <2>1. \A h \in Runs : waiter'[h] = IF h = g THEN "publish" ELSE waiter[h]
    BY <1>5 DEF RunnerInv, TypeOK, RestoreOverlay
  <2>2. TypeOK'
    <3>1. tucked' \in 0 .. FailedStart /\ unrestored' \subseteq Runs
      BY <1>5 DEF RunnerInv, TypeOK, RestoreOverlay, FailedStart
    <3>2. waiter' \in [Runs -> {"none", "wait", "derive", "restore", "publish", "ended"}]
      BY <1>5 DEF RunnerInv, TypeOK, RestoreOverlay
    <3> QED
      BY <1>5, <3>1, <3>2 DEF RunnerInv, TypeOK, RestoreOverlay, handlerVars, processVars
  <2>3. FlagsFollowWaiter'
    BY <1>1, <1>5, <2>1 DEF RunnerInv, FlagsFollowWaiter, RestoreOverlay, processVars,
       Sealing, Alive
  <2>4. StopIsCredited'
    BY <1>1, <1>5, <2>1 DEF RunnerInv, StopIsCredited, Credited, RestoreOverlay, handlerVars
  <2>5. OverlayIsAnswered'
    <3>1. UNCHANGED <<phase, run, suppressed, controlError>> /\ tucked' \in {0, tucked}
      BY <1>5 DEF RestoreOverlay
    <3>2. run \in 0 .. MaxRuns
      BY DEF RunnerInv, TypeOK
    <3>3. tucked' <= run' \/ tucked' = FailedStart
      BY <3>1, <3>2 DEF RunnerInv, OverlayIsAnswered
    <3>4. HiddenOverlayIsAnswered'
      BY <3>1 DEF RunnerInv, OverlayIsAnswered, HiddenOverlayIsAnswered
    <3>5. \A h \in Runs : waiter'[h] = "publish" => h = g
      BY <1>1, <1>5, <2>1 DEF RunnerInv, FlagsFollowWaiter, Sealing
    <3>6. tucked' = g => controlError' \/ g \in unrestored'
      BY <1>1, <1>5 DEF RunnerInv, OverlayIsAnswered, HiddenOverlayIsAnswered, RestoreOverlay
    <3> QED
      BY <3>3, <3>4, <3>5, <3>6 DEF OverlayIsAnswered
  <2> QED
    BY <1>2, <2>2, <2>3, <2>4, <2>5 DEF RunnerInv
<1>6. CASE Publish(g)
  <2>1. \A h \in Runs : waiter'[h] = IF h = g THEN "ended" ELSE waiter[h]
    BY <1>6 DEF RunnerInv, TypeOK, Publish
  <2>2. TypeOK'
    <3>1. derived[g] \in Reasons /\ 0 \in 0 .. MaxRuns
      BY DEF RunnerInv, TypeOK
    <3>2. waiter' \in [Runs -> {"none", "wait", "derive", "restore", "publish", "ended"}]
      BY <1>6 DEF RunnerInv, TypeOK, Publish
    <3> QED
      BY <1>1, <1>6, <3>1, <3>2 DEF RunnerInv, TypeOK, Publish, handlerVars, processVars
  <2>3. FlagsFollowWaiter'
    BY <1>1, <1>6, <2>1 DEF RunnerInv, FlagsFollowWaiter, Publish, processVars, Sealing, Alive
  <2>4. StopIsCredited'
    BY <1>1, <1>6, <2>1 DEF RunnerInv, StopIsCredited, Credited, Publish, handlerVars
  <2>5. OverlayIsAnswered'
    BY <1>1, <1>6, <2>1 DEF RunnerInv, OverlayIsAnswered, HiddenOverlayIsAnswered, Publish
  <2> QED
    BY <1>2, <2>2, <2>3, <2>4, <2>5 DEF RunnerInv
<1> QED
  BY <1>3, <1>4, <1>5, <1>6 DEF WaiterStep

\* A call that changes nothing of the run, and asks for nothing new.
LEMMA QuietCallsPreserve ==
  ASSUME RunnerInv, TypeOK', StopExcludesStart',
         UNCHANGED <<managerVars, process, waiterVars>>, marker' \in {0, run},
         shuttingDown => shuttingDown',
         \A c \in Callers : call'[c].pc \in Asking => call'[c].target = run /\ run # 0 /\
            (~shuttingDown' => Credited),
         \A g \in stopReturned' : g <= run,
         run \in stopReturned' => phase # "running" /\ (~shuttingDown' => Credited)
  PROVE  RunnerInv'
<1>1. FlagsFollowWaiter' /\ OverlayIsAnswered' /\ (Credited <=> Credited')
  BY DEF RunnerInv, FlagsFollowWaiter, OverlayIsAnswered, HiddenOverlayIsAnswered, Credited,
     managerVars, overlay, waiterVars
<1>2. StopIsForLastRun' /\ StopIsCredited'
  BY <1>1 DEF StopIsForLastRun, StopIsCredited, managerVars, overlay
<1> QED
  BY <1>1, <1>2 DEF RunnerInv

-----------------------------------------------------------------------------
(* Stop, BeginShutdown and the calls of main.                              *)

\* A call that goes to another place.
LEMMA GotoIsTyped ==
  ASSUME TypeOK, NEW c \in Callers, NEW target \in 0 .. MaxRuns,
         NEW pc \in {"idle", "mark", "write", "poll", "killed", "seal", "ended"},
         Goto(c, pc, target)
  PROVE  /\ call' \in [Callers -> [pc : {"idle", "mark", "write", "poll", "killed", "seal", "ended"},
                                   target : 0 .. MaxRuns]]
         /\ call'[c].pc = pc /\ call'[c].target = target
         /\ \A d \in Callers : d # c => call'[d] = call[d]
BY DEF TypeOK, Goto

\* A call that returns: nobody asks for more than before, and the gate is free
\* only if it was its own.
LEMMA ReturnIsTyped ==
  ASSUME TypeOK, StopExcludesStart, NEW c \in Callers, Return(c), UNCHANGED shuttingDown
  PROVE  /\ call' \in [Callers -> [pc : {"idle", "mark", "write", "poll", "killed", "seal", "ended"},
                                   target : 0 .. MaxRuns]]
         /\ gate' \in Clients \cup {"free"}
         /\ call'[c].pc \notin Asking
         /\ \A d \in Callers : d # c => call'[d] = call[d]
         /\ StopExcludesStart'
<1> USE MaxRunsAssumption, HolderAssumption
<1> DEFINE pc == IF c = "main" THEN "seal" ELSE "idle"
<1>1. Goto(c, pc, 0) /\ pc \in {"idle", "seal"} /\ 0 \in 0 .. MaxRuns
  BY DEF Return
<1> HIDE DEF pc
<1>2. /\ call' \in [Callers -> [pc : {"idle", "mark", "write", "poll", "killed", "seal", "ended"},
                                target : 0 .. MaxRuns]]
      /\ call'[c].pc = pc
      /\ \A d \in Callers : d # c => call'[d] = call[d]
  BY <1>1, GotoIsTyped
<1>3. gate' \in Clients \cup {"free"} /\ \A d \in Callers : d # c /\ gate = d => gate' = gate
  BY DEF Return, TypeOK
<1>4. StopExcludesStart'
  BY <1>1, <1>2, <1>3 DEF StopExcludesStart, Asking
<1> QED
  BY <1>1, <1>2, <1>3, <1>4 DEF Asking

\* The steps of a call that is stopping a run.
LEMMA CallsPreserve ==
  ASSUME RunnerInv, NEW c \in Callers, CallStep(c)
  PROVE  RunnerInv'
<1> USE MaxRunsAssumption
<1>1. /\ TypeOK /\ StopExcludesStart /\ FlagsFollowWaiter /\ StopIsForLastRun /\ StopIsCredited
      /\ call[c].target \in 0 .. MaxRuns /\ run \in Nat /\ command \in 0 .. MaxRuns
      /\ \A g \in stopReturned : g <= run
  BY DEF RunnerInv, TypeOK, StopIsCredited
<1>2. UNCHANGED <<shuttingDown, process, waiterVars>>
  BY DEF CallStep, Mark, WriteMarker, WriteFails, Kill, PollSeesEnd, PollGivesUp, processVars
\* The call goes on to ask, or goes on asking.
<1>3. ASSUME NEW pc \in Asking, Goto(c, pc, run), UNCHANGED <<managerVars, stopReturned, gate>>,
             call[c].pc \in Asking, marker' \in {0, run}, killed' \subseteq Runs
      PROVE  RunnerInv'
  <2>1. run \in 0 .. MaxRuns
    BY DEF RunnerInv, TypeOK
  <2>2. pc \in {"idle", "mark", "write", "poll", "killed", "seal", "ended"}
    BY DEF Asking
  <2>3. /\ call' \in [Callers -> [pc : {"idle", "mark", "write", "poll", "killed", "seal", "ended"},
                                  target : 0 .. MaxRuns]]
        /\ call'[c].pc = pc /\ call'[c].target = run
        /\ \A d \in Callers : d # c => call'[d] = call[d]
    BY <1>1, <1>3, <2>1, <2>2, GotoIsTyped
  <2>4. TypeOK'
    BY <1>2, <1>3, <2>1, <2>3 DEF RunnerInv, TypeOK, managerVars, overlay, waiterVars
  <2>5. StopExcludesStart'
    BY <1>1, <1>2, <1>3, <2>3 DEF StopExcludesStart
  <2> QED
    BY <1>1, <1>2, <1>3, <2>3, <2>4, <2>5, QuietCallsPreserve DEF StopIsCredited, StopIsForLastRun
\* The call returns, and the run has at most been found to be over.
<1>4. ASSUME Return(c), UNCHANGED <<managerVars, marker, killed>>,
             stopReturned' \subseteq Runs,
             \/ stopReturned' = stopReturned
             \/ /\ call[c].pc \in Asking /\ phase # "running"
                /\ stopReturned' = stopReturned \cup {run}
      PROVE  RunnerInv'
  <2>1. /\ call' \in [Callers -> [pc : {"idle", "mark", "write", "poll", "killed", "seal", "ended"},
                                  target : 0 .. MaxRuns]]
        /\ gate' \in Clients \cup {"free"}
        /\ call'[c].pc \notin Asking
        /\ \A d \in Callers : d # c => call'[d] = call[d]
        /\ StopExcludesStart'
    BY <1>1, <1>2, <1>4, ReturnIsTyped
  <2>2. TypeOK'
    BY <1>2, <1>4, <2>1 DEF RunnerInv, TypeOK, managerVars, overlay, waiterVars
  <2> QED
    BY <1>1, <1>2, <1>4, <2>1, <2>2, QuietCallsPreserve DEF StopIsCredited, StopIsForLastRun
<1>5. CASE Mark(c) /\ phase = "running"
  <2>1. run \in 0 .. MaxRuns /\ command = run
    BY <1>1, <1>5 DEF FlagsFollowWaiter, RunnerInv, TypeOK
  <2>2. Goto(c, "write", run) /\ stopRequested' = TRUE
    BY <1>5, <2>1 DEF Mark
  <2>3. /\ call' \in [Callers -> [pc : {"idle", "mark", "write", "poll", "killed", "seal", "ended"},
                                  target : 0 .. MaxRuns]]
        /\ call'[c].pc = "write" /\ call'[c].target = run
        /\ \A d \in Callers : d # c => call'[d] = call[d]
    BY <1>1, <2>1, <2>2, GotoIsTyped
  <2>4. TypeOK'
    BY <1>5, <2>2, <2>3 DEF RunnerInv, TypeOK, Mark, processVars, waiterVars, overlay
  <2>5. FlagsFollowWaiter' /\ OverlayIsAnswered'
    BY <1>5 DEF RunnerInv, FlagsFollowWaiter, OverlayIsAnswered, HiddenOverlayIsAnswered, Mark,
       processVars, waiterVars, overlay
  <2>6. StopExcludesStart' /\ StopIsForLastRun'
    BY <1>1, <1>5, <2>1, <2>3 DEF StopExcludesStart, StopIsForLastRun, FlagsFollowWaiter, Mark,
       Asking, Runs
  <2>7. \A g \in Runs : waiter[g] \notin {"restore", "publish"}
    BY <1>1, <1>5 DEF FlagsFollowWaiter, Sealing
  <2>8. StopIsCredited'
    BY <1>1, <1>5, <2>2, <2>7 DEF StopIsCredited, Credited, Mark, waiterVars
  <2> QED
    BY <2>4, <2>5, <2>6, <2>8 DEF RunnerInv
<1>6. CASE Mark(c) /\ phase # "running"
  BY <1>4, <1>6 DEF Mark, RunnerInv, TypeOK, managerVars, overlay, processVars
<1>7. CASE WriteMarker(c)
  <2>1. call[c].target = run
    BY <1>1, <1>7 DEF WriteMarker, StopIsForLastRun, Asking
  <2> QED
    BY <1>3, <1>7, <2>1 DEF WriteMarker, RunnerInv, TypeOK, processVars, Asking
<1>8. CASE WriteFails(c)
  <2>1. Return(c)
    BY <1>8 DEF WriteFails
  <2>2. /\ call' \in [Callers -> [pc : {"idle", "mark", "write", "poll", "killed", "seal", "ended"},
                                  target : 0 .. MaxRuns]]
        /\ gate' \in Clients \cup {"free"}
        /\ call'[c].pc \notin Asking
        /\ \A d \in Callers : d # c => call'[d] = call[d]
        /\ StopExcludesStart'
    BY <1>1, <1>2, <2>1, ReturnIsTyped
  <2>3. TypeOK'
    BY <1>8, <2>2 DEF RunnerInv, TypeOK, WriteFails, processVars, waiterVars, overlay
  <2>4. FlagsFollowWaiter' /\ OverlayIsAnswered'
    BY <1>8 DEF RunnerInv, FlagsFollowWaiter, OverlayIsAnswered, HiddenOverlayIsAnswered, WriteFails,
       processVars, waiterVars, overlay
  <2>5. StopIsForLastRun'
    BY <1>1, <1>8, <2>2 DEF StopIsForLastRun, WriteFails
  \* No other call asks: it would hold the gate as well.
  <2>6. ~shuttingDown => \A d \in Callers : call'[d].pc \notin Asking
    BY <1>1, <1>8, <2>2, HolderAssumption DEF StopExcludesStart, WriteFails, Asking
  <2>7. Credited /\ phase # "running" => Credited'
    BY <1>8 DEF Credited, WriteFails, waiterVars
  <2>8. StopIsCredited'
    BY <1>1, <1>8, <2>6, <2>7 DEF StopIsCredited, WriteFails
  <2> QED
    BY <2>2, <2>3, <2>4, <2>5, <2>8 DEF RunnerInv
<1>9. CASE Kill(c)
  <2>1. call[c].target = run /\ run \in Runs
    BY <1>1, <1>9 DEF Kill, StopIsForLastRun, FlagsFollowWaiter, Asking
  <2>2. killed' \subseteq Runs /\ marker' \in {0, run}
    BY <1>1, <1>9, <2>1 DEF Kill, RunnerInv, TypeOK, StopIsForLastRun
  <2> QED
    BY <1>3, <1>9, <2>1, <2>2 DEF Kill, Asking
<1>10. CASE PollSeesEnd(c)
  <2>1. call[c].pc \in Asking /\ call[c].target = run
    BY <1>1, <1>10 DEF PollSeesEnd, StopIsForLastRun, Asking
  <2>2. run \in Runs
    BY <1>1, <2>1 DEF StopIsForLastRun, TypeOK, Runs
  <2> QED
    BY <1>4, <1>10, <2>1, <2>2 DEF PollSeesEnd, RunnerInv, TypeOK, processVars
<1>11. CASE PollGivesUp(c)
  BY <1>4, <1>11 DEF PollGivesUp, RunnerInv, TypeOK, processVars
<1> QED
  BY <1>5, <1>6, <1>7, <1>8, <1>9, <1>10, <1>11 DEF CallStep

\* The calls that begin, the shutdown and the wait of main.
LEMMA OthersPreserve ==
  ASSUME RunnerInv,
         \/ \E c \in Clients, token \in Runs : StopOwned(c, token)
         \/ BeginShutdown
         \/ MainStop
         \/ MainSealed
  PROVE  RunnerInv'
<1> USE MaxRunsAssumption, HolderAssumption
<1>1. /\ TypeOK /\ StopExcludesStart /\ StopIsForLastRun /\ StopIsCredited
      /\ 0 \in 0 .. MaxRuns /\ "main" \in Callers /\ Clients \subseteq Callers
  BY DEF RunnerInv, Callers
<1>2. /\ UNCHANGED <<managerVars, marker, processVars, waiterVars, stopReturned>>
      /\ shuttingDown => shuttingDown'
  BY DEF StopOwned, BeginShutdown, MainStop, MainSealed
<1>3. SUFFICES TypeOK' /\ StopExcludesStart'
                 /\ \A d \in Callers : call'[d].pc \in Asking => call'[d] = call[d]
  BY <1>1, <1>2, QuietCallsPreserve DEF RunnerInv, StopIsCredited, StopIsForLastRun, processVars
<1>4. ASSUME NEW c \in Callers, NEW pc \in {"mark", "ended"}, Goto(c, pc, 0),
             gate' \in Clients \cup {"free"}, shuttingDown' = shuttingDown,
             pc = "mark" => IF c = "main" THEN shuttingDown ELSE gate' = c,
             gate' = gate \/ gate = "free"
      PROVE  TypeOK' /\ StopExcludesStart'
                 /\ \A d \in Callers : call'[d].pc \in Asking => call'[d] = call[d]
  <2>1. /\ call' \in [Callers -> [pc : {"idle", "mark", "write", "poll", "killed", "seal", "ended"},
                                  target : 0 .. MaxRuns]]
        /\ call'[c].pc = pc
        /\ \A d \in Callers : d # c => call'[d] = call[d]
    BY <1>1, <1>4, GotoIsTyped
  <2> QED
    BY <1>1, <1>2, <1>4, <2>1 DEF TypeOK, StopExcludesStart, Asking, Callers, managerVars, overlay,
       processVars, waiterVars
<1>5. ASSUME NEW c \in Clients, NEW token \in Runs, StopOwned(c, token)
      PROVE  TypeOK' /\ StopExcludesStart'
                 /\ \A d \in Callers : call'[d].pc \in Asking => call'[d] = call[d]
  BY <1>1, <1>4, <1>5 DEF StopOwned
<1>6. CASE BeginShutdown
  BY <1>1, <1>2, <1>6 DEF BeginShutdown, TypeOK, StopExcludesStart, managerVars, overlay, processVars,
     waiterVars
<1>7. CASE MainStop
  BY <1>1, <1>4, <1>7 DEF MainStop, TypeOK
<1>8. CASE MainSealed
  BY <1>1, <1>4, <1>8 DEF MainSealed, TypeOK
<1> QED
  BY <1>5, <1>6, <1>7, <1>8

-----------------------------------------------------------------------------

\* Every step of the specification preserves the invariant.
LEMMA RunnerStepPreserves == RunnerInv /\ [Next]_vars => RunnerInv'
<1> SUFFICES ASSUME RunnerInv, [Next]_vars PROVE RunnerInv'
  OBVIOUS
<1>1. CASE Start \/ StartFails
  BY <1>1, StartsPreserve
<1>2. ASSUME NEW g \in Runs, RunStep(g) PROVE RunnerInv'
  BY <1>2, ProcessPreserves, WaiterPreserves DEF RunStep, WaiterStep
<1>3. ASSUME NEW c \in Callers, CallStep(c) PROVE RunnerInv'
  BY <1>3, CallsPreserve
<1>4. CASE (\E c \in Clients, token \in Runs : StopOwned(c, token))
             \/ BeginShutdown \/ MainStop \/ MainSealed
  BY <1>4, OthersPreserve
<1>5. CASE UNCHANGED vars
  BY <1>5 DEF RunnerInv, TypeOK, FlagsFollowWaiter, StopExcludesStart, StopIsForLastRun,
     StopIsCredited, Credited, OverlayIsAnswered, HiddenOverlayIsAnswered, vars, handlerVars,
     managerVars, overlay, processVars, waiterVars
<1> QED
  BY <1>1, <1>2, <1>3, <1>4, <1>5 DEF Next

\* RunnerInv is an invariant.
THEOREM RunnerInvariant == Spec => []RunnerInv
BY RunnerInitially, RunnerStepPreserves, PTL DEF Spec

\* The variables of the runner, its processes and its calls have their types.
THEOREM RunnerTypeCorrect == Spec => []TypeOK
<1>1. RunnerInv => TypeOK
  BY DEF RunnerInv
<1> QED
  BY <1>1, RunnerInvariant, PTL

\* There is one runner process at a time, and the manager knows it as running.
THEOREM OneProcessAlways == Spec => []OneProcess
<1>1. RunnerInv => OneProcess
  BY DEF RunnerInv, FlagsFollowWaiter, OneProcess, Alive
<1> QED
  BY <1>1, RunnerInvariant, PTL

\* A run never finds the stop file of another: no run starts while a stop that
\* would write one is under way.
THEOREM MarkerAlwaysForThisRun == Spec => []MarkerIsForThisRun
<1>1. RunnerInv => MarkerIsForThisRun
  BY DEF RunnerInv, FlagsFollowWaiter, StopIsForLastRun, MarkerIsForThisRun, Alive
<1> QED
  BY <1>1, RunnerInvariant, PTL

\* A run whose end a stop has reported is published as stopped, or as ended by
\* an incident: until the shutdown nobody takes its request back.
THEOREM StoppedRunAlwaysReported == Spec => []StoppedRunIsReported
<1>1. RunnerInv => StoppedRunIsReported
  BY DEF RunnerInv, StopIsCredited, Credited, StoppedRunIsReported, StoppedReasons
<1> QED
  BY <1>1, RunnerInvariant, PTL

\* A run that has hidden the overlay is not published yet, or says that the overlay could
\* not be controlled, whichever of its hide and its restore failed.
THEOREM HiddenOverlayIsAnsweredAlways == Spec => []HiddenOverlayIsAnswered
<1>1. RunnerInv => HiddenOverlayIsAnswered
  BY DEF RunnerInv, OverlayIsAnswered
<1> QED
  BY <1>1, RunnerInvariant, PTL
====
