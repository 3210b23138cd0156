---- MODULE AutomationLifecycle ----
(* The UI automation companion: automation.Manager with its instrumentation     *)
(* process, the idle timer that stops it, the providers a page tree is asked    *)
(* from, and the fallback and promotion between them.  Legacy automation is off *)
(* (the default); a provider answers, or fails, as it likes.                    *)
EXTENDS Naturals, FiniteSets

CONSTANTS
  Users,     \* callers of Start and Stop
  Readers,   \* callers of Hierarchy
  Timer,     \* the goroutine of a fired idle timer: it calls Stop
  MaxInstrumentations, \* bound: generations, of runs and of their stops
  MaxTries   \* attempts of Hierarchy after it has promoted Nova (3 in the code)

ASSUME AutomationAssumption ==
  /\ Timer \notin Users \cup Readers /\ Users \cap Readers = {}
  /\ MaxInstrumentations \in Nat /\ MaxTries \in Nat

VARIABLES
  aMode,      \* novaMode
  aBadDump,   \* systemDumpUnreliable
  aRunning,   \* running, and owned with it
  aGen,       \* generation
  aCancel,    \* commandContext: the run it cancels, 0 for nil
  aTimer,     \* the idle timer is armed
  aProc,      \* per generation: its instrumentation, and whether it is cancelled
  aProviders, \* the Nova provider in front of the system's, by its run; 0 for none
  aShadow,    \* shadowProvider is set
  aSlot,      \* shadowSlot is taken: a shadow comparison runs
  aCapture,   \* who holds captureMu
  aUser       \* each caller: where it is

automationVars == <<aMode, aBadDump, aRunning, aGen, aCancel, aTimer, aProc,
                    aProviders, aShadow, aSlot, aCapture, aUser>>

Runs == 1 .. MaxInstrumentations
Nobody == [pc |-> "idle", back |-> "idle", run |-> 0, used |-> 0, tries |-> 0, waited |-> FALSE]
UserSet == Users \cup Readers \cup {Timer}

\* PrepareHierarchy has chosen Nova where Android cannot finish a system dump.
AutomationInit ==
  /\ aMode \in {"system", "shadow", "nova"}
  /\ aBadDump \in IF aMode = "nova" THEN BOOLEAN ELSE {FALSE}
  /\ aRunning = FALSE
  /\ aGen = 0
  /\ aCancel = 0
  /\ aTimer = FALSE
  /\ aProc = [g \in Runs |-> [pc |-> "none", cancelled |-> FALSE]]
  /\ aProviders = 0
  /\ aShadow = FALSE
  /\ aSlot = FALSE
  /\ aCapture = {}
  /\ aUser = [u \in UserSet |-> Nobody]

managerVars == <<aRunning, aGen, aCancel, aTimer>>
selectionVars == <<aProviders, aShadow>>

\* A caller forgets what it does not use any more: the run it starts or stops, and the
\* provider it asked.
Forget(caller) ==
  [caller EXCEPT !.run = IF caller.pc \in {"arm", "poll", "select", "cancel"} THEN @ ELSE 0,
                 !.used = IF caller.pc \in {"nova", "stop", "cancel", "force", "dump"} THEN @ ELSE 0,
                 !.waited = @ /\ caller.pc \notin {"compare", "return", "ensure"}]

Step(u, from, to) == aUser[u].pc = from /\ aUser' = [aUser EXCEPT ![u] = Forget(to)]
To(u, pc) == [aUser[u] EXCEPT !.pc = pc]

------------------------------------------------------------------------------
(* Start: startNova, or startNovaShadow in shadow mode. *)

\* The first look at running, then the packages are looked for without the lock.
\* A start that finds a run returns nil.
EnterStart(u, from, back) ==
  Step(u, from, [aUser[u] EXCEPT !.pc = IF aRunning THEN back ELSE "packages", !.back = back])

CallStart(u) ==
  /\ u \in Users
  /\ aMode # "system"
  /\ EnterStart(u, "idle", "idle")
  /\ UNCHANGED <<aMode, aBadDump, managerVars, aProc, selectionVars, aSlot, aCapture>>

\* Without its packages a start fails.  collectHierarchy goes on with what it
\* has, unless the system dump is known to be unreliable.
StartFails(u) ==
  LET back == aUser[u].back IN
  /\ Step(u, "packages",
          To(u, IF back = "shadow" THEN (IF aBadDump THEN "return" ELSE "shadow")
                ELSE IF back = "retry" THEN "return" ELSE back))
  /\ UNCHANGED <<aMode, aBadDump, managerVars, aProc, selectionVars, aSlot, aCapture>>

\* The second look, and the claim of a new generation.
ClaimRun(u) ==
  LET g == aGen + 1 IN
  /\ Step(u, "packages", IF aRunning THEN To(u, aUser[u].back)
                         ELSE [aUser[u] EXCEPT !.pc = "arm", !.run = g])
  /\ IF aRunning THEN UNCHANGED <<managerVars, aProc>>
     ELSE /\ g \in Runs
          /\ aGen' = g
          /\ aRunning' = TRUE
          /\ IF aMode = "shadow" THEN UNCHANGED <<aCancel, aProc>>
             ELSE aCancel' = g /\ aProc' = [aProc EXCEPT ![g].pc = "alive"]
          /\ UNCHANGED aTimer
  /\ UNCHANGED <<aMode, aBadDump, selectionVars, aSlot, aCapture>>

\* resetIdleTimer does nothing when no run is left.
ArmTimer(u) ==
  /\ aUser[u].pc = "arm"
  /\ Step(u, "arm", To(u, IF aProc[aUser[u].run].pc = "none" THEN aUser[u].back ELSE "poll"))
  /\ aTimer' = (aTimer \/ aRunning)
  /\ aShadow' = (aShadow \/ aProc[aUser[u].run].pc = "none")
  /\ UNCHANGED <<aMode, aBadDump, aRunning, aGen, aCancel, aProc, aProviders, aSlot, aCapture>>

\* Nova answers its health request, and then its provider is selected.
NovaReady(u) ==
  /\ aUser[u].pc = "poll"
  /\ aProc[aUser[u].run].pc = "alive"
  /\ Step(u, "poll", To(u, "select"))
  /\ UNCHANGED <<aMode, aBadDump, managerVars, aProc, selectionVars, aSlot, aCapture>>

SelectNova(u) ==
  /\ Step(u, "select", To(u, aUser[u].back))
  /\ aProviders' = aUser[u].run
  /\ UNCHANGED <<aMode, aBadDump, managerVars, aProc, aShadow, aSlot, aCapture>>

\* It does not answer in time: whatever runs by now is stopped.
NovaNotReady(u) ==
  /\ Step(u, "poll", [aUser[u] EXCEPT !.pc = "stop",
       !.back = CASE @ = "shadow" -> IF aBadDump THEN "return" ELSE "shadow"
                  [] @ = "retry" -> "return"
                  [] OTHER -> @])
  /\ UNCHANGED <<aMode, aBadDump, managerVars, aProc, selectionVars, aSlot, aCapture>>

------------------------------------------------------------------------------
(* Stop, and the end of an instrumentation. *)

CallStop(u) ==
  /\ u \in Users
  /\ Step(u, "idle", [Nobody EXCEPT !.pc = "stop"])
  /\ UNCHANGED <<aMode, aBadDump, managerVars, aProc, selectionVars, aSlot, aCapture>>

\* The idle timer fires; its goroutine calls Stop.
TimerFires ==
  /\ aTimer
  /\ aTimer' = FALSE
  /\ Step(Timer, "idle", [Nobody EXCEPT !.pc = "stop"])
  /\ UNCHANGED <<aMode, aBadDump, aRunning, aGen, aCancel, aProc, selectionVars, aSlot, aCapture>>

\* Under the lock: the run is given up, its cancel function taken along.  A new
\* generation keeps its exit from being reported later.
StopRun(u) ==
  /\ Step(u, "stop", IF aRunning THEN [aUser[u] EXCEPT !.pc = "cancel", !.run = aCancel]
                     ELSE To(u, aUser[u].back))
  /\ aRunning => aGen + 1 \in Runs
  /\ aGen' = IF aRunning THEN aGen + 1 ELSE aGen
  /\ aRunning' = FALSE
  /\ aCancel' = 0
  /\ aTimer' = FALSE
  /\ UNCHANGED <<aMode, aBadDump, aProc, selectionVars, aSlot, aCapture>>

\* After the lock: cancel, and the selection of providers is reset.
CancelRun(u) ==
  /\ Step(u, "cancel", To(u, "force"))
  /\ aProc' = IF aUser[u].run = 0 THEN aProc
              ELSE [aProc EXCEPT ![aUser[u].run].cancelled = @ \/ aProc[aUser[u].run].pc = "alive"]
  /\ aProviders' = 0
  /\ aShadow' = FALSE
  /\ UNCHANGED <<aMode, aBadDump, managerVars, aSlot, aCapture>>

\* A process that has ended has no use for its cancellation.
OverProcess == [pc |-> "over", cancelled |-> FALSE]

\* "am force-stop" ends every instrumentation of the host, whose ever it is.  An
\* error ends the fallback of a page tree.
ForceStop(u) ==
  \/ /\ Step(u, "force", To(u, aUser[u].back))
     /\ aProc' = [g \in Runs |-> IF aProc[g].pc = "alive" THEN OverProcess
                                 ELSE aProc[g]]
     /\ UNCHANGED <<aMode, aBadDump, managerVars, selectionVars, aSlot, aCapture>>
  \/ /\ Step(u, "force", To(u, IF aUser[u].back = "dump" THEN "return" ELSE aUser[u].back))
     /\ UNCHANGED <<aMode, aBadDump, managerVars, aProc, selectionVars, aSlot, aCapture>>

\* The instrumentation ends by itself, or because its command is cancelled.
InstrumentationEnds(g) ==
  /\ aProc[g].pc = "alive"
  /\ aProc' = [aProc EXCEPT ![g] = OverProcess]
  /\ UNCHANGED <<aMode, aBadDump, managerVars, selectionVars, aSlot, aCapture, aUser>>

\* Mutant: the exit of any generation ends the run.
ExitOfAny(g) ==
  /\ aProc[g].pc = "over"
  /\ aProc' = [aProc EXCEPT ![g].pc = "reset"]
  /\ aRunning' = FALSE /\ aCancel' = 0 /\ aTimer' = FALSE
  /\ UNCHANGED <<aMode, aBadDump, aGen, selectionVars, aSlot, aCapture, aUser>>

\* instrumentationExited: only of the current generation.  The selection is reset
\* after the lock, in the same goroutine.
InstrumentationExited(g) ==
  \/ /\ aProc[g].pc = "over"
     /\ aProc' = [aProc EXCEPT ![g].pc = IF aGen = g THEN "reset" ELSE "reported"]
     /\ aRunning' = (aRunning /\ aGen # g)
     /\ aCancel' = IF aGen = g THEN 0 ELSE aCancel
     /\ aTimer' = (aTimer /\ aGen # g)
     /\ UNCHANGED <<aMode, aBadDump, aGen, selectionVars, aSlot, aCapture, aUser>>
  \/ /\ aProc[g].pc = "reset"
     /\ aProc' = [aProc EXCEPT ![g].pc = "reported"]
     /\ aProviders' = 0
     /\ aShadow' = FALSE
     /\ UNCHANGED <<aMode, aBadDump, managerVars, aSlot, aCapture, aUser>>

------------------------------------------------------------------------------
(* Hierarchy and collectHierarchy, under captureMu. *)

CallHierarchy(u) ==
  /\ u \in Readers
  /\ aCapture = {}
  /\ aCapture' = {u}
  /\ Step(u, "idle", [Nobody EXCEPT !.pc = "ensure"])
  /\ UNCHANGED <<aMode, aBadDump, managerVars, aProc, selectionVars, aSlot>>

\* ensureNovaPrimary
EnsureNova(u) ==
  /\ IF aMode = "nova" \/ aBadDump THEN EnterStart(u, "ensure", "shadow")
     ELSE Step(u, "ensure", To(u, "shadow"))
  /\ UNCHANGED <<aMode, aBadDump, managerVars, aProc, selectionVars, aSlot, aCapture>>

\* waitForShadow: the look, and the wait for the slot, which may time out.
WaitShadow(u) ==
  LET shadow == aMode = "shadow" /\ aRunning IN
  /\ \/ Step(u, "shadow", [aUser[u] EXCEPT !.pc = IF shadow THEN "slot" ELSE "providers",
                                           !.waited = shadow])
     \/ ~aSlot /\ Step(u, "slot", To(u, "providers"))
     \/ aSlot /\ Step(u, "slot", To(u, "return"))
  /\ UNCHANGED <<aMode, aBadDump, managerVars, aProc, selectionVars, aSlot, aCapture>>

\* The idle timer is set again; the providers are copied.
TakeProviders(u) ==
  /\ Step(u, "providers",
          [aUser[u] EXCEPT !.pc = IF aProviders # 0 THEN "nova"
                                  ELSE IF aBadDump THEN "return" ELSE "dump",
                           !.used = aProviders])
  /\ aTimer' = (aTimer \/ aRunning)
  /\ UNCHANGED <<aMode, aBadDump, aRunning, aGen, aCancel, aProc, selectionVars, aSlot, aCapture>>

\* Only the server of its own run answers the provider's token.
NovaAnswers(u) == aProc[aUser[u].used].pc = "alive"

\* A transient failure of Nova has been repeated once.  The system's dump comes next, after Nova has
\* been released for it.
AskNova(u) ==
  /\ aUser[u].pc = "nova"
  /\ \/ NovaAnswers(u) /\ Step(u, "nova", To(u, "compare"))
     \/ /\ aBadDump
        /\ Step(u, "nova", To(u, IF aUser[u].tries = 0 THEN "return" ELSE "again"))
     \/ /\ ~aBadDump
        /\ Step(u, "nova", [aUser[u] EXCEPT !.pc = IF aMode = "nova" /\ aRunning THEN "stop" ELSE "dump",
                                            !.back = "dump"])
  /\ UNCHANGED <<aMode, aBadDump, managerVars, aProc, selectionVars, aSlot, aCapture>>

\* "uiautomator dump" succeeds, is killed or fails.  The first kill promotes Nova,
\* unless Nova runs as the primary.
DumpSystem(u) ==
  LET Fail(pc) == IF aUser[u].tries = 0 THEN pc ELSE "again" IN
  \/ /\ Step(u, "dump", To(u, "compare"))
     /\ UNCHANGED <<aMode, aBadDump, managerVars, aProc, selectionVars, aSlot, aCapture>>
  \/ /\ Step(u, "dump", To(u, Fail(IF aMode = "nova" /\ aRunning THEN "return" ELSE "promote")))
     /\ aBadDump' = TRUE
     /\ UNCHANGED <<aMode, managerVars, aProc, selectionVars, aSlot, aCapture>>
  \/ /\ Step(u, "dump", To(u, Fail("return")))
     /\ UNCHANGED <<aMode, aBadDump, managerVars, aProc, selectionVars, aSlot, aCapture>>

\* promoteNovaPrimary, and then MaxTries more collections.
Promote(u) ==
  /\ aMode' = "nova"
  /\ EnterStart(u, "promote", "retry")
  /\ UNCHANGED <<aBadDump, managerVars, aProc, selectionVars, aSlot, aCapture>>

Retry(u) ==
  /\ \/ Step(u, "retry", [aUser[u] EXCEPT !.pc = "ensure", !.tries = 1])
     \/ Step(u, "again", IF aUser[u].tries < MaxTries
                           THEN [aUser[u] EXCEPT !.pc = "ensure", !.tries = @ + 1]
                           ELSE To(u, "return"))
  /\ UNCHANGED <<aMode, aBadDump, managerVars, aProc, selectionVars, aSlot, aCapture>>

\* startShadow: in a goroutine of its own, when the slot is free.
StartShadow(u) ==
  /\ Step(u, "compare", To(u, "return"))
  /\ aSlot' = (aSlot \/ aShadow)
  /\ UNCHANGED <<aMode, aBadDump, managerVars, aProc, selectionVars, aCapture>>

\* Its own instrumentation ends with it, and by a force-stop any other: InstrumentationEnds.
ShadowEnds ==
  /\ aSlot
  /\ aSlot' = FALSE
  /\ UNCHANGED <<aMode, aBadDump, managerVars, aProc, selectionVars, aCapture, aUser>>

ReturnHierarchy(u) ==
  /\ Step(u, "return", Nobody)
  /\ aCapture' = {}
  /\ UNCHANGED <<aMode, aBadDump, managerVars, aProc, selectionVars, aSlot>>

UserStep(u) ==
  \/ StartFails(u) \/ ClaimRun(u) \/ ArmTimer(u) \/ NovaReady(u) \/ SelectNova(u)
  \/ NovaNotReady(u) \/ StopRun(u) \/ CancelRun(u) \/ ForceStop(u) \/ EnsureNova(u)
  \/ WaitShadow(u) \/ TakeProviders(u) \/ AskNova(u) \/ DumpSystem(u) \/ Promote(u)
  \/ Retry(u) \/ StartShadow(u) \/ ReturnHierarchy(u)

AutomationNext ==
  \/ \E u \in UserSet :
       CallStart(u) \/ CallStop(u) \/ CallHierarchy(u) \/ UserStep(u)
  \/ TimerFires \/ ShadowEnds
  \/ \E g \in Runs : InstrumentationEnds(g) \/ InstrumentationExited(g)

AutomationSpec == AutomationInit /\ [][AutomationNext]_automationVars

------------------------------------------------------------------------------
\* An instrumentation that is not cancelled is the current run's, or some call
\* that has taken its cancel function is about to use it: none is forgotten.
NoForgottenRun ==
  \A g \in Runs : aProc[g].pc = "alive" /\ ~aProc[g].cancelled =>
    \/ aRunning /\ aGen = g /\ aCancel = g
    \/ \E u \in UserSet : aUser[u].pc = "cancel" /\ aUser[u].run = g

\* The manager says "running" only of a run whose end has not been reported: the
\* late exit of an earlier run never hides or ends a later one.
RunningIsCurrent ==
  aRunning /\ aProc[aGen].pc # "none" => aProc[aGen].pc \in {"alive", "over"}

\* A run is stopped when nobody uses it: its timer is armed, about to be, or has
\* fired.
IdleRunIsTimed ==
  aRunning => \/ aTimer
              \/ aUser[Timer].pc = "stop"
              \/ \E u \in UserSet : aUser[u].pc = "arm"

\* The system's dump is the fallback of a Nova that has been released: the run
\* that failed is over, cancelled or being stopped.
FallbackReleasesNova ==
  \A u \in Readers : aUser[u].pc = "dump" /\ aUser[u].used # 0 =>
    LET g == aUser[u].used IN
    \/ aProc[g].pc # "alive"
    \/ aProc[g].cancelled
    \/ \E v \in UserSet : aUser[v].pc = "cancel" /\ aUser[v].run = g

\* A primary dump that has waited for the shadow's slot has the device without a
\* shadow comparison until it is over.
DumpWithoutShadow ==
  \A u \in Readers : aUser[u].pc = "dump" /\ aUser[u].waited => ~aSlot

AutomationSafe ==
  NoForgottenRun /\ RunningIsCurrent /\ IdleRunIsTimed /\ FallbackReleasesNova /\ DumpWithoutShadow
====
