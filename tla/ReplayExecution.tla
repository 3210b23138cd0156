---- MODULE ReplayExecution ----
(* runReplay of recordreplay/replay_execute.go: the actions of a case, one after *)
(* the other, on a screen that others change too.  Before each action the app    *)
(* must be in front; a permission dialog is allowed and waited for, anything     *)
(* else ends the replay.  A tap goes to where the recorded control is now.  The  *)
(* receipts of the steps decide the verdict.  RecordReplaySession has the        *)
(* session around it.                                                            *)
EXTENDS Integers, Sequences, FiniteSets, FiniteSetsExt

CONSTANTS
  Recorded,     \* the actions of the case: type, target, and for a text focus and whether empty
  Layouts,      \* what is on the screen: the app in front, the nodes, what a screenshot matches
  Loops,        \* the numbers of cycles a client asks for, -1 for until it is stopped
  MaxCycles,    \* bound on the cycles of a replay
  MaxReplays    \* bound on the replays of a behaviour

\* The types that Case.Validate lets pass; it lets a case without actions pass.
ReplayTypes == {"tap", "double_tap", "long_press", "swipe", "key", "text", "multi_touch",
                "assert_screenshot"}

ASSUME ReplayAssumption ==
  /\ MaxCycles \in Nat \ {0} /\ MaxReplays \in Nat
  /\ Loops \subseteq {-1} \cup (1 .. MaxCycles)
  /\ Len(Recorded) \in Nat /\ \A i \in 1 .. Len(Recorded) : Recorded[i].type \in ReplayTypes

VARIABLES
  eScreen,     \* the layout on the screen
  eReplay,     \* ReplayState and the place of runReplay
  eReceipts,   \* Manager.replayReceipts: the status of each step, by cycle and action
  eInput,      \* the last input sent to the device, and what the replay knew then
  eDone,       \* the actions executed since the last replay that began with the first
  eCount       \* replays so far

replayVars == <<eScreen, eReplay, eReceipts, eInput, eDone, eCount>>

NoInput == [kind |-> "none", at |-> 0, front |-> "none", page |-> {}]
NoReplay == [pc |-> "idle", from |-> 0, loops |-> 1, cycle |-> 0, completed |-> 0, part |-> 1,
             front |-> "none", page |-> {}, at |-> 0, cancelled |-> FALSE,
             reason |-> "none", verdict |-> "none"]

ReplayInit ==
  /\ eScreen \in Layouts
  /\ eReplay = NoReplay
  /\ eReceipts = <<>>
  /\ eInput = NoInput
  /\ eDone = <<>>
  /\ eCount = 0

-----------------------------------------------------------------------------
(* Where a recorded tap goes.                                              *)

Total == Len(Recorded)

\* The action under way is the one after those that are completed; a new cycle starts over.
Index == 1 + IF eReplay.completed = Total THEN 0 ELSE eReplay.completed
StepId == <<eReplay.cycle, Index>>
Doing == Recorded[Index]

IsPoint(type) == type \in {"tap", "double_tap", "long_press", "swipe"}

\* A description that is equal scores like a text; text stands for both.
Score(node, target) ==
  (IF target.id # "" /\ node.id = target.id THEN 100 ELSE 0)
  + (IF target.text # "" /\ node.text = target.text THEN 40 ELSE 0)
  + (IF target.class # "" /\ node.class = target.class THEN 10 ELSE 0)

\* Mutant: an action is looked for by its text and class although it has an id.
LeastScoreLow(target) == 10

LeastScore(target) == IF target.id # "" THEN 100 ELSE 40

Distance(node, target) == IF node.at >= target.at THEN node.at - target.at ELSE target.at - node.at

\* relocateTarget: the best score, and the nearest of these.
Relocated(page, target) ==
  LET fit == {n \in page : Score(n, target) >= LeastScore(target)}
      best == {n \in fit : \A m \in fit : Score(m, target) <= Score(n, target)}
  IN {n \in best : \A m \in best : Distance(n, target) <= Distance(m, target)}

\* permissionAllowPoint: the smallest node that allows and does not deny.
AllowNodes(page) == {n \in page : n.says = {"allow"} /\ \A m \in page : m.says = {"allow"} => n.area <= m.area}

\* execute: what is sent to the device for an action, in this order.
Inputs(action) ==
  CASE action.type = "double_tap" -> <<"tap", "tap">>
    [] action.type = "text" ->
         (IF action.focus THEN <<"tap">> ELSE <<>>) \o <<"select", "delete">>
         \o (IF action.empty THEN <<>> ELSE <<"paste">>)
    [] action.type = "assert_screenshot" -> <<"look">>
    [] OTHER -> <<action.type>>

-----------------------------------------------------------------------------
(* The client and the screen.                                              *)

\* A client resumes where the last replay stopped, or starts anew; the app is in front.
StartExecution(loops, from) ==
  /\ eReplay.pc = "idle"
  /\ eCount < MaxReplays
  /\ from \in {0, eReplay.completed}
  /\ eScreen.front = "target"
  /\ eReplay' = [NoReplay EXCEPT !.pc = "display", !.from = from, !.loops = loops,
                                 !.completed = from]
  /\ eReceipts' = <<>>
  /\ eDone' = IF from = 0 THEN <<>> ELSE eDone
  /\ eCount' = eCount + 1
  /\ UNCHANGED <<eScreen, eInput>>

StopExecution ==
  /\ eReplay.pc # "idle" /\ ~eReplay.cancelled
  /\ eReplay' = [eReplay EXCEPT !.cancelled = TRUE]
  /\ UNCHANGED <<eScreen, eReceipts, eInput, eDone, eCount>>

\* The app, or somebody, changes what is on the screen.
ScreenChanges ==
  /\ eReplay.pc # "idle"
  /\ eScreen' \in Layouts
  /\ UNCHANGED <<eReplay, eReceipts, eInput, eDone, eCount>>

-----------------------------------------------------------------------------
(* The loop.                                                               *)

Here(pc) == eReplay.pc = pc
GoOn(pc) == eReplay' = [eReplay EXCEPT !.pc = pc]
Finish(reason) == eReplay' = [eReplay EXCEPT !.pc = "persist", !.reason = reason]
Kept == UNCHANGED <<eScreen, eReceipts, eInput, eDone, eCount>>

\* A cycle of a case without actions, and the first of a replay that resumes behind the last
\* one, have nothing to do.
BeginCycle(cycle) ==
  LET over == Total = 0 \/ (cycle = 1 /\ eReplay.from = Total)
  IN eReplay' = [eReplay EXCEPT !.cycle = cycle, !.pc = IF over THEN "cycled" ELSE "accept"]

ReadDisplay ==
  /\ Here("display")
  /\ \/ ~eReplay.cancelled /\ BeginCycle(1)
     \/ Finish("display_unavailable")
  /\ Kept

\* ReceiptStore.Accept.  A step that is there already is not executed; no step id comes twice,
\* as StepsAreFresh says.
AcceptStep ==
  /\ Here("accept")
  /\ StepId \notin DOMAIN eReceipts
  /\ eReceipts' = [s \in DOMAIN eReceipts \cup {StepId} |->
                     IF s = StepId THEN "accepted" ELSE eReceipts[s]]
  /\ eReplay' = [eReplay EXCEPT !.pc = "delay", !.part = 1, !.front = "none", !.page = {}]
  /\ UNCHANGED <<eScreen, eInput, eDone, eCount>>

\* A delay that has passed already does not look at the context.
StepDelay ==
  /\ Here("delay")
  /\ \/ GoOn("front")
     \/ eReplay.cancelled /\ Finish("stopped")
  /\ Kept

\* Mutant: the app is looked for before the first action of a cycle only.
LookOnce ==
  /\ Here("front") \/ Here("cycleFront")
  /\ ~eReplay.cancelled
  /\ (Here("front") /\ Index > 1) \/ eScreen.front = "target"
  /\ IF Here("front")
     THEN eReplay' = [eReplay EXCEPT !.pc = "locate", !.front = IF Index = 1 THEN "target" ELSE @]
     ELSE BeginCycle(eReplay.cycle + 1)
  /\ Kept

\* ensureReplayForeground, before an action or a cycle: the app is there, or something else is,
\* or what is there cannot be said.
InFront ==
  /\ Here("front") \/ Here("cycleFront")
  /\ ~eReplay.cancelled
  /\ eScreen.front = "target"
  /\ IF Here("front") THEN eReplay' = [eReplay EXCEPT !.pc = "locate", !.front = "target"]
                      ELSE BeginCycle(eReplay.cycle + 1)
  /\ Kept

NotInFront ==
  /\ Here("front") \/ Here("cycleFront")
  /\ Finish("safety_stop")
  /\ Kept

\* A permission dialog: allow it, if its hierarchy, taken by then, shows how, and look again.
\* After twelve seconds it is NotInFront.
AllowPermission ==
  /\ Here("front") \/ Here("cycleFront")
  /\ ~eReplay.cancelled
  /\ eScreen.front = "permission"
  /\ \/ \E node \in AllowNodes(eScreen.nodes) :
          eInput' = [kind |-> "allow", at |-> node.at, front |-> "permission", page |-> eScreen.nodes]
     \/ UNCHANGED eInput
  /\ UNCHANGED <<eScreen, eReplay, eReceipts, eDone, eCount>>

\* The hierarchy may be of a screen that came since, or not be had.
Locate ==
  /\ Here("locate")
  /\ \/ /\ IsPoint(Doing.type)
        /\ \E node \in Relocated(eScreen.nodes, Doing.target) :
             eReplay' = [eReplay EXCEPT !.pc = "input", !.page = eScreen.nodes, !.at = node.at]
     \/ eReplay' = [eReplay EXCEPT !.pc = "input", !.at = Doing.target.at]
  /\ Kept

SendInput ==
  /\ Here("input")
  /\ eReplay.part <= Len(Inputs(Doing))
  /\ ~eReplay.cancelled
  /\ Inputs(Doing)[eReplay.part] # "look"
  /\ eInput' = [kind |-> Inputs(Doing)[eReplay.part], at |-> eReplay.at,
                front |-> eReplay.front, page |-> eReplay.page]
  /\ eReplay' = [eReplay EXCEPT !.part = @ + 1]
  /\ UNCHANGED <<eScreen, eReceipts, eDone, eCount>>

\* Mutant: a screenshot that differs is let pass.
AnyScreenshot ==
  /\ Here("input")
  /\ eReplay.part <= Len(Inputs(Doing))
  /\ ~eReplay.cancelled
  /\ Inputs(Doing)[eReplay.part] = "look"
  /\ eInput' = [NoInput EXCEPT !.kind = "look", !.at = eScreen.shot]
  /\ eReplay' = [eReplay EXCEPT !.part = @ + 1]
  /\ UNCHANGED <<eScreen, eReceipts, eDone, eCount>>

CompareScreenshot ==
  /\ Here("input") /\ eScreen.shot = Doing.expects
  /\ AnyScreenshot

Receipt(status) == eReceipts' = [eReceipts EXCEPT ![StepId] = status]

\* A command fails, also because the context is cancelled, or the screenshot differs: it is a
\* failed assertion in any case when the action is one.
InputFails ==
  /\ Here("input")
  /\ eReplay.part <= Len(Inputs(Doing))
  /\ Receipt("failed")
  /\ Finish(IF Doing.type = "assert_screenshot" THEN "assertion_failed" ELSE "input_failed")
  /\ UNCHANGED <<eScreen, eInput, eDone, eCount>>

StepDone ==
  /\ Here("input")
  /\ eReplay.part > Len(Inputs(Doing))
  /\ Receipt("executed")
  /\ eDone' = Append(eDone, Index)
  /\ eReplay' = [eReplay EXCEPT !.completed = Index,
                                !.pc = IF Index = Total THEN "cycled" ELSE "accept"]
  /\ UNCHANGED <<eScreen, eInput, eCount>>

\* The last cycle, or 400 ms and a look at the screen before the next.
CycleEnds ==
  /\ Here("cycled")
  /\ \/ eReplay.loops = eReplay.cycle /\ Finish("completed")
     \/ eReplay.loops # eReplay.cycle /\ eReplay.cycle < MaxCycles /\ GoOn("cycleFront")
     \/ eReplay.loops # eReplay.cycle /\ eReplay.cancelled /\ Finish("stopped")
  /\ Kept

\* Mutant: a replay is passed by the receipts alone.
VerdictOfReceipts ==
  IF Cardinality(DOMAIN eReceipts) = Total THEN "passed" ELSE "not_tested"

Verdict ==
  IF eReplay.reason = "assertion_failed" THEN "failed"
  ELSE IF /\ eReplay.reason = "completed"
          /\ \E i \in 1 .. Total : Recorded[i].type = "assert_screenshot"
          /\ Cardinality(DOMAIN eReceipts) = Total
  THEN "passed"
  ELSE "not_tested"

\* finishReplay and persistReplay.
PersistReplay ==
  /\ Here("persist")
  /\ \E verdict \in {Verdict, "not_tested"} :
       eReplay' = [eReplay EXCEPT !.pc = "idle", !.verdict = verdict]
  /\ Kept

ReplayStepNext ==
  \/ \E loops \in Loops, from \in 0 .. Total : StartExecution(loops, from)
  \/ StopExecution \/ ScreenChanges
  \/ ReadDisplay \/ AcceptStep \/ StepDelay
  \/ InFront \/ NotInFront \/ AllowPermission
  \/ Locate \/ SendInput \/ CompareScreenshot \/ InputFails \/ StepDone
  \/ CycleEnds \/ PersistReplay

ReplayExecutionSpec == ReplayInit /\ [][ReplayStepNext]_replayVars

-----------------------------------------------------------------------------

\* A replay and those that resume it execute the actions in their order, none twice and none
\* left out, cycle after cycle; the number completed is that of the last one executed.
ActionsInOrder ==
  /\ \A i \in 1 .. Len(eDone) : eDone[i] = 1 + ((i - 1) % Total)
  /\ eReplay.completed = IF eDone = <<>> THEN 0 ELSE eDone[Len(eDone)]

\* No step of a replay is accepted twice, and only the step under way is without an end.
StepsAreFresh ==
  /\ Here("accept") => StepId \notin DOMAIN eReceipts
  /\ \A s \in DOMAIN eReceipts :
       eReceipts[s] = "accepted" => s = StepId /\ eReplay.reason # "completed"

\* What is sent to the device is meant for the app that was in front when the action began, or
\* allows a permission the replay saw asked for; it never denies one.
InputsAreMeant ==
  eInput.kind \notin {"none", "look"} =>
    \/ eInput.kind # "allow" /\ eInput.front = "target"
    \/ /\ eInput.kind = "allow" /\ eInput.front = "permission"
       /\ \E n \in eInput.page : n.at = eInput.at /\ "allow" \in n.says /\ "deny" \notin n.says

\* A tap on a control that was recorded with an id goes to a control with that id when it is
\* not sent to the recorded place.
TapsFindTheirControl ==
  Here("input") /\ eReplay.page # {} /\ Doing.target.id # "" =>
    \E n \in eReplay.page : n.at = eReplay.at /\ n.id = Doing.target.id

\* A case passes only when each of its actions was executed and each screenshot matched.
PassedIsEarned ==
  eReplay.verdict = "passed" =>
    /\ \A i \in 1 .. Total : \E c \in 1 .. MaxCycles :
         <<c, i>> \in DOMAIN eReceipts /\ eReceipts[<<c, i>>] = "executed"
    /\ eInput.kind = "look" => \E i \in 1 .. Total : Recorded[i].expects = eInput.at

ReplaySafe ==
  ActionsInOrder /\ StepsAreFresh /\ InputsAreMeant /\ TapsFindTheirControl /\ PassedIsEarned
====
