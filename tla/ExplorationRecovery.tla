---- MODULE ExplorationRecovery ----
(* What exploration.Manager does before a page becomes part of its graph:       *)
(* answers to special scenes (permission, consent, ad, ...), the way back from  *)
(* other packages, and the ladder of gestures that ends in a restart of the     *)
(* target.  The device may show any scene at any capture; clocks may have run   *)
(* out whenever they are read.                                                  *)
EXTENDS Naturals, Sequences

CONSTANTS
  Scenes,       \* what a capture shows: id, fg, activity, text and controls
  Policies,     \* the specialHandling of a session, per kind of scene
  Shells,       \* activities without a cold start by themselves: ~coldStartAllowed
  AdActivities, \* activities of a known ad SDK: isKnownAdActivity
  Handoffs,     \* share and chooser activities: isHandoffSurface
  MaxAttempts, MaxExternal, MaxEscapes, MaxUnstable, MaxFailures,
  MaxNumber     \* bound: adEncounterSequence

\* The values that specialHandling may take; an empty one selects a default.
SpecialHandling ==
  [permission : {"pause", "allow", "deny"}, consent : {"pause", "accept", "decline"},
   paywall : {"pause", "dismiss", "explore"}, ad : {"pause", "dismiss"},
   review : {"pause", "dismiss"}, onboarding : {"pause", "advance"}]

ASSUME RecoveryAssumption ==
  /\ Policies \subseteq SpecialHandling
  /\ {MaxAttempts, MaxExternal, MaxEscapes, MaxUnstable, MaxFailures} \subseteq Nat \ {0}
  /\ MaxNumber \in Nat

VARIABLES
  rAt,       \* "look", "scene", "off", "turn" or "stopped", and the scene captured
  rPolicy,   \* config.SpecialHandling
  rLoop,     \* the scalars of runLoop
  rFails,    \* its counters of failures in a row
  rTries,    \* specialAttempts
  rWaits,    \* the keys of specialWaitStarted
  rExternal, \* externalAttempts
  rEscape,   \* escapeActivity, escapeAttempts and whether ladderCooldownUntil is set
  rHolds,    \* the handoff activities of surfaceHold
  rDid,      \* history: the last restart: why, where, what
  rBacked,   \* history: the activity that the last BACK of the ladder was pressed on
  rDone      \* history: answers executed since the scene was last over

recoveryVars == <<rAt, rPolicy, rLoop, rFails, rTries, rWaits, rExternal, rEscape,
                  rHolds, rDid, rBacked, rDone>>
ladderVars == <<rEscape, rDid, rBacked>>
sceneVars == <<rTries, rWaits, rDone>>

NoScene == [id |-> "none", fg |-> "none", activity |-> "none", text |-> {}, controls |-> {}]
NoRestart == [why |-> "none", activity |-> "none", what |-> "none"]
Foregrounds == {s.fg : s \in Scenes}
SceneActivities == {s.activity : s \in Scenes}
Kinds == {"permission", "system_picker", "system_settings", "system_resolver", "review",
          "billing_error", "purchase_confirmation", "consent", "onboarding", "ad",
          "load_failure", "purchase_failure", "paywall"}

------------------------------------------------------------------------------
(* inspectSpecialActivity: the first kind whose condition holds.                *)

Says(s, t) == t \in s.text
Offers(s, c) == c \in s.controls

ConsentPage(s) == Says(s, "consent") /\ (Offers(s, "accept") \/ Offers(s, "decline"))
\* A page with two languages is left to the traversal.
LanguagePage(s) == Says(s, "languages")
\* The failure and its retry are both on the screen.
LoadFailure(s) == Says(s, "failure") /\ Offers(s, "retry")

Detectors(s) ==
  LET on == s.fg = "target"
  IN << <<"permission", s.fg = "permission">>,
        <<"system_picker", s.fg = "picker">>,
        <<"system_settings", s.fg = "settings">>,
        <<"system_resolver", s.fg = "android" /\ Says(s, "resolver")>>,
        <<"review", s.fg = "vending" /\ Says(s, "review")>>,
        <<"billing_error", s.fg = "vending" /\ Says(s, "billing")>>,
        <<"purchase_confirmation", \/ s.fg = "vending" /\ Says(s, "purchase")
                                   \/ on /\ Says(s, "confirmation")>>,
        <<"consent", on /\ ConsentPage(s)>>,
        <<"onboarding", on /\ Says(s, "onboarding") /\ ~LanguagePage(s)>>,
        <<"ad", s.activity \in AdActivities>>,
        <<"load_failure", on /\ LoadFailure(s)>>,
        <<"purchase_failure", on /\ Says(s, "unpaid") /\ Offers(s, "dismiss")>>,
        <<"paywall", on /\ Says(s, "paywall")>>,
        <<"ad", on /\ Says(s, "ad") /\ Offers(s, "adDismiss")>>,
        <<"none", TRUE>> >>
SceneKind ==
  [s \in Scenes |->
     LET d == Detectors(s)
         first == CHOOSE i \in DOMAIN d : d[i][2] /\ \A j \in 1 .. i - 1 : ~d[j][2]
     IN d[first][1]]
Kind(s) == SceneKind[s]

\* The label the policy looks for: findSpecialAction with its targets.
Wanted(kind) ==
  CASE kind \in {"permission", "consent"} -> rPolicy[kind]   \* allow, deny, accept, decline
    [] kind = "onboarding" -> "next"
    [] kind = "billing_error" -> "ok"
    [] kind = "load_failure" -> "retry"
    [] OTHER -> "dismiss"
PolicyOf(kind) == IF kind \in DOMAIN rPolicy THEN rPolicy[kind] ELSE "dismiss"
\* On an ad also what looks like its close control, by its label or its corner.
AdControl(s) == Kind(s) = "ad" /\ Offers(s, "adDismiss")
Found(s) == Offers(s, Wanted(Kind(s))) \/ AdControl(s)
SystemKinds == {"system_picker", "system_settings", "system_resolver", "purchase_confirmation"}

\* On a viewport of a known size the place of a close control is tapped unseen, and
\* an onboarding is swiped on.
Corner(s) == IF Says(s, "viewport") THEN "corner" ELSE "back"
Swipeable(s) == Says(s, "viewport")

\* The event: its outcome, its action and the fallback action.
Event(s) ==
  LET kind == Kind(s)
      E(outcome, act, fallback) == [outcome |-> outcome, act |-> act, fallback |-> fallback]
  IN CASE PolicyOf(kind) = "explore" -> E("explore", "none", "none")
       [] PolicyOf(kind) = "pause" -> E("policy_required", "none", "none")
       [] kind \in SystemKinds ->
            E("action", IF kind = "purchase_confirmation" /\ s.fg = "target" /\ Found(s)
                          THEN "tap" ELSE "back", "none")
       [] kind = "ad" /\ s.activity \in AdActivities /\ ~Found(s) ->
            E("action", Corner(s), "back")
       [] kind = "onboarding" /\ Swipeable(s) -> E("action", IF Found(s) THEN "tap" ELSE "swipe", "swipe")
       [] Found(s) -> E("action", "tap", "none")
       [] kind = "permission" -> E("wait", "none", "none")
       [] kind = "review" -> E("action", "back", "none")
       [] OTHER -> E("unhandled", "none", "none")

\* attemptKey: an encounter of an ad, an activity or a fingerprint.
Key(s, number) ==
  CASE Kind(s) = "ad" -> <<"ad", number, s.activity>>
    [] Kind(s) \in {"load_failure", "purchase_failure"} -> <<Kind(s), 0, s.activity>>
    [] OTHER -> <<Kind(s), 0, s.id>>
SpecialKeys == {Key(s, n) : s \in Scenes, n \in 0 .. MaxNumber}
Episodes == {Key(s, 0) : s \in Scenes}
None == [k \in SpecialKeys |-> 0]

------------------------------------------------------------------------------
RecoveryInit ==
  /\ rAt = [pc |-> "look", scene |-> NoScene]
  /\ rPolicy \in Policies
  /\ rLoop = [ad |-> FALSE, number |-> 0, shop |-> FALSE, quiet |-> FALSE, stuck |-> "none",
              cold |-> FALSE, pending |-> "none"]
  /\ rFails = [unstable |-> 0, capture |-> 0, parse |-> 0, input |-> 0]
  /\ rTries = None
  /\ rWaits = {}
  /\ rExternal = [f \in Foregrounds |-> 0]
  /\ rEscape = [activity |-> "none", tries |-> 0, cooling |-> FALSE]
  /\ rHolds = {}
  /\ rDid = NoRestart
  /\ rBacked = "none"
  /\ rDone = [k \in Episodes |-> 0]

\* The next stage; a capture is over with its turn.
rPc == rAt.pc
rScene == rAt.scene
StepTo(from, to) ==
  /\ rPc = from
  /\ rAt' = [pc |-> to, scene |-> IF to \in {"scene", "off", "turn"} THEN rScene ELSE NoScene]

\* A failure in a row is counted; the last one ends the session.
Fails(counted, field, limit, from) ==
  /\ StepTo(from, IF counted[field] >= limit THEN "stopped" ELSE "look")
  /\ rFails' = counted
Counts(field, from) == Fails([rFails EXCEPT ![field] = @ + 1], field, MaxFailures, from)

CaptureFails ==
  /\ \/ Fails([rFails EXCEPT !.unstable = @ + 1, !.capture = 0], "unstable", MaxUnstable, "look")
     \/ Fails([rFails EXCEPT !.unstable = 0, !.capture = @ + 1], "capture", MaxFailures, "look")
  /\ UNCHANGED <<rPolicy, rLoop, sceneVars, rExternal, ladderVars, rHolds>>

\* A capture of scene s; ads begin and end with it, and seeing the target forgives
\* the other packages.
Look(s) ==
  LET ad == Kind(s) = "ad"
      begins == ad /\ ~rLoop.ad
      ends == ~ad /\ rLoop.ad /\ s.fg = "target"
  IN /\ s.activity \notin Handoffs
     /\ rPc = "look" /\ rAt' = [pc |-> "scene", scene |-> s]
     /\ rFails' = [rFails EXCEPT !.unstable = 0, !.capture = 0]
     /\ begins => rLoop.number < MaxNumber
     /\ rLoop' = [rLoop EXCEPT !.ad = (@ \/ ad) /\ ~ends,
                               !.number = IF begins THEN @ + 1 ELSE @,
                               !.quiet = @ /\ Kind(s) = "load_failure",
                               !.shop = @ \/ Kind(s) = "purchase_failure"]
     /\ rDone' = [k \in Episodes |-> IF ends /\ k[1] = "ad" THEN 0 ELSE rDone[k]]
     /\ rExternal' = IF s.fg = "target" THEN [f \in Foregrounds |-> 0] ELSE rExternal
     /\ rDid' = NoRestart
     /\ UNCHANGED <<rPolicy, rTries, rWaits, rEscape, rBacked, rHolds>>

\* The document cannot be parsed: not a scene, and not an ordinary page either.
SceneUnreadable(s) ==
  /\ s.activity \notin Handoffs
  /\ Fails([rFails EXCEPT !.unstable = 0, !.capture = 0, !.parse = @ + 1], "parse", MaxFailures, "look")
  /\ rExternal' = IF s.fg = "target" THEN [f \in Foregrounds |-> 0] ELSE rExternal
  /\ UNCHANGED <<rPolicy, rLoop, sceneVars, ladderVars, rHolds>>

\* One BACK, and quiet for a minute; the pending tap is blocked.
LeaveHandoff(s) ==
  /\ s.activity \in Handoffs
  /\ \/ StepTo("look", "look") /\ rHolds' = rHolds \cup {s.activity}
     \/ StepTo("look", "stopped") /\ rHolds' = rHolds \cup {s.activity}   \* the BACK fails
     \/ StepTo("look", "look") /\ s.activity \in rHolds /\ UNCHANGED rHolds
  /\ rFails' = [rFails EXCEPT !.unstable = 0, !.capture = 0]
  /\ UNCHANGED <<rPolicy, rLoop, sceneVars, rExternal, ladderVars>>

------------------------------------------------------------------------------
(* handleSpecialScene *)

CurrentKey == Key(rScene, rLoop.number)
CurrentKind == Kind(rScene)
GivenUp == CurrentKind = "load_failure" /\ rTries[CurrentKey] >= 2
Leaves == CurrentKind = "onboarding" /\ rLoop.stuck = rScene.activity

\* The loop goes on with what is no special scene, or no longer.
SceneIsOrdinary ==
  /\ StepTo("scene", "off")
  /\ CurrentKind = "none" \/ GivenUp \/ Leaves \/ Event(rScene).outcome = "explore"
  /\ rLoop' = [rLoop EXCEPT !.quiet = @ \/ GivenUp]
  /\ rWaits' = IF Event(rScene).outcome = "explore" /\ CurrentKind # "none"
                 THEN rWaits \ {CurrentKey} ELSE rWaits
  /\ UNCHANGED <<rPolicy, rFails, rTries, rDone, rExternal, ladderVars, rHolds>>

Answerable == rPc = "scene" /\ CurrentKind # "none" /\ ~GivenUp /\ ~Leaves

\* A wait starts with the first sight of its key, and may be over at once later.
SceneWaits ==
  /\ Answerable /\ Event(rScene).outcome = "wait"
  /\ StepTo("scene", "look")
  /\ rWaits' = rWaits \cup {CurrentKey}
  /\ UNCHANGED <<rPolicy, rLoop, rFails, rTries, rDone, rExternal, ladderVars, rHolds>>

\* What is executed: after an attempt, the fallback.
Answer ==
  LET e == Event(rScene) IN
  IF e.fallback # "none" /\ rTries[CurrentKey] > 0 THEN e.fallback ELSE e.act
WaitOver == Event(rScene).outcome = "wait" => CurrentKey \in rWaits
WaitsKept == IF Event(rScene).outcome = "wait" THEN rWaits ELSE rWaits \ {CurrentKey}

PolicyRequired ==
  /\ Answerable /\ Event(rScene).outcome = "policy_required"
  /\ StepTo("scene", "stopped")
  /\ rWaits' = WaitsKept
  /\ UNCHANGED <<rPolicy, rLoop, rFails, rTries, rDone, rExternal, ladderVars, rHolds>>

------------------------------------------------------------------------------
(* runRestart and restartExhaustedTarget: what, the ladder after it, and        *)
(* whether the target was relaunched.                                           *)

\* Mutant: the rungs of another activity count for this one.
LadderSharesRungs(activity, allowed) ==
  LET e == [rEscape EXCEPT !.activity = activity] IN
  IF ~allowed /\ activity \in Shells
    THEN {IF e.tries = 0 THEN [what |-> "back", escape |-> [e EXCEPT !.tries = 1]]
          ELSE [what |-> "relaunch", escape |-> [e EXCEPT !.tries = 0, !.cooling = TRUE]]}
  ELSE IF e.tries >= MaxEscapes
    THEN {[what |-> "relaunch", escape |-> [e EXCEPT !.activity = "none", !.tries = 0]]}
  ELSE {[what |-> IF e.tries = 0 THEN "back" ELSE "swipe", escape |-> [e EXCEPT !.tries = @ + 1]]}

Ladder(activity, allowed) ==
  LET e == IF rEscape.activity = activity THEN rEscape
           ELSE [rEscape EXCEPT !.activity = activity, !.tries = 0]
      R(what, after) == [what |-> what, escape |-> after]
  IN IF ~allowed /\ activity \in Shells
       THEN (IF e.cooling THEN {R("none", e)} ELSE {}) \cup    \* the clock may have run out
            {IF e.tries = 0 THEN R("back", [e EXCEPT !.tries = 1])
             ELSE R("relaunch", [e EXCEPT !.tries = 0, !.cooling = TRUE])}
     ELSE IF e.tries >= MaxEscapes
       THEN {R("relaunch", [e EXCEPT !.activity = "none", !.tries = 0])}
     ELSE {R(IF e.tries = 0 THEN "back" ELSE "swipe", [e EXCEPT !.tries = @ + 1])}

\* A relaunch clears the attempts, closes the ad and arms the start-up hold.
Restarts(why, loop, result) ==
  LET cold == result.what = "relaunch" IN
  /\ cold => loop.number < MaxNumber
  /\ rLoop' = IF cold THEN [loop EXCEPT !.ad = FALSE, !.number = @ + 1] ELSE loop
  /\ rTries' = IF cold THEN None ELSE rTries
  /\ rDone' = IF cold THEN [k \in Episodes |-> 0] ELSE rDone
  /\ rEscape' = IF cold THEN [result.escape EXCEPT !.activity = "none", !.tries = 0]
                ELSE result.escape
  /\ rDid' = [why |-> why, activity |-> rScene.activity, what |-> result.what]
  /\ rBacked' = IF result.what = "back" THEN rScene.activity ELSE rBacked

RestartFrom(from, why, loop) ==
  /\ \E result \in Ladder(rScene.activity, loop.cold) :
       Restarts(why, loop, result)
  /\ StepTo(from, "look") \/ StepTo(from, "stopped")   \* the command may fail
  /\ UNCHANGED <<rPolicy, rFails, rExternal, rHolds>>

\* No action matched: the session restarts, and so it does when the attempts are
\* spent.  A failed purchase restarts without leave for a cold start.
SceneUnhandled ==
  /\ Answerable /\ WaitOver /\ Answer = "none"
  /\ Event(rScene).outcome \in {"unhandled", "wait"}
  /\ rWaits' = WaitsKept
  /\ RestartFrom("scene", "unhandled", [rLoop EXCEPT !.cold = TRUE])
Spent == rTries[CurrentKey] >= MaxAttempts
AttemptsSpent ==
  /\ Answerable /\ Answer # "none" /\ Spent /\ CurrentKind # "onboarding"
  /\ rWaits' = WaitsKept
  /\ RestartFrom("scene", CurrentKind,
       [rLoop EXCEPT !.cold = @ \/ CurrentKind # "purchase_failure"])
OnboardingSpent ==
  /\ Answerable /\ Answer # "none" /\ Spent /\ CurrentKind = "onboarding"
  /\ StepTo("scene", "off")
  /\ rWaits' = WaitsKept
  /\ rLoop' = [rLoop EXCEPT !.stuck = rScene.activity]
  /\ UNCHANGED <<rPolicy, rFails, rTries, rDone, rExternal, ladderVars, rHolds>>

\* The attempt is counted, the scene validated, the action executed: a stale one is
\* not counted.
SceneAnswered ==
  LET up == [rTries EXCEPT ![CurrentKey] = @ + 1] IN
  /\ Answerable /\ Answer # "none" /\ ~Spent
  /\ rWaits' = WaitsKept
  /\ \/ /\ StepTo("scene", "look")                                     \* stale
        /\ UNCHANGED <<rTries, rDone, rFails>>
     \/ /\ Counts("input", "scene")
        /\ rTries' = up /\ UNCHANGED rDone
     \/ /\ StepTo("scene", "look")                                     \* executed
        /\ rTries' = up
        /\ rDone' = [rDone EXCEPT ![Key(rScene, 0)] = @ + 1]
        /\ rFails' = [rFails EXCEPT !.input = 0]
  /\ UNCHANGED <<rPolicy, rLoop, rExternal, ladderVars, rHolds>>

------------------------------------------------------------------------------
(* recoverOffTarget *)

OnTarget ==
  /\ StepTo("off", "turn")
  /\ rScene.fg = "target"
  /\ UNCHANGED <<rPolicy, rLoop, rFails, sceneVars, rExternal, ladderVars, rHolds>>

\* No foreground, a page that settles, or home within its cooldown: it waits.
OffTargetWaits ==
  /\ StepTo("off", "look")
  /\ rScene.fg # "target"
  /\ UNCHANGED <<rPolicy, rLoop, rFails, sceneVars, rExternal, ladderVars, rHolds>>

\* Home, or a return that went too far: the target is resumed, its process kept.
ResumeTarget ==
  /\ rScene.fg # "target"
  /\ rScene.fg = "home" \/ rLoop.pending = "undo"
  /\ StepTo("off", "look") \/ StepTo("off", "stopped")
  /\ rLoop' = [rLoop EXCEPT !.pending = "none"]
  /\ UNCHANGED <<rPolicy, rFails, sceneVars, rExternal, ladderVars, rHolds>>

External == rPc = "off" /\ rScene.fg \notin {"target", "home"} /\ rLoop.pending # "undo"
LeaveExternal ==
  /\ External /\ rExternal[rScene.fg] < MaxExternal
  /\ StepTo("off", "look") \/ StepTo("off", "stopped")
  /\ rExternal' = [rExternal EXCEPT ![rScene.fg] = @ + 1]
  /\ rLoop' = [rLoop EXCEPT !.pending = "none"]
  /\ UNCHANGED <<rPolicy, rFails, sceneVars, ladderVars, rHolds>>
\* relaunchTarget; the attempts of special scenes stay.
RelaunchFromExternal ==
  /\ External /\ rExternal[rScene.fg] >= MaxExternal
  /\ StepTo("off", "look") \/ StepTo("off", "stopped")
  /\ rExternal' = [f \in Foregrounds |-> 0]
  /\ rEscape' = [rEscape EXCEPT !.activity = "none", !.tries = 0]
  /\ rLoop' = [rLoop EXCEPT !.pending = "none"]
  /\ UNCHANGED <<rPolicy, rFails, sceneVars, rDid, rBacked, rHolds>>

------------------------------------------------------------------------------
(* The turn of an ordinary page, of which ExplorationGraph has the rest.        *)

\* A page that is not ready stays out of the graph: it settles after an answer or a
\* relaunch, or it is empty and may be a start-up page.
PageSettles ==
  /\ StepTo("turn", "look")
  /\ \/ UNCHANGED rFails
     \/ rFails' = [rFails EXCEPT !.parse = 0]
  /\ UNCHANGED <<rPolicy, rLoop, sceneVars, rExternal, ladderVars, rHolds>>

\* An activity outside the session's list is left by BACK, which may fail.
LeaveGuarded ==
  /\ StepTo("turn", "look") \/ StepTo("turn", "stopped")
  /\ rFails' = [rFails EXCEPT !.parse = 0]
  /\ UNCHANGED <<rPolicy, rLoop, sceneVars, rExternal, ladderVars, rHolds>>

\* The battery is low, or the time is over.
SessionEnds ==
  /\ StepTo("turn", "stopped")
  /\ UNCHANGED <<rPolicy, rLoop, rFails, sceneVars, rExternal, ladderVars, rHolds>>

\* It is replayed or left by an action, which is pending and of interest here when
\* it undoes a step; it may be found stuck.
OrdinaryTurn ==
  /\ StepTo("turn", "look")
  /\ \E pending \in {"none", "undo"}, stuck \in {"none", rScene.activity} :
       rLoop' = [rLoop EXCEPT !.pending = pending, !.stuck = stuck]
  /\ rFails' = [rFails EXCEPT !.parse = 0, !.input = 0]
  /\ UNCHANGED <<rPolicy, sceneVars, rExternal, ladderVars, rHolds>>
TurnFails ==
  /\ \/ Counts("parse", "turn")
     \/ Counts("input", "turn")
  /\ UNCHANGED <<rPolicy, rLoop, sceneVars, rExternal, ladderVars, rHolds>>

\* An exhausted round; a stuck state has had its BACK and is relaunched at once.
GraphRestart ==
  /\ UNCHANGED rWaits
  /\ RestartFrom("turn", "graph", [rLoop EXCEPT !.cold = FALSE, !.pending = "none"])
StuckRestart ==
  /\ rPc = "turn" /\ rLoop.stuck = rScene.activity
  /\ Restarts("stuck", [rLoop EXCEPT !.pending = "none"], [what |-> "relaunch", escape |-> rEscape])
  /\ StepTo("turn", "look") \/ StepTo("turn", "stopped")
  /\ UNCHANGED <<rPolicy, rFails, rWaits, rExternal, rHolds>>

RecoveryNext ==
  \/ CaptureFails \/ \E s \in Scenes : Look(s) \/ SceneUnreadable(s) \/ LeaveHandoff(s)
  \/ SceneIsOrdinary \/ SceneWaits \/ PolicyRequired
  \/ SceneUnhandled \/ AttemptsSpent \/ OnboardingSpent \/ SceneAnswered
  \/ OnTarget \/ OffTargetWaits \/ ResumeTarget \/ LeaveExternal \/ RelaunchFromExternal
  \/ PageSettles \/ LeaveGuarded \/ SessionEnds
  \/ OrdinaryTurn \/ TurnFails \/ GraphRestart \/ StuckRestart

RecoverySpec == RecoveryInit /\ [][RecoveryNext]_recoveryVars

------------------------------------------------------------------------------
\* Between two restarts of the target a scene is answered at most MaxAttempts
\* times, a load failure twice: whatever else appears in between, and however the
\* text of an ad changes.
SpecialBudget ==
  \A k \in Episodes :
    rDone[k] <= IF k[1] = "load_failure" /\ MaxAttempts > 2 THEN 2 ELSE MaxAttempts

\* The ladder kills no activity on which it has not pressed BACK first, although
\* shells and other activities share its counter and the session moves on between
\* its steps.
KillAfterBack ==
  rDid.what = "relaunch" /\ rDid.why # "stuck" => rBacked = rDid.activity

RecoverySafe == SpecialBudget /\ KillAfterBack
====
