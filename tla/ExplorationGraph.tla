---- MODULE ExplorationGraph ----
(* The traversal of exploration.Manager on the pages of the target: what a page *)
(* offers, which action is chosen, its execution, and the graph, the cycles and *)
(* the dead ends it records.  A page is its fingerprint; the application may    *)
(* show any page after any action; clocks may have run out whenever they are    *)
(* read; the weights of the scheduler may put any candidate first.              *)
EXTENDS Naturals, Sequences, FiniteSets

CONSTANTS
  Pages,           \* the target's pages, by fingerprint
  PageInfo,        \* per page: activity, semantic, nodes
  ActivityKind,    \* per activity: "plain", "settings", "language" or "launcher"
  EnableScroll, EnableBacktrack, RecoverPopups,
  MaxBacktracks, MaxStableScrolls, MaxNonScrolls, StuckLimit,
  CycleRepetitions, CycleMaxPeriod, RepeatedTransitionLimit,
  MaxActions       \* bound: actionAttemptNumber

NoStep == [type |-> "none", key |-> "none", back |-> FALSE, undo |-> FALSE]

ASSUME GraphAssumption ==
  /\ MaxStableScrolls \in Nat \ {0} /\ MaxNonScrolls \in Nat /\ StuckLimit \in Nat \ {0}
  /\ CycleRepetitions \in Nat \ {0, 1} /\ CycleMaxPeriod \in Nat \ {0}
  /\ RepeatedTransitionLimit \in Nat \ {0} /\ MaxBacktracks \in Nat

VARIABLES
  gPc,        \* "page", "choose" or "act"
  gPage,      \* the page last recorded
  gNodes,     \* m.nodes: per page, whether it is known, what it tried, its attempts
  gParents,   \* m.parents; m.returns has the same keys
  gReturned,  \* m.returnAttempts, up to 1
  gBlocked,   \* m.blockedEdges: pairs of a semantic state and an action key
  gSeen,      \* m.activityActionSeen: pairs of an activity and an action key
  gInputs,    \* m.inputTried
  gSemantics, \* m.seenSemantic
  gCycle,     \* m.cycles.history; pairCounts counts its window
  gPending,   \* loop.pending: its step, where it was taken and the step before it
  gLast,      \* the action of the last step
  gChosen,    \* the action to execute
  gLoop,      \* the rest of runLoop: exhaustion, dead ends, escalation
  gCount,     \* actionAttemptNumber, Backtracks
  gTaken      \* history: how often a tap but the way back was executed, per activity and key

graphVars == <<gPc, gPage, gNodes, gParents, gReturned, gBlocked, gSeen, gInputs, gSemantics,
               gCycle, gPending, gLast, gChosen, gLoop, gCount, gTaken>>
choiceVars == <<gReturned, gSeen, gLoop, gChosen>>
recordVars == <<gPage, gParents, gBlocked, gSemantics, gCycle, gPending>>

Activity(p) == PageInfo[p].activity
Semantic(x) == IF x \in Pages THEN PageInfo[x].semantic ELSE x
Semantics == {PageInfo[p].semantic : p \in Pages}
Activities == {Activity(p) : p \in Pages}
Keys == {n.key : n \in UNION {PageInfo[p].nodes : p \in Pages}}

\* A fingerprint is a hash in digits, an activity the name of a class.
ASSUME FingerprintAssumption == "none" \notin Pages /\ Activities \cap Pages = {}

Fresh == [known |-> FALSE, tried |-> {}, swipes |-> [k \in Keys |-> 0], taps |-> 0]

GraphInit ==
  /\ gPc = "page"
  /\ gPage = "none"
  /\ gNodes = [p \in Pages |-> Fresh]
  /\ gParents = [p \in Pages |-> "none"]
  /\ gReturned = [p \in Pages |-> 0]
  /\ gBlocked = {} /\ gSeen = {} /\ gInputs = {} /\ gSemantics = {}
  /\ gCycle = <<>>
  /\ gPending = [from |-> "none", act |-> NoStep, prev |-> NoStep]
  /\ gLast = NoStep
  /\ gChosen = NoStep
  /\ gLoop = [page |-> "none", stuck |-> "none", stuckAt |-> "none", ready |-> FALSE,
              backSent |-> "none", still |-> [x \in Semantics |-> 0],
              stalls |-> [x \in Semantics \X Keys |-> 0], armed |-> "none", cool |-> "none",
              escaped |-> "none", language |-> {}, shop |-> FALSE]
  /\ gCount = [actions |-> 0, backs |-> 0]
  /\ gTaken = [t \in Activities \X Keys |-> 0]

------------------------------------------------------------------------------
(* What a page offers.  A node has its type, its key and its traits.            *)

IsA(n, trait) == trait \in n.is

Pressed(n) == n.type # "swipe" /\ ~IsA(n, "back")

\* isLanguageSwitch and isLanguageChoice.
ForLanguage(n) == ~IsA(n, "option") /\ (IsA(n, "languageResource") \/ IsA(n, "languageLabel"))
LanguageSwitch(n) == Pressed(n) /\ ForLanguage(n)
LanguageChoice(a, n) ==
  Pressed(n) /\ ActivityKind[a] \in {"settings", "language"} /\ IsA(n, "option")

\* The session's rules, and its list of controls that are not to be used.
Allowed(n) == ~IsA(n, "denied") /\ ~ForLanguage(n)
Listed(n) == IsA(n, "listed")
SafeInput(n) == n.type = "input" => ~IsA(n, "sensitive")
\* A node is not walked past when it is disabled, hidden, a password or out of
\* bounds, of another package, or of an embedded ad that it does not dismiss.
Walked(n) == ~IsA(n, "inert") /\ ~IsA(n, "foreign") /\ (IsA(n, "inAd") => IsA(n, "dismiss"))
LargeEnough(n) == n.type = "swipe" => ~IsA(n, "minor")
Controls == [p \in Pages |->
  {n \in PageInfo[p].nodes :
     Walked(n) /\ Allowed(n) /\ SafeInput(n) /\ LargeEnough(n) /\ ~Listed(n)}]

\* languagePageCensus; a page of languages only is a picker.
Options(cs) == {n \in cs : Pressed(n) /\ IsA(n, "option")}
Confirms(n) == IsA(n, "confirm") \/ IsA(n, "skip")
Neutral(n) == IsA(n, "blank") \/ IsA(n, "languageLabel")
Others(cs) == {n \in cs : Pressed(n) /\ ~IsA(n, "option") /\ ~Neutral(n) /\ ~Confirms(n)}
IsPicker(cs) == Cardinality(Options(cs)) >= 2 /\ Others(cs) = {}
StartupSurface(a) == ActivityKind[a] = "plain"

\* preferredStartupLanguage: English before Chinese; startupLanguageConfirm.
PreferredLanguage(cs) ==
  LET English == {n \in cs : n.type = "tap" /\ ~IsA(n, "back") /\ IsA(n, "english")}
      Chinese == {n \in cs : n.type = "tap" /\ ~IsA(n, "back") /\ IsA(n, "chinese")}
  IN IF ~IsPicker(cs) THEN {} ELSE IF English # {} THEN English ELSE Chinese
LanguageConfirm(cs) == {n \in cs : n.type = "tap" /\ ~IsA(n, "back") /\ IsA(n, "confirm")}

\* blocksNamedLanguageResource and blocksLanguagePickerTap.
NamedResource(a, cs, n) ==
  /\ Pressed(n) /\ IsA(n, "option") /\ IsA(n, "languageResource")
  /\ ~(StartupSurface(a) /\ n \in PreferredLanguage(cs))
PickerTap(a, cs, n) ==
  /\ Pressed(n)
  /\ Cardinality(Options(cs)) >= 2
  /\ IF IsPicker(cs) THEN ~StartupSurface(a) \/ n \notin PreferredLanguage(cs)
     ELSE (StartupSurface(a) /\ Confirms(n)) \/ IsA(n, "option")

Purchase(n) == IsA(n, "purchase")
\* Controls of an account or a shop: isExternalRisk.
ExternalRisk(n) == IsA(n, "risk")
Recovery(n) == IsA(n, "recovery")

\* Languages and pickers forbid these of a page, whatever has happened.
LanguageBlocked == [p \in Pages |->
  {n \in Controls[p] :
     LET a == Activity(p) IN
     \/ LanguageSwitch(n) \/ LanguageChoice(a, n)
     \/ NamedResource(a, Controls[p], n) \/ PickerTap(a, Controls[p], n)
     \/ ActivityKind[a] = "language" /\ Pressed(n)}]

\* The closures "blocked", "seenTap" and "preferred" of chooseActionLocked.
Forbidden(p, n) ==
  \/ n \in LanguageBlocked[p]
  \/ gLoop.shop /\ Purchase(n)
  \/ <<Semantic(p), n.key>> \in gBlocked

\* Mutant: what the activity has seen is not asked.
SkippedForgetsSeen(p, n, inputs) ==
  Forbidden(p, n) \/ (n.type = "input" /\ <<Activity(p), n.key>> \in inputs)

Skipped(p, n, inputs) ==
  \/ Forbidden(p, n)
  \/ n.type = "tap" /\ <<Activity(p), n.key>> \in gSeen
  \/ n.type = "input" /\ <<Activity(p), n.key>> \in inputs

\* selectActionBlocked: the candidates, narrowed to recovery controls and then to
\* scrolls when a page has had its share of other actions.
Narrowed(s, preferred) == IF s \cap preferred = {} THEN s ELSE s \cap preferred
Candidates(p, tried, taps, skipped) ==
  LET free == {n \in Controls[p] \ skipped :
                 n.key \notin tried /\ (n.type = "swipe" => EnableScroll)}
      popups == IF RecoverPopups THEN Narrowed(free, {n \in free : Recovery(n)}) ELSE free
  IN IF taps >= MaxNonScrolls THEN Narrowed(popups, {n \in popups : n.type = "swipe"}) ELSE popups

\* First what this activity has not executed and is not an account's or a shop's.
SkippedOn(p, inputs) == {n \in Controls[p] : Skipped(p, n, inputs)}
OrdinaryChoice(p) ==
  LET node == gNodes[p]
      Rest(skipped) == Candidates(p, node.tried, node.taps, skipped)
      first == Rest({n \in Controls[p] : Skipped(p, n, gInputs) \/ ExternalRisk(n)})
  IN IF first # {} THEN first ELSE Rest(SkippedOn(p, gInputs))

------------------------------------------------------------------------------
(* recordPageLocked *)

Block(b, x, key) == b \cup {<<x, key>>}

\* cycleGuard.observe: the period the history ends with, CycleMaxPeriod + 1 for a
\* transition repeated within the window, 0 for none.
SameMove(s, t) == s.from = t.from /\ s.to = t.to
Repeats(h, period) ==
  /\ Len(h) >= period * CycleRepetitions
  /\ \A i \in Len(h) - period * (CycleRepetitions - 1) + 1 .. Len(h) : SameMove(h[i], h[i - period])
Count(h) == Cardinality({i \in 1 .. Len(h) : SameMove(h[i], h[Len(h)])})
Period(h) ==
  LET found == {k \in 1 .. CycleMaxPeriod : Repeats(h, k)} IN
  IF found # {} THEN CHOOSE k \in found : \A j \in found : k <= j
  ELSE IF Count(h) >= RepeatedTransitionLimit THEN CycleMaxPeriod + 1 ELSE 0

\* The transition that ends on page p, as the cycle guard sees it: across
\* activities it is between the activities.
Sample(p) ==
  LET from == gPending.from
      far == from \in Pages /\ Activity(from) # Activity(p)
  IN [from |-> IF far THEN Activity(from) ELSE Semantic(from),
      to |-> IF far THEN Activity(p) ELSE Semantic(p),
      key |-> IF gPending.act.undo THEN "backtrack" ELSE gPending.act.key,
      at |-> Semantic(from)]
Unguarded(s) == gPending.act.type = "input"
                \/ (gPending.act.type = "swipe" /\ ~gPending.act.undo /\ s.from = s.to)

\* noteSemanticProgress
UpTo(n, limit) == IF n < limit THEN n + 1 ELSE limit
Progress(loop, p) ==
  LET s == Semantic(p)
      still == UpTo(loop.still[s], StuckLimit)
  IN IF Semantic(gPending.from) # s
       THEN [loop EXCEPT !.stuck = "none", !.stuckAt = "none", !.backSent = "none", !.ready = FALSE]
     ELSE IF still < StuckLimit THEN [loop EXCEPT !.still[s] = still]
     ELSE [loop EXCEPT !.still[s] = still, !.stuck = s, !.stuckAt = Activity(p), !.ready = TRUE]

\* The pending step has led to page p.
Settle(p) ==
  LET from == gPending.from
      act == gPending.act
      here == Semantic(from) = Semantic(p)
      window == IF Semantic(p) \notin gSemantics /\ gSemantics # {} THEN <<>> ELSE gCycle
      sample == Sample(p)
      moves == IF Unguarded(sample) THEN window ELSE Append(window, sample)
      period == IF Unguarded(sample) THEN 0 ELSE Period(moves)
      backless == IF here /\ act.back /\ gPending.prev.type = "tap" /\ ~gPending.prev.back
                    THEN {<<Semantic(from), gPending.prev.key>>} ELSE {}
      scrolled == here /\ act.type = "swipe" /\ act.key \in Keys
      stalls == IF scrolled THEN UpTo(gLoop.stalls[<<Semantic(p), act.key>>], MaxStableScrolls) ELSE 0
      stalled == IF stalls = MaxStableScrolls THEN {<<Semantic(from), act.key>>} ELSE {}
      lost == IF act.undo /\ gParents[from] # p THEN {<<Semantic(from), "backtrack">>} ELSE {}
      cut == IF period = 0 THEN {}
             ELSE IF period <= CycleMaxPeriod
               THEN {<<moves[i].at, moves[i].key>> : i \in Len(moves) - period + 1 .. Len(moves)}
               ELSE {<<sample.at, sample.key>>}
  IN /\ gBlocked' = gBlocked \cup backless \cup stalled \cup lost \cup cut
     /\ gCycle' = moves
     /\ \E cooled \in BOOLEAN :
          gLoop' = [Progress(gLoop, p) EXCEPT
                      !.stalls = IF scrolled THEN [@ EXCEPT ![<<Semantic(p), act.key>>] = stalls] ELSE @,
                      !.armed = IF period > 0 /\ (Semantic(p) # gLoop.cool \/ cooled)
                                  THEN Semantic(p) ELSE @]
     /\ gParents' = [gParents EXCEPT ![p] =
                       IF ~gNodes[p].known /\ ~act.undo /\ from # p THEN from ELSE @]

\* A page is captured, is the target's and is ready: it is recorded.
RecordPage(p) ==
  /\ gPc = "page"
  /\ gPc' = "choose"
  /\ gPage' = p
  /\ gNodes' = [gNodes EXCEPT ![p].known = TRUE]
  /\ gSemantics' = gSemantics \cup {Semantic(p)}
  /\ IF gPending.from # "none" THEN Settle(p)
     ELSE /\ gCycle' = IF Semantic(p) \notin gSemantics /\ gSemantics # {} THEN <<>> ELSE gCycle
          /\ UNCHANGED <<gBlocked, gLoop, gParents>>
  /\ gPending' = [from |-> "none", act |-> NoStep, prev |-> NoStep]
  /\ UNCHANGED <<gReturned, gSeen, gInputs, gLast, gChosen, gCount, gTaken>>

------------------------------------------------------------------------------
(* chooseActionLocked *)

Act(n) == [type |-> n.type, key |-> n.key, back |-> IsA(n, "back"), undo |-> FALSE]
SystemBack == [type |-> "back", key |-> "back", back |-> FALSE, undo |-> FALSE]
Undo == [type |-> "back", key |-> "back", back |-> FALSE, undo |-> TRUE]
\* markActivityAction
Mark(n) == gSeen' = IF n.type = "tap" THEN gSeen \cup {<<Activity(gPage), n.key>>} ELSE gSeen

\* pageIsStuck
Stuck(p) == gLoop.ready /\ (gLoop.stuck = Semantic(p) \/ gLoop.stuckAt = Activity(p))
Unseen(p, ns) == {n \in ns : <<Activity(p), n.key>> \notin gSeen}
StartupChoice(p) ==
  LET liked == PreferredLanguage(Controls[p])
      accepted == \E n \in liked : <<Activity(p), n.key>> \in gLoop.language
  IN IF ~StartupSurface(Activity(p)) \/ Stuck(p) \/ liked = {} THEN {}
     ELSE IF Unseen(p, liked) # {} THEN Unseen(p, liked)
     ELSE IF accepted THEN Unseen(p, LanguageConfirm(Controls[p])) ELSE {}

Goes == gCount.actions < MaxActions /\ gPc' = "act"
                /\ gCount' = [gCount EXCEPT !.actions = @ + 1]
nodeVars == <<gNodes, gInputs>>

ChooseControl(n) ==
  /\ gPc = "choose"
  /\ n \in IF StartupChoice(gPage) # {} THEN StartupChoice(gPage) ELSE OrdinaryChoice(gPage)
  /\ Mark(n)
  /\ gChosen' = Act(n)
  /\ gLoop' = [gLoop EXCEPT !.page = "none"]
  /\ Goes
  /\ UNCHANGED <<recordVars, nodeVars, gReturned, gLast, gTaken>>

NothingLeft == gPc = "choose" /\ StartupChoice(gPage) = {} /\ OrdinaryChoice(gPage) = {}
Armed == gLoop.armed = Semantic(gPage)
\* coolEscalation
Cooled == IF Armed THEN [gLoop EXCEPT !.armed = "none", !.cool = Semantic(gPage)] ELSE gLoop
ReturnDue ==
  /\ EnableBacktrack /\ gParents[gPage] # "none" /\ gCount.backs < MaxBacktracks
  /\ Armed \/ (<<Semantic(gPage), "backtrack">> \notin gBlocked /\ gReturned[gPage] = 0)

ChooseReturn ==
  /\ NothingLeft /\ ReturnDue
  /\ gReturned' = [gReturned EXCEPT ![gPage] = 1]
  /\ gChosen' = Undo
  /\ gLoop' = [Cooled EXCEPT !.page = "none"]
  /\ Goes
  /\ UNCHANGED <<recordVars, nodeVars, gSeen, gLast, gTaken>>

\* exhaustedFingerprint, whose second capture in a row is enough.
Counted(loop) == [loop EXCEPT !.page = gPage]
VisibleBack == {n \in Controls[gPage] : n.type = "tap" /\ IsA(n, "back")}

\* stuckLeave: one back, and after it a relaunch, unless that has just been done.
StuckBack ==
  LET s == Semantic(gPage) IN
  /\ NothingLeft /\ ~ReturnDue /\ Stuck(gPage) /\ gLoop.backSent # s
  /\ gLoop' = [Cooled EXCEPT !.backSent = s, !.page = "none"]
  /\ gChosen' \in IF VisibleBack = {} THEN {SystemBack} ELSE {Act(n) : n \in VisibleBack}
  /\ Goes
  /\ UNCHANGED <<recordVars, nodeVars, gReturned, gSeen, gLast, gTaken>>
StuckRelaunch ==
  /\ NothingLeft /\ ~ReturnDue /\ Stuck(gPage) /\ gLoop.backSent = Semantic(gPage)
  /\ \/ Cooled.cool = Semantic(gPage) /\ gLoop' = Counted(Cooled)
     \/ gLoop' = [Cooled EXCEPT !.cool = Semantic(gPage), !.page = "none"]
  /\ gPc' = "page"
  /\ UNCHANGED <<recordVars, nodeVars, gReturned, gSeen, gChosen, gLast, gCount, gTaken>>

\* The second look at an exhausted page starts a new round; taps that the activity
\* has seen stay out of it.
FirstLook ==
  /\ NothingLeft /\ ~ReturnDue /\ ~Stuck(gPage)
  /\ gLoop' = Counted(Cooled)
  /\ gPc' = "page"
  /\ UNCHANGED <<recordVars, nodeVars, gReturned, gSeen, gChosen, gLast, gCount, gTaken>>

\* resetSelectableRoundLocked
NewRound ==
  /\ gNodes' = [p \in Pages |-> [Fresh EXCEPT !.known = gNodes[p].known]]
  /\ gReturned' = [p \in Pages |-> 0]
  /\ gInputs' = {}

RoundStarts ==
  LET free == Candidates(gPage, {}, 0, SkippedOn(gPage, {}))
      back == IF gLoop.escaped # Semantic(gPage) THEN VisibleBack ELSE {}
  IN /\ NothingLeft /\ ~ReturnDue /\ ~Stuck(gPage) /\ gLoop.page = gPage
     /\ NewRound
     /\ \/ \E n \in free :
             /\ Mark(n)
             /\ gChosen' = Act(n)
             /\ gLoop' = [Cooled EXCEPT !.page = "none"]
             /\ Goes
        \/ /\ free = {} /\ back # {}
           /\ gChosen' \in {Act(n) : n \in back}
           /\ gLoop' = [Cooled EXCEPT !.page = "none", !.escaped = Semantic(gPage)]
           /\ Goes
           /\ UNCHANGED gSeen
        \/ /\ free = {} /\ back = {}              \* the target is restarted
           /\ gLoop' = [Cooled EXCEPT !.page = "none"]
           /\ gPc' = "page"
           /\ UNCHANGED <<gSeen, gChosen, gCount>>
     /\ UNCHANGED <<recordVars, gLast, gTaken>>

------------------------------------------------------------------------------
(* executeChosen: the observation is validated and the action executed without  *)
(* the lock.                                                                    *)

\* validateObservation finds another page, or the input fails: nothing is recorded.
ActionDropped ==
  /\ gPc = "act"
  /\ gPc' = "page"
  /\ gChosen' = NoStep
  /\ UNCHANGED <<recordVars, nodeVars, gReturned, gSeen, gLoop, gLast, gCount, gTaken>>

\* What a node has tried after action a: a scroll counts until it has been repeated enough.
Tried(node, a) ==
  LET swipes == IF a.type = "swipe" THEN node.swipes[a.key] + 1 ELSE 0
  IN [node EXCEPT
        !.tried = IF a.type # "swipe" \/ swipes >= MaxStableScrolls THEN @ \cup {a.key} ELSE @,
        !.swipes = IF swipes \in 1 .. MaxStableScrolls - 1 THEN [@ EXCEPT ![a.key] = swipes] ELSE @,
        !.taps = IF a.type = "swipe" THEN 0 ELSE IF @ < MaxNonScrolls THEN @ + 1 ELSE @]

ActionExecuted ==
  LET a == gChosen
  IN /\ gPc = "act"
     /\ gPc' = "page"
     /\ gNodes' = IF a.undo THEN gNodes ELSE [gNodes EXCEPT ![gPage] = Tried(@, a)]
     /\ gInputs' = IF a.type = "input" THEN gInputs \cup {<<Activity(gPage), a.key>>} ELSE gInputs
     /\ gPending' = [from |-> gPage, act |-> a, prev |-> gLast]
     /\ gLast' = a
     /\ gCount' = [gCount EXCEPT !.backs = IF a.undo THEN @ + 1 ELSE @]
     /\ gTaken' = IF a.type = "tap" /\ ~a.back THEN [gTaken EXCEPT ![<<Activity(gPage), a.key>>] = @ + 1]
                                               ELSE gTaken
     /\ gLoop' = [gLoop EXCEPT !.language =
          IF \E n \in PreferredLanguage(Controls[gPage]) :
               n.key = a.key /\ StartupSurface(Activity(gPage))
            THEN @ \cup {<<Activity(gPage), a.key>>} ELSE @]
     /\ gChosen' = NoStep
     /\ UNCHANGED <<gPage, gParents, gBlocked, gSemantics, gCycle, gReturned, gSeen>>

------------------------------------------------------------------------------
(* What happens to the pending step before the next page of the target.         *)

\* Home and external packages: it is given up, and an external one blocks it.
PendingGivenUp ==
  /\ gPc = "page" /\ gPending.from # "none"
  /\ gBlocked' \in {gBlocked, Block(gBlocked, Semantic(gPending.from), gPending.act.key)}
  /\ gPending' = [from |-> "none", act |-> NoStep, prev |-> NoStep]
  /\ UNCHANGED <<gPc, gPage, gParents, gSemantics, gCycle, nodeVars, choiceVars, gLast, gCount, gTaken>>

\* blockPendingTapLocked: a handoff page or a failed purchase.
PendingTapBlocked ==
  /\ gPc = "page" /\ gPending.act.type = "tap" /\ ~gPending.act.back
  /\ gBlocked' = Block(gBlocked, Semantic(gPending.from), gPending.act.key)
  /\ \E paid \in BOOLEAN : gLoop' = [gLoop EXCEPT !.shop = @ \/ paid]
  /\ UNCHANGED <<gPc, gPage, gParents, gSemantics, gCycle, gPending, nodeVars, gReturned, gSeen,
                 gChosen, gLast, gCount, gTaken>>

\* recordSessionAction: its step is taken from an activity, not from a page.
SessionAction(p, type) ==
  LET a == [type |-> type, key |-> "session", back |-> FALSE, undo |-> FALSE] IN
  /\ gPc = "page" /\ gCount.actions < MaxActions
  /\ gCount' = [gCount EXCEPT !.actions = @ + 1]
  /\ gPending' = [from |-> Activity(p), act |-> a, prev |-> gLast]
  /\ gLast' = a
  /\ UNCHANGED <<gPc, gPage, gParents, gBlocked, gSemantics, gCycle, nodeVars, choiceVars, gTaken>>

\* The replay of a target page, and a gesture on a page that shows no control.
ReplayTarget(p) == SessionAction(p, "replay")
CoordinateGesture(p) == Controls[p] = {} /\ \E type \in {"tap", "swipe"} : SessionAction(p, type)

\* A special scene is answered: a step of its own, which leaves the pending one.
SpecialStep ==
  /\ gPc = "page" /\ gCount.actions < MaxActions
  /\ gCount' = [gCount EXCEPT !.actions = @ + 1]
  /\ gLast' = [type |-> "tap", key |-> "special", back |-> FALSE, undo |-> FALSE]
  /\ UNCHANGED <<gPc, recordVars, nodeVars, choiceVars, gTaken>>

\* The answers to an onboarding are spent: its activity counts as stuck.
OnboardingStays(p) ==
  /\ gPc = "page" /\ StartupSurface(Activity(p)) /\ gLoop.stuckAt # Activity(p)
  /\ gLoop' = [gLoop EXCEPT !.ready = TRUE, !.stuckAt = Activity(p)]
  /\ UNCHANGED <<gPc, recordVars, nodeVars, gReturned, gSeen, gChosen, gLast, gCount, gTaken>>

GraphNext ==
  \/ \E p \in Pages : RecordPage(p) \/ ReplayTarget(p) \/ CoordinateGesture(p) \/ OnboardingStays(p)
  \/ gPc = "choose" /\ \E n \in Controls[gPage] : ChooseControl(n)
  \/ ChooseReturn \/ StuckBack \/ StuckRelaunch \/ FirstLook \/ RoundStarts
  \/ ActionDropped \/ ActionExecuted \/ PendingGivenUp \/ PendingTapBlocked \/ SpecialStep

GraphSpec == GraphInit /\ [][GraphNext]_graphVars

------------------------------------------------------------------------------
\* What a start-up picker offers: its preferred language, and what confirms it.
StartupControls(p) ==
  IF StartupSurface(Activity(p)) /\ IsPicker(Controls[p])
    THEN PreferredLanguage(Controls[p]) \cup LanguageConfirm(Controls[p]) ELSE {}

\* An executed control is one that the page offers.  It is none of the languages of a picker
\* but what the traversal chooses there at a start-up, and none of a shop after a purchase has
\* failed, except for the picker's and the way back, which are not asked.
ChoiceIsSafe ==
  gPc = "act" /\ gChosen \notin {SystemBack, Undo} =>
    \E n \in Controls[gPage] :
      /\ gChosen = Act(n)
      /\ n \in Options(Controls[gPage]) /\ Cardinality(Options(Controls[gPage])) >= 2 => n \in StartupControls(gPage)
      /\ gLoop.shop /\ Purchase(n) => IsA(n, "back") \/ n \in StartupControls(gPage)

\* A new fingerprint does not reopen a tap its activity has executed: only the
\* way back is tapped again.
TapOncePerActivity ==
  \A tap \in Activities \X Keys : gTaken[tap] <= 1

\* The step that completes a cycle, or repeats a transition too often, is blocked.
CyclesAreCut ==
  gCycle # <<>> /\ Period(gCycle) > 0 =>
    <<gCycle[Len(gCycle)].at, gCycle[Len(gCycle)].key>> \in gBlocked

\* The way back from a page leads, by earlier pages, to one that was not reached by an action of
\* the traversal: no pages have their way back among themselves.
ParentsLeadBack ==
  /\ \A loop \in (SUBSET Pages) \ {{}} : \E p \in loop : gParents[p] \notin loop
  /\ \A p \in Pages : gParents[p] # "none" =>
       gNodes[p].known /\ (gParents[p] \in Pages => gNodes[gParents[p]].known)

GraphSafe == ChoiceIsSafe /\ TapOncePerActivity /\ CyclesAreCut /\ ParentsLeadBack
====
