---- MODULE MCAgentServices ----
(* The services of the agent that share no state with each other, checked side by    *)
(* side: a behaviour is one of the service it starts with, and the state space is    *)
(* the sum, not the product, of theirs.                                              *)
EXTENDS ExplorationGraph, ExplorationRecovery, TouchRecording, AutomationLifecycle,
        ScrcpySession, ScrcpyControl, DownloadTasks, RuntimeBootstrap,
        ReplayExecution, CaseStore, ArtifactSessions

VARIABLE service   \* the one whose steps the behaviour takes

Services == {"graph", "recovery", "recording", "automation", "session", "control", "downloads", "bootstrap",
             "replay", "cases", "sessions"}

vars == <<service, graphVars, recoveryVars, touchVars, automationVars, scrcpyVars, controlVars,
          downloadVars, bootstrapVars, replayVars, caseStoreVars, sessionVars>>

\* A service that has several initial states is in one of them when it is not the one.
Init ==
  /\ service \in Services
  /\ GraphInit /\ RecoveryInit /\ TouchInit /\ AutomationInit
  /\ ScrcpyInit /\ ControlInit /\ DownloadInit /\ BootstrapInit
  /\ ReplayInit /\ CaseStoreInit /\ SessionsInit
  /\ service # "automation" => aMode = "system"
  /\ service # "bootstrap" => /\ bFile = [p \in PartSet |-> [at |-> "none", kept |-> "none"]]
                             /\ bPackage = [p \in Apks |-> "none"]
  /\ service # "replay" => eScreen = CHOOSE l \in Layouts : TRUE
  /\ service # "sessions" => nStaged /\ nClock = 1

\* A step of the service s leaves the variables of the others alone.
Turn(s) ==
  /\ service = s
  /\ UNCHANGED service
  /\ s # "graph" => UNCHANGED graphVars
  /\ s # "recovery" => UNCHANGED recoveryVars
  /\ s # "recording" => UNCHANGED touchVars
  /\ s # "automation" => UNCHANGED automationVars
  /\ s # "session" => UNCHANGED scrcpyVars
  /\ s # "control" => UNCHANGED controlVars
  /\ s # "downloads" => UNCHANGED downloadVars
  /\ s # "bootstrap" => UNCHANGED bootstrapVars
  /\ s # "replay" => UNCHANGED replayVars
  /\ s # "cases" => UNCHANGED caseStoreVars
  /\ s # "sessions" => UNCHANGED sessionVars

Next ==
  \/ Turn("graph") /\ GraphNext
  \/ Turn("recovery") /\ RecoveryNext
  \/ Turn("recording") /\ TouchNext
  \/ Turn("automation") /\ AutomationNext
  \/ Turn("session") /\ ScrcpyNext
  \/ Turn("control") /\ ControlNext
  \/ Turn("downloads") /\ DownloadNext
  \/ Turn("bootstrap") /\ BootstrapNext
  \/ Turn("replay") /\ ReplayStepNext
  \/ Turn("cases") /\ CaseStoreNext
  \/ Turn("sessions") /\ SessionsNext

Spec == Init /\ [][Next]_vars

-----------------------------------------------------------------------------
(* The pages of the exploration: two of one activity and meaning, a language picker *)
(* with its confirmation and way back, and an empty page.                           *)

Control(type, key, is) == [type |-> type, key |-> key, is |-> is]
Page(activity, semantic, nodes) == [activity |-> activity, semantic |-> semantic, nodes |-> nodes]
ListPage == Page("A", "s1", {Control("tap", "open", {"risk"}), Control("swipe", "feed", {}),
                             Control("tap", "buy", {"purchase"})})
MCPages == {"p1", "p2", "p3", "p4"}
MCPageInfo == [
  p1 |-> ListPage,
  p2 |-> ListPage,
  p3 |-> Page("B", "s3", {Control("tap", "en", {"option", "english"}), Control("tap", "de", {"option"}),
                          Control("tap", "next", {"confirm"}), Control("tap", "up", {"back"})}),
  p4 |-> Page("B", "s4", {})]
MCActivityKind == [A |-> "plain", B |-> "plain"]

(* The scenes of the recovery: of the target, its special pages, and what is not the target. *)

Scene(id, fg, activity, text) ==
  [id |-> id, fg |-> fg, activity |-> activity, text |-> text,
   controls |-> IF id = "unpaid" THEN {"dismiss"} ELSE {}]
MCScenes == {
  Scene("plain", "target", "main", {}),
  Scene("unpaid", "target", "main", {"unpaid"}),
  Scene("ad", "target", "ad", {"viewport"}),
  Scene("guide", "target", "main", {"onboarding", "viewport"}),
  Scene("grant", "permission", "grant", {}),
  Scene("rate", "vending", "store", {"review"}),
  Scene("home", "home", "desktop", {}),
  Scene("chrome", "browser", "web", {}),
  Scene("share", "android", "chooser", {})}
MCPolicies == {
  [permission |-> "allow", consent |-> "accept", paywall |-> "explore", ad |-> "dismiss",
   review |-> "pause", onboarding |-> "advance"]}

(* The case that is replayed, and the screens it meets: the page with the control moved *)
(* and another in its place, the page without it, a permission dialog, and the desktop.  *)

OnPage(id, at) == [id |-> id, text |-> "go", class |-> "button", says |-> {}, area |-> 1, at |-> at]
Button(says, at) == [id |-> "", text |-> "", class |-> "button", says |-> says, area |-> 1, at |-> at]
RecordedAs(type, target, focus, expects) ==
  [type |-> type, target |-> target, focus |-> focus, empty |-> FALSE, expects |-> expects]
NoTarget == [id |-> "", text |-> "", class |-> "", at |-> 0]
MCRecorded == <<
  RecordedAs("tap", [id |-> "buy", text |-> "go", class |-> "button", at |-> 2], FALSE, 0),
  RecordedAs("text", NoTarget, TRUE, 0),
  RecordedAs("assert_screenshot", NoTarget, FALSE, 1)>>
Layout(front, nodes, shot) == [front |-> front, nodes |-> nodes, shot |-> shot]

MCLayouts == {
  Layout("launcher", {}, 3),
  Layout("target", {OnPage("buy", 3), OnPage("other", 2)}, 1),
  Layout("target", {OnPage("other", 2)}, 2),
  Layout("permission", {Button({"allow"}, 1), Button({"allow", "deny"}, 2)}, 3)}
MCLoops == {-1, 1, 2}

MCParts == <<"companion", "host">>

-----------------------------------------------------------------------------
(* Properties of services that are told apart above and belong together.  *)

\* The screen and control channel of the device: one screen at a time that is let go when its
\* viewer leaves, and clipboard acknowledgements that reach the request they answer.
ScrcpyChannels == ScrcpySafe /\ ScrcpyControlSafe

\* A case is made of the touches of its recording, is whole on disk, and is replayed step by
\* step on the app it is for.
CasesAndReplays == RecordingSafe /\ CasesSafe /\ ReplaySafe

\* What the agent puts on the device: a session directory is whole and the newest is kept, a
\* download is installed by its own task or removed, and a bootstrap that fails leaves the
\* device with what it had.
DeviceFilesSafe == DownloadsSafe /\ BootstrapSafe /\ SessionDirectoriesSafe
====
