---- MODULE TouchRecording ----
(* What a recording makes of the touches on the screen: touchreader/reader.go *)
(* turns the kernel's reports into down, move and up events, the Normalizer   *)
(* of recordreplay/normalize.go turns these into gestures, and                *)
(* recording_capture.go appends the gestures, and the text, keys and          *)
(* screenshot assertions that clients ask for, to the recording's case.       *)
(* RecordReplaySession has the session around it.  A place stands for the     *)
(* points within the distance that makes a tap, a tick for a stretch of time. *)
EXTENDS Integers, Sequences, FiniteSets, SequencesExt

CONSTANTS
  Slots,           \* contact slots of the touch device, integers
  Places,          \* where a finger can be
  Overlay,         \* the places of the recorder's own overlay
  Requests,        \* clients that append to the recording
  LongTicks,       \* a finger this long in its place is a long press: 500 ms
  DoubleTicks,     \* two taps this close are a double tap: 350 ms
  MaxTicks,        \* bound on the clock
  MaxInputs,       \* bound on the touches and append requests of a behaviour
  MaxRecordings    \* bound on the recordings of a behaviour

ASSUME TouchAssumption ==
  /\ Slots \subseteq Int /\ Slots # {} /\ Overlay \subseteq Places
  /\ LongTicks \in Nat /\ DoubleTicks \in Nat

VARIABLES
  tClock,      \* ticks since the start
  tRecording,  \* recordGeneration, the flags, Manager.excluded, the first touch after it
  tSeen,       \* captureEvent: the down event under way, its time, what was observed
  tGesture,    \* Normalizer.gestures
  tCompleted,  \* Normalizer.completed
  tTargets,    \* Manager.pendingTargets: the touch each was observed for, 0 for none
  tActions,    \* Manager.current.Actions
  tAssets,     \* Manager.recordingAssets: the screenshot under each reference
  tRequest,    \* the append request of each client
  tCount       \* touches and requests so far

touchVars == <<tClock, tRecording, tSeen, tGesture, tCompleted, tTargets,
               tActions, tAssets, tRequest, tCount>>
gestureVars == <<tGesture, tCompleted, tTargets>>
caseVars == <<tActions, tAssets>>

NoSeen == [pc |-> "scan", slot |-> 0, touch |-> 0, place |-> "none", at |-> 0, observed |-> 0]
NoRequest == [pc |-> "idle", kind |-> "input", recording |-> 0, shot |-> 0]

TouchInit ==
  /\ tClock = 0
  /\ tRecording = [generation |-> 0, running |-> FALSE, saved |-> TRUE, excluded |-> {}, first |-> 1]
  /\ tSeen = NoSeen
  /\ tGesture = [s \in Slots |-> NoSeen]
  /\ tCompleted = {}
  /\ tTargets = [s \in Slots |-> 0]
  /\ tActions = <<>>
  /\ tAssets = <<>>
  /\ tRequest = [q \in Requests |-> NoRequest]
  /\ tCount = [touches |-> 0, appends |-> 0]

-----------------------------------------------------------------------------
(* The session, as far as the capture sees it.                             *)

Tick ==
  /\ tClock < MaxTicks
  /\ tClock' = tClock + 1
  /\ UNCHANGED <<tRecording, tSeen, gestureVars, caseVars, tRequest, tCount>>

\* A recording starts only when the last one is saved.
BeginRecording(excluded) ==
  /\ ~tRecording.running /\ tRecording.saved
  /\ tRecording.generation < MaxRecordings
  /\ tRecording' = [generation |-> tRecording.generation + 1, running |-> TRUE, saved |-> FALSE,
                    excluded |-> excluded, first |-> tCount.touches + 1]
  /\ tActions' = <<>> /\ tAssets' = <<>>
  /\ UNCHANGED <<tClock, tSeen, gestureVars, tRequest, tCount>>

Reading == tRecording.running /\ tSeen.pc = "scan"

\* The getevent process is cancelled or dies: Scan returns false once the events of the last
\* report are with the sink.  Fingers still down are forgotten with it: nothing reads the
\* Normalizer and the pending targets until the next recording replaces them.
CaptureReturns ==
  /\ Reading
  /\ tRecording' = [tRecording EXCEPT !.running = FALSE]
  /\ tGesture' = [s \in Slots |-> NoSeen] /\ tCompleted' = {}
  /\ tTargets' = [s \in Slots |-> 0]
  /\ UNCHANGED <<tClock, tSeen, caseVars, tRequest, tCount>>

\* Case.Validate: what Seal refuses to put on disk.
InOrder(actions) == \A i, j \in DOMAIN actions : i < j => actions[i].at <= actions[j].at
DistinctContacts(a) == Cardinality({c.slot : c \in a.contacts}) = Cardinality(a.contacts)
ValidCase(actions) == InOrder(actions) /\ \A i \in DOMAIN actions : DistinctContacts(actions[i])

\* The finalization after the stop.  A case it refuses stays in memory, unsaved.
SealCase ==
  /\ ~tRecording.running /\ ~tRecording.saved
  /\ ValidCase(tActions)
  /\ tRecording' = [tRecording EXCEPT !.saved = TRUE]
  /\ UNCHANGED <<tClock, tSeen, gestureVars, caseVars, tRequest, tCount>>

\* SetExcludedBoundsOwned: the overlay has moved.
MoveOverlay(bounds) ==
  /\ tRecording.running /\ tRecording.excluded # bounds
  /\ tRecording' = [tRecording EXCEPT !.excluded = bounds]
  /\ UNCHANGED <<tClock, tSeen, gestureVars, caseVars, tRequest, tCount>>

-----------------------------------------------------------------------------
(* The reader and captureEvent.                                            *)

\* The reader emits a down event for a slot with a new tracking id and an up event for one
\* whose id is withdrawn, slot by slot when the report is complete.  A report that lifts a
\* finger and puts another into its slot emits the down event alone.  Move events are left
\* out: they change only the last point of a gesture, which the up event sets anew.
Reports(s) == Reading /\ s \in Slots

\* targetAt: the control of the hierarchy that a touch hits, if it shows one.
Observed(touch, found) == IF found THEN touch ELSE 0

\* A down event: its time is taken first.  The hierarchy is read next, for as long as half a
\* second and outside the lock; it may fail, and may show nothing at the place.
TouchDown(s, place, found) ==
  /\ Reports(s)
  /\ tCount.touches + tCount.appends < MaxInputs
  /\ tCount' = [tCount EXCEPT !.touches = @ + 1]
  /\ tSeen' = [pc |-> "feed", slot |-> s, touch |-> tCount'.touches, place |-> place, at |-> tClock,
               observed |-> Observed(tCount'.touches, found)]
  /\ UNCHANGED <<tClock, tRecording, gestureVars, caseVars, tRequest>>

Active(s) == tGesture[s].pc = "feed"
Inside(a) == \E c \in a.contacts : c.from \in tRecording.excluded

\* Normalizer.finish: the gesture that a set of lifted fingers makes.
Gesture(lifted, target) ==
  LET one == CHOOSE c \in lifted : TRUE
      kind == IF Cardinality(lifted) > 1 THEN "multi_touch"
              ELSE IF one.from # one.to THEN "swipe"
              ELSE IF one.ended - one.at >= LongTicks THEN "long_press" ELSE "tap"
  IN [type |-> kind, at |-> Min({c.at : c \in lifted}), contacts |-> lifted,
      target |-> IF kind = "multi_touch" THEN 0 ELSE target,
      recording |-> tRecording.generation, shot |-> 0, reference |-> 0]

\* appendActionsLocked: a touch of the overlay is left out, a second tap joins the first.
Joins(a) ==
  /\ tActions # <<>> /\ a.type = "tap"
  /\ LET previous == Last(tActions)
     IN /\ previous.type = "tap" /\ a.at - previous.at \in 0 .. DoubleTicks
        /\ {c.from : c \in previous.contacts} = {c.from : c \in a.contacts}
Appended(a) ==
  IF Inside(a) THEN tActions
  ELSE IF Joins(a) THEN [tActions EXCEPT ![Len(tActions)].type = "double_tap"]
  ELSE Append(tActions, a)

\* A down event: with no finger down the fingers lifted before are forgotten.
FeedDown ==
  /\ tSeen.pc = "feed"
  /\ tTargets' = [tTargets EXCEPT ![tSeen.slot] = tSeen.observed]
  /\ tCompleted' = IF \A s \in Slots : ~Active(s) THEN {} ELSE tCompleted
  /\ tGesture' = [tGesture EXCEPT ![tSeen.slot] = tSeen]
  /\ tSeen' = NoSeen
  /\ UNCHANGED <<tClock, tRecording, caseVars, tRequest, tCount>>

\* An up event of a finger that was down before the recording began is ignored; the last
\* finger to be lifted makes the gesture.
Lifted(s, place) == [slot |-> s, touch |-> tGesture[s].touch, from |-> tGesture[s].place, to |-> place,
                     at |-> tGesture[s].at, ended |-> tClock]
TouchUp(s, place) ==
  /\ Reports(s)
  /\ tGesture' = [tGesture EXCEPT ![s] = NoSeen]
  /\ tCompleted' = IF Active(s) THEN tCompleted \cup {Lifted(s, place)} ELSE tCompleted
  /\ tActions' = IF Active(s) /\ \A r \in Slots \ {s} : ~Active(r)
                 THEN Appended(Gesture(tCompleted', tTargets[s])) ELSE tActions
  /\ tTargets' = [tTargets EXCEPT ![s] = 0]
  /\ UNCHANGED <<tClock, tRecording, tSeen, tAssets, tRequest, tCount>>

-----------------------------------------------------------------------------
(* AppendText and AppendKey, which append an input, and                    *)
(* AppendScreenshotAssertion.                                              *)

\* requireRecordingForeground reads the generation, and a screenshot is taken, before the lock.
CallAppend(q, kind) ==
  /\ tRequest[q].pc = "idle" /\ tRecording.running
  /\ tCount.touches + tCount.appends < MaxInputs
  /\ tCount' = [tCount EXCEPT !.appends = @ + 1]
  /\ tRequest' = [tRequest EXCEPT ![q] = [pc |-> "append", kind |-> kind,
                                         recording |-> tRecording.generation, shot |-> tCount'.appends]]
  /\ UNCHANGED <<tClock, tRecording, tSeen, gestureVars, caseVars>>

Reference == Len(tActions) + 1
\* Mutant: any recording that runs takes the request.
CurrentIsAny(r) == tRecording.running

Current(r) == tRecording.running /\ r.recording = tRecording.generation
Put(assets, reference, shot) ==
  [r \in DOMAIN assets \cup {reference} |-> IF r = reference THEN shot ELSE assets[r]]
Asked(r) ==
  [type |-> r.kind, at |-> tClock, contacts |-> {},
   target |-> 0,
   recording |-> r.recording, shot |-> r.shot,
   reference |-> IF r.kind = "assert_screenshot" THEN Reference ELSE 0]

\* Under the lock: another recording may have started meanwhile.  A screenshot is written next
\* to the draft first, and when that fails nothing is appended.
AppendAsked(q) ==
  /\ tRequest[q].pc = "append"
  /\ tRequest' = [tRequest EXCEPT ![q] = NoRequest]
  /\ IF Current(tRequest[q])
     THEN \/ /\ tActions' = Appended(Asked(tRequest[q]))
             /\ tAssets' = IF tRequest[q].kind = "assert_screenshot"
                           THEN Put(tAssets, Reference, tRequest[q].shot) ELSE tAssets
          \/ tRequest[q].kind = "assert_screenshot" /\ UNCHANGED caseVars
     ELSE UNCHANGED caseVars
  /\ UNCHANGED <<tClock, tRecording, tSeen, gestureVars, tCount>>

TouchNext ==
  \/ Tick \/ CaptureReturns \/ SealCase \/ FeedDown
  \/ \E b \in {{}, Overlay} : BeginRecording(b) \/ MoveOverlay(b)
  \/ \E s \in Slots, place \in Places : TouchUp(s, place) \/ \E found \in BOOLEAN : TouchDown(s, place, found)
  \/ \E q \in Requests : AppendAsked(q) \/ \E k \in {"input", "assert_screenshot"} : CallAppend(q, k)

TouchSpec == TouchInit /\ [][TouchNext]_touchVars

-----------------------------------------------------------------------------
(* Properties.                                                             *)

TouchesOf(a) == {c.touch : c \in a.contacts}

\* A touch is in one gesture at most, the gesture is of touches of this recording, and the
\* control it is aimed at was observed for one of its own touches.
TouchesRecordedOnce ==
  /\ \A i, j \in DOMAIN tActions : i # j => TouchesOf(tActions[i]) \cap TouchesOf(tActions[j]) = {}
  /\ \A i \in DOMAIN tActions :
       /\ \A n \in TouchesOf(tActions[i]) : n >= tRecording.first
       /\ tActions[i].contacts # {} /\ tActions[i].target # 0 => tActions[i].target \in TouchesOf(tActions[i])

\* What a request asked of one recording is never appended to the next.
StaysWithRecording == \A i \in DOMAIN tActions : tActions[i].recording = tRecording.generation

\* The reference of a screenshot assertion names the screenshot that was taken for it,
\* whatever gestures and other assertions were appended meanwhile.
ReferencesAreOwn ==
  \A i \in DOMAIN tActions :
    tActions[i].type = "assert_screenshot" =>
      /\ tActions[i].reference \in DOMAIN tAssets
      /\ tAssets[tActions[i].reference] = tActions[i].shot

RecordingSafe == TouchesRecordedOnce /\ StaysWithRecording /\ ReferencesAreOwn

\* The actions of a recording are in the order of their offsets and the fingers of a gesture
\* have slots of their own, as Validate demands of a case before it is saved.
RecordedCaseIsValid == ValidCase(tActions)
====
