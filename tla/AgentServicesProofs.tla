---- MODULE AgentServicesProofs ----
(***************************************************************************)
(* Proofs about the services that run side by side in MCAgentServices, for *)
(* every value of their constants.  A behaviour of the composition is one  *)
(* of each service (EachServiceRuns), so an invariant of a service's own   *)
(* specification is one of the agent's.                                    *)
(***************************************************************************)
EXTENDS MCAgentServices, AutomationProofs, FiniteSetTheorems, FunctionTheorems,
        SequenceTheorems, WellFoundedInduction, NaturalsInduction

------------------------------------------------------------------------------
(* The sessions of scrcpy: who holds startMu, whose session is whose, and what is on *)
(* its way to be closed.                                                             *)

\* Callers in start or startControlOnly hold startMu; those that dial, stream or leave
\* have a session of their own.
Locked == {"kill", "await", "launch", "dial"}
Using == {"dial", "serve", "drop"}
KindFor(c) == IF c \in Viewers THEN "screen" ELSE "control"

ScrcpyTypeOK ==
  /\ scCaller \in [Callers -> [pc : {"idle", "kill", "await", "launch", "dial", "serve", "drop"},
                               session : 0 .. MaxScrcpy, previous : 0 .. MaxScrcpy]]
  /\ scLock \in SUBSET Callers
  /\ scCurrent \in 0 .. MaxScrcpy
  /\ scSession \in [ScrcpySessions -> [kind : {"none", "screen", "control"}, closed : BOOLEAN]]
  /\ scClosing \in [stage : {"open", "closing", "closed"}, session : 0 .. MaxScrcpy]

\* One caller at a time holds the lock, and no screen is current under a viewer's.
LockIsHeld ==
  /\ \A c \in Callers : c \in scLock <=> scCaller[c].pc \in Locked
  /\ \A c, d \in Callers : scCaller[c].pc \in Locked /\ scCaller[d].pc \in Locked => c = d
  /\ \A v \in Viewers : scCaller[v].pc \in Locked => scCurrent = 0

\* Sessions are numbered in the order of their start.
SessionsInOrder == \E n \in 0 .. MaxScrcpy : Started = 1 .. n

\* A caller's session is its own, of its kind, and closed when it leaves.
OwnSessions ==
  /\ \A c \in Callers : scCaller[c].pc \in Using =>
       /\ scCaller[c].session \in ScrcpySessions
       /\ scSession[scCaller[c].session].kind = KindFor(c)
       /\ scCaller[c].pc = "drop" => scSession[scCaller[c].session].closed
  /\ \A c, d \in Callers :
       scCaller[c].pc \in Using /\ scCaller[d].pc \in Using
         /\ scCaller[c].session = scCaller[d].session => c = d

IsScreen(s) == s \in ScrcpySessions /\ scSession[s].kind = "screen"

\* What is current, taken out of the manager or about to be closed is a screen.
ScreensInHand ==
  /\ scCurrent # 0 => IsScreen(scCurrent)
  /\ \A c \in Callers : scCaller[c].pc = "kill" => c \in Viewers /\ IsScreen(scCaller[c].previous)
  /\ scClosing.session # 0 => IsScreen(scClosing.session)
  /\ scClosing.stage # "closing" => scClosing.session = 0

InHand(s) == s = scClosing.session \/ \E v \in Viewers : scCaller[v].pc = "kill" /\ scCaller[v].previous = s

\* An open session that nobody is about to close is served, and if it is a screen
\* it is current or being started.
OpenIsServed ==
  \A s \in ScrcpySessions :
    scSession[s].kind # "none" /\ ~scSession[s].closed /\ ~InHand(s) =>
      /\ \E c \in Callers : scCaller[c].session = s /\ scCaller[c].pc \in {"dial", "serve"}
      /\ scSession[s].kind = "screen" =>
           s = scCurrent \/ \E v \in Viewers : scCaller[v].session = s /\ scCaller[v].pc = "dial"

ScrcpyInv ==
  /\ ScrcpyTypeOK /\ LockIsHeld /\ SessionsInOrder /\ OwnSessions /\ ScreensInHand /\ OpenIsServed

\* What a caller's step changes.
LEMMA CallerMoves ==
  ASSUME ScrcpyTypeOK, NEW c \in Callers, NEW from, NEW to, Go(c, from, to)
  PROVE  /\ scCaller[c].pc = from
         /\ scCaller'[c] = to
         /\ \A d \in Callers : d # c => scCaller'[d] = scCaller[d]
         /\ scCaller' = [scCaller EXCEPT ![c] = to]
BY DEF Go, ScrcpyTypeOK

\* close() marks one session.
LEMMA CloseMarks ==
  ASSUME ScrcpyTypeOK, NEW s \in ScrcpySessions, scSession' = Closed(s)
  PROVE  /\ scSession' \in [ScrcpySessions -> [kind : {"none", "screen", "control"}, closed : BOOLEAN]]
         /\ \A t \in ScrcpySessions :
              /\ scSession'[t].kind = scSession[t].kind
              /\ scSession'[t].closed <=> (scSession[t].closed \/ t = s)
         /\ Started' = Started
<1>1. scSession' \in [ScrcpySessions -> [kind : {"none", "screen", "control"}, closed : BOOLEAN]]
  BY DEF Closed, ScrcpyTypeOK
<1>2. \A t \in ScrcpySessions :
        /\ scSession'[t].kind = scSession[t].kind
        /\ scSession'[t].closed <=> (scSession[t].closed \/ t = s)
  BY DEF Closed, ScrcpyTypeOK
<1> QED
  BY <1>1, <1>2 DEF Started

LEMMA ScrcpyConstants == MaxScrcpy \in Nat /\ Viewers \cap Injectors = {} /\ 0 \in 0 .. MaxScrcpy /\ ScrcpySessions \subseteq 0 .. MaxScrcpy
BY ScrcpyAssumption DEF ScrcpySessions

LEMMA ScrcpyInitInv == ScrcpyInit => ScrcpyInv
<1> SUFFICES ASSUME ScrcpyInit PROVE ScrcpyInv
  OBVIOUS
<1>1. ScrcpyTypeOK
  BY ScrcpyConstants DEF ScrcpyInit, ScrcpyTypeOK, Idle
<1>2. SessionsInOrder
  <2>1. Started = {} /\ 1 .. 0 = {}
    BY ScrcpyConstants DEF ScrcpyInit, Started
  <2> QED
    BY <2>1, ScrcpyConstants DEF SessionsInOrder
<1>3. LockIsHeld /\ OwnSessions /\ ScreensInHand /\ OpenIsServed
  BY ScrcpyConstants DEF ScrcpyInit, LockIsHeld, OwnSessions, ScreensInHand, OpenIsServed, Idle,
     Callers, Locked, Using
<1> QED
  BY <1>1, <1>2, <1>3 DEF ScrcpyInv

LEMMA TakeCurrentKeeps ==
  ASSUME ScrcpyInv, NEW c \in Callers, TakeCurrent(c)
  PROVE  ScrcpyInv'
<1>1. /\ scCaller[c].pc = "idle"
      /\ scCaller'[c] = [Idle EXCEPT !.pc = IF scCurrent = 0 THEN "launch" ELSE "kill", !.previous = scCurrent]
      /\ \A d \in Callers : d # c => scCaller'[d] = scCaller[d]
      /\ scCaller' = [scCaller EXCEPT ![c] = [Idle EXCEPT !.pc = IF scCurrent = 0 THEN "launch" ELSE "kill", !.previous = scCurrent]]
      /\ scCaller[c] \in [pc : {"idle", "kill", "await", "launch", "dial", "serve", "drop"},
                          session : 0 .. MaxScrcpy, previous : 0 .. MaxScrcpy]
  BY CallerMoves DEF TakeCurrent, ScrcpyInv, ScrcpyTypeOK
<1>2. scSession' = scSession /\ Started' = Started
  BY DEF TakeCurrent, Started
<1>3. ScrcpyTypeOK'
  BY <1>1, <1>2, ScrcpyConstants DEF TakeCurrent, ScrcpyInv, ScrcpyTypeOK, At, Idle
<1>4. SessionsInOrder'
  BY <1>2 DEF ScrcpyInv, SessionsInOrder
<1>5. LockIsHeld'
  BY <1>1, ScrcpyConstants DEF TakeCurrent, ScrcpyInv, LockIsHeld, Locked, Callers, At, Idle,
     ScrcpyTypeOK
<1>6. OwnSessions'
  BY <1>1, <1>2, ScrcpyConstants DEF ScrcpyInv, OwnSessions, ScrcpyTypeOK, KindFor, Using, Callers,
     At, Idle, TakeCurrent
<1>7. ScreensInHand'
  BY <1>1, <1>2, ScrcpyConstants DEF TakeCurrent, ScrcpyInv, ScreensInHand, ScrcpyTypeOK, IsScreen,
     Callers, At, Idle
<1>8. OpenIsServed'
  BY <1>1, <1>2, ScrcpyConstants DEF TakeCurrent, ScrcpyInv, OpenIsServed, ScrcpyTypeOK, LockIsHeld,
     OwnSessions, ScreensInHand, InHand, IsScreen, Using, Locked, Callers, At, Idle
<1> QED
  BY <1>3, <1>4, <1>5, <1>6, <1>7, <1>8 DEF ScrcpyInv

LEMMA KillPreviousKeeps ==
  ASSUME ScrcpyInv, NEW c \in Callers, KillPrevious(c)
  PROVE  ScrcpyInv'
<1>1. /\ scCaller[c].pc = "kill"
      /\ scCaller'[c] = At(c, "await")
      /\ \A d \in Callers : d # c => scCaller'[d] = scCaller[d]
      /\ scCaller' = [scCaller EXCEPT ![c] = At(c, "await")]
      /\ scCaller[c] \in [pc : {"idle", "kill", "await", "launch", "dial", "serve", "drop"},
                          session : 0 .. MaxScrcpy, previous : 0 .. MaxScrcpy]
  BY CallerMoves DEF KillPrevious, ScrcpyInv, ScrcpyTypeOK
<1>2. /\ scCaller[c].previous \in ScrcpySessions
      /\ scSession' \in [ScrcpySessions -> [kind : {"none", "screen", "control"}, closed : BOOLEAN]]
      /\ \A t \in ScrcpySessions :
           /\ scSession'[t].kind = scSession[t].kind
           /\ scSession'[t].closed <=> (scSession[t].closed \/ t = scCaller[c].previous)
      /\ Started' = Started
  <2>1. scCaller[c].previous \in ScrcpySessions
    BY <1>1 DEF ScrcpyInv, OwnSessions, ScreensInHand, IsScreen, Using
  <2>2. scSession' = Closed(scCaller[c].previous)
    BY DEF KillPrevious
  <2> QED
    BY <2>1, <2>2, CloseMarks DEF ScrcpyInv
<1>3. ScrcpyTypeOK'
  BY <1>1, <1>2, ScrcpyConstants DEF KillPrevious, ScrcpyInv, ScrcpyTypeOK, At, Idle
<1>4. SessionsInOrder'
  BY <1>2 DEF ScrcpyInv, SessionsInOrder
<1>5. LockIsHeld'
  BY <1>1, ScrcpyConstants DEF KillPrevious, ScrcpyInv, LockIsHeld, Locked, Callers, At, Idle,
     ScrcpyTypeOK
<1>6. OwnSessions'
  BY <1>1, <1>2, ScrcpyConstants DEF ScrcpyInv, OwnSessions, ScrcpyTypeOK, KindFor, Using, Callers,
     At, Idle
<1>7. ScreensInHand'
  BY <1>1, <1>2, ScrcpyConstants DEF KillPrevious, ScrcpyInv, ScreensInHand, ScrcpyTypeOK, IsScreen,
     Callers, At, Idle
<1>8. OpenIsServed'
  BY <1>1, <1>2, ScrcpyConstants DEF KillPrevious, ScrcpyInv, OpenIsServed, ScrcpyTypeOK, LockIsHeld,
     OwnSessions, ScreensInHand, InHand, IsScreen, Using, Locked, Callers, At, Idle
<1> QED
  BY <1>3, <1>4, <1>5, <1>6, <1>7, <1>8 DEF ScrcpyInv

LEMMA AwaitPreviousKeeps ==
  ASSUME ScrcpyInv, NEW c \in Callers, AwaitPrevious(c)
  PROVE  ScrcpyInv'
<1>1. /\ scCaller[c].pc = "await"
      /\ scCaller'[c] = At(c, "launch")
      /\ \A d \in Callers : d # c => scCaller'[d] = scCaller[d]
      /\ scCaller' = [scCaller EXCEPT ![c] = At(c, "launch")]
      /\ scCaller[c] \in [pc : {"idle", "kill", "await", "launch", "dial", "serve", "drop"},
                          session : 0 .. MaxScrcpy, previous : 0 .. MaxScrcpy]
  BY CallerMoves DEF AwaitPrevious, ScrcpyInv, ScrcpyTypeOK
<1>2. scSession' = scSession /\ Started' = Started
  BY DEF AwaitPrevious, Started
<1>3. ScrcpyTypeOK'
  BY <1>1, <1>2, ScrcpyConstants DEF AwaitPrevious, ScrcpyInv, ScrcpyTypeOK, At, Idle
<1>4. SessionsInOrder'
  BY <1>2 DEF ScrcpyInv, SessionsInOrder
<1>5. LockIsHeld'
  BY <1>1, ScrcpyConstants DEF AwaitPrevious, ScrcpyInv, LockIsHeld, Locked, Callers, At, Idle,
     ScrcpyTypeOK
<1>6. OwnSessions'
  BY <1>1, <1>2, ScrcpyConstants DEF ScrcpyInv, OwnSessions, ScrcpyTypeOK, KindFor, Using, Callers,
     At, Idle
<1>7. ScreensInHand'
  BY <1>1, <1>2, ScrcpyConstants DEF AwaitPrevious, ScrcpyInv, ScreensInHand, ScrcpyTypeOK, IsScreen,
     Callers, At, Idle
<1>8. OpenIsServed'
  BY <1>1, <1>2, ScrcpyConstants DEF AwaitPrevious, ScrcpyInv, OpenIsServed, ScrcpyTypeOK, LockIsHeld,
     OwnSessions, ScreensInHand, InHand, IsScreen, Using, Locked, Callers, At, Idle
<1> QED
  BY <1>3, <1>4, <1>5, <1>6, <1>7, <1>8 DEF ScrcpyInv

LEMMA LockInjectorKeeps ==
  ASSUME ScrcpyInv, NEW c \in Callers, LockInjector(c)
  PROVE  ScrcpyInv'
<1>1. /\ scCaller[c].pc = "idle"
      /\ scCaller'[c] = [Idle EXCEPT !.pc = "launch"]
      /\ \A d \in Callers : d # c => scCaller'[d] = scCaller[d]
      /\ scCaller' = [scCaller EXCEPT ![c] = [Idle EXCEPT !.pc = "launch"]]
      /\ scCaller[c] \in [pc : {"idle", "kill", "await", "launch", "dial", "serve", "drop"},
                          session : 0 .. MaxScrcpy, previous : 0 .. MaxScrcpy]
  BY CallerMoves DEF LockInjector, ScrcpyInv, ScrcpyTypeOK
<1>2. scSession' = scSession /\ Started' = Started
  BY DEF LockInjector, Started
<1>3. ScrcpyTypeOK'
  BY <1>1, <1>2, ScrcpyConstants DEF LockInjector, ScrcpyInv, ScrcpyTypeOK, At, Idle
<1>4. SessionsInOrder'
  BY <1>2 DEF ScrcpyInv, SessionsInOrder
<1>5. LockIsHeld'
  BY <1>1, ScrcpyConstants DEF LockInjector, ScrcpyInv, LockIsHeld, Locked, Callers, At, Idle,
     ScrcpyTypeOK
<1>6. OwnSessions'
  BY <1>1, <1>2, ScrcpyConstants DEF ScrcpyInv, OwnSessions, ScrcpyTypeOK, KindFor, Using, Callers,
     At, Idle
<1>7. ScreensInHand'
  BY <1>1, <1>2, ScrcpyConstants DEF LockInjector, ScrcpyInv, ScreensInHand, ScrcpyTypeOK, IsScreen,
     Callers, At, Idle
<1>8. OpenIsServed'
  BY <1>1, <1>2, ScrcpyConstants DEF LockInjector, ScrcpyInv, OpenIsServed, ScrcpyTypeOK, LockIsHeld,
     OwnSessions, ScreensInHand, InHand, IsScreen, Using, Locked, Callers, At, Idle
<1> QED
  BY <1>3, <1>4, <1>5, <1>6, <1>7, <1>8 DEF ScrcpyInv

LEMMA LaunchFailsKeeps ==
  ASSUME ScrcpyInv, NEW c \in Callers, LaunchFails(c)
  PROVE  ScrcpyInv'
<1>1. /\ scCaller[c].pc \in {"await", "launch"}
      /\ scCaller'[c] = Idle
      /\ \A d \in Callers : d # c => scCaller'[d] = scCaller[d]
      /\ scCaller' = [scCaller EXCEPT ![c] = Idle]
      /\ scCaller[c] \in [pc : {"idle", "kill", "await", "launch", "dial", "serve", "drop"},
                          session : 0 .. MaxScrcpy, previous : 0 .. MaxScrcpy]
  BY CallerMoves DEF LaunchFails, ScrcpyInv, ScrcpyTypeOK
<1>2. scSession' = scSession /\ Started' = Started
  BY DEF LaunchFails, Started
<1>3. ScrcpyTypeOK'
  BY <1>1, <1>2, ScrcpyConstants DEF LaunchFails, ScrcpyInv, ScrcpyTypeOK, At, Idle
<1>4. SessionsInOrder'
  BY <1>2 DEF ScrcpyInv, SessionsInOrder
<1>5. LockIsHeld'
  BY <1>1, ScrcpyConstants DEF LaunchFails, ScrcpyInv, LockIsHeld, Locked, Callers, At, Idle,
     ScrcpyTypeOK
<1>6. OwnSessions'
  BY <1>1, <1>2, ScrcpyConstants DEF ScrcpyInv, OwnSessions, ScrcpyTypeOK, KindFor, Using, Callers,
     At, Idle
<1>7. ScreensInHand'
  BY <1>1, <1>2, ScrcpyConstants DEF LaunchFails, ScrcpyInv, ScreensInHand, ScrcpyTypeOK, IsScreen,
     Callers, At, Idle
<1>8. OpenIsServed'
  BY <1>1, <1>2, ScrcpyConstants DEF LaunchFails, ScrcpyInv, OpenIsServed, ScrcpyTypeOK, LockIsHeld,
     OwnSessions, ScreensInHand, InHand, IsScreen, Using, Locked, Callers, At, Idle
<1> QED
  BY <1>3, <1>4, <1>5, <1>6, <1>7, <1>8 DEF ScrcpyInv

LEMMA DialFailsKeeps ==
  ASSUME ScrcpyInv, NEW c \in Callers, DialFails(c)
  PROVE  ScrcpyInv'
<1>1. /\ scCaller[c].pc = "dial"
      /\ scCaller'[c] = Idle
      /\ \A d \in Callers : d # c => scCaller'[d] = scCaller[d]
      /\ scCaller' = [scCaller EXCEPT ![c] = Idle]
      /\ scCaller[c] \in [pc : {"idle", "kill", "await", "launch", "dial", "serve", "drop"},
                          session : 0 .. MaxScrcpy, previous : 0 .. MaxScrcpy]
  BY CallerMoves DEF DialFails, ScrcpyInv, ScrcpyTypeOK
<1>2. /\ scCaller[c].session \in ScrcpySessions
      /\ scSession' \in [ScrcpySessions -> [kind : {"none", "screen", "control"}, closed : BOOLEAN]]
      /\ \A t \in ScrcpySessions :
           /\ scSession'[t].kind = scSession[t].kind
           /\ scSession'[t].closed <=> (scSession[t].closed \/ t = scCaller[c].session)
      /\ Started' = Started
  <2>1. scCaller[c].session \in ScrcpySessions
    BY <1>1 DEF ScrcpyInv, OwnSessions, ScreensInHand, IsScreen, Using
  <2>2. scSession' = Closed(scCaller[c].session)
    BY DEF DialFails
  <2> QED
    BY <2>1, <2>2, CloseMarks DEF ScrcpyInv
<1>3. ScrcpyTypeOK'
  BY <1>1, <1>2, ScrcpyConstants DEF DialFails, ScrcpyInv, ScrcpyTypeOK, At, Idle
<1>4. SessionsInOrder'
  BY <1>2 DEF ScrcpyInv, SessionsInOrder
<1>5. LockIsHeld'
  BY <1>1, ScrcpyConstants DEF DialFails, ScrcpyInv, LockIsHeld, Locked, Callers, At, Idle, ScrcpyTypeOK
<1>6. OwnSessions'
  BY <1>1, <1>2, ScrcpyConstants DEF ScrcpyInv, OwnSessions, ScrcpyTypeOK, KindFor, Using, Callers,
     At, Idle
<1>7. ScreensInHand'
  BY <1>1, <1>2, ScrcpyConstants DEF DialFails, ScrcpyInv, ScreensInHand, ScrcpyTypeOK, IsScreen,
     Callers, At, Idle
<1>8. OpenIsServed'
  BY <1>1, <1>2, ScrcpyConstants DEF DialFails, ScrcpyInv, OpenIsServed, ScrcpyTypeOK, LockIsHeld,
     OwnSessions, ScreensInHand, InHand, IsScreen, Using, Locked, Callers, At, Idle
<1> QED
  BY <1>3, <1>4, <1>5, <1>6, <1>7, <1>8 DEF ScrcpyInv

LEMMA PublishKeeps ==
  ASSUME ScrcpyInv, NEW c \in Callers, Publish(c)
  PROVE  ScrcpyInv'
<1>1. /\ scCaller[c].pc = "dial"
      /\ scCaller'[c] = At(c, "serve")
      /\ \A d \in Callers : d # c => scCaller'[d] = scCaller[d]
      /\ scCaller' = [scCaller EXCEPT ![c] = At(c, "serve")]
      /\ scCaller[c] \in [pc : {"idle", "kill", "await", "launch", "dial", "serve", "drop"},
                          session : 0 .. MaxScrcpy, previous : 0 .. MaxScrcpy]
  BY CallerMoves DEF Publish, ScrcpyInv, ScrcpyTypeOK
<1>2. scSession' = scSession /\ Started' = Started
  BY DEF Publish, Started
<1>3. ScrcpyTypeOK'
  BY <1>1, <1>2, ScrcpyConstants DEF Publish, ScrcpyInv, ScrcpyTypeOK, At, Idle
<1>4. SessionsInOrder'
  BY <1>2 DEF ScrcpyInv, SessionsInOrder
<1>5. LockIsHeld'
  BY <1>1, ScrcpyConstants DEF Publish, ScrcpyInv, LockIsHeld, Locked, Callers, At, Idle, ScrcpyTypeOK
<1>6. OwnSessions'
  BY <1>1, <1>2, ScrcpyConstants DEF ScrcpyInv, OwnSessions, ScrcpyTypeOK, KindFor, Using, Callers,
     At, Idle
<1>7. ScreensInHand'
  BY <1>1, <1>2, ScrcpyConstants DEF Publish, ScrcpyInv, ScreensInHand, ScrcpyTypeOK, IsScreen,
     Callers, At, Idle,
                                     OwnSessions, KindFor, Using
<1>8. OpenIsServed'
  <2> SUFFICES ASSUME NEW s \in ScrcpySessions, scSession[s].kind # "none", ~scSession[s].closed, ~InHand(s)'
               PROVE  /\ \E d \in Callers : scCaller'[d].session = s /\ scCaller'[d].pc \in {"dial", "serve"}
                      /\ scSession[s].kind = "screen" =>
                           s = scCurrent' \/ \E v \in Viewers : scCaller'[v].session = s /\ scCaller'[v].pc = "dial"
    BY <1>2 DEF OpenIsServed
  <2>1. ~InHand(s)
    BY <1>1 DEF Publish, InHand, Callers
  <2>2. /\ scCaller'[c].pc = "serve" /\ scCaller'[c].session = scCaller[c].session
        /\ \A d \in Callers : scCaller'[d].session = scCaller[d].session
    BY <1>1 DEF At, ScrcpyInv, ScrcpyTypeOK
  <2>3. \E d \in Callers : scCaller'[d].session = s /\ scCaller'[d].pc \in {"dial", "serve"}
    BY <1>1, <2>1, <2>2 DEF ScrcpyInv, OpenIsServed
  <2>4. ASSUME scSession[s].kind = "screen"
        PROVE  s = scCurrent' \/ \E v \in Viewers : scCaller'[v].session = s /\ scCaller'[v].pc = "dial"
    <3>1. CASE c \in Viewers
      <4>1. scCurrent = 0 /\ scCurrent' = scCaller[c].session /\ s # 0
        BY <1>1, <3>1, ScrcpyConstants DEF Publish, ScrcpyInv, LockIsHeld, Locked, ScrcpySessions
      <4>2. \A v \in Viewers : scCaller[v].pc = "dial" => v = c
        BY <1>1 DEF ScrcpyInv, LockIsHeld, Locked, Callers
      <4> QED
        BY <2>1, <2>4, <4>1, <4>2 DEF ScrcpyInv, OpenIsServed
    <3>2. CASE c \notin Viewers
      <4>1. scCurrent' = scCurrent /\ \A v \in Viewers : scCaller'[v] = scCaller[v]
        BY <1>1, <3>2 DEF Publish, Callers
      <4> QED
        BY <2>1, <2>4, <4>1 DEF ScrcpyInv, OpenIsServed
    <3> QED
      BY <3>1, <3>2
  <2> QED
    BY <2>3, <2>4
<1> QED
  BY <1>3, <1>4, <1>5, <1>6, <1>7, <1>8 DEF ScrcpyInv

LEMMA EndServeKeeps ==
  ASSUME ScrcpyInv, NEW c \in Callers, EndServe(c)
  PROVE  ScrcpyInv'
<1>1. /\ scCaller[c].pc = "serve"
      /\ scCaller'[c] = (IF c \in Viewers THEN At(c, "drop") ELSE Idle)
      /\ \A d \in Callers : d # c => scCaller'[d] = scCaller[d]
      /\ scCaller' = [scCaller EXCEPT ![c] = (IF c \in Viewers THEN At(c, "drop") ELSE Idle)]
      /\ scCaller[c] \in [pc : {"idle", "kill", "await", "launch", "dial", "serve", "drop"},
                          session : 0 .. MaxScrcpy, previous : 0 .. MaxScrcpy]
  BY CallerMoves DEF EndServe, ScrcpyInv, ScrcpyTypeOK
<1>2. /\ scCaller[c].session \in ScrcpySessions
      /\ scSession' \in [ScrcpySessions -> [kind : {"none", "screen", "control"}, closed : BOOLEAN]]
      /\ \A t \in ScrcpySessions :
           /\ scSession'[t].kind = scSession[t].kind
           /\ scSession'[t].closed <=> (scSession[t].closed \/ t = scCaller[c].session)
      /\ Started' = Started
  <2>1. scCaller[c].session \in ScrcpySessions
    BY <1>1 DEF ScrcpyInv, OwnSessions, ScreensInHand, IsScreen, Using
  <2>2. scSession' = Closed(scCaller[c].session)
    BY DEF EndServe
  <2> QED
    BY <2>1, <2>2, CloseMarks DEF ScrcpyInv
<1>3. ScrcpyTypeOK'
  BY <1>1, <1>2, ScrcpyConstants DEF EndServe, ScrcpyInv, ScrcpyTypeOK, At, Idle
<1>4. SessionsInOrder'
  BY <1>2 DEF ScrcpyInv, SessionsInOrder
<1>5. LockIsHeld'
  BY <1>1, ScrcpyConstants DEF EndServe, ScrcpyInv, LockIsHeld, Locked, Callers, At, Idle, ScrcpyTypeOK
<1>6. OwnSessions'
  BY <1>1, <1>2, ScrcpyConstants DEF ScrcpyInv, OwnSessions, ScrcpyTypeOK, KindFor, Using, Callers,
     At, Idle
<1>7. ScreensInHand'
  BY <1>1, <1>2, ScrcpyConstants DEF EndServe, ScrcpyInv, ScreensInHand, ScrcpyTypeOK, IsScreen,
     Callers, At, Idle
<1>8. OpenIsServed'
  BY <1>1, <1>2, ScrcpyConstants DEF EndServe, ScrcpyInv, OpenIsServed, ScrcpyTypeOK, LockIsHeld,
     OwnSessions, ScreensInHand, InHand, IsScreen, Using, Locked, Callers, At, Idle
<1> QED
  BY <1>3, <1>4, <1>5, <1>6, <1>7, <1>8 DEF ScrcpyInv

LEMMA DropCurrentKeeps ==
  ASSUME ScrcpyInv, NEW c \in Callers, DropCurrent(c)
  PROVE  ScrcpyInv'
<1>1. /\ scCaller[c].pc = "drop"
      /\ scCaller'[c] = Idle
      /\ \A d \in Callers : d # c => scCaller'[d] = scCaller[d]
      /\ scCaller' = [scCaller EXCEPT ![c] = Idle]
      /\ scCaller[c] \in [pc : {"idle", "kill", "await", "launch", "dial", "serve", "drop"},
                          session : 0 .. MaxScrcpy, previous : 0 .. MaxScrcpy]
  BY CallerMoves DEF DropCurrent, ScrcpyInv, ScrcpyTypeOK
<1>2. scSession' = scSession /\ Started' = Started
  BY DEF DropCurrent, Started
<1>3. ScrcpyTypeOK'
  BY <1>1, <1>2, ScrcpyConstants DEF DropCurrent, ScrcpyInv, ScrcpyTypeOK, At, Idle
<1>4. SessionsInOrder'
  BY <1>2 DEF ScrcpyInv, SessionsInOrder
<1>5. LockIsHeld'
  BY <1>1, ScrcpyConstants DEF DropCurrent, ScrcpyInv, LockIsHeld, Locked, Callers, At, Idle,
     ScrcpyTypeOK
<1>6. OwnSessions'
  BY <1>1, <1>2, ScrcpyConstants DEF ScrcpyInv, OwnSessions, ScrcpyTypeOK, KindFor, Using, Callers,
     At, Idle
<1>7. ScreensInHand'
  BY <1>1, <1>2, ScrcpyConstants DEF DropCurrent, ScrcpyInv, ScreensInHand, ScrcpyTypeOK, IsScreen,
     Callers, At, Idle
<1>8. OpenIsServed'
  BY <1>1, <1>2, ScrcpyConstants DEF DropCurrent, ScrcpyInv, OpenIsServed, ScrcpyTypeOK, LockIsHeld,
     OwnSessions, ScreensInHand, InHand, IsScreen, Using, Locked, Callers, At, Idle
<1> QED
  BY <1>3, <1>4, <1>5, <1>6, <1>7, <1>8 DEF ScrcpyInv

\* A session is the next number; it is open, and its caller is about to dial.
LEMMA LaunchKeeps ==
  ASSUME ScrcpyInv, NEW c \in Callers, Launch(c)
  PROVE  ScrcpyInv'
<1> DEFINE s == Cardinality(Started) + 1
<1>1. PICK n \in 0 .. MaxScrcpy : Started = 1 .. n
  BY DEF ScrcpyInv, SessionsInOrder
<1>2. s = n + 1 /\ s \in ScrcpySessions /\ s \notin Started
  <2>1. Cardinality(1 .. n) = n
    BY <1>1, ScrcpyConstants, FS_Interval
  <2> QED
    BY <1>1, <2>1, ScrcpyConstants DEF Launch, ScrcpySessions
<1>3. /\ Go(c, "launch", [scCaller[c] EXCEPT !.pc = "dial", !.session = s])
      /\ scSession' = [scSession EXCEPT ![s].kind = KindFor(c)]
      /\ UNCHANGED <<scLock, scCurrent, scClosing>>
  BY DEF Launch, KindFor
<1> HIDE DEF s
<1>4. /\ scCaller[c].pc = "launch"
      /\ scCaller' = [scCaller EXCEPT ![c] = [scCaller[c] EXCEPT !.pc = "dial", !.session = s]]
      /\ scCaller'[c] = [scCaller[c] EXCEPT !.pc = "dial", !.session = s]
      /\ \A d \in Callers : d # c => scCaller'[d] = scCaller[d]
  BY <1>3, CallerMoves DEF ScrcpyInv
<1>5. /\ scCaller'[c].pc = "dial" /\ scCaller'[c].session = s
      /\ scCaller'[c].previous = scCaller[c].previous
  BY <1>4 DEF ScrcpyInv, ScrcpyTypeOK
<1>6. /\ scSession[s].kind = "none" /\ scSession'[s].kind = KindFor(c)
      /\ \A t \in ScrcpySessions : t # s => scSession'[t] = scSession[t]
      /\ \A t \in ScrcpySessions : scSession'[t].closed = scSession[t].closed
      /\ KindFor(c) \in {"screen", "control"}
  BY <1>2, <1>3 DEF Started, ScrcpyInv, ScrcpyTypeOK, KindFor
<1>7. ScrcpyTypeOK'
  <2>1. s \in 0 .. MaxScrcpy
    BY <1>2, ScrcpyConstants
  <2>2. scSession' \in [ScrcpySessions -> [kind : {"none", "screen", "control"}, closed : BOOLEAN]]
    <3>1. [scSession[s] EXCEPT !.kind = KindFor(c)] \in [kind : {"none", "screen", "control"}, closed : BOOLEAN]
      BY <1>2, <1>6 DEF ScrcpyInv, ScrcpyTypeOK
    <3> QED
      BY <1>2, <1>3, <3>1 DEF ScrcpyInv, ScrcpyTypeOK
  <2>3. UNCHANGED <<scLock, scCurrent, scClosing>>
    BY <1>3
  <2>4. scCaller' \in [Callers -> [pc : {"idle", "kill", "await", "launch", "dial", "serve", "drop"},
                                   session : 0 .. MaxScrcpy, previous : 0 .. MaxScrcpy]]
    <3>1. [scCaller[c] EXCEPT !.pc = "dial", !.session = s]
            \in [pc : {"idle", "kill", "await", "launch", "dial", "serve", "drop"},
                 session : 0 .. MaxScrcpy, previous : 0 .. MaxScrcpy]
      BY <2>1 DEF ScrcpyInv, ScrcpyTypeOK
    <3> QED
      BY <1>4, <3>1 DEF ScrcpyInv, ScrcpyTypeOK
  <2> QED
    BY <2>2, <2>3, <2>4 DEF ScrcpyInv, ScrcpyTypeOK
<1>8. SessionsInOrder'
  <2>1. Started' = 1 .. n + 1
    <3>1. Started' = Started \cup {s}
      BY <1>2, <1>6 DEF Started
    <3> QED
      BY <1>1, <1>2, <3>1, ScrcpyConstants
  <2> QED
    BY <1>1, <1>2, <2>1, ScrcpyConstants DEF SessionsInOrder, ScrcpySessions
<1>9. LockIsHeld'
  BY <1>3, <1>4, <1>5 DEF ScrcpyInv, LockIsHeld, Locked, Callers
<1>10. OwnSessions'
  <2>1. \A d \in Callers : scCaller[d].pc \in Using => scCaller[d].session # s
    BY <1>6 DEF ScrcpyInv, OwnSessions, KindFor
  <2> QED
    BY <1>2, <1>4, <1>5, <1>6, <2>1 DEF ScrcpyInv, OwnSessions, Using, KindFor
<1>11. ScreensInHand'
  BY <1>3, <1>4, <1>5, <1>6 DEF ScrcpyInv, ScreensInHand, IsScreen
<1>12. OpenIsServed'
  <2> SUFFICES ASSUME NEW t \in ScrcpySessions, scSession'[t].kind # "none", ~scSession'[t].closed, ~InHand(t)'
               PROVE  /\ \E d \in Callers : scCaller'[d].session = t /\ scCaller'[d].pc \in {"dial", "serve"}
                      /\ scSession'[t].kind = "screen" =>
                           t = scCurrent' \/ \E v \in Viewers : scCaller'[v].session = t /\ scCaller'[v].pc = "dial"
    BY DEF OpenIsServed
  <2>1. CASE t = s
    BY <1>5, <1>6, <2>1, ScrcpyConstants DEF KindFor, Callers
  <2>2. CASE t # s
    <3>1. ~InHand(t)
      BY <1>3, <1>4 DEF InHand, Callers
    <3>2. \A d \in Callers : scCaller[d].pc \in {"dial", "serve"} => d # c
      BY <1>4
    <3> QED
      BY <1>3, <1>4, <1>6, <2>2, <3>1, <3>2 DEF ScrcpyInv, OpenIsServed, Callers
  <2> QED
    BY <2>1, <2>2
<1> QED
  BY <1>7, <1>8, <1>9, <1>10, <1>11, <1>12 DEF ScrcpyInv

\* A session closes by itself.
LEMMA ProcessExitsKeeps ==
  ASSUME ScrcpyInv, NEW s \in ScrcpySessions, ProcessExits(s)
  PROVE  ScrcpyInv'
<1>1. /\ scSession' \in [ScrcpySessions -> [kind : {"none", "screen", "control"}, closed : BOOLEAN]]
      /\ \A t \in ScrcpySessions :
           /\ scSession'[t].kind = scSession[t].kind
           /\ scSession'[t].closed <=> (scSession[t].closed \/ t = s)
      /\ Started' = Started
      /\ UNCHANGED <<scCaller, scLock, scCurrent, scClosing>>
  <2>1. scSession' = Closed(s) /\ UNCHANGED <<scCaller, scLock, scCurrent, scClosing>>
    BY DEF ProcessExits
  <2> QED
    BY <2>1, CloseMarks DEF ScrcpyInv
<1>2. ScrcpyTypeOK'
  BY <1>1 DEF ScrcpyInv, ScrcpyTypeOK
<1>3. LockIsHeld' /\ SessionsInOrder'
  BY <1>1 DEF ScrcpyInv, LockIsHeld, SessionsInOrder
<1>4. OwnSessions' /\ ScreensInHand'
  BY <1>1 DEF ScrcpyInv, OwnSessions, ScreensInHand, IsScreen, KindFor
<1>5. OpenIsServed'
  BY <1>1 DEF ScrcpyInv, OpenIsServed, InHand
<1> QED
  BY <1>2, <1>3, <1>4, <1>5 DEF ScrcpyInv

\* The shutdown takes the current session out, and closes it.
LEMMA CloseManagerKeeps ==
  ASSUME ScrcpyInv, CloseManager
  PROVE  ScrcpyInv'
<1>1. CASE scClosing.stage = "open"
  <2>1. /\ scClosing' = [stage |-> "closing", session |-> scCurrent]
        /\ scCurrent' = 0
        /\ UNCHANGED <<scCaller, scLock, scSession>>
        /\ scClosing.session = 0
    BY <1>1 DEF CloseManager, ScrcpyInv, ScreensInHand
  <2>2. ScrcpyTypeOK'
    BY <2>1, ScrcpyConstants DEF ScrcpyInv, ScrcpyTypeOK
  <2>3. LockIsHeld' /\ SessionsInOrder' /\ OwnSessions'
    BY <2>1 DEF ScrcpyInv, LockIsHeld, SessionsInOrder, Started, OwnSessions, KindFor
  <2>4. ScreensInHand'
    BY <2>1 DEF ScrcpyInv, ScreensInHand, IsScreen
  <2>5. OpenIsServed'
    BY <2>1, ScrcpyConstants DEF ScrcpyInv, OpenIsServed, InHand, ScrcpySessions
  <2> QED
    BY <2>2, <2>3, <2>4, <2>5 DEF ScrcpyInv
<1>2. CASE scClosing.stage = "closing"
  <2>1. /\ scClosing' = [stage |-> "closed", session |-> 0]
        /\ scSession' = IF scClosing.session = 0 THEN scSession ELSE Closed(scClosing.session)
        /\ UNCHANGED <<scCaller, scLock, scCurrent>>
    BY <1>2 DEF CloseManager
  <2>2. /\ scSession' \in [ScrcpySessions -> [kind : {"none", "screen", "control"}, closed : BOOLEAN]]
        /\ \A t \in ScrcpySessions :
             /\ scSession'[t].kind = scSession[t].kind
             /\ scSession'[t].closed <=> (scSession[t].closed \/ t = scClosing.session)
        /\ Started' = Started
    <3>1. CASE scClosing.session = 0
      BY <2>1, <3>1 DEF ScrcpyInv, ScrcpyTypeOK, Started, ScrcpySessions
    <3>2. CASE scClosing.session # 0
      BY <2>1, <3>2, CloseMarks DEF ScrcpyInv, ScreensInHand, IsScreen
    <3> QED
      BY <3>1, <3>2
  <2>3. ScrcpyTypeOK'
    BY <2>1, <2>2, ScrcpyConstants DEF ScrcpyInv, ScrcpyTypeOK
  <2>4. LockIsHeld' /\ SessionsInOrder'
    BY <2>1, <2>2 DEF ScrcpyInv, LockIsHeld, SessionsInOrder
  <2>5. OwnSessions' /\ ScreensInHand'
    BY <2>1, <2>2 DEF ScrcpyInv, OwnSessions, ScreensInHand, IsScreen, KindFor
  <2>6. OpenIsServed'
    BY <2>1, <2>2 DEF ScrcpyInv, OpenIsServed, InHand
  <2> QED
    BY <2>3, <2>4, <2>5, <2>6 DEF ScrcpyInv
<1> QED
  BY <1>1, <1>2 DEF CloseManager

LEMMA ScrcpyStepsKeep == ScrcpyInv /\ [ScrcpyNext]_scrcpyVars => ScrcpyInv'
<1> SUFFICES ASSUME ScrcpyInv, [ScrcpyNext]_scrcpyVars PROVE ScrcpyInv'
  OBVIOUS
<1>1. CASE UNCHANGED scrcpyVars
  BY <1>1 DEF scrcpyVars, ScrcpyInv, ScrcpyTypeOK, LockIsHeld, SessionsInOrder, Started, OwnSessions,
     KindFor,
              ScreensInHand, IsScreen, OpenIsServed, InHand
<1>2. CASE ScrcpyNext
  BY <1>2, TakeCurrentKeeps, KillPreviousKeeps, AwaitPreviousKeeps, LockInjectorKeeps, LaunchFailsKeeps,
     LaunchKeeps, DialFailsKeeps, PublishKeeps, EndServeKeeps, DropCurrentKeeps, ProcessExitsKeeps,
     CloseManagerKeeps DEF ScrcpyNext
<1> QED
  BY <1>1, <1>2

LEMMA ScrcpyInvIsSafe == ScrcpyInv => ScrcpySafe
<1> SUFFICES ASSUME ScrcpyInv PROVE ScrcpySafe
  OBVIOUS
<1>1. \A s \in ScrcpySessions : s \notin Doomed <=> ~InHand(s)
  BY DEF Doomed, InHand
<1>2. OneScreen
  <2> DEFINE screens == {s \in Open : scSession[s].kind = "screen"} \ Doomed
             starting == {scCaller[v].session : v \in {w \in Viewers : scCaller[w].pc = "dial"}}
  <2>1. \A s \in screens : s \in ScrcpySessions /\ (s = scCurrent \/ s \in starting)
    BY <1>1 DEF ScrcpyInv, OpenIsServed, Open, Started
  <2>2. \A s, t \in starting : s = t /\ scCurrent = 0
    BY DEF ScrcpyInv, LockIsHeld, Locked, Callers
  <2>3. \A s, t \in screens : s = t
    BY <2>1, <2>2, ScrcpyConstants DEF ScrcpySessions
  <2>4. Cardinality(screens) <= 1
    <3>1. CASE screens = {}
      BY <3>1, FS_EmptySet
    <3>2. CASE screens # {}
      <4>1. PICK s \in screens : screens = {s}
        BY <2>3, <3>2
      <4> HIDE DEF screens
      <4> QED
        BY <4>1, FS_Singleton
    <3> QED
      BY <3>1, <3>2
  <2> QED
    BY <2>1, <2>4 DEF OneScreen
<1>3. InjectionIsIsolated
  BY ScrcpyConstants DEF ScrcpyInv, ScreensInHand, OwnSessions, InjectionIsIsolated, Doomed, IsScreen,
     KindFor, Using, Callers
<1>4. SessionIsServed
  BY <1>1 DEF ScrcpyInv, OpenIsServed, SessionIsServed, Open, Started
<1> QED
  BY <1>2, <1>3, <1>4 DEF ScrcpySafe

\* The invariant of the scrcpy sessions holds always (manager.go: start, startControlOnly, Close).
THEOREM ScrcpySessionInvariant == ScrcpySpec => []ScrcpyInv
BY ScrcpyInitInv, ScrcpyStepsKeep, PTL DEF ScrcpySpec

------------------------------------------------------------------------------
(* The control channel: tokens of its clients, and which of the requests that wait are *)
(* registered.                                                                         *)

ClientPcs == {"off", "ready", "check", "signalTaken", "signalWaiting", "wait", "drain"}
NoneTwice(s) == \A i, j \in 1 .. Len(s) : s[i] = s[j] => i = j

ClientType ==
  [pc : ClientPcs, token : Nat, cancelled : BOOLEAN, sequence : Tickets \cup {0}, ack : BOOLEAN]

ControlTypeOK ==
  /\ kClient \in [Controllers -> ClientType]
  /\ \A c \in Controllers : kClient[c].pc \notin {"off", "ready"} => kClient[c].sequence \in Tickets
  /\ kControl \in [generation : Nat, active : BOOLEAN, owner : SUBSET Controllers]
  /\ kPending \in Seq(Tickets)
  /\ NoneTwice(kPending)
  /\ kWaiters \in [Tickets -> Seq(Controllers)]
  /\ kSpace \in BOOLEAN
  /\ kReader \in [pc : {"read", "publish", "blocked", "over"}, sequence : Tickets \cup {0}]
  /\ kReader.pc \in {"publish", "blocked"} => kReader.sequence \in Tickets
  /\ kSocket \in Seq(Tickets)
  /\ kDone \in BOOLEAN

\* Clients that serve hold different tokens, and the last one only is not cancelled.
TokensAreTaken ==
  /\ \A c \in Controllers : kClient[c].pc # "off" =>
       /\ kClient[c].token <= kControl.generation
       /\ kClient[c].cancelled <=> kClient[c].token # kControl.generation
       /\ c \in kControl.owner <=> kClient[c].token = kControl.generation
  /\ \A c, d \in Controllers :
       kClient[c].pc # "off" /\ kClient[d].pc # "off" /\ kClient[c].token = kClient[d].token => c = d
  /\ \A c \in Controllers : kClient[c].pc = "off" => c \notin kControl.owner
  /\ kControl.active <=> kControl.owner # {}

\* Who is registered waits for that sequence number and has no answer; who waits and
\* is not registered has it.
WaitersWait ==
  /\ \A q \in Tickets, c \in Controllers : Contains(kWaiters[q], c) =>
       /\ kClient[c].pc \in {"signalWaiting", "wait"}
       /\ kClient[c].sequence = q
       /\ ~kClient[c].ack
  /\ \A q \in Tickets : NoneTwice(kWaiters[q])
  /\ \A c \in Controllers :
       /\ kClient[c].pc \in {"signalWaiting", "wait"} =>
            kClient[c].ack \/ Contains(kWaiters[kClient[c].sequence], c)
       /\ kClient[c].pc = "drain" => kClient[c].ack
       /\ kClient[c].ack => kClient[c].pc \in {"signalWaiting", "wait", "drain"}

ControlInv == ControlTypeOK /\ TokensAreTaken /\ WaitersWait /\ NoLostAckWakeup

\* What Append, Tail and the removal of an element do to the elements of a sequence.
LEMMA AppendedElements ==
  ASSUME NEW S, NEW s \in Seq(S), NEW e \in S
  PROVE  /\ Append(s, e) \in Seq(S)
         /\ Len(Append(s, e)) = Len(s) + 1
         /\ \A x : Contains(Append(s, e), x) <=> Contains(s, x) \/ x = e
         /\ NoneTwice(s) /\ ~Contains(s, e) => NoneTwice(Append(s, e))
<1>1. /\ Append(s, e) \in Seq(S) /\ Len(s) \in Nat
      /\ Len(Append(s, e)) = Len(s) + 1
      /\ \A i \in 1 .. Len(s) : Append(s, e)[i] = s[i]
      /\ Append(s, e)[Len(s) + 1] = e
  OBVIOUS
<1> DEFINE t == Append(s, e)
<1> HIDE DEF t
<1>2. /\ t \in Seq(S) /\ Len(s) \in Nat
      /\ Len(t) = Len(s) + 1
      /\ \A i \in 1 .. Len(s) : t[i] = s[i]
      /\ t[Len(s) + 1] = e
  BY <1>1 DEF t
<1>3. \A x : Contains(t, x) <=> Contains(s, x) \/ x = e
  <2> SUFFICES ASSUME NEW x PROVE Contains(t, x) <=> Contains(s, x) \/ x = e
    OBVIOUS
  <2>1. Contains(t, x) => Contains(s, x) \/ x = e
    <3> SUFFICES ASSUME NEW i \in 1 .. Len(t), t[i] = x PROVE Contains(s, x) \/ x = e
      BY DEF Contains
    <3>1. CASE i = Len(s) + 1
      BY <1>2, <3>1
    <3>2. CASE i # Len(s) + 1
      <4>1. i \in 1 .. Len(s)
        BY <1>2, <3>2
      <4> QED
        BY <1>2, <4>1 DEF Contains
    <3> QED
      BY <3>1, <3>2
  <2>2. Contains(s, x) => Contains(t, x)
    BY <1>2 DEF Contains
  <2>3. x = e => Contains(t, x)
    BY <1>2 DEF Contains
  <2> QED
    BY <2>1, <2>2, <2>3
<1>4. NoneTwice(s) /\ ~Contains(s, e) => NoneTwice(t)
  BY <1>2 DEF NoneTwice, Contains
<1> QED
  BY <1>2, <1>3, <1>4 DEF t

LEMMA TailElements ==
  ASSUME NEW S, NEW s \in Seq(S), s # <<>>, NoneTwice(s)
  PROVE  /\ Tail(s) \in Seq(S) /\ Head(s) \in S
         /\ \A x : Contains(Tail(s), x) <=> Contains(s, x) /\ x # Head(s)
         /\ Contains(s, Head(s))
         /\ NoneTwice(Tail(s))
<1> DEFINE t == Tail(s)
           n == Len(s)
<1>1. /\ t \in Seq(S) /\ Head(s) \in S /\ n \in Nat \ {0} /\ Len(t) = n - 1
      /\ \A i \in 1 .. n - 1 : t[i] = s[i + 1]
      /\ s[1] = Head(s)
  BY HeadTailProperties, EmptySeq, LenProperties
<1> HIDE DEF t
<1>2. \A x : Contains(t, x) <=> Contains(s, x) /\ x # s[1]
  <2> SUFFICES ASSUME NEW x PROVE Contains(t, x) <=> Contains(s, x) /\ x # s[1]
    OBVIOUS
  <2>1. ASSUME NEW i \in 1 .. n - 1, t[i] = x PROVE Contains(s, x) /\ x # s[1]
    <3>1. i + 1 \in 1 .. n /\ s[i + 1] = x /\ 1 \in 1 .. n /\ i + 1 # 1
      BY <1>1, <2>1
    <3> QED
      BY <3>1 DEF Contains, NoneTwice
  <2>2. ASSUME NEW i \in 1 .. n, s[i] = x, x # s[1] PROVE Contains(t, x)
    <3>1. i - 1 \in 1 .. n - 1 /\ t[i - 1] = x
      <4>1. i - 1 \in 1 .. n - 1 /\ (i - 1) + 1 = i
        BY <1>1, <2>2
      <4> QED
        BY <1>1, <2>2, <4>1
    <3> QED
      BY <1>1, <3>1 DEF Contains
  <2> QED
    BY <1>1, <2>1, <2>2 DEF Contains
<1>3. Contains(s, s[1])
  BY <1>1 DEF Contains
<1>4. NoneTwice(t)
  <2> SUFFICES ASSUME NEW i \in 1 .. n - 1, NEW j \in 1 .. n - 1, t[i] = t[j] PROVE i = j
    BY <1>1 DEF NoneTwice
  <2>1. i + 1 \in 1 .. n /\ j + 1 \in 1 .. n /\ s[i + 1] = s[j + 1]
    BY <1>1
  <2> QED
    BY <1>1, <2>1 DEF NoneTwice
<1> QED
  BY <1>1, <1>2, <1>3, <1>4 DEF t

LEMMA RemovedElements ==
  ASSUME NEW S, NEW s \in Seq(S), NEW e, Contains(s, e), NoneTwice(s)
  PROVE  /\ LeftOut(s, e) \in Seq(S)
         /\ \A x : Contains(LeftOut(s, e), x) <=> Contains(s, x) /\ x # e
         /\ NoneTwice(LeftOut(s, e))
<1> DEFINE k == CHOOSE i \in 1 .. Len(s) : s[i] = e
           n == Len(s)
           a == SubSeq(s, 1, k - 1)
           b == SubSeq(s, k + 1, n)
           t == LeftOut(s, e)
<1>1. k \in 1 .. n /\ s[k] = e /\ n \in Nat
  BY LenProperties DEF Contains
<1>2. t = a \o b
  BY DEF LeftOut, RemoveAt
<1> HIDE DEF k, t
<1>3. /\ a \in Seq(S) /\ Len(a) = k - 1
      /\ \A i \in 1 .. k - 1 : a[i] = s[i]
  BY <1>1, SubSeqProperties, ElementOfSeq
<1>4. /\ b \in Seq(S) /\ Len(b) = n - k
      /\ \A i \in 1 .. n - k : b[i] = s[i + k]
  BY <1>1, SubSeqProperties, ElementOfSeq
<1> HIDE DEF a, b
<1>5. /\ t \in Seq(S) /\ Len(t) = n - 1
      /\ \A i \in 1 .. n - 1 : t[i] = IF i < k THEN s[i] ELSE s[i + 1]
  <2>1. t \in Seq(S) /\ Len(t) = Len(a) + Len(b)
        /\ \A i \in 1 .. Len(t) : t[i] = IF i <= Len(a) THEN a[i] ELSE b[i - Len(a)]
    <3>1. /\ a \o b \in Seq(S) /\ Len(a \o b) = Len(a) + Len(b)
          /\ \A i \in 1 .. Len(a) + Len(b) : (a \o b)[i] = IF i <= Len(a) THEN a[i] ELSE b[i - Len(a)]
      BY <1>3, <1>4, ConcatProperties
    <3> QED
      BY <1>2, <3>1
  <2>2. Len(t) = n - 1
    BY <1>1, <1>3, <1>4, <2>1
  <2>3. ASSUME NEW i \in 1 .. n - 1 PROVE t[i] = IF i < k THEN s[i] ELSE s[i + 1]
    <3>1. CASE i < k
      BY <1>1, <1>3, <2>1, <2>2, <3>1
    <3>2. CASE i >= k
      <4>1. i - Len(a) \in 1 .. n - k /\ (i - Len(a)) + k = i + 1 /\ ~(i <= Len(a))
        BY <1>1, <1>3, <3>2
      <4>2. b[i - Len(a)] = s[i + 1]
        BY <1>4, <4>1
      <4> QED
        BY <1>1, <2>1, <2>2, <3>2, <4>1, <4>2
    <3> QED
      BY <1>1, <3>1, <3>2
  <2> QED
    BY <2>1, <2>2, <2>3
<1>6. \A x : Contains(t, x) <=> Contains(s, x) /\ x # e
  <2> SUFFICES ASSUME NEW x PROVE Contains(t, x) <=> Contains(s, x) /\ x # e
    OBVIOUS
  <2>1. ASSUME NEW i \in 1 .. n - 1, t[i] = x PROVE Contains(s, x) /\ x # e
    <3>1. PICK j \in 1 .. n : j # k /\ s[j] = x
      <4>1. CASE i < k
        BY <1>1, <1>5, <2>1, <4>1
      <4>2. CASE i >= k
        <5>1. i + 1 \in 1 .. n /\ i + 1 # k /\ s[i + 1] = x
          BY <1>1, <1>5, <2>1, <4>2
        <5> QED
          BY <5>1
      <4> QED
        BY <1>1, <4>1, <4>2
    <3> QED
      BY <1>1, <3>1 DEF Contains, NoneTwice
  <2>2. ASSUME NEW j \in 1 .. n, s[j] = x, x # e PROVE Contains(t, x)
    <3>1. CASE j < k
      <4>1. j \in 1 .. n - 1 /\ t[j] = x
        BY <1>1, <1>5, <2>2, <3>1
      <4> QED
        BY <1>5, <4>1 DEF Contains
    <3>2. CASE j > k
      <4>1. j - 1 \in 1 .. n - 1 /\ ~(j - 1 < k) /\ (j - 1) + 1 = j
        BY <1>1, <3>2
      <4>2. t[j - 1] = x
        BY <1>5, <2>2, <4>1
      <4> QED
        BY <1>5, <4>1, <4>2 DEF Contains
    <3> QED
      BY <1>1, <2>2, <3>1, <3>2
  <2> QED
    BY <1>5, <2>1, <2>2 DEF Contains
<1>7. NoneTwice(t)
  <2> SUFFICES ASSUME NEW i \in 1 .. n - 1, NEW j \in 1 .. n - 1, t[i] = t[j] PROVE i = j
    BY <1>5 DEF NoneTwice
  <2> DEFINE p(x) == IF x < k THEN x ELSE x + 1
  <2>1. p(i) \in 1 .. n /\ p(j) \in 1 .. n /\ s[p(i)] = s[p(j)]
    BY <1>1, <1>5
  <2>2. p(i) = p(j)
    BY <2>1 DEF NoneTwice
  <2> QED
    BY <1>1, <2>2
<1> QED
  BY <1>5, <1>6, <1>7 DEF t

LEMMA ControlInitInv == ControlInit => ControlInv
<1> SUFFICES ASSUME ControlInit PROVE ControlInv
  OBVIOUS
<1>1. \A x : ~Contains(<<>>, x)
  BY DEF Contains
<1>2. NoneTwice(<<>>)
  BY DEF NoneTwice
<1>3. ControlTypeOK
  <2>1. NoClient \in ClientType /\ NoClient.pc = "off"
    BY DEF NoClient, ClientType, ClientPcs
  <2> QED
    <3>1. kClient \in [Controllers -> ClientType] /\ \A c \in Controllers : kClient[c].pc = "off"
      BY <2>1 DEF ControlInit
    <3>2. <<>> \in Seq(Tickets) /\ <<>> \in Seq(Controllers)
      OBVIOUS
    <3> QED
      BY <1>2, <3>1, <3>2 DEF ControlInit, ControlTypeOK
<1>4. TokensAreTaken /\ WaitersWait /\ NoLostAckWakeup
  BY <1>1, <1>2 DEF ControlInit, TokensAreTaken, WaitersWait, NoLostAckWakeup, NoClient
<1> QED
  BY <1>3, <1>4 DEF ControlInv

\* A step of one client changes that client.
LEMMA ClientMoves ==
  ASSUME ControlTypeOK, NEW c \in Controllers, NEW to, kClient' = [kClient EXCEPT ![c] = to]
  PROVE  kClient'[c] = to /\ \A d \in Controllers : d # c => kClient'[d] = kClient[d]
BY DEF ControlTypeOK

LEMMA BeginControlKeeps ==
  ASSUME ControlInv, NEW c \in Controllers, BeginControl(c)
  PROVE  ControlInv'
<1>1. /\ kClient[c].pc = "off"
      /\ kControl'.generation = kControl.generation + 1
      /\ kControl'.active
      /\ kControl'.owner = {c}
      /\ kControl' \in [generation : Nat, active : BOOLEAN, owner : SUBSET Controllers]
      /\ kControl.generation \in Nat
      /\ kClient' \in [Controllers -> ClientType]
      /\ kClient'[c].pc = "ready" /\ kClient'[c].token = kControl.generation + 1
      /\ ~kClient'[c].cancelled /\ ~kClient'[c].ack
  <2>1. /\ kClient[c].pc = "off"
        /\ kControl.generation \in Nat
        /\ kControl' = [generation |-> kControl.generation + 1, active |-> TRUE, owner |-> {c}]
        /\ kClient' = [d \in Controllers |->
                        IF d = c THEN [NoClient EXCEPT !.pc = "ready", !.token = kControl.generation + 1]
                        ELSE [kClient[d] EXCEPT !.cancelled = @ \/ d \in kControl.owner]]
    BY DEF BeginControl, ControlInv, ControlTypeOK
  <2>2. [NoClient EXCEPT !.pc = "ready", !.token = kControl.generation + 1] \in ClientType
    <3>1. NoClient \in ClientType
      BY DEF NoClient, ClientType, ClientPcs
    <3>2. \A r \in ClientType, n \in Nat : [r EXCEPT !.pc = "ready", !.token = n] \in ClientType
      BY DEF ClientType, ClientPcs
    <3> QED
      <4>1. kControl.generation + 1 \in Nat
        BY <2>1
      <4> QED
        BY <3>1, <3>2, <4>1
  <2>3. \A d \in Controllers : [kClient[d] EXCEPT !.cancelled = @ \/ d \in kControl.owner] \in ClientType
    BY DEF ControlInv, ControlTypeOK, ClientType
  <2>4. kClient' \in [Controllers -> ClientType]
    BY <2>1, <2>2, <2>3
  <2>5. kControl' \in [generation : Nat, active : BOOLEAN, owner : SUBSET Controllers]
    BY <2>1
  <2>6. kClient'[c].pc = "ready" /\ kClient'[c].token = kControl.generation + 1
        /\ ~kClient'[c].cancelled /\ ~kClient'[c].ack
    BY <2>1 DEF NoClient
  <2> QED
    BY <2>1, <2>4, <2>5, <2>6
<1>2. \A d \in Controllers : d # c =>
        /\ kClient'[d].pc = kClient[d].pc
        /\ kClient'[d].token = kClient[d].token /\ kClient'[d].token \in Nat
        /\ kClient'[d].sequence = kClient[d].sequence
        /\ kClient'[d].ack = kClient[d].ack
        /\ kClient'[d].cancelled <=> (kClient[d].cancelled \/ d \in kControl.owner)
  BY DEF BeginControl, ControlInv, ControlTypeOK, ClientType
<1>3. UNCHANGED <<kPending, kWaiters, kSpace, kReader, kSocket, kDone>>
  BY DEF BeginControl, ackVars
<1>4. ControlTypeOK'
  <2>1. \A d \in Controllers : kClient'[d].pc \notin {"off", "ready"} => kClient'[d].sequence \in Tickets
    BY <1>1, <1>2 DEF ControlInv, ControlTypeOK
  <2> QED
    BY <1>1, <1>3, <2>1 DEF ControlInv, ControlTypeOK
<1>5. TokensAreTaken'
  BY <1>1, <1>2 DEF ControlInv, TokensAreTaken
<1>6. WaitersWait'
  <2>1. \A q \in Tickets : ~Contains(kWaiters[q], c)
    BY <1>1 DEF ControlInv, WaitersWait
  <2> QED
    BY <1>1, <1>2, <1>3, <2>1 DEF ControlInv, WaitersWait
<1>7. NoLostAckWakeup'
  BY <1>1, <1>2, <1>3 DEF ControlInv, NoLostAckWakeup
<1> QED
  BY <1>4, <1>5, <1>6, <1>7 DEF ControlInv

LEMMA EndControlKeeps ==
  ASSUME ControlInv, NEW c \in Controllers, EndControl(c)
  PROVE  ControlInv'
<1> DEFINE to == NoClient
<1>1. /\ kClient[c] \in ClientType
      /\ kClient' = [kClient EXCEPT ![c] = to]
      /\ kClient'[c] = to
      /\ \A d \in Controllers : d # c => kClient'[d] = kClient[d]
      /\ kClient[c].pc = "ready"
  BY ClientMoves DEF EndControl, ControlInv, ControlTypeOK
<1>2. /\ to \in ClientType
      /\ to.pc = "off" /\ ~to.ack
  BY <1>1 DEF ClientType, ClientPcs, NoClient
<1> HIDE DEF to
<1>3. /\ UNCHANGED <<kPending, kWaiters, kSpace, kReader, kSocket, kDone>>
      /\ kControl' \in [generation : Nat, active : BOOLEAN, owner : SUBSET Controllers]
      /\ kControl' = IF kControl.generation # kClient[c].token THEN kControl
                      ELSE [kControl EXCEPT !.owner = {}, !.active = FALSE]
  BY DEF EndControl, ackVars, ControlInv, ControlTypeOK
<1>4. ControlTypeOK'
  BY <1>1, <1>2, <1>3 DEF ControlInv, ControlTypeOK
<1>5. TokensAreTaken'
  BY <1>1, <1>2, <1>3 DEF EndControl, ControlInv, TokensAreTaken, ControlTypeOK
<1>6. WaitersWait'
  BY <1>1, <1>2, <1>3 DEF ControlInv, ControlTypeOK, WaitersWait
<1>7. NoLostAckWakeup'
  BY <1>1, <1>2, <1>3 DEF ControlInv, NoLostAckWakeup
<1> QED
  BY <1>4, <1>5, <1>6, <1>7 DEF ControlInv

LEMMA WriteFrameKeeps ==
  ASSUME ControlInv, NEW c \in Controllers, NEW q \in Tickets, WriteFrame(c, q)
  PROVE  ControlInv'
<1> DEFINE to == [kClient[c] EXCEPT !.pc = "check", !.sequence = q, !.ack = FALSE]
<1>1. /\ kClient[c] \in ClientType
      /\ kClient' = [kClient EXCEPT ![c] = to]
      /\ kClient'[c] = to
      /\ \A d \in Controllers : d # c => kClient'[d] = kClient[d]
      /\ kClient[c].pc = "ready"
  <2>1. kClient \in [Controllers -> ClientType]
    BY DEF ControlInv, ControlTypeOK
  <2>2. kClient' = [kClient EXCEPT ![c] = to] /\ kClient[c].pc = "ready"
    BY <2>1 DEF WriteFrame
  <2> HIDE DEF to
  <2> QED
    BY <2>1, <2>2
<1>2. /\ to \in ClientType
      /\ to.pc = "check" /\ ~to.ack /\ to.sequence \in Tickets
      /\ to.token = kClient[c].token /\ to.cancelled = kClient[c].cancelled
  BY <1>1 DEF ClientType, ClientPcs, NoClient
<1> HIDE DEF to
<1>3. /\ UNCHANGED <<kControl, kPending, kWaiters, kSpace, kReader, kDone>>
      /\ kSocket' \in Seq(Tickets)
  <2>1. kSocket \in Seq(Tickets) /\ kSocket' \in {kSocket, Append(kSocket, q)}
    BY DEF WriteFrame, ControlInv, ControlTypeOK
  <2> QED
    BY <2>1, AppendProperties DEF WriteFrame
<1>4. ControlTypeOK'
  BY <1>1, <1>2, <1>3 DEF ControlInv, ControlTypeOK
<1>5. TokensAreTaken'
  BY <1>1, <1>2, <1>3 DEF EndControl, ControlInv, TokensAreTaken, ControlTypeOK
<1>6. WaitersWait'
  BY <1>1, <1>2, <1>3 DEF ControlInv, ControlTypeOK, WaitersWait
<1>7. NoLostAckWakeup'
  BY <1>1, <1>2, <1>3 DEF ControlInv, NoLostAckWakeup
<1> QED
  BY <1>4, <1>5, <1>6, <1>7 DEF ControlInv

LEMMA SignalSpaceKeeps ==
  ASSUME ControlInv, NEW c \in Controllers, SignalSpace(c)
  PROVE  ControlInv'
<1> DEFINE to == [kClient[c] EXCEPT !.pc = IF @ = "signalTaken" THEN "ready" ELSE "wait"]
<1>1. /\ kClient[c] \in ClientType
      /\ kClient' = [kClient EXCEPT ![c] = to]
      /\ kClient'[c] = to
      /\ \A d \in Controllers : d # c => kClient'[d] = kClient[d]
      /\ kClient[c].pc \in {"signalTaken", "signalWaiting"}
  BY ClientMoves DEF SignalSpace, ControlInv, ControlTypeOK
<1>2. /\ to \in ClientType
      /\ to.pc = (IF kClient[c].pc = "signalTaken" THEN "ready" ELSE "wait")
      /\ to.ack = kClient[c].ack /\ to.sequence = kClient[c].sequence
      /\ to.token = kClient[c].token /\ to.cancelled = kClient[c].cancelled
  BY <1>1 DEF ClientType, ClientPcs, NoClient
<1> HIDE DEF to
<1>3. /\ UNCHANGED <<kControl, kPending, kWaiters, kReader, kSocket, kDone>>
      /\ kSpace' = TRUE
  BY DEF SignalSpace, ackVars, ControlInv, ControlTypeOK
<1>4. ControlTypeOK'
  BY <1>1, <1>2, <1>3 DEF ControlInv, ControlTypeOK
<1>5. TokensAreTaken'
  BY <1>1, <1>2, <1>3 DEF EndControl, ControlInv, TokensAreTaken, ControlTypeOK
<1>6. WaitersWait'
  BY <1>1, <1>2, <1>3 DEF ControlInv, ControlTypeOK, WaitersWait
<1>7. NoLostAckWakeup'
  BY <1>1, <1>2, <1>3 DEF ControlInv, NoLostAckWakeup
<1> QED
  BY <1>4, <1>5, <1>6, <1>7 DEF ControlInv

LEMMA AckArrivesKeeps ==
  ASSUME ControlInv, NEW c \in Controllers, AckArrives(c)
  PROVE  ControlInv'
<1> DEFINE to == [kClient[c] EXCEPT !.pc = "ready", !.ack = FALSE]
<1>1. /\ kClient[c] \in ClientType
      /\ kClient' = [kClient EXCEPT ![c] = to]
      /\ kClient'[c] = to
      /\ \A d \in Controllers : d # c => kClient'[d] = kClient[d]
      /\ kClient[c].pc \in {"wait", "drain"} /\ kClient[c].ack
  BY ClientMoves DEF AckArrives, ControlInv, ControlTypeOK
<1>2. /\ to \in ClientType
      /\ to.pc = "ready" /\ ~to.ack
      /\ to.token = kClient[c].token /\ to.cancelled = kClient[c].cancelled
  BY <1>1 DEF ClientType, ClientPcs, NoClient
<1> HIDE DEF to
<1>3. UNCHANGED <<kControl, kPending, kWaiters, kSpace, kReader, kSocket, kDone>>
  BY DEF AckArrives, ackVars, ControlInv, ControlTypeOK
<1>4. ControlTypeOK'
  BY <1>1, <1>2, <1>3 DEF ControlInv, ControlTypeOK
<1>5. TokensAreTaken'
  BY <1>1, <1>2, <1>3 DEF EndControl, ControlInv, TokensAreTaken, ControlTypeOK
<1>6. WaitersWait'
  BY <1>1, <1>2, <1>3 DEF ControlInv, ControlTypeOK, WaitersWait
<1>7. NoLostAckWakeup'
  BY <1>1, <1>2, <1>3 DEF ControlInv, NoLostAckWakeup
<1> QED
  BY <1>4, <1>5, <1>6, <1>7 DEF ControlInv

LEMMA CheckAckKeeps ==
  ASSUME ControlInv, NEW c \in Controllers, CheckAck(c)
  PROVE  ControlInv'
<1> DEFINE q == kClient[c].sequence
           pc == IF Contains(kPending, q) THEN "signalTaken" ELSE "signalWaiting"
<1>1. /\ kClient[c].pc = "check" /\ q \in Tickets
      /\ kClient[c] \in ClientType
      /\ kClient' = [kClient EXCEPT ![c] = [kClient[c] EXCEPT !.pc = pc]]
      /\ kClient'[c] = [kClient[c] EXCEPT !.pc = pc]
      /\ \A d \in Controllers : d # c => kClient'[d] = kClient[d]
      /\ UNCHANGED <<kControl, kSpace, kReader, kSocket, kAcks, kDone>>
  BY ClientMoves DEF CheckAck, ControlInv, ControlTypeOK
<1>2. kPending' \in Seq(Tickets) /\ NoneTwice(kPending')
  <2>1. CASE Contains(kPending, q)
    BY <2>1, RemovedElements DEF CheckAck, ControlInv, ControlTypeOK
  <2>2. CASE ~Contains(kPending, q)
    BY <2>2 DEF CheckAck, ControlInv, ControlTypeOK
  <2> QED
    BY <2>1, <2>2
<1>3. /\ kWaiters' \in [Tickets -> Seq(Controllers)]
      /\ \A r \in Tickets : NoneTwice(kWaiters'[r])
      /\ \A r \in Tickets, d \in Controllers :
           Contains(kWaiters'[r], d) <=> Contains(kWaiters[r], d) \/ (pc = "signalWaiting" /\ r = q /\ d = c)
  <2>1. CASE Contains(kPending, q)
    BY <2>1 DEF CheckAck, ControlInv, ControlTypeOK, WaitersWait
  <2>2. CASE ~Contains(kPending, q)
    <3>1. kWaiters' = [kWaiters EXCEPT ![q] = Append(kWaiters[q], c)] /\ kWaiters[q] \in Seq(Controllers)
      BY <1>1, <2>2 DEF CheckAck, ControlInv, ControlTypeOK
    <3>2. ~Contains(kWaiters[q], c) /\ NoneTwice(kWaiters[q])
      BY <1>1 DEF ControlInv, WaitersWait
    <3>3. /\ Append(kWaiters[q], c) \in Seq(Controllers)
          /\ \A x : Contains(Append(kWaiters[q], c), x) <=> Contains(kWaiters[q], x) \/ x = c
          /\ NoneTwice(Append(kWaiters[q], c))
      BY <3>1, <3>2, AppendedElements
    <3> QED
      BY <1>1, <2>2, <3>1, <3>3 DEF ControlInv, ControlTypeOK, WaitersWait
  <2> QED
    BY <2>1, <2>2
<1> HIDE DEF q, pc
<1>4. /\ pc \in {"signalTaken", "signalWaiting"}
      /\ kClient'[c].pc = pc /\ kClient'[c].sequence = q /\ kClient'[c].ack = kClient[c].ack
      /\ kClient[c].sequence = q /\ kClient'[c] \in ClientType
      /\ kClient'[c].token = kClient[c].token /\ kClient'[c].cancelled = kClient[c].cancelled
  BY <1>1 DEF q, pc, ClientPcs, ClientType
<1>5. ControlTypeOK'
  BY <1>1, <1>2, <1>3, <1>4 DEF ControlInv, ControlTypeOK
<1>6. TokensAreTaken'
  BY <1>1, <1>4 DEF ControlInv, TokensAreTaken
<1>7. WaitersWait'
  <2>1. \A r \in Tickets : ~Contains(kWaiters[r], c)
    BY <1>1 DEF ControlInv, WaitersWait
  <2>2. ~kClient[c].ack /\ ~kClient'[c].ack
    BY <1>1, <1>4 DEF ControlInv, WaitersWait
  <2>3. \A r \in Tickets, d \in Controllers : Contains(kWaiters'[r], d) =>
          /\ kClient'[d].pc \in {"signalWaiting", "wait"}
          /\ kClient'[d].sequence = r
          /\ ~kClient'[d].ack
    BY <1>1, <1>3, <1>4, <2>1, <2>2 DEF ControlInv, WaitersWait
  <2>4. \A d \in Controllers :
          /\ kClient'[d].pc \in {"signalWaiting", "wait"} =>
               kClient'[d].ack \/ Contains(kWaiters'[kClient'[d].sequence], d)
          /\ kClient'[d].pc = "drain" => kClient'[d].ack
          /\ kClient'[d].ack => kClient'[d].pc \in {"signalWaiting", "wait", "drain"}
    <3> SUFFICES ASSUME NEW d \in Controllers
                 PROVE  /\ kClient'[d].pc \in {"signalWaiting", "wait"} =>
                             kClient'[d].ack \/ Contains(kWaiters'[kClient'[d].sequence], d)
                        /\ kClient'[d].pc = "drain" => kClient'[d].ack
                        /\ kClient'[d].ack => kClient'[d].pc \in {"signalWaiting", "wait", "drain"}
      OBVIOUS
    <3>1. CASE d = c
      BY <1>1, <1>3, <1>4, <2>2, <3>1
    <3>2. CASE d # c
      <4>1. kClient'[d] = kClient[d] /\ (kClient[d].pc \notin {"off", "ready"} => kClient[d].sequence \in Tickets)
        BY <1>1, <3>2 DEF ControlInv, ControlTypeOK
      <4> QED
        BY <1>3, <3>2, <4>1 DEF ControlInv, WaitersWait
    <3> QED
      BY <3>1, <3>2
  <2> QED
    BY <1>3, <2>3, <2>4 DEF WaitersWait
<1>8. NoLostAckWakeup'
  BY <1>1, <1>4 DEF NoLostAckWakeup
<1> QED
  BY <1>5, <1>6, <1>7, <1>8 DEF ControlInv

LEMMA GiveUpAckKeeps ==
  ASSUME ControlInv, NEW c \in Controllers, GiveUpAck(c)
  PROVE  ControlInv'
<1> DEFINE q == kClient[c].sequence
           mine == Contains(kWaiters[q], c)
<1>1. /\ kClient[c].pc = "wait" /\ q \in Tickets
      /\ kClient[c] \in ClientType
      /\ UNCHANGED <<kControl, kPending, kSpace, kReader, kSocket, kAcks, kDone>>
      /\ kWaiters' = IF mine THEN [kWaiters EXCEPT ![q] = LeftOut(@, c)] ELSE kWaiters
  BY DEF GiveUpAck, ControlInv, ControlTypeOK
<1>2. \E pc \in {"ready", "drain"}, ack \in BOOLEAN :
        /\ kClient' = [kClient EXCEPT ![c] = [kClient[c] EXCEPT !.pc = pc, !.ack = ack]]
        /\ pc = "drain" => ~mine /\ ack = kClient[c].ack
        /\ pc = "ready" => ~ack \/ (mine /\ ack = kClient[c].ack)
  <2>0. kClient[c].ack \in BOOLEAN
    BY <1>1 DEF ClientType
  <2>1. CASE kClient' = [kClient EXCEPT ![c].pc = IF mine THEN "ready" ELSE "drain"]
    <3> DEFINE pc == IF mine THEN "ready" ELSE "drain"
    <3>1. kClient' = [kClient EXCEPT ![c] = [kClient[c] EXCEPT !.pc = pc, !.ack = kClient[c].ack]]
      <4>1. [kClient[c] EXCEPT !.pc = pc, !.ack = kClient[c].ack] = [kClient[c] EXCEPT !.pc = pc]
        BY <1>1 DEF ClientType
      <4> QED
        BY <2>1, <4>1
    <3>2. pc \in {"ready", "drain"} /\ kClient[c].ack \in BOOLEAN
      BY <2>0
    <3>3. /\ pc = "drain" => ~mine
          /\ pc = "ready" => mine
      OBVIOUS
    <3> HIDE DEF pc, mine
    <3> QED
      BY <3>1, <3>2, <3>3
  <2>2. CASE kClient' = [kClient EXCEPT ![c].pc = "ready", ![c].ack = FALSE]
    <3>1. kClient' = [kClient EXCEPT ![c] = [kClient[c] EXCEPT !.pc = "ready", !.ack = FALSE]]
      BY <2>2
    <3> QED
      BY <3>1
  <2> QED
    BY <2>1, <2>2 DEF GiveUpAck
<1>3. PICK pc \in {"ready", "drain"}, ack \in BOOLEAN :
        /\ kClient' = [kClient EXCEPT ![c] = [kClient[c] EXCEPT !.pc = pc, !.ack = ack]]
        /\ pc = "drain" => ~mine /\ ack = kClient[c].ack
        /\ pc = "ready" => ~ack \/ (mine /\ ack = kClient[c].ack)
  BY <1>2
<1>4. /\ kWaiters' \in [Tickets -> Seq(Controllers)]
      /\ \A r \in Tickets : NoneTwice(kWaiters'[r])
      /\ \A r \in Tickets, d \in Controllers :
           Contains(kWaiters'[r], d) <=> Contains(kWaiters[r], d) /\ d # c
  <2>1. \A r \in Tickets : Contains(kWaiters[r], c) => r = q
    BY DEF ControlInv, WaitersWait
  <2>2. CASE ~mine
    BY <1>1, <2>1, <2>2 DEF ControlInv, ControlTypeOK, WaitersWait
  <2>3. CASE mine
    <3>1. kWaiters' = [kWaiters EXCEPT ![q] = LeftOut(kWaiters[q], c)] /\ kWaiters[q] \in Seq(Controllers)
      BY <1>1, <2>3 DEF ControlInv, ControlTypeOK
    <3>2. NoneTwice(kWaiters[q])
      BY <1>1 DEF ControlInv, WaitersWait
    <3>3. /\ LeftOut(kWaiters[q], c) \in Seq(Controllers)
          /\ \A x : Contains(LeftOut(kWaiters[q], c), x) <=> Contains(kWaiters[q], x) /\ x # c
          /\ NoneTwice(LeftOut(kWaiters[q], c))
      BY <2>3, <3>1, <3>2, RemovedElements
    <3> QED
      BY <1>1, <2>1, <3>1, <3>3 DEF ControlInv, ControlTypeOK, WaitersWait
  <2> QED
    BY <2>2, <2>3
<1>5. /\ mine => ~kClient[c].ack
      /\ ~mine => kClient[c].ack
  BY <1>1 DEF ControlInv, WaitersWait
<1>6. /\ pc \in {"ready", "drain"}
      /\ \A d \in Controllers : d # c => kClient'[d] = kClient[d]
      /\ kClient'[c] = [kClient[c] EXCEPT !.pc = pc, !.ack = ack]
  BY <1>3, ClientMoves DEF ControlInv
<1>7. /\ kClient'[c].pc = pc /\ kClient'[c].sequence = q /\ kClient'[c].ack = ack
      /\ kClient'[c].token = kClient[c].token /\ kClient'[c].cancelled = kClient[c].cancelled
      /\ kClient'[c] \in ClientType
      /\ (pc = "ready" => ~ack) /\ (pc = "drain" => ack)
  <2>1. /\ kClient'[c].pc = pc /\ kClient'[c].sequence = q /\ kClient'[c].ack = ack
        /\ kClient'[c].token = kClient[c].token /\ kClient'[c].cancelled = kClient[c].cancelled
    BY <1>1, <1>6 DEF ClientType
  <2>2. kClient'[c] \in ClientType
    BY <1>1, <1>6 DEF ClientType, ClientPcs
  <2>3. (pc = "ready" => ~ack) /\ (pc = "drain" => ack)
    <3> HIDE DEF mine
    <3> QED
      BY <1>3, <1>5
  <2> QED
    BY <2>1, <2>2, <2>3
<1> HIDE DEF q, mine
<1>8. ControlTypeOK'
  <2>1. kClient' \in [Controllers -> ClientType]
    BY <1>3, <1>6, <1>7 DEF ControlInv, ControlTypeOK
  <2> QED
    BY <1>1, <1>4, <1>6, <1>7, <2>1 DEF ControlInv, ControlTypeOK
<1>9. TokensAreTaken'
  <2>1. \A d \in Controllers :
          /\ kClient'[d].pc = "off" <=> kClient[d].pc = "off"
          /\ kClient'[d].token = kClient[d].token
          /\ kClient'[d].cancelled = kClient[d].cancelled
    BY <1>1, <1>6, <1>7
  <2> QED
    BY <1>1, <2>1 DEF ControlInv, TokensAreTaken
<1>10. WaitersWait'
  <2>1. \A r \in Tickets, d \in Controllers : Contains(kWaiters'[r], d) =>
          /\ kClient'[d].pc \in {"signalWaiting", "wait"}
          /\ kClient'[d].sequence = r
          /\ ~kClient'[d].ack
    BY <1>4, <1>6 DEF ControlInv, WaitersWait
  <2> SUFFICES ASSUME NEW d \in Controllers
               PROVE  /\ kClient'[d].pc \in {"signalWaiting", "wait"} =>
                           kClient'[d].ack \/ Contains(kWaiters'[kClient'[d].sequence], d)
                      /\ kClient'[d].pc = "drain" => kClient'[d].ack
                      /\ kClient'[d].ack => kClient'[d].pc \in {"signalWaiting", "wait", "drain"}
    BY <1>4, <2>1 DEF WaitersWait
  <2>2. CASE d = c
    BY <1>6, <1>7, <2>2
  <2>3. CASE d # c
    <3>1. kClient'[d] = kClient[d] /\ (kClient[d].pc \notin {"off", "ready"} => kClient[d].sequence \in Tickets)
      BY <1>6, <2>3 DEF ControlInv, ControlTypeOK
    <3> QED
      BY <1>4, <2>3, <3>1 DEF ControlInv, WaitersWait
  <2> QED
    BY <2>2, <2>3
<1>11. NoLostAckWakeup'
  <2>1. kReader.pc = "blocked" /\ kWaiters'[kReader.sequence] # <<>> => kWaiters[kReader.sequence] # <<>>
    <3> SUFFICES ASSUME kReader.pc = "blocked", kWaiters[kReader.sequence] = <<>>
                 PROVE  kWaiters'[kReader.sequence] = <<>>
      OBVIOUS
    <3>1. kReader.sequence # q \/ ~mine
      BY DEF Contains, mine
    <3> QED
      BY <1>1, <3>1 DEF ControlInv, ControlTypeOK
  <2> QED
    BY <1>1, <1>6, <1>7, <2>1 DEF ControlInv, NoLostAckWakeup
<1> QED
  BY <1>8, <1>9, <1>10, <1>11 DEF ControlInv

LEMMA ReadAckKeeps == ControlInv /\ ReadAck => ControlInv'
<1> SUFFICES ASSUME ControlInv, ReadAck PROVE ControlInv'
  OBVIOUS
<1>1. /\ kReader'.pc = "publish" /\ kReader'.sequence \in Tickets
      /\ kReader' \in [pc : {"read", "publish", "blocked", "over"}, sequence : Tickets \cup {0}]
      /\ kSocket' \in Seq(Tickets)
      /\ UNCHANGED <<kClient, kControl, kPending, kWaiters, kSpace, kAcks, kDone>>
  BY HeadTailProperties DEF ReadAck, ControlInv, ControlTypeOK
<1>2. ControlTypeOK'
  BY <1>1 DEF ControlInv, ControlTypeOK
<1>3. TokensAreTaken' /\ WaitersWait'
  BY <1>1 DEF ControlInv, TokensAreTaken, WaitersWait
<1>4. NoLostAckWakeup'
  BY <1>1 DEF NoLostAckWakeup
<1> QED
  BY <1>2, <1>3, <1>4 DEF ControlInv

LEMMA PublishAckKeeps == ControlInv /\ PublishAck => ControlInv'
<1> SUFFICES ASSUME ControlInv, PublishAck PROVE ControlInv'
  OBVIOUS
<1> DEFINE q == kReader.sequence
<1>1. /\ kReader.pc = "publish" /\ q \in Tickets
      /\ kReader \in [pc : {"read", "publish", "blocked", "over"}, sequence : Tickets \cup {0}]
      /\ UNCHANGED <<kControl, kSpace, kSocket, kAcks, kDone>>
  BY DEF PublishAck, ControlInv, ControlTypeOK
<1>2. CASE kDone
  <2>1. kReader' = [kReader EXCEPT !.pc = "over"] /\ UNCHANGED <<kClient, kWaiters, kPending>>
    BY <1>2 DEF PublishAck
  <2>2. ControlTypeOK'
    BY <1>1, <2>1 DEF ControlInv, ControlTypeOK
  <2>3. TokensAreTaken' /\ WaitersWait'
    BY <1>1, <2>1 DEF ControlInv, TokensAreTaken, WaitersWait
  <2>4. NoLostAckWakeup'
    BY <1>1, <2>1 DEF NoLostAckWakeup
  <2> QED
    BY <2>2, <2>3, <2>4 DEF ControlInv
<1>3. CASE ~kDone /\ kWaiters[q] # <<>>
  <2> DEFINE w == Head(kWaiters[q])
  <2>1. /\ kWaiters' = [kWaiters EXCEPT ![q] = Tail(kWaiters[q])]
        /\ kClient' = [kClient EXCEPT ![w] = [kClient[w] EXCEPT !.ack = TRUE]]
        /\ kReader' = [kReader EXCEPT !.pc = "read"]
        /\ kPending' = kPending
    BY <1>3 DEF PublishAck
  <2>2. kWaiters[q] \in Seq(Controllers) /\ NoneTwice(kWaiters[q])
    BY <1>1 DEF ControlInv, ControlTypeOK, WaitersWait
  <2>3. /\ Tail(kWaiters[q]) \in Seq(Controllers) /\ w \in Controllers
        /\ \A x : Contains(Tail(kWaiters[q]), x) <=> Contains(kWaiters[q], x) /\ x # w
        /\ Contains(kWaiters[q], w)
        /\ NoneTwice(Tail(kWaiters[q]))
    BY <1>3, <2>2, TailElements
  <2> HIDE DEF w
  <2>4. /\ kClient[w].pc \in {"signalWaiting", "wait"} /\ kClient[w].sequence = q /\ ~kClient[w].ack
        /\ \A r \in Tickets : Contains(kWaiters[r], w) => r = q
    BY <1>1, <2>3 DEF ControlInv, WaitersWait
  <2>5. /\ kClient[w] \in ClientType
        /\ kClient'[w] = [kClient[w] EXCEPT !.ack = TRUE]
        /\ \A d \in Controllers : d # w => kClient'[d] = kClient[d]
    BY <2>1, <2>3, ClientMoves DEF ControlInv, ControlTypeOK
  <2>6. /\ kClient'[w].pc = kClient[w].pc /\ kClient'[w].sequence = q /\ kClient'[w].ack
        /\ kClient'[w].token = kClient[w].token /\ kClient'[w].cancelled = kClient[w].cancelled
        /\ kClient'[w] \in ClientType
    BY <2>4, <2>5 DEF ClientType
  <2>7. /\ kWaiters' \in [Tickets -> Seq(Controllers)]
        /\ \A r \in Tickets : NoneTwice(kWaiters'[r])
        /\ \A r \in Tickets, d \in Controllers :
             Contains(kWaiters'[r], d) <=> Contains(kWaiters[r], d) /\ d # w
    BY <1>1, <2>1, <2>3, <2>4 DEF ControlInv, ControlTypeOK, WaitersWait
  <2>8. ControlTypeOK'
    <3>1. kClient' \in [Controllers -> ClientType]
      BY <2>1, <2>5, <2>6 DEF ControlInv, ControlTypeOK
    <3>2. kReader' \in [pc : {"read", "publish", "blocked", "over"}, sequence : Tickets \cup {0}] /\ kReader'.pc = "read"
      BY <1>1, <2>1
    <3> QED
      BY <1>1, <2>1, <2>3, <2>4, <2>5, <2>6, <2>7, <3>1, <3>2 DEF ControlInv, ControlTypeOK
  <2>9. TokensAreTaken'
    <3>1. \A d \in Controllers :
            /\ kClient'[d].pc = kClient[d].pc /\ kClient'[d].token = kClient[d].token
            /\ kClient'[d].cancelled = kClient[d].cancelled
      BY <2>5, <2>6
    <3> QED
      BY <1>1, <3>1 DEF ControlInv, TokensAreTaken
  <2>10. WaitersWait'
    <3>1. \A r \in Tickets, d \in Controllers : Contains(kWaiters'[r], d) =>
            /\ kClient'[d].pc \in {"signalWaiting", "wait"}
            /\ kClient'[d].sequence = r
            /\ ~kClient'[d].ack
      BY <2>5, <2>7 DEF ControlInv, WaitersWait
    <3> SUFFICES ASSUME NEW d \in Controllers
                 PROVE  /\ kClient'[d].pc \in {"signalWaiting", "wait"} =>
                             kClient'[d].ack \/ Contains(kWaiters'[kClient'[d].sequence], d)
                        /\ kClient'[d].pc = "drain" => kClient'[d].ack
                        /\ kClient'[d].ack => kClient'[d].pc \in {"signalWaiting", "wait", "drain"}
      BY <2>7, <3>1 DEF WaitersWait
    <3>2. CASE d = w
      BY <2>4, <2>6, <3>2
    <3>3. CASE d # w
      <4>1. kClient'[d] = kClient[d] /\ (kClient[d].pc \notin {"off", "ready"} => kClient[d].sequence \in Tickets)
        BY <2>5, <3>3 DEF ControlInv, ControlTypeOK
      <4> QED
        BY <2>7, <3>3, <4>1 DEF ControlInv, WaitersWait
    <3> QED
      BY <3>2, <3>3
  <2>11. NoLostAckWakeup'
    BY <1>1, <2>1 DEF NoLostAckWakeup
  <2> QED
    BY <2>8, <2>9, <2>10, <2>11 DEF ControlInv
<1>4. CASE ~kDone /\ kWaiters[q] = <<>>
  <2> DEFINE full == Contains(kPending, q) \/ Len(kPending) >= AckQueueSize
  <2>1. /\ kPending' = IF full THEN kPending ELSE Append(kPending, q)
        /\ kReader' = [kReader EXCEPT !.pc = IF Contains(kPending', q) THEN "read" ELSE "blocked"]
        /\ UNCHANGED <<kClient, kWaiters>>
    BY <1>4 DEF PublishAck
  <2>2. /\ kPending' \in Seq(Tickets) /\ NoneTwice(kPending')
        /\ ~Contains(kPending', q) => kPending' = kPending /\ Len(kPending) >= AckQueueSize
    <3>1. CASE full
      BY <2>1, <3>1 DEF ControlInv, ControlTypeOK
    <3>2. CASE ~full
      <4>1. kPending' = Append(kPending, q) /\ ~Contains(kPending, q)
        BY <2>1, <3>2
      <4>2. kPending \in Seq(Tickets) /\ NoneTwice(kPending)
        BY DEF ControlInv, ControlTypeOK
      <4> HIDE DEF full, q
      <4> QED
        BY <1>1, <4>1, <4>2, AppendedElements
    <3> QED
      BY <3>1, <3>2
  <2>3. /\ kReader' \in [pc : {"read", "publish", "blocked", "over"}, sequence : Tickets \cup {0}]
        /\ kReader'.sequence = q /\ (kReader'.pc = "blocked" => ~Contains(kPending', q))
    BY <1>1, <2>1
  <2>4. ControlTypeOK'
    BY <1>1, <2>1, <2>2, <2>3 DEF ControlInv, ControlTypeOK
  <2>5. TokensAreTaken' /\ WaitersWait'
    BY <1>1, <2>1 DEF ControlInv, TokensAreTaken, WaitersWait
  <2>6. NoLostAckWakeup'
    <3>1. Len(kPending) \in Nat
      BY DEF ControlInv, ControlTypeOK
    <3> QED
      BY <1>4, <2>1, <2>2, <2>3, <3>1, ScrcpyControlAssumption DEF NoLostAckWakeup
  <2> QED
    BY <2>4, <2>5, <2>6 DEF ControlInv
<1> QED
  BY <1>2, <1>3, <1>4

LEMMA WakeReaderKeeps == ControlInv /\ WakeReader => ControlInv'
<1> SUFFICES ASSUME ControlInv, WakeReader PROVE ControlInv'
  OBVIOUS
<1>1. /\ kReader'.pc \in {"over", "publish"} /\ kReader'.sequence \in Tickets
      /\ kReader' \in [pc : {"read", "publish", "blocked", "over"}, sequence : Tickets \cup {0}]
      /\ kSpace' \in BOOLEAN
      /\ UNCHANGED <<kClient, kControl, kPending, kWaiters, kSocket, kAcks, kDone>>
  BY DEF WakeReader, ControlInv, ControlTypeOK
<1>2. ControlTypeOK'
  BY <1>1 DEF ControlInv, ControlTypeOK
<1>3. TokensAreTaken' /\ WaitersWait'
  BY <1>1 DEF ControlInv, TokensAreTaken, WaitersWait
<1>4. NoLostAckWakeup'
  BY <1>1 DEF NoLostAckWakeup
<1> QED
  BY <1>2, <1>3, <1>4 DEF ControlInv

LEMMA ControlStepsKeep == ControlInv /\ [ControlNext]_controlVars => ControlInv'
<1> SUFFICES ASSUME ControlInv, [ControlNext]_controlVars PROVE ControlInv'
  OBVIOUS
<1>1. CASE UNCHANGED controlVars
  BY <1>1 DEF controlVars, ControlInv, ControlTypeOK, TokensAreTaken, WaitersWait, NoLostAckWakeup
<1>2. CASE CloseSession
  BY <1>2 DEF CloseSession, ControlInv, ControlTypeOK, TokensAreTaken, WaitersWait, NoLostAckWakeup
<1>3. CASE ControlNext /\ ~CloseSession
  BY <1>3, BeginControlKeeps, EndControlKeeps, WriteFrameKeeps, CheckAckKeeps, SignalSpaceKeeps,
     AckArrivesKeeps,
     GiveUpAckKeeps, ReadAckKeeps, PublishAckKeeps, WakeReaderKeeps DEF ControlNext
<1> QED
  BY <1>1, <1>2, <1>3

LEMMA ControlInvIsSafe == ControlInv => ScrcpyControlSafe
<1> SUFFICES ASSUME ControlInv PROVE ScrcpyControlSafe
  OBVIOUS
<1>1. NoLostAckWakeup
  BY DEF ControlInv
<1>2. WaiterHasItsAnswer
  <2> SUFFICES ASSUME NEW c \in Controllers
               PROVE  LET registered == \E q \in Tickets : Contains(kWaiters[q], c) IN
                      /\ kClient[c].pc \in {"signalWaiting", "wait"} => registered # kClient[c].ack
                      /\ kClient[c].pc = "drain" => kClient[c].ack /\ ~registered
                      /\ kClient[c].pc \in {"off", "ready", "check", "signalTaken"} => ~registered
    BY DEF WaiterHasItsAnswer
  <2> DEFINE registered == \E q \in Tickets : Contains(kWaiters[q], c)
  <2>1. registered => kClient[c].pc \in {"signalWaiting", "wait"} /\ ~kClient[c].ack
    BY DEF ControlInv, WaitersWait
  <2>2. kClient[c].pc \in {"signalWaiting", "wait"} => kClient[c].ack \/ registered
    BY DEF ControlInv, ControlTypeOK, WaitersWait
  <2>3. kClient[c].pc = "drain" => kClient[c].ack
    BY DEF ControlInv, WaitersWait
  <2>4. kClient[c].ack \in BOOLEAN /\ registered \in BOOLEAN
    BY DEF ControlInv, ControlTypeOK, ClientType
  <2> HIDE DEF registered
  <2>5. kClient[c].pc \in {"signalWaiting", "wait"} => registered # kClient[c].ack
    BY <2>1, <2>2, <2>4
  <2> QED
    BY <2>1, <2>3, <2>5 DEF registered
<1>3. OneController
  <2> DEFINE serving == {c \in Controllers : kClient[c].pc # "off"}
             newest == {c \in serving : kClient[c].token = kControl.generation}
  <2>1. {c \in serving : ~kClient[c].cancelled} = newest
    BY DEF ControlInv, TokensAreTaken
  <2>2. kControl.owner = newest
    BY DEF ControlInv, ControlTypeOK, TokensAreTaken
  <2>3. kControl.active <=> newest # {}
    BY <2>2 DEF ControlInv, TokensAreTaken
  <2> QED
    BY <2>1, <2>2, <2>3 DEF OneController
<1> QED
  BY <1>1, <1>2, <1>3 DEF ScrcpyControlSafe

\* The invariant of the control channel holds always (manager.go: beginControl, waitClipboardAck).
THEOREM ScrcpyControlInvariant == ControlSpec => []ControlInv
BY ControlInitInv, ControlStepsKeep, PTL DEF ControlSpec

------------------------------------------------------------------------------
(* Download tasks: the slots of the tasks that run, what is pruned, and whose the     *)
(* files are.                                                                         *)


ItemType ==
  [pc : {"none", "transfer", "process", "cleanup", "finish", "close", "done"},
   status : {"live", "failure", "success"}, path : DownloadPaths, install : BOOLEAN, failed : BOOLEAN]

DownloadTypeOK ==
  /\ dItem \in [Downloads -> ItemType]
  /\ dTasks \in SUBSET Downloads
  /\ dSlots \in Nat
  /\ dFiles \in [DownloadPaths -> 0 .. MaxDownloads]
  /\ dInstalled \in [Downloads -> 0 .. MaxDownloads]
  /\ dClosing \in BOOLEAN
  /\ dSweep \in [stage : {"idle", "wait", "swept", "timeout"}, items : SUBSET Downloads]

\* Tasks are numbered in the order of their creation.
DownloadsInOrder ==
  /\ \E n \in 0 .. MaxDownloads : Created = 1 .. n
  /\ dTasks \subseteq Created

\* A task has a status as soon as it is past finish, and is in the map until then.
EndedAtFinish ==
  \A t \in Created :
    /\ dItem[t].status = "live" <=> dItem[t].pc \notin {"close", "done"}
    /\ dItem[t].status = "live" => t \in dTasks

\* An installing task has a file to itself, and how far it is says what is in it.
OwnFiles ==
  /\ \A t \in Downloads : dFiles[t] \in {0, t} /\ dInstalled[t] \in {0, t}
  /\ \A t \in Created :
       /\ IF dItem[t].install THEN dItem[t].path = t ELSE dItem[t].path \in UserPaths
       /\ dItem[t].pc = "process" => dItem[t].install /\ dFiles[t] = t
       /\ dItem[t].status = "success" => ~dItem[t].failed
       /\ dItem[t].install /\ dItem[t].pc \in {"finish", "close", "done"} => dFiles[t] = 0
       /\ dItem[t].install /\ dItem[t].pc \in {"cleanup", "finish", "close", "done"} /\ ~dItem[t].failed =>
            dInstalled[t] = t

Working == {t \in Created : dItem[t].pc # "done"}

SlotsAreTaken ==
  /\ Cardinality(Working) = dSlots
  /\ dSlots <= MaxConcurrentTasks
  /\ Cardinality(dTasks) <= MaxRetainedTasks + 1

\* The sweep waits for every task that had not ended, and none is created any more.
SweepSees ==
  /\ dSweep.stage # "idle" => dClosing /\ \A t \in Created : t \in dSweep.items \/ dItem[t].pc \in {"close", "done"}
  /\ dSweep.stage = "swept" => \A t \in dSweep.items : dItem[t].pc = "done"

DownloadInv ==
  /\ DownloadTypeOK /\ DownloadsInOrder /\ EndedAtFinish /\ OwnFiles /\ SlotsAreTaken /\ SweepSees

\* A set of natural numbers that is not empty has a least element.
LEMMA LeastNatural ==
  ASSUME NEW T, T \subseteq Nat, T # {}
  PROVE  \E x \in T : \A y \in T : x <= y
<1> DEFINE R == {ss \in Nat \X Nat : ss[1] < ss[2]}
<1>1. IsWellFoundedOn(R, Nat)
  BY NatLessThanWellFounded, Zenon DEF OpToRel
<1>2. \A x, y \in Nat : <<x, y>> \in R <=> x < y
  OBVIOUS
<1> HIDE DEF R
<1>3. PICK x \in T : \A y \in T : <<y, x>> \notin R
  BY <1>1, WFMin
<1>4. \A y \in T : ~ (y < x)
  BY <1>2, <1>3
<1> QED
  BY <1>4

LEMMA DownloadConstants ==
  /\ MaxDownloads \in Nat /\ MaxConcurrentTasks \in Nat /\ MaxRetainedTasks \in Nat
  /\ MaxConcurrentTasks <= MaxRetainedTasks
  /\ \A t \in Downloads : t \notin UserPaths /\ t \in DownloadPaths /\ t \in 0 .. MaxDownloads /\ t \in Nat /\ t # 0
  /\ UserPaths \subseteq DownloadPaths
  /\ 0 \in 0 .. MaxDownloads
BY DownloadAssumption DEF Downloads, DownloadPaths, InstallPath

LEMMA SetsOfDownloads ==
  ASSUME NEW S \in SUBSET Downloads
  PROVE  IsFiniteSet(S) /\ Cardinality(S) \in Nat /\ S \subseteq Nat
<1>1. IsFiniteSet(Downloads)
  BY DownloadConstants, FS_Interval DEF Downloads
<1> QED
  BY <1>1, DownloadConstants, FS_Subset, FS_CardinalityType

\* Pruning removes ended tasks only.
LEMMA PrunedTasks ==
  ASSUME NEW tasks, NEW item
  PROVE  /\ Prune(tasks, item) \subseteq tasks
         /\ \A t \in tasks : item[t].status = "live" => t \in Prune(tasks, item)
BY DEF Prune, Ended

\* Where fewer than the limit have not ended, pruning goes down to the limit.
LEMMA PruneIsEnough ==
  ASSUME NEW tasks \in SUBSET Downloads, NEW item,
         Cardinality({t \in tasks : item[t].status = "live"}) <= MaxRetainedTasks
  PROVE  Cardinality(Prune(tasks, item)) <= MaxRetainedTasks
<1> DEFINE E == {t \in tasks : item[t].status # "live"}
           L == {t \in tasks : item[t].status = "live"}
           Before2(t) == {u \in E : u < t}
           R == {t \in E : Cardinality(Before2(t)) + MaxRetainedTasks < Cardinality(tasks)}
<1>1. Prune(tasks, item) = tasks \ R
  BY DEF Prune, Ended
<1>2. /\ IsFiniteSet(tasks) /\ IsFiniteSet(E) /\ IsFiniteSet(L) /\ IsFiniteSet(R)
      /\ Cardinality(tasks) \in Nat /\ Cardinality(E) \in Nat /\ Cardinality(L) \in Nat /\ Cardinality(R) \in Nat
  <2>1. E \in SUBSET Downloads /\ L \in SUBSET Downloads /\ R \in SUBSET Downloads
    OBVIOUS
  <2> HIDE DEF E, L, R
  <2> QED
    BY <2>1, SetsOfDownloads
<1>3. Cardinality(tasks) = Cardinality(E) + Cardinality(L)
  <2>1. tasks \ L = E /\ tasks \cap L = L
    OBVIOUS
  <2>2. Cardinality(tasks \ L) = Cardinality(tasks) - Cardinality(tasks \cap L)
    BY <1>2, FS_Difference
  <2>3. Cardinality(E) = Cardinality(tasks) - Cardinality(L)
    BY <2>1, <2>2
  <2> HIDE DEF E, L
  <2> QED
    BY <1>2, <2>3
<1>4. Cardinality(tasks \ R) = Cardinality(tasks) - Cardinality(R)
  <2>1. tasks \cap R = R
    OBVIOUS
  <2> HIDE DEF R
  <2> QED
    BY <1>2, <2>1, FS_Difference
<1>5. Cardinality(L) <= MaxRetainedTasks
  OBVIOUS
<1>6. Cardinality(R) + MaxRetainedTasks >= Cardinality(tasks) \/ Cardinality(tasks) <= MaxRetainedTasks
  <2> SUFFICES ASSUME Cardinality(R) + MaxRetainedTasks < Cardinality(tasks), Cardinality(tasks) > MaxRetainedTasks
               PROVE FALSE
    BY <1>2, DownloadConstants
  <2>1. E \ R # {}
    <3> SUFFICES ASSUME E \subseteq R PROVE FALSE
      OBVIOUS
    <3>1. E = R
      OBVIOUS
    <3> HIDE DEF E, L, R
    <3> QED
      BY <1>2, <1>3, <1>5, <3>1, DownloadConstants
  <2>2. PICK m \in E \ R : \A y \in E \ R : m <= y
    <3>1. E \ R \subseteq Nat
      BY DownloadConstants
    <3> HIDE DEF E, R
    <3> QED
      BY <2>1, <3>1, LeastNatural
  <2>3. Before2(m) \subseteq R
    <3> SUFFICES ASSUME NEW u \in E, u < m, u \notin R PROVE FALSE
      OBVIOUS
    <3>1. u \in Nat /\ m \in Nat
      BY DownloadConstants
    <3> HIDE DEF E, R
    <3> QED
      BY <2>2, <3>1
  <2>4. Cardinality(Before2(m)) \in Nat /\ Cardinality(Before2(m)) <= Cardinality(R)
    <3>1. Before2(m) \in SUBSET R /\ Before2(m) \in SUBSET Downloads
      BY <2>3
    <3> HIDE DEF R, Before2
    <3> QED
      BY <1>2, <3>1, FS_Subset, SetsOfDownloads
  <2>5. m \in R
    <3>1. Cardinality(Before2(m)) + MaxRetainedTasks < Cardinality(tasks)
      <4> HIDE DEF R, Before2
      <4> QED
        BY <1>2, <2>4, DownloadConstants
    <3> QED
      BY <2>2, <3>1
  <2> QED
    BY <2>2, <2>5
<1>7. tasks \ R \subseteq tasks /\ Cardinality(tasks \ R) <= Cardinality(tasks)
  BY <1>2, <1>4
<1> HIDE DEF E, L, R
<1> QED
  BY <1>1, <1>2, <1>4, <1>6, <1>7, DownloadConstants

LEMMA DownloadInitInv == DownloadInit => DownloadInv
<1> SUFFICES ASSUME DownloadInit PROVE DownloadInv
  OBVIOUS
<1>1. \A t \in Downloads : NoItem \in ItemType
  <2> SUFFICES ASSUME NEW t \in Downloads PROVE NoItem \in ItemType
    OBVIOUS
  <2>1. 1 \in Downloads
    BY DownloadConstants DEF Downloads
  <2> QED
    BY <2>1, DownloadConstants DEF NoItem, ItemType, InstallPath
<1>2. DownloadTypeOK
  BY <1>1, DownloadConstants DEF DownloadInit, DownloadTypeOK
<1>3. Created = {} /\ Working = {} /\ 1 .. 0 = {}
  BY DEF DownloadInit, Created, NoItem, Working
<1>4. DownloadsInOrder
  BY <1>3, DownloadConstants DEF DownloadInit, DownloadsInOrder
<1>5. EndedAtFinish /\ OwnFiles /\ SweepSees
  BY <1>3, DownloadConstants DEF DownloadInit, EndedAtFinish, OwnFiles, SweepSees
<1>6. SlotsAreTaken
  BY <1>3, FS_EmptySet, DownloadConstants, DownloadAssumption DEF DownloadInit, SlotsAreTaken
<1> QED
  BY <1>2, <1>4, <1>5, <1>6 DEF DownloadInv

\* A step of a task's goroutine changes its item; its slot is at work until it is done.
LEMMA ItemMoves ==
  ASSUME DownloadInv, NEW t \in Downloads, NEW to \in ItemType, dItem[t].pc \notin {"none", "done"},
         to.pc # "none", dItem' = [dItem EXCEPT ![t] = to]
  PROVE  /\ t \in Created /\ Created' = Created
         /\ dItem' \in [Downloads -> ItemType] /\ dItem'[t] = to
         /\ \A u \in Downloads : u # t => dItem'[u] = dItem[u]
         /\ to.pc # "done" => Working' = Working
         /\ to.pc = "done" => Cardinality(Working') = Cardinality(Working) - 1 /\ Cardinality(Working) > 0
<1>1. /\ dItem' \in [Downloads -> ItemType] /\ dItem'[t] = to
      /\ \A u \in Downloads : u # t => dItem'[u] = dItem[u]
  BY DEF DownloadInv, DownloadTypeOK
<1>2. t \in Created /\ Created' = Created
  BY <1>1 DEF Created
<1>3. to.pc # "done" => Working' = Working
  BY <1>1, <1>2 DEF Working
<1>4. ASSUME to.pc = "done"
      PROVE  Cardinality(Working') = Cardinality(Working) - 1 /\ Cardinality(Working) > 0
  <2>1. t \in Working /\ Working' = Working \ {t}
    BY <1>1, <1>2, <1>4 DEF Working
  <2>2. IsFiniteSet(Working) /\ Cardinality(Working) \in Nat
    <3>1. Working \in SUBSET Downloads
      BY DEF Working, Created
    <3> QED
      BY <3>1, SetsOfDownloads
  <2>3. Cardinality(Working) # 0
    BY <2>1, <2>2, FS_EmptySet
  <2>4. Cardinality(Working \ {t}) = Cardinality(Working) - 1
    BY <2>1, <2>2, FS_RemoveElement
  <2> QED
    BY <2>1, <2>2, <2>3, <2>4
<1> QED
  BY <1>1, <1>2, <1>3, <1>4

\* What is in the map is no more than before, when ended tasks only are taken out.
LEMMA FewerTasks ==
  ASSUME NEW before \in SUBSET Downloads, NEW after \in SUBSET before,
         Cardinality(before) <= MaxRetainedTasks + 1
  PROVE  Cardinality(after) <= MaxRetainedTasks + 1
<1>1. IsFiniteSet(before) /\ Cardinality(before) \in Nat /\ Cardinality(after) \in Nat
  BY SetsOfDownloads
<1>2. Cardinality(after) <= Cardinality(before)
  BY <1>1, FS_Subset
<1> QED
  BY <1>1, <1>2, DownloadConstants

LEMMA TransferFailsKeeps ==
  ASSUME DownloadInv, NEW t \in Downloads, TransferFails(t)
  PROVE  DownloadInv'
<1> DEFINE to == [dItem[t] EXCEPT !.pc = "cleanup", !.failed = TRUE]
<1>1. /\ dItem[t].pc = "transfer"
      /\ dItem[t] \in ItemType
      /\ dItem' = [dItem EXCEPT ![t] = to]
  BY DEF TransferFails, Move, DownloadInv, DownloadTypeOK
<1>2. /\ to \in ItemType
      /\ to.path = dItem[t].path /\ to.install = dItem[t].install /\ dItem[t].path \in DownloadPaths
      /\ to.pc = "cleanup" /\ to.failed /\ to.status = dItem[t].status
  BY <1>1 DEF ItemType
<1>3. UNCHANGED <<dTasks, dSlots, dFiles, dInstalled, dClosing, dSweep>>
  BY DEF TransferFails
<1> HIDE DEF to
<1>4. /\ t \in Created /\ Created' = Created
      /\ dItem' \in [Downloads -> ItemType] /\ dItem'[t] = to
      /\ \A u \in Downloads : u # t => dItem'[u] = dItem[u]
      /\ to.pc # "done" => Working' = Working
      /\ to.pc = "done" => Cardinality(Working') = Cardinality(Working) - 1 /\ Cardinality(Working) > 0
  BY <1>1, <1>2, ItemMoves
<1>5. DownloadTypeOK'
  BY <1>2, <1>3, <1>4, DownloadConstants DEF DownloadInv, DownloadTypeOK, SlotsAreTaken
<1>6. DownloadsInOrder'
  BY <1>3, <1>4 DEF DownloadInv, DownloadsInOrder
<1>7. EndedAtFinish'
  BY <1>1, <1>2, <1>3, <1>4 DEF DownloadInv, EndedAtFinish
<1>8. OwnFiles'
  <2>1. \A u \in Downloads : dFiles'[u] \in {0, u} /\ dInstalled'[u] \in {0, u}
    BY <1>1, <1>2, <1>3, <1>4, DownloadConstants DEF DownloadInv, OwnFiles
  <2> SUFFICES ASSUME NEW u \in Created
               PROVE  /\ IF dItem'[u].install THEN dItem'[u].path = u ELSE dItem'[u].path \in UserPaths
                      /\ dItem'[u].pc = "process" => dItem'[u].install /\ dFiles'[u] = u
                      /\ dItem'[u].status = "success" => ~dItem'[u].failed
                      /\ dItem'[u].install /\ dItem'[u].pc \in {"finish", "close", "done"} => dFiles'[u] = 0
                      /\ dItem'[u].install /\ dItem'[u].pc \in {"cleanup", "finish", "close", "done"} /\ ~dItem'[u].failed =>
                           dInstalled'[u] = u
    BY <1>4, <2>1 DEF OwnFiles
  <2>2. CASE u = t
    BY <1>1, <1>2, <1>3, <1>4, <2>2, DownloadConstants DEF DownloadInv, DownloadTypeOK, OwnFiles,
       EndedAtFinish
  <2>3. CASE u # t
    <3>1. dItem'[u] = dItem[u] /\ u \in Downloads
      BY <1>4, <2>3 DEF Created
    <3>2. dInstalled'[u] = dInstalled[u]
      BY <1>3, <2>3, <3>1 DEF DownloadInv, DownloadTypeOK
    <3>3. dItem[u].install => dFiles'[u] = dFiles[u]
      BY <1>1, <1>2, <1>3, <1>4, <2>3, <3>1, DownloadConstants DEF DownloadInv, DownloadTypeOK, OwnFiles
    <3> QED
      BY <3>1, <3>2, <3>3 DEF DownloadInv, OwnFiles
  <2> QED
    BY <2>2, <2>3
<1>9. SlotsAreTaken'
  <2>1. Cardinality(dTasks') <= MaxRetainedTasks + 1
    BY <1>3, FewerTasks DEF DownloadInv, DownloadTypeOK, SlotsAreTaken
  <2> QED
    BY <1>2, <1>3, <1>4, <2>1, DownloadConstants DEF DownloadInv, DownloadTypeOK, SlotsAreTaken
<1>10. SweepSees'
  BY <1>1, <1>2, <1>3, <1>4 DEF DownloadInv, SweepSees
<1> QED
  BY <1>5, <1>6, <1>7, <1>8, <1>9, <1>10 DEF DownloadInv

LEMMA CancelTaskKeeps ==
  ASSUME DownloadInv, NEW t \in Downloads, CancelTask(t)
  PROVE  DownloadInv'
<1> DEFINE to == [dItem[t] EXCEPT !.pc = "cleanup", !.failed = TRUE]
<1>1. /\ dItem[t].pc \in {"transfer", "process"}
      /\ dItem[t] \in ItemType
      /\ dItem' = [dItem EXCEPT ![t] = to]
  BY DEF CancelTask, Move, DownloadInv, DownloadTypeOK
<1>2. /\ to \in ItemType
      /\ to.path = dItem[t].path /\ to.install = dItem[t].install /\ dItem[t].path \in DownloadPaths
      /\ to.pc = "cleanup" /\ to.failed /\ to.status = dItem[t].status
  BY <1>1 DEF ItemType
<1>3. UNCHANGED <<dTasks, dSlots, dFiles, dInstalled, dClosing, dSweep>>
  BY DEF CancelTask
<1> HIDE DEF to
<1>4. /\ t \in Created /\ Created' = Created
      /\ dItem' \in [Downloads -> ItemType] /\ dItem'[t] = to
      /\ \A u \in Downloads : u # t => dItem'[u] = dItem[u]
      /\ to.pc # "done" => Working' = Working
      /\ to.pc = "done" => Cardinality(Working') = Cardinality(Working) - 1 /\ Cardinality(Working) > 0
  BY <1>1, <1>2, ItemMoves
<1>5. DownloadTypeOK'
  BY <1>2, <1>3, <1>4, DownloadConstants DEF DownloadInv, DownloadTypeOK, SlotsAreTaken
<1>6. DownloadsInOrder'
  BY <1>3, <1>4 DEF DownloadInv, DownloadsInOrder
<1>7. EndedAtFinish'
  BY <1>1, <1>2, <1>3, <1>4 DEF DownloadInv, EndedAtFinish
<1>8. OwnFiles'
  <2>1. \A u \in Downloads : dFiles'[u] \in {0, u} /\ dInstalled'[u] \in {0, u}
    BY <1>1, <1>2, <1>3, <1>4, DownloadConstants DEF DownloadInv, OwnFiles
  <2> SUFFICES ASSUME NEW u \in Created
               PROVE  /\ IF dItem'[u].install THEN dItem'[u].path = u ELSE dItem'[u].path \in UserPaths
                      /\ dItem'[u].pc = "process" => dItem'[u].install /\ dFiles'[u] = u
                      /\ dItem'[u].status = "success" => ~dItem'[u].failed
                      /\ dItem'[u].install /\ dItem'[u].pc \in {"finish", "close", "done"} => dFiles'[u] = 0
                      /\ dItem'[u].install /\ dItem'[u].pc \in {"cleanup", "finish", "close", "done"} /\ ~dItem'[u].failed =>
                           dInstalled'[u] = u
    BY <1>4, <2>1 DEF OwnFiles
  <2>2. CASE u = t
    BY <1>1, <1>2, <1>3, <1>4, <2>2, DownloadConstants DEF DownloadInv, DownloadTypeOK, OwnFiles,
       EndedAtFinish
  <2>3. CASE u # t
    <3>1. dItem'[u] = dItem[u] /\ u \in Downloads
      BY <1>4, <2>3 DEF Created
    <3>2. dInstalled'[u] = dInstalled[u]
      BY <1>3, <2>3, <3>1 DEF DownloadInv, DownloadTypeOK
    <3>3. dItem[u].install => dFiles'[u] = dFiles[u]
      BY <1>1, <1>2, <1>3, <1>4, <2>3, <3>1, DownloadConstants DEF DownloadInv, DownloadTypeOK, OwnFiles
    <3> QED
      BY <3>1, <3>2, <3>3 DEF DownloadInv, OwnFiles
  <2> QED
    BY <2>2, <2>3
<1>9. SlotsAreTaken'
  <2>1. Cardinality(dTasks') <= MaxRetainedTasks + 1
    BY <1>3, FewerTasks DEF DownloadInv, DownloadTypeOK, SlotsAreTaken
  <2> QED
    BY <1>2, <1>3, <1>4, <2>1, DownloadConstants DEF DownloadInv, DownloadTypeOK, SlotsAreTaken
<1>10. SweepSees'
  BY <1>1, <1>2, <1>3, <1>4 DEF DownloadInv, SweepSees
<1> QED
  BY <1>5, <1>6, <1>7, <1>8, <1>9, <1>10 DEF DownloadInv

LEMMA TransferDoneKeeps ==
  ASSUME DownloadInv, NEW t \in Downloads, TransferDone(t)
  PROVE  DownloadInv'
<1> DEFINE to == [dItem[t] EXCEPT !.pc = IF dItem[t].install THEN "process" ELSE "cleanup"]
<1>1. /\ dItem[t].pc = "transfer"
      /\ dItem[t] \in ItemType
      /\ dItem' = [dItem EXCEPT ![t] = to]
  BY DEF TransferDone, Move, DownloadInv, DownloadTypeOK
<1>2. /\ to \in ItemType
      /\ to.path = dItem[t].path /\ to.install = dItem[t].install /\ dItem[t].path \in DownloadPaths
      /\ to.pc = (IF dItem[t].install THEN "process" ELSE "cleanup")
      /\ to.failed = dItem[t].failed /\ to.status = dItem[t].status
  BY <1>1 DEF ItemType
<1>3. /\ dFiles' = [dFiles EXCEPT ![dItem[t].path] = t]
      /\ UNCHANGED <<dTasks, dSlots, dInstalled, dClosing, dSweep>>
  BY DEF TransferDone
<1> HIDE DEF to
<1>4. /\ t \in Created /\ Created' = Created
      /\ dItem' \in [Downloads -> ItemType] /\ dItem'[t] = to
      /\ \A u \in Downloads : u # t => dItem'[u] = dItem[u]
      /\ to.pc # "done" => Working' = Working
      /\ to.pc = "done" => Cardinality(Working') = Cardinality(Working) - 1 /\ Cardinality(Working) > 0
  BY <1>1, <1>2, ItemMoves
<1>5. DownloadTypeOK'
  BY <1>2, <1>3, <1>4, DownloadConstants DEF DownloadInv, DownloadTypeOK, SlotsAreTaken
<1>6. DownloadsInOrder'
  BY <1>3, <1>4 DEF DownloadInv, DownloadsInOrder
<1>7. EndedAtFinish'
  BY <1>1, <1>2, <1>3, <1>4 DEF DownloadInv, EndedAtFinish
<1>8. OwnFiles'
  <2>1. \A u \in Downloads : dFiles'[u] \in {0, u} /\ dInstalled'[u] \in {0, u}
    BY <1>1, <1>2, <1>3, <1>4, DownloadConstants DEF DownloadInv, OwnFiles
  <2> SUFFICES ASSUME NEW u \in Created
               PROVE  /\ IF dItem'[u].install THEN dItem'[u].path = u ELSE dItem'[u].path \in UserPaths
                      /\ dItem'[u].pc = "process" => dItem'[u].install /\ dFiles'[u] = u
                      /\ dItem'[u].status = "success" => ~dItem'[u].failed
                      /\ dItem'[u].install /\ dItem'[u].pc \in {"finish", "close", "done"} => dFiles'[u] = 0
                      /\ dItem'[u].install /\ dItem'[u].pc \in {"cleanup", "finish", "close", "done"} /\ ~dItem'[u].failed =>
                           dInstalled'[u] = u
    BY <1>4, <2>1 DEF OwnFiles
  <2>2. CASE u = t
    BY <1>1, <1>2, <1>3, <1>4, <2>2, DownloadConstants DEF DownloadInv, DownloadTypeOK, OwnFiles,
       EndedAtFinish
  <2>3. CASE u # t
    <3>1. dItem'[u] = dItem[u] /\ u \in Downloads
      BY <1>4, <2>3 DEF Created
    <3>2. dInstalled'[u] = dInstalled[u]
      BY <1>3, <2>3, <3>1 DEF DownloadInv, DownloadTypeOK
    <3>3. dItem[u].install => dFiles'[u] = dFiles[u]
      BY <1>1, <1>2, <1>3, <1>4, <2>3, <3>1, DownloadConstants DEF DownloadInv, DownloadTypeOK, OwnFiles
    <3> QED
      BY <3>1, <3>2, <3>3 DEF DownloadInv, OwnFiles
  <2> QED
    BY <2>2, <2>3
<1>9. SlotsAreTaken'
  <2>1. Cardinality(dTasks') <= MaxRetainedTasks + 1
    BY <1>3, FewerTasks DEF DownloadInv, DownloadTypeOK, SlotsAreTaken
  <2> QED
    BY <1>2, <1>3, <1>4, <2>1, DownloadConstants DEF DownloadInv, DownloadTypeOK, SlotsAreTaken
<1>10. SweepSees'
  BY <1>1, <1>2, <1>3, <1>4 DEF DownloadInv, SweepSees
<1> QED
  BY <1>5, <1>6, <1>7, <1>8, <1>9, <1>10 DEF DownloadInv

LEMMA ProcessChoiceKeeps ==
  ASSUME DownloadInv, NEW t \in Downloads, Process(t), NEW failed \in BOOLEAN,
         Move(t, "process", [dItem[t] EXCEPT !.pc = "cleanup", !.failed = failed])
  PROVE  DownloadInv'
<1> DEFINE to == [dItem[t] EXCEPT !.pc = "cleanup", !.failed = failed]
<1>1. /\ dItem[t].pc = "process"
      /\ dItem[t] \in ItemType
      /\ dItem' = [dItem EXCEPT ![t] = to]
  BY DEF Process, Move, DownloadInv, DownloadTypeOK
<1>2. /\ to \in ItemType
      /\ to.path = dItem[t].path /\ to.install = dItem[t].install /\ dItem[t].path \in DownloadPaths
      /\ to.pc = "cleanup" /\ to.failed = failed /\ to.status = dItem[t].status
  BY <1>1 DEF ItemType
<1>3. /\ dInstalled' = [dInstalled EXCEPT ![t] = dFiles[dItem[t].path]]
      /\ UNCHANGED <<dTasks, dSlots, dFiles, dClosing, dSweep>>
  BY DEF Process
<1> HIDE DEF to
<1>4. /\ t \in Created /\ Created' = Created
      /\ dItem' \in [Downloads -> ItemType] /\ dItem'[t] = to
      /\ \A u \in Downloads : u # t => dItem'[u] = dItem[u]
      /\ to.pc # "done" => Working' = Working
      /\ to.pc = "done" => Cardinality(Working') = Cardinality(Working) - 1 /\ Cardinality(Working) > 0
  BY <1>1, <1>2, ItemMoves
<1>5. DownloadTypeOK'
  BY <1>2, <1>3, <1>4, DownloadConstants DEF DownloadInv, DownloadTypeOK, SlotsAreTaken
<1>6. DownloadsInOrder'
  BY <1>3, <1>4 DEF DownloadInv, DownloadsInOrder
<1>7. EndedAtFinish'
  BY <1>1, <1>2, <1>3, <1>4 DEF DownloadInv, EndedAtFinish
<1>8. OwnFiles'
  <2>1. \A u \in Downloads : dFiles'[u] \in {0, u} /\ dInstalled'[u] \in {0, u}
    BY <1>1, <1>2, <1>3, <1>4, DownloadConstants DEF DownloadInv, OwnFiles
  <2> SUFFICES ASSUME NEW u \in Created
               PROVE  /\ IF dItem'[u].install THEN dItem'[u].path = u ELSE dItem'[u].path \in UserPaths
                      /\ dItem'[u].pc = "process" => dItem'[u].install /\ dFiles'[u] = u
                      /\ dItem'[u].status = "success" => ~dItem'[u].failed
                      /\ dItem'[u].install /\ dItem'[u].pc \in {"finish", "close", "done"} => dFiles'[u] = 0
                      /\ dItem'[u].install /\ dItem'[u].pc \in {"cleanup", "finish", "close", "done"} /\ ~dItem'[u].failed =>
                           dInstalled'[u] = u
    BY <1>4, <2>1 DEF OwnFiles
  <2>2. CASE u = t
    BY <1>1, <1>2, <1>3, <1>4, <2>2, DownloadConstants DEF DownloadInv, DownloadTypeOK, OwnFiles,
       EndedAtFinish
  <2>3. CASE u # t
    <3>1. dItem'[u] = dItem[u] /\ u \in Downloads
      BY <1>4, <2>3 DEF Created
    <3>2. dInstalled'[u] = dInstalled[u]
      BY <1>3, <2>3, <3>1 DEF DownloadInv, DownloadTypeOK
    <3>3. dItem[u].install => dFiles'[u] = dFiles[u]
      BY <1>1, <1>2, <1>3, <1>4, <2>3, <3>1, DownloadConstants DEF DownloadInv, DownloadTypeOK, OwnFiles
    <3> QED
      BY <3>1, <3>2, <3>3 DEF DownloadInv, OwnFiles
  <2> QED
    BY <2>2, <2>3
<1>9. SlotsAreTaken'
  <2>1. Cardinality(dTasks') <= MaxRetainedTasks + 1
    BY <1>3, FewerTasks DEF DownloadInv, DownloadTypeOK, SlotsAreTaken
  <2> QED
    BY <1>2, <1>3, <1>4, <2>1, DownloadConstants DEF DownloadInv, DownloadTypeOK, SlotsAreTaken
<1>10. SweepSees'
  BY <1>1, <1>2, <1>3, <1>4 DEF DownloadInv, SweepSees
<1> QED
  BY <1>5, <1>6, <1>7, <1>8, <1>9, <1>10 DEF DownloadInv

LEMMA CleanupKeeps ==
  ASSUME DownloadInv, NEW t \in Downloads, Cleanup(t)
  PROVE  DownloadInv'
<1> DEFINE to == [dItem[t] EXCEPT !.pc = "finish"]
<1>1. /\ dItem[t].pc = "cleanup"
      /\ dItem[t] \in ItemType
      /\ dItem' = [dItem EXCEPT ![t] = to]
  BY DEF Cleanup, Move, DownloadInv, DownloadTypeOK
<1>2. /\ to \in ItemType
      /\ to.path = dItem[t].path /\ to.install = dItem[t].install /\ dItem[t].path \in DownloadPaths
      /\ to.pc = "finish" /\ to.failed = dItem[t].failed /\ to.status = dItem[t].status
  BY <1>1 DEF ItemType
<1>3. /\ dFiles' = IF dItem[t].install THEN [dFiles EXCEPT ![dItem[t].path] = 0] ELSE dFiles
      /\ UNCHANGED <<dTasks, dSlots, dInstalled, dClosing, dSweep>>
  BY DEF Cleanup
<1> HIDE DEF to
<1>4. /\ t \in Created /\ Created' = Created
      /\ dItem' \in [Downloads -> ItemType] /\ dItem'[t] = to
      /\ \A u \in Downloads : u # t => dItem'[u] = dItem[u]
      /\ to.pc # "done" => Working' = Working
      /\ to.pc = "done" => Cardinality(Working') = Cardinality(Working) - 1 /\ Cardinality(Working) > 0
  BY <1>1, <1>2, ItemMoves
<1>5. DownloadTypeOK'
  BY <1>2, <1>3, <1>4, DownloadConstants DEF DownloadInv, DownloadTypeOK, SlotsAreTaken
<1>6. DownloadsInOrder'
  BY <1>3, <1>4 DEF DownloadInv, DownloadsInOrder
<1>7. EndedAtFinish'
  BY <1>1, <1>2, <1>3, <1>4 DEF DownloadInv, EndedAtFinish
<1>8. OwnFiles'
  <2>1. \A u \in Downloads : dFiles'[u] \in {0, u} /\ dInstalled'[u] \in {0, u}
    BY <1>1, <1>2, <1>3, <1>4, DownloadConstants DEF DownloadInv, OwnFiles
  <2> SUFFICES ASSUME NEW u \in Created
               PROVE  /\ IF dItem'[u].install THEN dItem'[u].path = u ELSE dItem'[u].path \in UserPaths
                      /\ dItem'[u].pc = "process" => dItem'[u].install /\ dFiles'[u] = u
                      /\ dItem'[u].status = "success" => ~dItem'[u].failed
                      /\ dItem'[u].install /\ dItem'[u].pc \in {"finish", "close", "done"} => dFiles'[u] = 0
                      /\ dItem'[u].install /\ dItem'[u].pc \in {"cleanup", "finish", "close", "done"} /\ ~dItem'[u].failed =>
                           dInstalled'[u] = u
    BY <1>4, <2>1 DEF OwnFiles
  <2>2. CASE u = t
    BY <1>1, <1>2, <1>3, <1>4, <2>2, DownloadConstants DEF DownloadInv, DownloadTypeOK, OwnFiles,
       EndedAtFinish
  <2>3. CASE u # t
    <3>1. dItem'[u] = dItem[u] /\ u \in Downloads
      BY <1>4, <2>3 DEF Created
    <3>2. dInstalled'[u] = dInstalled[u]
      BY <1>3, <2>3, <3>1 DEF DownloadInv, DownloadTypeOK
    <3>3. dItem[u].install => dFiles'[u] = dFiles[u]
      BY <1>1, <1>2, <1>3, <1>4, <2>3, <3>1, DownloadConstants DEF DownloadInv, DownloadTypeOK, OwnFiles
    <3> QED
      BY <3>1, <3>2, <3>3 DEF DownloadInv, OwnFiles
  <2> QED
    BY <2>2, <2>3
<1>9. SlotsAreTaken'
  <2>1. Cardinality(dTasks') <= MaxRetainedTasks + 1
    BY <1>3, FewerTasks DEF DownloadInv, DownloadTypeOK, SlotsAreTaken
  <2> QED
    BY <1>2, <1>3, <1>4, <2>1, DownloadConstants DEF DownloadInv, DownloadTypeOK, SlotsAreTaken
<1>10. SweepSees'
  BY <1>1, <1>2, <1>3, <1>4 DEF DownloadInv, SweepSees
<1> QED
  BY <1>5, <1>6, <1>7, <1>8, <1>9, <1>10 DEF DownloadInv

LEMMA FinishTaskKeeps ==
  ASSUME DownloadInv, NEW t \in Downloads, FinishTask(t)
  PROVE  DownloadInv'
<1> DEFINE to == [dItem[t] EXCEPT !.pc = "close", !.status = IF t \in dTasks THEN (IF dItem[t].failed THEN "failure" ELSE "success") ELSE @]
<1>1. /\ dItem[t].pc = "finish"
      /\ dItem[t] \in ItemType
      /\ dItem' = [dItem EXCEPT ![t] = to]
  BY DEF FinishTask, Move, DownloadInv, DownloadTypeOK
<1>2. /\ to \in ItemType
      /\ to.path = dItem[t].path /\ to.install = dItem[t].install /\ dItem[t].path \in DownloadPaths
      /\ to.pc = "close" /\ to.failed = dItem[t].failed
      /\ to.status = IF dItem[t].failed THEN "failure" ELSE "success"
  <2>1. t \in dTasks
    BY <1>1 DEF DownloadInv, EndedAtFinish, Created
  <2> QED
    BY <1>1, <2>1 DEF ItemType
<1>3. /\ dTasks' \subseteq dTasks
      /\ \A u \in dTasks : dItem'[u].status = "live" => u \in dTasks'
      /\ UNCHANGED <<dSlots, dFiles, dInstalled, dClosing, dSweep>>
  <2>1. dTasks' = Prune(dTasks, dItem')
    BY <1>1 DEF FinishTask
  <2> QED
    BY <2>1, PrunedTasks DEF FinishTask
<1> HIDE DEF to
<1>4. /\ t \in Created /\ Created' = Created
      /\ dItem' \in [Downloads -> ItemType] /\ dItem'[t] = to
      /\ \A u \in Downloads : u # t => dItem'[u] = dItem[u]
      /\ to.pc # "done" => Working' = Working
      /\ to.pc = "done" => Cardinality(Working') = Cardinality(Working) - 1 /\ Cardinality(Working) > 0
  BY <1>1, <1>2, ItemMoves
<1>5. DownloadTypeOK'
  BY <1>2, <1>3, <1>4, DownloadConstants DEF DownloadInv, DownloadTypeOK, SlotsAreTaken
<1>6. DownloadsInOrder'
  BY <1>3, <1>4 DEF DownloadInv, DownloadsInOrder
<1>7. EndedAtFinish'
  BY <1>1, <1>2, <1>3, <1>4 DEF DownloadInv, EndedAtFinish
<1>8. OwnFiles'
  <2>1. \A u \in Downloads : dFiles'[u] \in {0, u} /\ dInstalled'[u] \in {0, u}
    BY <1>1, <1>2, <1>3, <1>4, DownloadConstants DEF DownloadInv, OwnFiles
  <2> SUFFICES ASSUME NEW u \in Created
               PROVE  /\ IF dItem'[u].install THEN dItem'[u].path = u ELSE dItem'[u].path \in UserPaths
                      /\ dItem'[u].pc = "process" => dItem'[u].install /\ dFiles'[u] = u
                      /\ dItem'[u].status = "success" => ~dItem'[u].failed
                      /\ dItem'[u].install /\ dItem'[u].pc \in {"finish", "close", "done"} => dFiles'[u] = 0
                      /\ dItem'[u].install /\ dItem'[u].pc \in {"cleanup", "finish", "close", "done"} /\ ~dItem'[u].failed =>
                           dInstalled'[u] = u
    BY <1>4, <2>1 DEF OwnFiles
  <2>2. CASE u = t
    BY <1>1, <1>2, <1>3, <1>4, <2>2, DownloadConstants DEF DownloadInv, DownloadTypeOK, OwnFiles,
       EndedAtFinish
  <2>3. CASE u # t
    <3>1. dItem'[u] = dItem[u] /\ u \in Downloads
      BY <1>4, <2>3 DEF Created
    <3>2. dInstalled'[u] = dInstalled[u]
      BY <1>3, <2>3, <3>1 DEF DownloadInv, DownloadTypeOK
    <3>3. dItem[u].install => dFiles'[u] = dFiles[u]
      BY <1>1, <1>2, <1>3, <1>4, <2>3, <3>1, DownloadConstants DEF DownloadInv, DownloadTypeOK, OwnFiles
    <3> QED
      BY <3>1, <3>2, <3>3 DEF DownloadInv, OwnFiles
  <2> QED
    BY <2>2, <2>3
<1>9. SlotsAreTaken'
  <2>1. Cardinality(dTasks') <= MaxRetainedTasks + 1
    BY <1>3, FewerTasks DEF DownloadInv, DownloadTypeOK, SlotsAreTaken
  <2> QED
    BY <1>2, <1>3, <1>4, <2>1, DownloadConstants DEF DownloadInv, DownloadTypeOK, SlotsAreTaken
<1>10. SweepSees'
  BY <1>1, <1>2, <1>3, <1>4 DEF DownloadInv, SweepSees
<1> QED
  BY <1>5, <1>6, <1>7, <1>8, <1>9, <1>10 DEF DownloadInv

LEMMA EndTaskKeeps ==
  ASSUME DownloadInv, NEW t \in Downloads, EndTask(t)
  PROVE  DownloadInv'
<1> DEFINE to == [dItem[t] EXCEPT !.pc = "done"]
<1>1. /\ dItem[t].pc = "close"
      /\ dItem[t] \in ItemType
      /\ dItem' = [dItem EXCEPT ![t] = to]
  BY DEF EndTask, Move, DownloadInv, DownloadTypeOK
<1>2. /\ to \in ItemType
      /\ to.path = dItem[t].path /\ to.install = dItem[t].install /\ dItem[t].path \in DownloadPaths
      /\ to.pc = "done" /\ to.failed = dItem[t].failed /\ to.status = dItem[t].status
  BY <1>1 DEF ItemType
<1>3. /\ dSlots' = dSlots - 1
      /\ UNCHANGED <<dTasks, dFiles, dInstalled, dClosing, dSweep>>
  BY DEF EndTask
<1> HIDE DEF to
<1>4. /\ t \in Created /\ Created' = Created
      /\ dItem' \in [Downloads -> ItemType] /\ dItem'[t] = to
      /\ \A u \in Downloads : u # t => dItem'[u] = dItem[u]
      /\ to.pc # "done" => Working' = Working
      /\ to.pc = "done" => Cardinality(Working') = Cardinality(Working) - 1 /\ Cardinality(Working) > 0
  BY <1>1, <1>2, ItemMoves
<1>5. DownloadTypeOK'
  BY <1>2, <1>3, <1>4, DownloadConstants DEF DownloadInv, DownloadTypeOK, SlotsAreTaken
<1>6. DownloadsInOrder'
  BY <1>3, <1>4 DEF DownloadInv, DownloadsInOrder
<1>7. EndedAtFinish'
  BY <1>1, <1>2, <1>3, <1>4 DEF DownloadInv, EndedAtFinish
<1>8. OwnFiles'
  <2>1. \A u \in Downloads : dFiles'[u] \in {0, u} /\ dInstalled'[u] \in {0, u}
    BY <1>1, <1>2, <1>3, <1>4, DownloadConstants DEF DownloadInv, OwnFiles
  <2> SUFFICES ASSUME NEW u \in Created
               PROVE  /\ IF dItem'[u].install THEN dItem'[u].path = u ELSE dItem'[u].path \in UserPaths
                      /\ dItem'[u].pc = "process" => dItem'[u].install /\ dFiles'[u] = u
                      /\ dItem'[u].status = "success" => ~dItem'[u].failed
                      /\ dItem'[u].install /\ dItem'[u].pc \in {"finish", "close", "done"} => dFiles'[u] = 0
                      /\ dItem'[u].install /\ dItem'[u].pc \in {"cleanup", "finish", "close", "done"} /\ ~dItem'[u].failed =>
                           dInstalled'[u] = u
    BY <1>4, <2>1 DEF OwnFiles
  <2>2. CASE u = t
    BY <1>1, <1>2, <1>3, <1>4, <2>2, DownloadConstants DEF DownloadInv, DownloadTypeOK, OwnFiles,
       EndedAtFinish
  <2>3. CASE u # t
    <3>1. dItem'[u] = dItem[u] /\ u \in Downloads
      BY <1>4, <2>3 DEF Created
    <3>2. dInstalled'[u] = dInstalled[u]
      BY <1>3, <2>3, <3>1 DEF DownloadInv, DownloadTypeOK
    <3>3. dItem[u].install => dFiles'[u] = dFiles[u]
      BY <1>1, <1>2, <1>3, <1>4, <2>3, <3>1, DownloadConstants DEF DownloadInv, DownloadTypeOK, OwnFiles
    <3> QED
      BY <3>1, <3>2, <3>3 DEF DownloadInv, OwnFiles
  <2> QED
    BY <2>2, <2>3
<1>9. SlotsAreTaken'
  <2>1. Cardinality(dTasks') <= MaxRetainedTasks + 1
    BY <1>3, FewerTasks DEF DownloadInv, DownloadTypeOK, SlotsAreTaken
  <2> QED
    BY <1>2, <1>3, <1>4, <2>1, DownloadConstants DEF DownloadInv, DownloadTypeOK, SlotsAreTaken
<1>10. SweepSees'
  BY <1>1, <1>2, <1>3, <1>4 DEF DownloadInv, SweepSees
<1> QED
  BY <1>5, <1>6, <1>7, <1>8, <1>9, <1>10 DEF DownloadInv

LEMMA ProcessKeeps ==
  ASSUME DownloadInv, NEW t \in Downloads, Process(t)
  PROVE  DownloadInv'
BY ProcessChoiceKeeps DEF Process

\* A new task is the next number; it takes a slot, and the map is pruned for it first.
LEMMA StartTaskKeeps ==
  ASSUME DownloadInv, NEW install \in BOOLEAN, StartTask(install)
  PROVE  DownloadInv'
<1> DEFINE t == Cardinality(Created) + 1
<1>1. PICK n \in 0 .. MaxDownloads : Created = 1 .. n
  BY DEF DownloadInv, DownloadsInOrder
<1>2. t = n + 1 /\ t \in Downloads /\ t \notin Created
  <2>1. Cardinality(1 .. n) = n
    BY <1>1, DownloadConstants, FS_Interval
  <2> QED
    BY <1>1, <2>1, DownloadConstants DEF StartTask, Downloads
<1>3. PICK path \in IF install THEN {InstallPath(t)} ELSE UserPaths :
        dItem' = [dItem EXCEPT ![t] = [NoItem EXCEPT !.pc = "transfer", !.path = path, !.install = install]]
  BY DEF StartTask
<1>4. /\ ~dClosing /\ dSlots < MaxConcurrentTasks /\ dSlots' = dSlots + 1
      /\ dTasks' = Prune(dTasks, dItem) \cup {t}
      /\ UNCHANGED <<dFiles, dInstalled, dClosing, dSweep>>
  BY DEF StartTask
<1> HIDE DEF t
<1>5. path \in DownloadPaths /\ (IF install THEN path = t ELSE path \in UserPaths)
  BY <1>2, <1>3, DownloadConstants DEF InstallPath
<1> DEFINE to == [NoItem EXCEPT !.pc = "transfer", !.path = path, !.install = install]
<1>6. /\ to \in ItemType
      /\ to.pc = "transfer" /\ to.status = "live" /\ to.path = path /\ to.install = install /\ ~to.failed
  BY <1>5 DEF NoItem, ItemType
<1>7. /\ dItem' \in [Downloads -> ItemType] /\ dItem'[t] = to
      /\ \A u \in Downloads : u # t => dItem'[u] = dItem[u]
  BY <1>2, <1>3, <1>6 DEF DownloadInv, DownloadTypeOK
<1> HIDE DEF to
<1>8. /\ Created' = Created \cup {t} /\ Created \subseteq Downloads
      /\ Working' = Working \cup {t} /\ t \notin Working
  <2>1. Created' = Created \cup {t} /\ Created \subseteq Downloads
    BY <1>2, <1>6, <1>7 DEF Created
  <2> QED
    BY <1>2, <1>6, <1>7, <2>1 DEF Working
<1>9. Prune(dTasks, dItem) \subseteq dTasks /\ \A u \in dTasks : dItem[u].status = "live" => u \in Prune(dTasks, dItem)
  BY PrunedTasks
<1>10. DownloadTypeOK'
  <2>1. dTasks' \in SUBSET Downloads
    BY <1>2, <1>4, <1>9 DEF DownloadInv, DownloadTypeOK
  <2>2. dSlots' \in Nat
    BY <1>4 DEF DownloadInv, DownloadTypeOK
  <2> QED
    BY <1>4, <1>7, <2>1, <2>2 DEF DownloadInv, DownloadTypeOK
<1>11. DownloadsInOrder'
  <2>1. Created' = 1 .. n + 1 /\ n + 1 \in 0 .. MaxDownloads
    BY <1>1, <1>2, <1>8, DownloadConstants DEF Downloads
  <2> QED
    BY <1>4, <1>8, <1>9, <2>1 DEF DownloadInv, DownloadsInOrder
<1>12. EndedAtFinish'
  BY <1>2, <1>4, <1>6, <1>7, <1>8, <1>9 DEF DownloadInv, EndedAtFinish
<1>13. OwnFiles'
  BY <1>2, <1>4, <1>5, <1>6, <1>7, <1>8 DEF DownloadInv, OwnFiles
<1>14. SlotsAreTaken'
  <2>1. Working \in SUBSET Downloads /\ dTasks \in SUBSET Downloads /\ Prune(dTasks, dItem) \in SUBSET Downloads
    BY <1>8, <1>9 DEF Working, DownloadInv, DownloadTypeOK
  <2>2. /\ IsFiniteSet(Working) /\ Cardinality(Working) \in Nat
        /\ IsFiniteSet(Prune(dTasks, dItem)) /\ Cardinality(Prune(dTasks, dItem)) \in Nat
    BY <2>1, SetsOfDownloads
  <2>3. Cardinality(Working') = Cardinality(Working) + 1
    BY <1>8, <2>2, FS_AddElement
  <2>4. Cardinality({u \in dTasks : dItem[u].status = "live"}) <= MaxRetainedTasks
    <3> DEFINE live == {u \in dTasks : dItem[u].status = "live"}
    <3>1. live \in SUBSET Working /\ live \in SUBSET Downloads
      BY <2>1 DEF DownloadInv, DownloadsInOrder, EndedAtFinish, Working
    <3> HIDE DEF live
    <3>2. Cardinality(live) <= Cardinality(Working) /\ Cardinality(live) \in Nat
      BY <2>2, <3>1, FS_Subset, SetsOfDownloads
    <3>3. Cardinality(live) <= MaxRetainedTasks
      BY <1>4, <2>2, <3>2, DownloadConstants DEF DownloadInv, SlotsAreTaken
    <3> QED
      BY <3>3 DEF live
  <2>5. Cardinality(Prune(dTasks, dItem)) <= MaxRetainedTasks
    BY <2>1, <2>4, PruneIsEnough
  <2>6. Cardinality(dTasks') <= MaxRetainedTasks + 1
    <3>1. Cardinality(dTasks') \in {Cardinality(Prune(dTasks, dItem)), Cardinality(Prune(dTasks, dItem)) + 1}
      BY <1>4, <2>2, FS_AddElement
    <3> QED
      BY <2>2, <2>5, <3>1, DownloadConstants
  <2> QED
    BY <1>4, <2>2, <2>3, <2>6, DownloadConstants DEF DownloadInv, DownloadTypeOK, SlotsAreTaken
<1>15. SweepSees'
  BY <1>2, <1>4, <1>7, <1>8 DEF DownloadInv, SweepSees
<1> QED
  BY <1>10, <1>11, <1>12, <1>13, <1>14, <1>15 DEF DownloadInv

\* The shutdown and its sweep change no task.
LEMMA SweepKeeps ==
  ASSUME DownloadInv, BeginClosing \/ CancelAll \/ SweepDone \/ SweepTimesOut
  PROVE  DownloadInv'
<1>1. UNCHANGED <<dItem, dTasks, dSlots, dFiles, dInstalled>>
  BY DEF BeginClosing, CancelAll, SweepDone, SweepTimesOut
<1>2. Created' = Created /\ Working' = Working
  BY <1>1 DEF Created, Working
<1>3. DownloadTypeOK'
  <2>1. dClosing' \in BOOLEAN
    BY DEF BeginClosing, CancelAll, SweepDone, SweepTimesOut, DownloadInv, DownloadTypeOK
  <2>2. dSweep' \in [stage : {"idle", "wait", "swept", "timeout"}, items : SUBSET Downloads]
    BY DEF BeginClosing, CancelAll, SweepDone, SweepTimesOut, DownloadInv, DownloadTypeOK
  <2> QED
    BY <1>1, <2>1, <2>2 DEF DownloadInv, DownloadTypeOK
<1>4. DownloadsInOrder' /\ EndedAtFinish' /\ OwnFiles' /\ SlotsAreTaken'
  BY <1>1, <1>2 DEF DownloadInv, DownloadsInOrder, EndedAtFinish, OwnFiles, SlotsAreTaken
<1>5. SweepSees'
  <2>1. CASE BeginClosing
    BY <1>1, <1>2, <2>1 DEF BeginClosing, DownloadInv, SweepSees
  <2>2. CASE CancelAll
    BY <1>1, <1>2, <2>2 DEF CancelAll, DownloadInv, SweepSees, EndedAtFinish, Ended
  <2>3. CASE SweepDone
    BY <1>1, <1>2, <2>3 DEF SweepDone, DownloadInv, DownloadTypeOK, SweepSees
  <2>4. CASE SweepTimesOut
    BY <1>1, <1>2, <2>4 DEF SweepTimesOut, DownloadInv, DownloadTypeOK, SweepSees
  <2> QED
    BY <2>1, <2>2, <2>3, <2>4
<1> QED
  BY <1>3, <1>4, <1>5 DEF DownloadInv

LEMMA DownloadStepsKeep == DownloadInv /\ [DownloadNext]_downloadVars => DownloadInv'
<1> SUFFICES ASSUME DownloadInv, [DownloadNext]_downloadVars PROVE DownloadInv'
  OBVIOUS
<1>1. CASE UNCHANGED downloadVars
  <2>1. Created' = Created /\ Working' = Working
    BY <1>1 DEF downloadVars, Created, Working
  <2> QED
    BY <1>1, <2>1 DEF downloadVars, DownloadInv, DownloadTypeOK, DownloadsInOrder, EndedAtFinish,
       OwnFiles,
                      SlotsAreTaken, SweepSees
<1>2. CASE DownloadNext
  BY <1>2, StartTaskKeeps, TransferFailsKeeps, TransferDoneKeeps, ProcessKeeps, CleanupKeeps,
     FinishTaskKeeps,
     EndTaskKeeps, CancelTaskKeeps, SweepKeeps DEF DownloadNext, TaskStep
<1> QED
  BY <1>1, <1>2

LEMMA DownloadInvIsSafe == DownloadInv => DownloadsSafe
<1> SUFFICES ASSUME DownloadInv PROVE DownloadsSafe
  OBVIOUS
<1>1. DownloadsBounded
  BY DEF DownloadInv, SlotsAreTaken, Working, DownloadsBounded
<1>2. LiveTaskIsKnown
  BY DEF DownloadInv, EndedAtFinish, LiveTaskIsKnown, Ended
<1>3. InstallsOwnFile
  <2> SUFFICES ASSUME NEW t \in Created, dItem[t].install
               PROVE  /\ dInstalled[t] \in {0, t}
                      /\ dItem[t].status = "success" => dInstalled[t] = t
                      /\ dItem[t].pc \in {"finish", "close", "done"} => dFiles[dItem[t].path] = 0
    BY DEF InstallsOwnFile
  <2>1. t \in Downloads /\ dItem[t].path = t
    BY DEF DownloadInv, OwnFiles, Created
  <2>2. dItem[t].status = "success" => dItem[t].pc \in {"close", "done"} /\ ~dItem[t].failed
    BY DEF DownloadInv, OwnFiles, EndedAtFinish
  <2> QED
    BY <2>1, <2>2 DEF DownloadInv, OwnFiles
<1>4. SweptMeansQuiet
  BY DEF DownloadInv, SweepSees, SweptMeansQuiet
<1> QED
  BY <1>1, <1>2, <1>3, <1>4 DEF DownloadsSafe

\* The invariant of the download tasks holds always (tasks/manager.go: Start, run, finish, Cancel, CancelAll).
THEOREM DownloadsInvariant == DownloadSpec => []DownloadInv
BY DownloadInitInv, DownloadStepsKeep, PTL DEF DownloadSpec

------------------------------------------------------------------------------
(* Artifact sessions: the directories of the sessions, the names that are taken, and  *)
(* what pruning may remove.                                                           *)

SessionName == Int \X Nat
WriterPcs == {"idle", "fill", "unreserve", "rename", "prune", "pruned"}

\* The names that are in place, reserved or about to be.
TakenNames ==
  DOMAIN nSessions \cup nReserved \cup (IF nWriter.pc = "idle" THEN {} ELSE {nWriter.name})

DirectoriesTypeOK ==
  /\ nStaged \in BOOLEAN
  /\ nClock \in Int
  /\ nWriter \in [pc : WriterPcs, session : Nat, name : SessionName]
  /\ nCount \in [begun : 0 .. MaxBegun, deaths : Nat]
  /\ TakenNames \subseteq SessionName

\* Each session takes one name, so the next always finds one.
NamesAreFew == IsFiniteSet(TakenNames) /\ Cardinality(TakenNames) <= nCount.begun

\* The directory that a staged session has renamed is there and whole while it prunes, and few
\* enough are left when it has.
RenamedIsThere ==
  /\ nStaged /\ nWriter.pc = "prune" =>
       /\ nWriter.name \in DOMAIN nSessions
       /\ nSessions[nWriter.name] = [session |-> nWriter.session, whole |-> TRUE]
  /\ NewestIsKept
  /\ StagedIsWhole

DirectoriesInv == DirectoriesTypeOK /\ NamesAreFew /\ RenamedIsThere

\* The order of names is a strict total order.
LEMMA OlderIsTotal ==
  /\ \A a \in SessionName : ~Older(a, a)
  /\ \A a, b, c \in SessionName : Older(a, b) /\ Older(b, c) => Older(a, c)
  /\ \A a, b \in SessionName : a # b => Older(a, b) \/ Older(b, a)
<1>1. \A a \in SessionName : a[1] \in Int /\ a[2] \in Int /\ a = <<a[1], a[2]>>
  BY DEF SessionName
<1>2. \A a \in SessionName : ~Older(a, a)
  BY <1>1 DEF Older
<1>3. \A a, b, c \in SessionName : Older(a, b) /\ Older(b, c) => Older(a, c)
  BY <1>1 DEF Older
<1>4. \A a, b \in SessionName : a # b => Older(a, b) \/ Older(b, a)
  <2> SUFFICES ASSUME NEW a \in SessionName, NEW b \in SessionName, ~Older(a, b), ~Older(b, a) PROVE a = b
    OBVIOUS
  <2>1. a[1] = b[1] /\ a[2] = b[2]
    BY <1>1 DEF Older
  <2> QED
    BY <1>1, <2>1
<1> QED
  BY <1>2, <1>3, <1>4

\* A finite set of names that is not empty has an oldest one.
LEMMA OldestName ==
  ASSUME NEW K \in SUBSET SessionName, IsFiniteSet(K), K # {}
  PROVE  \E x \in K : \A y \in K : y # x => Older(x, y)
<1> DEFINE Below(x) == {y \in K : Older(y, x)}
           ranks == {Cardinality(Below(x)) : x \in K}
<1>1. \A x \in K : IsFiniteSet(Below(x)) /\ Cardinality(Below(x)) \in Nat
  <2> SUFFICES ASSUME NEW x \in K PROVE IsFiniteSet(Below(x)) /\ Cardinality(Below(x)) \in Nat
    OBVIOUS
  <2>1. Below(x) \in SUBSET K
    OBVIOUS
  <2> HIDE DEF Below
  <2> QED
    BY <2>1, FS_Subset, FS_CardinalityType
<1>2. PICK r \in ranks : \A s \in ranks : r <= s
  <2>1. ranks \subseteq Nat /\ ranks # {}
    BY <1>1
  <2> HIDE DEF ranks
  <2> QED
    BY <2>1, LeastNatural
<1>3. PICK x \in K : r = Cardinality(Below(x))
  BY <1>2
<1>4. ASSUME NEW y \in K, Older(y, x) PROVE FALSE
  <2>1. Below(y) \in SUBSET Below(x) /\ y \in Below(x) /\ y \notin Below(y)
    BY <1>4, OlderIsTotal
  <2>2. Cardinality(Below(x)) <= Cardinality(Below(y))
    BY <1>2, <1>3
  <2> HIDE DEF Below
  <2>3. Cardinality(Below(y)) <= Cardinality(Below(x)) /\ (Cardinality(Below(x)) = Cardinality(Below(y)) => Below(x) = Below(y))
    BY <1>1, <2>1, FS_Subset
  <2>4. Cardinality(Below(x)) = Cardinality(Below(y))
    BY <1>1, <2>2, <2>3
  <2> QED
    BY <2>1, <2>3, <2>4
<1> QED
  BY <1>4, OlderIsTotal

\* Of any names, those with fewer than k newer ones are k at most.
LEMMA NewestAreFew ==
  ASSUME NEW S \in SUBSET SessionName, IsFiniteSet(S), NEW k \in Nat
  PROVE  Cardinality({x \in S : ~(Cardinality({y \in S : Older(x, y)}) >= k)}) <= k
<1> DEFINE Newer(x) == {y \in S : Older(x, y)}
           K == {x \in S : ~(Cardinality(Newer(x)) >= k)}
<1>1. IsFiniteSet(K) /\ Cardinality(K) \in Nat
  <2>1. K \in SUBSET S
    OBVIOUS
  <2> HIDE DEF K
  <2> QED
    BY <2>1, FS_Subset, FS_CardinalityType
<1> SUFFICES ASSUME Cardinality(K) > k PROVE FALSE
  BY <1>1
<1>2. K # {}
  <2> HIDE DEF K
  <2> QED
    BY <1>1, FS_EmptySet
<1>3. PICK x \in K : \A y \in K : y # x => Older(x, y)
  <2>1. K \in SUBSET SessionName
    OBVIOUS
  <2> HIDE DEF K
  <2> QED
    BY <1>1, <1>2, <2>1, OldestName
<1>4. K \ {x} \in SUBSET Newer(x) /\ Newer(x) \in SUBSET S
  BY <1>3
<1>5. Cardinality(K \ {x}) = Cardinality(K) - 1
  <2> HIDE DEF K
  <2> QED
    BY <1>1, <1>3, FS_RemoveElement
<1>6. Cardinality(Newer(x)) \in Nat /\ ~(Cardinality(Newer(x)) >= k)
  <2>1. ~(Cardinality(Newer(x)) >= k)
    BY <1>3
  <2> HIDE DEF K, Newer
  <2> QED
    BY <1>4, <2>1, FS_Subset, FS_CardinalityType
<1>7. Cardinality(K \ {x}) <= Cardinality(Newer(x))
  <2> HIDE DEF K, Newer
  <2> QED
    BY <1>4, FS_Subset
<1> HIDE DEF K, Newer
<1> QED
  BY <1>1, <1>5, <1>6, <1>7

\* Pruning leaves the limit, and keeps what it is told to keep.
LEMMA PruneKeeps ==
  ASSUME NEW S \in SUBSET SessionName, IsFiniteSet(S), NEW keep \in S
  PROVE  /\ keep \in S \ Pruned(S, keep)
         /\ Cardinality(S \ Pruned(S, keep)) <= MaxSessions
<1> DEFINE others == S \ {keep}
           K == {x \in others : ~(Cardinality({y \in others : Older(x, y)}) >= MaxSessions - 1)}
<1>1. S \ Pruned(S, keep) = K \cup {keep}
  BY DEF Pruned
<1>2. others \in SUBSET SessionName /\ IsFiniteSet(others) /\ MaxSessions - 1 \in Nat
  <2>1. others \in SUBSET S
    OBVIOUS
  <2>2. MaxSessions - 1 \in Nat
    BY SessionsAssumption
  <2> HIDE DEF others
  <2> QED
    BY <2>1, <2>2, FS_Subset
<1>3. Cardinality(K) <= MaxSessions - 1
  <2> HIDE DEF others
  <2> QED
    BY <1>2, NewestAreFew
<1>4. IsFiniteSet(K) /\ Cardinality(K) \in Nat
  <2>1. K \in SUBSET others
    OBVIOUS
  <2> HIDE DEF K, others
  <2> QED
    BY <1>2, <2>1, FS_Subset, FS_CardinalityType
<1>5. Cardinality(K \cup {keep}) \in {Cardinality(K), Cardinality(K) + 1}
  <2> HIDE DEF K
  <2> QED
    BY <1>4, FS_AddElement
<1>6. Cardinality(K \cup {keep}) <= MaxSessions
  <2> HIDE DEF K
  <2> QED
    BY <1>3, <1>4, <1>5, SessionsAssumption
<1> QED
  BY <1>1, <1>6

\* While sessions are few the name of the next is a name that is free.
LEMMA NameIsFree ==
  ASSUME DirectoriesInv, nCount.begun < MaxBegun, nWriter.pc = "idle"
  PROVE  FreeName \in SessionName
<1> DEFINE taken == DOMAIN nSessions \cup nReserved
           I == 1 .. MaxBegun + 1
           free == {i \in I : <<nClock, i>> \notin taken}
<1>1. /\ IsFiniteSet(taken) /\ Cardinality(taken) \in Nat /\ Cardinality(taken) <= nCount.begun
      /\ nCount.begun \in Nat /\ MaxBegun \in Nat /\ nClock \in Int
  <2>1. taken = TakenNames
    BY DEF TakenNames
  <2>2. nCount.begun \in Nat /\ MaxBegun \in Nat /\ nClock \in Int
    BY SessionsAssumption DEF DirectoriesInv, DirectoriesTypeOK
  <2> HIDE DEF taken
  <2> QED
    BY <2>1, <2>2, FS_CardinalityType DEF DirectoriesInv, NamesAreFew
<1>2. free # {}
  <2> SUFFICES ASSUME \A i \in I : <<nClock, i>> \in taken PROVE FALSE
    OBVIOUS
  <2> DEFINE f == [i \in I |-> <<nClock, i>>]
  <2>1. f \in Injection(I, taken)
    BY DEF Injection, IsInjective
  <2>2. Cardinality(I) = MaxBegun + 1
    BY <1>1, FS_Interval
  <2> HIDE DEF f, taken, I
  <2>3. Cardinality(I) <= Cardinality(taken)
    BY <1>1, <2>1, FS_Injection
  <2> QED
    BY <1>1, <2>2, <2>3
<1>3. PICK i \in free : \A j \in free : i <= j
  <2>1. free \subseteq Nat
    OBVIOUS
  <2> HIDE DEF free
  <2> QED
    BY <1>2, <2>1, LeastNatural
<1>4. Min(free) \in Nat
  <2>1. Min(free) \in free
    BY <1>3 DEF Min
  <2> QED
    BY <2>1
<1> QED
  BY <1>1, <1>4 DEF FreeName, SessionName

LEMMA NamesStayFew ==
  ASSUME DirectoriesInv, TakenNames' \subseteq TakenNames, nCount'.begun = nCount.begun
  PROVE  NamesAreFew'
<1>1. IsFiniteSet(TakenNames) /\ Cardinality(TakenNames) \in Nat /\ nCount.begun \in Nat
  BY FS_CardinalityType DEF DirectoriesInv, NamesAreFew, DirectoriesTypeOK
<1>2. IsFiniteSet(TakenNames') /\ Cardinality(TakenNames') <= Cardinality(TakenNames) /\ Cardinality(TakenNames') \in Nat
  BY <1>1, FS_Subset, FS_CardinalityType
<1> QED
  BY <1>1, <1>2 DEF DirectoriesInv, NamesAreFew

\* Init: nothing is in place.
LEMMA SessionsInitInv == SessionsInit => DirectoriesInv
<1> SUFFICES ASSUME SessionsInit PROVE DirectoriesInv
  OBVIOUS
<1>1. TakenNames = {} /\ DOMAIN nSessions = {}
  BY DEF SessionsInit, TakenNames, NoWriter
<1>2. DirectoriesTypeOK
  BY <1>1, SessionsAssumption DEF SessionsInit, DirectoriesTypeOK, NoWriter, WriterPcs, SessionName
<1>3. NamesAreFew
  BY <1>1, FS_EmptySet DEF SessionsInit, NamesAreFew
<1>4. RenamedIsThere
  BY <1>1 DEF SessionsInit, RenamedIsThere, NewestIsKept, StagedIsWhole, NoWriter
<1> QED
  BY <1>2, <1>3, <1>4 DEF DirectoriesInv

\* A session begins: it takes one name more.
LEMMA BeginMoves ==
  ASSUME DirectoriesInv, NEW pc \in {"fill", "prune"}, Begin(pc)
  PROVE  /\ nWriter.pc = "idle" /\ nWriter'.pc = pc
         /\ nWriter' \in [pc : WriterPcs, session : Nat, name : SessionName]
         /\ nCount' \in [begun : 0 .. MaxBegun, deaths : Nat]
         /\ nCount'.begun = nCount.begun + 1
         /\ TakenNames = DOMAIN nSessions \cup nReserved
         /\ TakenNames' = DOMAIN nSessions' \cup nReserved' \cup {nWriter'.name}
<1>1. /\ nWriter.pc = "idle" /\ nCount.begun < MaxBegun
      /\ nCount' = [nCount EXCEPT !.begun = nCount.begun + 1]
      /\ nWriter' = [pc |-> pc, session |-> nCount.begun + 1, name |-> FreeName]
  BY DEF Begin
<1>2. FreeName \in SessionName
  BY <1>1, NameIsFree
<1>3. nCount \in [begun : 0 .. MaxBegun, deaths : Nat] /\ MaxBegun \in Nat
  BY SessionsAssumption DEF DirectoriesInv, DirectoriesTypeOK
<1> QED
  BY <1>1, <1>2, <1>3 DEF WriterPcs, TakenNames

LEMMA BeginKeeps ==
  ASSUME DirectoriesInv, BeginStaged \/ BeginInPlace
  PROVE  DirectoriesInv'
<1>1. PICK pc \in {"fill", "prune"} :
        /\ Begin(pc)
        /\ UNCHANGED <<nStaged, nClock>>
        /\ nStaged => pc = "fill" /\ nSessions' = nSessions /\ nReserved' = nReserved \cup {nWriter'.name}
        /\ ~nStaged => pc = "prune" /\ nReserved' = nReserved /\ nSessions' = Placed(nWriter'.name, FALSE)
  BY DEF BeginStaged, BeginInPlace
<1>2. /\ nWriter.pc = "idle" /\ nWriter'.pc = pc
      /\ nWriter' \in [pc : WriterPcs, session : Nat, name : SessionName]
      /\ nCount' \in [begun : 0 .. MaxBegun, deaths : Nat]
      /\ nCount'.begun = nCount.begun + 1
      /\ TakenNames = DOMAIN nSessions \cup nReserved
      /\ TakenNames' = DOMAIN nSessions' \cup nReserved' \cup {nWriter'.name}
  BY <1>1, BeginMoves
<1>3. TakenNames' = TakenNames \cup {nWriter'.name}
  <2>1. nStaged \in BOOLEAN
    BY DEF DirectoriesInv, DirectoriesTypeOK
  <2>2. ~nStaged => DOMAIN nSessions' = DOMAIN nSessions \cup {nWriter'.name}
    BY <1>1 DEF Placed
  <2> QED
    BY <1>1, <1>2, <2>1, <2>2
<1>4. DirectoriesTypeOK'
  <2>1. nWriter'.name \in SessionName
    BY <1>2
  <2> QED
    BY <1>1, <1>2, <1>3, <2>1 DEF DirectoriesInv, DirectoriesTypeOK
<1>5. NamesAreFew'
  <2>1. /\ IsFiniteSet(TakenNames) /\ Cardinality(TakenNames) \in Nat /\ nCount.begun \in Nat
        /\ Cardinality(TakenNames) <= nCount.begun
    BY FS_CardinalityType DEF DirectoriesInv, NamesAreFew, DirectoriesTypeOK
  <2>2. /\ IsFiniteSet(TakenNames')
        /\ Cardinality(TakenNames') \in {Cardinality(TakenNames), Cardinality(TakenNames) + 1}
    BY <1>3, <2>1, FS_AddElement
  <2> QED
    BY <1>2, <2>1, <2>2 DEF NamesAreFew
<1>6. RenamedIsThere'
  BY <1>1, <1>2 DEF DirectoriesInv, DirectoriesTypeOK, RenamedIsThere, NewestIsKept, StagedIsWhole
<1> QED
  BY <1>4, <1>5, <1>6 DEF DirectoriesInv

\* Directories go, and the one that is kept stays.
LEMMA PruneOldKeeps ==
  ASSUME DirectoriesInv, PruneOld
  PROVE  DirectoriesInv'
<1> DEFINE gone == Pruned(DOMAIN nSessions, nWriter.name)
<1>1. /\ nWriter.pc = "prune"
      /\ nSessions' = [n \in DOMAIN nSessions \ gone |-> nSessions[n]]
      /\ nWriter' = [nWriter EXCEPT !.pc = IF nStaged THEN "pruned" ELSE "fill"]
      /\ UNCHANGED <<nStaged, nClock, nReserved, nCount>>
  BY DEF PruneOld, Drop
<1>2. /\ nWriter \in [pc : WriterPcs, session : Nat, name : SessionName] /\ nStaged \in BOOLEAN
      /\ DOMAIN nSessions \subseteq TakenNames /\ TakenNames \subseteq SessionName
      /\ IsFiniteSet(TakenNames)
  BY DEF DirectoriesInv, DirectoriesTypeOK, NamesAreFew, TakenNames
<1>3. DOMAIN nSessions \in SUBSET SessionName /\ IsFiniteSet(DOMAIN nSessions)
  BY <1>2, FS_Subset
<1>4. nStaged => /\ nWriter.name \in DOMAIN nSessions \ gone
                 /\ Cardinality(DOMAIN nSessions \ gone) <= MaxSessions
  <2>1. nStaged => nWriter.name \in DOMAIN nSessions
    BY <1>1 DEF DirectoriesInv, RenamedIsThere
  <2> QED
    BY <1>3, <2>1, PruneKeeps
<1> HIDE DEF gone
<1>5. /\ nWriter'.pc = (IF nStaged THEN "pruned" ELSE "fill")
      /\ nWriter'.name = nWriter.name /\ nWriter'.session = nWriter.session
      /\ nWriter' \in [pc : WriterPcs, session : Nat, name : SessionName]
  BY <1>1, <1>2 DEF WriterPcs
<1>6. DOMAIN nSessions' = DOMAIN nSessions \ gone /\ \A n \in DOMAIN nSessions' : nSessions'[n] = nSessions[n]
  BY <1>1
<1>7. TakenNames' \subseteq TakenNames
  BY <1>1, <1>5, <1>6 DEF TakenNames
<1>8. DirectoriesTypeOK'
  BY <1>1, <1>5, <1>7 DEF DirectoriesInv, DirectoriesTypeOK
<1>9. NamesAreFew'
  BY <1>1, <1>7, NamesStayFew
<1>10. RenamedIsThere'
  BY <1>1, <1>2, <1>4, <1>5, <1>6 DEF DirectoriesInv, RenamedIsThere, NewestIsKept, StagedIsWhole
<1> QED
  BY <1>8, <1>9, <1>10 DEF DirectoriesInv

\* The writer is idle again and no name is new.
LEMMA WriterRests ==
  ASSUME DirectoriesInv, nWriter' = NoWriter, nStaged' = nStaged, nClock' = nClock,
         nCount' \in [begun : 0 .. MaxBegun, deaths : Nat], nCount'.begun = nCount.begun,
         nReserved' \subseteq nReserved, DOMAIN nSessions' \subseteq DOMAIN nSessions,
         \A n \in DOMAIN nSessions' : nSessions'[n] = nSessions[n]
  PROVE  DirectoriesInv'
<1>1. nWriter' \in [pc : WriterPcs, session : Nat, name : SessionName] /\ nWriter'.pc = "idle"
  BY DEF NoWriter, WriterPcs, SessionName
<1>2. TakenNames' \subseteq TakenNames
  BY <1>1 DEF TakenNames
<1>3. DirectoriesTypeOK'
  BY <1>1, <1>2 DEF DirectoriesInv, DirectoriesTypeOK
<1>4. NamesAreFew'
  BY <1>2, NamesStayFew
<1>5. RenamedIsThere'
  BY <1>1 DEF DirectoriesInv, RenamedIsThere, NewestIsKept, StagedIsWhole
<1> QED
  BY <1>3, <1>4, <1>5 DEF DirectoriesInv

LEMMA RestingKeeps ==
  ASSUME DirectoriesInv, PruneFails \/ Abort \/ Published \/ AgentDies
  PROVE  DirectoriesInv'
<1>1. nCount \in [begun : 0 .. MaxBegun, deaths : Nat]
  BY DEF DirectoriesInv, DirectoriesTypeOK
<1>2. CASE PruneFails
  <2>1. PICK names : Drop(names)
    BY <1>2 DEF PruneFails
  <2> QED
    BY <1>1, <1>2, <2>1, WriterRests DEF PruneFails, Drop
<1>3. CASE Abort
  BY <1>1, <1>3, WriterRests DEF Abort
<1>4. CASE Published
  BY <1>1, <1>4, WriterRests DEF Published
<1>5. CASE AgentDies
  <2>1. nCount' \in [begun : 0 .. MaxBegun, deaths : Nat] /\ nCount'.begun = nCount.begun
    BY <1>1, <1>5 DEF AgentDies
  <2> QED
    BY <1>5, <2>1, WriterRests DEF AgentDies
<1> QED
  BY <1>2, <1>3, <1>4, <1>5

\* The writer goes on with its session.
LEMMA FillingKeeps ==
  ASSUME DirectoriesInv, Filled \/ Unreserve \/ Rename
  PROVE  DirectoriesInv'
<1>1. nWriter \in [pc : WriterPcs, session : Nat, name : SessionName] /\ nStaged \in BOOLEAN
  BY DEF DirectoriesInv, DirectoriesTypeOK
<1>2. PICK pc \in {"unreserve", "pruned", "rename", "prune"} : nWriter' = [nWriter EXCEPT !.pc = pc]
  BY <1>1 DEF Filled, Unreserve, Rename
<1>3. /\ nWriter'.pc = pc /\ nWriter'.name = nWriter.name /\ nWriter'.session = nWriter.session
      /\ nWriter' \in [pc : WriterPcs, session : Nat, name : SessionName]
      /\ nWriter.pc # "idle" /\ pc # "idle"
  BY <1>1, <1>2 DEF WriterPcs, Filled, Unreserve, Rename
<1>4. /\ UNCHANGED <<nStaged, nClock, nCount>>
      /\ nReserved' \subseteq nReserved
      /\ nSessions' \in {nSessions, Placed(nWriter.name, TRUE)}
      /\ pc = "prune" \/ (pc = "pruned" /\ ~nStaged) => nSessions' = Placed(nWriter.name, TRUE)
      /\ pc = "pruned" => ~nStaged
  BY <1>1, <1>2, <1>3 DEF Filled, Unreserve, Rename
<1>5. ASSUME nSessions' = Placed(nWriter.name, TRUE)
      PROVE  /\ DOMAIN nSessions' = DOMAIN nSessions \cup {nWriter.name}
             /\ nSessions'[nWriter.name] = [session |-> nWriter.session, whole |-> TRUE]
             /\ \A n \in DOMAIN nSessions : n # nWriter.name => nSessions'[n] = nSessions[n]
  BY <1>3, <1>5 DEF Placed
<1>6. TakenNames' \subseteq TakenNames
  BY <1>3, <1>4, <1>5 DEF TakenNames
<1>7. DirectoriesTypeOK'
  BY <1>3, <1>4, <1>6 DEF DirectoriesInv, DirectoriesTypeOK
<1>8. NamesAreFew'
  BY <1>4, <1>6, NamesStayFew
<1>9. StagedIsWhole'
  <2>1. CASE nSessions' = nSessions
    BY <1>4, <2>1 DEF DirectoriesInv, RenamedIsThere, StagedIsWhole
  <2>2. CASE nSessions' = Placed(nWriter.name, TRUE)
    <3> SUFFICES ASSUME nStaged, NEW n \in DOMAIN nSessions' PROVE nSessions'[n].whole
      BY <1>4 DEF StagedIsWhole
    <3>1. CASE n = nWriter.name
      <4>1. nSessions'[n] = [session |-> nWriter.session, whole |-> TRUE]
        BY <1>5, <2>2, <3>1
      <4>2. nSessions'[n].whole = TRUE
        BY <4>1
      <4> QED
        BY <4>2
    <3>2. CASE n # nWriter.name
      BY <1>5, <2>2, <3>2 DEF DirectoriesInv, RenamedIsThere, StagedIsWhole
    <3> QED
      BY <3>1, <3>2
  <2> QED
    BY <1>4, <2>1, <2>2
<1>10. RenamedIsThere'
  <2>1. pc \in {"prune", "pruned"} => /\ nWriter'.name \in DOMAIN nSessions'
                                      /\ nSessions'[nWriter'.name] = [session |-> nWriter'.session, whole |-> TRUE]
    BY <1>3, <1>4, <1>5
  <2> QED
    BY <1>3, <1>4, <1>9, <2>1 DEF RenamedIsThere, NewestIsKept
<1> QED
  BY <1>7, <1>8, <1>10 DEF DirectoriesInv

LEMMA SessionsStepsKeep == DirectoriesInv /\ [SessionsNext]_sessionVars => DirectoriesInv'
<1> SUFFICES ASSUME DirectoriesInv, [SessionsNext]_sessionVars PROVE DirectoriesInv'
  OBVIOUS
<1>1. CASE ClockMoves \/ UNCHANGED sessionVars
  <2>1. nClock' \in Int /\ UNCHANGED <<nStaged, nSessions, nReserved, nWriter, nCount>>
    BY <1>1, SessionsAssumption DEF ClockMoves, sessionVars, DirectoriesInv, DirectoriesTypeOK
  <2>2. TakenNames' = TakenNames
    BY <2>1 DEF TakenNames
  <2>3. DirectoriesTypeOK'
    BY <2>1, <2>2 DEF DirectoriesInv, DirectoriesTypeOK
  <2>4. NamesAreFew'
    BY <2>1, <2>2 DEF DirectoriesInv, NamesAreFew
  <2>5. RenamedIsThere'
    BY <2>1 DEF DirectoriesInv, RenamedIsThere, NewestIsKept, StagedIsWhole
  <2> QED
    BY <2>3, <2>4, <2>5 DEF DirectoriesInv
<1>2. CASE SessionsNext /\ ~ClockMoves
  BY <1>2, BeginKeeps, PruneOldKeeps, RestingKeeps, FillingKeeps DEF SessionsNext
<1> QED
  BY <1>1, <1>2

LEMMA DirectoriesInvIsSafe == DirectoriesInv => SessionDirectoriesSafe
BY DEF DirectoriesInv, RenamedIsThere, SessionDirectoriesSafe

\* The invariant of the session directories holds always (artifacts/paths.go and atomic.go).
THEOREM SessionDirectoriesInvariant == SessionsSpec => []DirectoriesInv
BY SessionsInitInv, SessionsStepsKeep, PTL DEF SessionsSpec

------------------------------------------------------------------------------
(* The runtime bootstrap: what is staged and installed, what is rolled back, and what *)
(* a start that is cut short leaves to the next.                                       *)

\* What a component's file may be, at its target and set aside: the bundle's own is never
\* set aside, and nothing is set aside beside an old one.
FileType == {f \in [at : {"none", "old", "new"}, kept : {"none", "old"}] :
               f.at = "old" => f.kept = "none"}
Contents == {"none", "old", "new"}
Indices == 1 .. Len(Parts)
Installing == {"query", "install", "commitSession", "single", "grant"}

BootstrapTypeOK ==
  /\ bAt \in [pc : {"stage", "place", "rollPackages", "rollFiles", "ready", "failed"} \cup Installing,
              part : Indices]
  /\ bFile \in [PartSet -> FileType]
  /\ bPackage \in [Apks -> Contents]
  /\ bStaged \in [PartSet -> {"none", "reused", "placed", "replaced"}]
  /\ bPlan \in [PartSet -> {"none", "reuse", "absent", "present"}]
  /\ bChange \in [PartSet -> {"none", "added", "upgraded"}]
  /\ bAtomic \in BOOLEAN
  /\ bBefore \in [file : [PartSet -> FileType], package : [Apks -> Contents]]
  /\ bClean \in BOOLEAN
  /\ bBoots \in Nat

\* The file of a component is what its fileChange says of it.
StagedAs(p) ==
  /\ bStaged[p] \in {"none", "reused"} => bFile[p] = bBefore.file[p]
  /\ bStaged[p] = "reused" => bFile[p].at = "new"
  /\ bStaged[p] = "placed" => /\ bBefore.file[p].at = "none"
                              /\ bFile[p] = [at |-> "new", kept |-> bBefore.file[p].kept]
  /\ bStaged[p] = "replaced" => /\ bBefore.file[p] = [at |-> "old", kept |-> "none"]
                                /\ bFile[p] = [at |-> "new", kept |-> "old"]

\* Which components are staged already.
StagedSoFar ==
  /\ bAt.pc \in {"stage", "place"} =>
       \A i \in Indices : bStaged[Parts[i]] = "none" <=> i >= bAt.part
  /\ bAt.pc \in Installing \cup {"rollPackages"} => \A p \in PartSet : bStaged[p] # "none"

\* Which files stand as staged, and which are back as this Ensure found them.
FilesFollow ==
  /\ bAt.pc \in {"stage", "rollPackages"} \cup Installing => \A p \in PartSet : StagedAs(p)
  /\ bAt.pc = "place" =>
       /\ \A p \in PartSet : p # Part => StagedAs(p)
       /\ bBefore.file[Part].at # "new"
       /\ bBefore.file[Part].at = "none" => bFile[Part] = bBefore.file[Part]
       /\ bBefore.file[Part].at = "old" => bFile[Part] = [at |-> "none", kept |-> "old"]
  /\ bAt.pc = "rollFiles" =>
       \A i \in Indices : IF i <= bAt.part THEN StagedAs(Parts[i])
                          ELSE bFile[Parts[i]] = bBefore.file[Parts[i]]
  /\ bAt.pc = "failed" => \A p \in PartSet : bFile[p] = bBefore.file[p]
  /\ bAt.pc = "ready" => \A p \in PartSet : bFile[p].at = "new"

\* What the plans and the changes say of the packages, wherever Ensure is.
PackagesAreKnown ==
  \A p \in Apks :
    /\ bChange[p] = "none" => bPackage[p] = bBefore.package[p]
    /\ bPlan[p] = "reuse" => bPackage[p] = "new" /\ bChange[p] = "none"
    /\ bClean /\ bPlan[p] = "absent" => bBefore.package[p] = "none"
    /\ bClean /\ bPlan[p] = "present" => bBefore.package[p] = "old"
    /\ bClean /\ bChange[p] = "added" => bBefore.package[p] = "none"
    /\ bClean /\ bChange[p] = "upgraded" => bBefore.package[p] = "old"

\* Which packages have been looked at, installed and rolled back.
PackagesFollow ==
  /\ bAt.pc \in {"stage", "place", "query", "install"} => \A p \in Apks : bChange[p] = "none"
  /\ bAt.pc = "query" => /\ bAt.part \in ApkIndices
                         /\ \A i \in ApkIndices : i < bAt.part => bPlan[Parts[i]] # "none"
  /\ bAt.pc \in {"install", "commitSession", "single"} => \A p \in Apks : bPlan[p] # "none"
  /\ bAt.pc = "commitSession" => \A p \in Planned : bChange[p] # "none"
  /\ bAt.pc = "single" =>
       /\ bAt.part \in ApkIndices /\ Part \in Planned
       /\ \A i \in ApkIndices : IF i < bAt.part THEN bPackage[Parts[i]] = "new"
                                ELSE bChange[Parts[i]] = "none"
  /\ bAt.pc \in {"grant", "ready"} => \A p \in Apks : bPackage[p] = "new"
  /\ bAt.pc = "rollPackages" /\ bClean =>
       \A i \in ApkIndices : i > bAt.part => bPackage[Parts[i]] = bBefore.package[Parts[i]]
  /\ bAt.pc \in {"rollFiles", "failed"} /\ bClean => bPackage = bBefore.package

BootstrapInv == BootstrapTypeOK /\ StagedSoFar /\ FilesFollow /\ PackagesAreKnown /\ PackagesFollow

\* The indices of the components: each component has one, and a package's is among ApkIndices.
LEMMA PartsAreIndexed ==
  /\ Len(Parts) \in Nat \ {0} /\ DOMAIN Parts = Indices
  /\ \A i \in Indices : Parts[i] \in PartSet
  /\ \A p \in PartSet : \E i \in Indices : p = Parts[i]
  /\ \A i, j \in Indices : Parts[i] = Parts[j] => i = j
  /\ Apks \subseteq PartSet
  /\ ApkIndices \subseteq Indices
  /\ \A p \in Apks : \E i \in ApkIndices : p = Parts[i]
  /\ \A i \in ApkIndices : Parts[i] \in Apks
<1>1. Len(Parts) \in Nat \ {0} /\ DOMAIN Parts = Indices
  BY BootstrapAssumption DEF Indices
<1> QED
  BY <1>1, BootstrapAssumption DEF PartSet, ApkIndices

\* NextApk gives the first of the wanted packages, or says that there is none.
LEMMA NextApkIsFirst ==
  ASSUME NEW pc, NEW i \in Nat, NEW after, NEW wanted
  PROVE  \/ /\ NextApk(pc, i, after, wanted) = after
            /\ \A j \in ApkIndices : j >= i => Parts[j] \notin wanted
         \/ \E m \in ApkIndices :
              /\ NextApk(pc, i, after, wanted) = BootAt(pc, m)
              /\ m >= i /\ Parts[m] \in wanted
              /\ \A j \in ApkIndices : j >= i /\ Parts[j] \in wanted => m <= j
<1> DEFINE rest == {j \in ApkIndices : j >= i /\ Parts[j] \in wanted}
<1>1. rest \subseteq Nat
  <2>1. ApkIndices \subseteq Nat
    BY PartsAreIndexed DEF Indices
  <2> QED
    BY <2>1
<1>2. CASE rest = {}
  BY <1>2 DEF NextApk
<1>3. CASE rest # {}
  <2>1. \E m \in rest : \A k \in rest : m <= k
    BY <1>1, <1>3, LeastNatural
  <2>2. NextApk(pc, i, after, wanted) = BootAt(pc, CHOOSE m \in rest : \A k \in rest : m <= k)
    BY <1>3 DEF NextApk
  <2> HIDE DEF rest
  <2>3. PICK m \in rest : m = (CHOOSE x \in rest : \A k \in rest : x <= k) /\ \A k \in rest : m <= k
    BY <2>1
  <2> QED
    BY <2>2, <2>3 DEF rest
<1> QED
  BY <1>2, <1>3

LEMMA BootstrapInitInv == BootstrapInit => BootstrapInv
<1> SUFFICES ASSUME BootstrapInit PROVE BootstrapInv
  OBVIOUS
<1>1. bAt = [pc |-> "stage", part |-> 1] /\ 1 \in Indices
  BY PartsAreIndexed DEF BootstrapInit, BootAt, Indices
<1>2. BootstrapTypeOK
  <2>1. bFile \in [PartSet -> FileType]
    BY DEF BootstrapInit, FileType
  <2>2. bPackage \in [Apks -> Contents]
    BY DEF BootstrapInit, Contents
  <2>3. bAt \in [pc : {"stage"}, part : Indices]
    BY <1>1
  <2>4. bBefore \in [file : [PartSet -> FileType], package : [Apks -> Contents]]
    BY <2>1, <2>2 DEF BootstrapInit
  <2> QED
    BY <2>1, <2>2, <2>3, <2>4 DEF BootstrapInit, BootstrapTypeOK, AllNone
<1>3. /\ \A p \in PartSet : bStaged[p] = "none" /\ bPlan[p] = "none" /\ bChange[p] = "none"
      /\ bBefore.file = bFile /\ bBefore.package = bPackage
  BY DEF BootstrapInit, AllNone
<1>4. StagedSoFar
  BY <1>1, <1>3, PartsAreIndexed DEF StagedSoFar, Indices, Installing
<1>5. FilesFollow
  BY <1>1, <1>3 DEF FilesFollow, StagedAs, Installing
<1>6. PackagesAreKnown /\ PackagesFollow
  BY <1>1, <1>3, PartsAreIndexed DEF PackagesAreKnown, PackagesFollow
<1> QED
  BY <1>2, <1>4, <1>5, <1>6 DEF BootstrapInv

\* What AfterStage makes of the last component.
LEMMA AfterStageIs ==
  ASSUME BootstrapTypeOK
  PROVE  \/ bAt.part < Len(Parts) /\ AfterStage = BootAt("stage", bAt.part + 1)
         \/ /\ bAt.part = Len(Parts)
            /\ \/ AfterStage = BootAt("grant", 1) /\ Apks = {}
               \/ \E m \in ApkIndices : AfterStage = BootAt("query", m)
                                        /\ \A j \in ApkIndices : m <= j
<1>1. bAt.part \in Indices /\ Len(Parts) \in Nat
  BY PartsAreIndexed DEF BootstrapTypeOK
<1>2. CASE bAt.part < Len(Parts)
  BY <1>2 DEF AfterStage
<1>3. CASE bAt.part = Len(Parts)
  <2>1. AfterStage = NextApk("query", 1, BootAt("grant", 1), Apks)
    BY <1>1, <1>3 DEF AfterStage
  <2>2. \A j \in ApkIndices : j >= 1 /\ Parts[j] \in Apks
    BY PartsAreIndexed DEF Indices
  <2> QED
    BY <1>3, <2>1, <2>2, NextApkIsFirst, PartsAreIndexed
<1> QED
  BY <1>1, <1>2, <1>3 DEF Indices

\* The step from one staged component to what follows it keeps what is known of packages.
LEMMA StagedGoesOn ==
  ASSUME BootstrapInv, bAt.pc \in {"stage", "place"}, bAt' = AfterStage,
         bStaged' \in [PartSet -> {"none", "reused", "placed", "replaced"}], bStaged'[Part] # "none",
         \A p \in PartSet : p # Part => bStaged'[p] = bStaged[p],
         UNCHANGED <<bPackage, bPlan, bChange, bAtomic, historyVars>>,
         bFile' \in [PartSet -> FileType],
         \A p \in PartSet : StagedAs(p)'
  PROVE  BootstrapInv'
<1> USE DEF BootstrapInv, historyVars
<1>1. bAt.part \in Indices /\ Len(Parts) \in Nat /\ 1 \in Indices
  BY PartsAreIndexed DEF BootstrapTypeOK, Indices
<1>2. \/ bAt.part < Len(Parts) /\ bAt' = [pc |-> "stage", part |-> bAt.part + 1]
      \/ bAt.part = Len(Parts) /\ bAt' = [pc |-> "grant", part |-> 1] /\ Apks = {}
      \/ /\ bAt.part = Len(Parts)
         /\ \E m \in ApkIndices : bAt' = [pc |-> "query", part |-> m] /\ \A j \in ApkIndices : m <= j
  BY AfterStageIs DEF BootAt
<1>3. BootstrapTypeOK'
  <2>1. bAt' \in [pc : {"stage", "query", "grant"}, part : Indices]
    BY <1>1, <1>2, PartsAreIndexed DEF Indices
  <2> QED
    BY <2>1 DEF BootstrapTypeOK, Installing
<1>4. StagedSoFar'
  <2>1. \A i \in Indices : bStaged'[Parts[i]] = "none" <=> i > bAt.part
    <3> TAKE i \in Indices
    <3>1. CASE i = bAt.part
      BY <3>1, <1>1 DEF Indices, Part
    <3>2. CASE i # bAt.part
      <4>1. Parts[i] # Part /\ Parts[i] \in PartSet
        BY <3>2, <1>1, PartsAreIndexed DEF Part
      <4>2. bStaged[Parts[i]] = "none" <=> i >= bAt.part
        BY DEF StagedSoFar
      <4> QED
        BY <4>1, <4>2, <3>2, <1>1 DEF Indices
    <3> QED
      BY <3>1, <3>2
  <2>2. CASE bAt.part < Len(Parts)
    <3>1. bAt'.pc = "stage" /\ bAt'.part = bAt.part + 1
      BY <1>1, <1>2, <2>2 DEF Indices
    <3>2. \A i \in Indices : bStaged'[Parts[i]] = "none" <=> i >= bAt.part + 1
      BY <2>1, <1>1 DEF Indices
    <3> QED
      BY <3>1, <3>2 DEF StagedSoFar, Installing
  <2>3. CASE bAt.part = Len(Parts)
    <3>1. bAt'.pc \in {"query", "grant"}
      BY <1>1, <1>2, <2>3 DEF Indices
    <3>2. \A i \in Indices : bStaged'[Parts[i]] # "none"
      BY <2>1, <2>3, <1>1 DEF Indices
    <3>3. \A p \in PartSet : bStaged'[p] # "none"
      BY <3>2, PartsAreIndexed
    <3> QED
      BY <3>1, <3>3 DEF StagedSoFar
  <2> QED
    BY <2>2, <2>3, <1>1 DEF Indices
<1>5. FilesFollow'
  <2>1. bAt'.pc \in {"stage", "query", "grant"}
    BY <1>2
  <2> QED
    BY <2>1 DEF FilesFollow
<1>6. PackagesAreKnown'
  BY DEF PackagesAreKnown
<1>7. PackagesFollow'
  <2>1. \A p \in Apks : bChange[p] = "none"
    BY DEF PackagesFollow
  <2>2. CASE bAt'.pc = "stage"
    BY <2>1, <2>2 DEF PackagesFollow
  <2>3. CASE bAt' = [pc |-> "grant", part |-> 1] /\ Apks = {}
    BY <2>1, <2>3 DEF PackagesFollow
  <2>4. CASE bAt'.pc = "query"
    <3>1. bAt'.part \in ApkIndices /\ \A j \in ApkIndices : ~(j < bAt'.part)
      BY <1>2, <2>4, PartsAreIndexed DEF Indices
    <3> QED
      BY <2>1, <2>4, <3>1 DEF PackagesFollow
  <2> QED
    BY <1>2, <2>2, <2>3, <2>4
<1> QED
  BY <1>3, <1>4, <1>5, <1>6, <1>7

LEMMA StageReusedKeeps == ASSUME BootstrapInv, StageReused PROVE BootstrapInv'
<1>1. Part \in PartSet /\ bStaged \in [PartSet -> {"none", "reused", "placed", "replaced"}]
  BY PartsAreIndexed DEF BootstrapInv, BootstrapTypeOK, Part
<1>2. bStaged' = [bStaged EXCEPT ![Part] = "reused"] /\ bAt' = AfterStage /\ bFile' = bFile
      /\ bAt.pc = "stage" /\ bFile[Part].at = "new" /\ bBefore' = bBefore
  BY DEF StageReused, deviceVars, historyVars
<1>3. bStaged'[Part] = "reused" /\ \A p \in PartSet : p # Part => bStaged'[p] = bStaged[p]
  BY <1>1, <1>2
<1>4. bStaged[Part] = "none"
  BY <1>2, PartsAreIndexed DEF BootstrapInv, BootstrapTypeOK, StagedSoFar, Part, Indices
<1>5. \A p \in PartSet : StagedAs(p)'
  <2>1. \A p \in PartSet : StagedAs(p)
    BY <1>2 DEF BootstrapInv, FilesFollow
  <2> QED
    BY <2>1, <1>1, <1>2, <1>3, <1>4 DEF StagedAs
<1>6. bFile' \in [PartSet -> FileType] /\ bStaged' \in [PartSet -> {"none", "reused", "placed", "replaced"}]
  BY <1>1, <1>2 DEF BootstrapInv, BootstrapTypeOK
<1> QED
  BY <1>2, <1>3, <1>5, <1>6, StagedGoesOn DEF StageReused, deviceVars

\* Ensure gives up while it stages: the files are rolled back from the last.
LEMMA StagingFails ==
  ASSUME BootstrapInv, bAt.pc \in {"stage", "place"}, bAt' = RollFiles,
         bFile' \in [PartSet -> FileType],
         \A p \in PartSet : StagedAs(p)',
         UNCHANGED <<bPackage, ensureVars, historyVars>>
  PROVE  BootstrapInv'
<1> USE DEF BootstrapInv, ensureVars, historyVars
<1>1. bAt' = [pc |-> "rollFiles", part |-> Len(Parts)] /\ Len(Parts) \in Indices
  BY PartsAreIndexed DEF RollFiles, BootAt, Indices
<1>2. BootstrapTypeOK'
  BY <1>1 DEF BootstrapTypeOK
<1>3. StagedSoFar'
  BY <1>1 DEF StagedSoFar, Installing
<1>4. FilesFollow'
  BY <1>1, PartsAreIndexed DEF FilesFollow, Installing, Indices
<1>5. PackagesAreKnown'
  BY DEF PackagesAreKnown
<1>6. PackagesFollow'
  <2>1. bPackage = bBefore.package
    <3>1. \A p \in Apks : bPackage[p] = bBefore.package[p]
      BY DEF PackagesFollow, PackagesAreKnown
    <3> QED
      BY <3>1 DEF BootstrapTypeOK
  <2> QED
    BY <1>1, <2>1 DEF PackagesFollow
<1> QED
  BY <1>2, <1>3, <1>4, <1>5, <1>6

LEMMA StageAsideKeeps == ASSUME BootstrapInv, StageAside PROVE BootstrapInv'
<1>1. Part \in PartSet /\ bFile \in [PartSet -> FileType] /\ bAt.part \in Indices
  BY PartsAreIndexed DEF BootstrapInv, BootstrapTypeOK, Part
<1>2. bAt.pc = "stage" /\ bFile[Part].at # "new" /\ UNCHANGED <<bPackage, ensureVars, historyVars>>
  BY DEF StageAside
<1>3. \A p \in PartSet : StagedAs(p)
  BY <1>2 DEF BootstrapInv, FilesFollow
<1>4. CASE bAt' = RollFiles /\ bFile' = bFile
  <2>1. \A p \in PartSet : StagedAs(p)'
    BY <1>2, <1>3, <1>4 DEF StagedAs, ensureVars, historyVars
  <2> QED
    BY <2>1, <1>1, <1>2, <1>4, StagingFails
<1>5. CASE /\ bAt' = BootAt("place", bAt.part)
           /\ bFile' = IF bFile[Part].at = "none" THEN bFile
                       ELSE [bFile EXCEPT ![Part] = [at |-> "none", kept |-> bFile[Part].at]]
  <2> USE DEF BootstrapInv, ensureVars, historyVars
  <2>1. bAt' = [pc |-> "place", part |-> bAt.part] /\ Part' = Part
    BY <1>5 DEF BootAt, Part
  <2>2. bFile[Part].at \in {"none", "old"} /\ bFile[Part] \in FileType
    BY <1>1, <1>2 DEF FileType
  <2>3. bFile' \in [PartSet -> FileType] /\ \A p \in PartSet : p # Part => bFile'[p] = bFile[p]
    <3>1. [at |-> "none", kept |-> "old"] \in FileType
      BY DEF FileType
    <3> QED
      BY <3>1, <2>2, <1>1, <1>5
  <2>4. BootstrapTypeOK'
    BY <2>1, <2>3, <1>1, <1>2 DEF BootstrapTypeOK
  <2>5. StagedSoFar'
    BY <2>1, <1>2 DEF StagedSoFar, Installing
  <2>6. FilesFollow'
    <3>1. bStaged[Part] = "none"
      BY <1>1, <1>2 DEF StagedSoFar, Part, BootstrapTypeOK, Indices
    <3>2. bBefore.file[Part] = bFile[Part]
      BY <3>1, <1>1, <1>3 DEF StagedAs
    <3>3. \A p \in PartSet : p # Part => StagedAs(p)'
      BY <1>2, <1>3, <2>3 DEF StagedAs
    <3>4. bFile[Part].at = "none" => bFile' = bFile
      BY <1>5
    <3>5. bFile[Part].at = "old" => bFile'[Part] = [at |-> "none", kept |-> "old"]
      BY <1>1, <1>5
    <3> QED
      BY <3>2, <3>3, <3>4, <3>5, <2>1, <2>2, <1>2 DEF FilesFollow, Installing
  <2>7. PackagesAreKnown'
    BY <1>2 DEF PackagesAreKnown
  <2>8. PackagesFollow'
    BY <2>1, <1>2 DEF PackagesFollow
  <2> QED
    BY <2>4, <2>5, <2>6, <2>7, <2>8
<1> QED
  BY <1>4, <1>5 DEF StageAside

LEMMA StagePlaceKeeps == ASSUME BootstrapInv, StagePlace PROVE BootstrapInv'
<1>1. /\ Part \in PartSet /\ bFile \in [PartSet -> FileType] /\ bAt.part \in Indices
      /\ bStaged \in [PartSet -> {"none", "reused", "placed", "replaced"}]
      /\ bFile[Part] \in FileType /\ bBefore.file[Part] \in FileType
  BY PartsAreIndexed DEF BootstrapInv, BootstrapTypeOK, Part
<1>2. bAt.pc = "place" /\ UNCHANGED <<bPackage, bPlan, bChange, bAtomic, historyVars>>
  BY DEF StagePlace
<1>3. /\ \A p \in PartSet : p # Part => StagedAs(p)
      /\ bBefore.file[Part].at \in {"none", "old"}
      /\ bBefore.file[Part].at = "none" => bFile[Part] = bBefore.file[Part]
      /\ bBefore.file[Part].at = "old" => bFile[Part] = [at |-> "none", kept |-> "old"]
                                           /\ bBefore.file[Part] = [at |-> "old", kept |-> "none"]
  <2>1. bBefore.file[Part].at # "new"
    BY <1>2 DEF BootstrapInv, FilesFollow
  <2>2. /\ bBefore.file[Part].at \in {"none", "old"}
        /\ bBefore.file[Part].at = "old" => bBefore.file[Part] = [at |-> "old", kept |-> "none"]
    BY <1>1, <2>1 DEF FileType
  <2> QED
    BY <1>2, <2>2 DEF BootstrapInv, FilesFollow
<1>4. bStaged[Part] = "none"
  BY <1>1, <1>2 DEF BootstrapInv, StagedSoFar, Part, Indices
<1>5. CASE /\ bFile' = [bFile EXCEPT ![Part].at = "new"]
           /\ bStaged' = [bStaged EXCEPT ![Part] = IF bBefore.file[Part].at # "none" THEN "replaced" ELSE "placed"]
           /\ bAt' = AfterStage
  <2>1. /\ \A p \in PartSet : p # Part => bFile'[p] = bFile[p] /\ bStaged'[p] = bStaged[p]
        /\ bFile'[Part] = [bFile[Part] EXCEPT !.at = "new"]
        /\ bStaged'[Part] = IF bBefore.file[Part].at # "none" THEN "replaced" ELSE "placed"
        /\ bStaged' \in [PartSet -> {"none", "reused", "placed", "replaced"}]
    BY <1>1, <1>5
  <2>2. bFile'[Part] = [at |-> "new", kept |-> bFile[Part].kept]
    BY <2>1, <1>1 DEF FileType
  <2>3. bFile'[Part] \in FileType
    BY <2>2, <1>1 DEF FileType
  <2>4. bFile' \in [PartSet -> FileType]
    BY <2>1, <2>3, <1>1, <1>5
  <2>5. bBefore' = bBefore
    BY <1>2 DEF historyVars
  <2>6. \A p \in PartSet : StagedAs(p)'
    <3>1. ASSUME NEW p \in PartSet, p = Part PROVE StagedAs(p)'
      <4>1. CASE bBefore.file[p].at = "none"
        BY <4>1, <3>1, <1>3, <2>1, <2>2, <2>5 DEF StagedAs
      <4>2. CASE bBefore.file[p].at = "old"
        BY <4>2, <3>1, <1>3, <2>1, <2>2, <2>5 DEF StagedAs
      <4> QED
        BY <4>1, <4>2, <3>1, <1>3
    <3>2. \A p \in PartSet : p # Part => StagedAs(p)'
      BY <1>3, <2>1, <2>5 DEF StagedAs
    <3> QED
      BY <3>1, <3>2
  <2>7. bStaged'[Part] # "none"
    BY <2>1
  <2> QED
    BY <2>1, <2>4, <2>6, <2>7, <1>2, <1>5, StagedGoesOn
<1>6. CASE /\ bFile' = IF bBefore.file[Part].at # "none"
                        THEN [bFile EXCEPT ![Part] = [at |-> @.kept, kept |-> "none"]] ELSE bFile
           /\ bAt' = RollFiles
           /\ UNCHANGED bStaged
  <2>1. bFile'[Part] = bBefore.file[Part] /\ \A p \in PartSet : p # Part => bFile'[p] = bFile[p]
    <3>1. CASE bBefore.file[Part].at = "none"
      BY <3>1, <1>3, <1>6
    <3>2. CASE bBefore.file[Part].at = "old"
      <4>1. bFile[Part].kept = "old" /\ bBefore.file[Part].at # "none"
        BY <3>2, <1>3
      <4>2. bFile' = [bFile EXCEPT ![Part] = [at |-> "old", kept |-> "none"]]
        BY <4>1, <1>6
      <4> QED
        BY <4>2, <3>2, <1>1, <1>3
    <3> QED
      BY <3>1, <3>2, <1>3
  <2>2. bFile' \in [PartSet -> FileType]
    BY <2>1, <1>1, <1>6
  <2>3. bBefore' = bBefore /\ bStaged' = bStaged
    BY <1>2, <1>6 DEF historyVars
  <2>4. \A p \in PartSet : StagedAs(p)'
    BY <2>1, <2>3, <1>3, <1>4 DEF StagedAs
  <2> QED
    BY <2>2, <2>4, <1>2, <1>6, StagingFails DEF ensureVars, historyVars
<1> QED
  BY <1>5, <1>6 DEF StagePlace

\* What does not touch the files keeps what is staged, from one step of the installation to
\* another or to its rollback.
LEMMA StagedStays ==
  ASSUME BootstrapTypeOK, StagedSoFar, FilesFollow, bAt.pc \in Installing \cup {"rollPackages"},
         bAt'.pc \in Installing \cup {"rollPackages"}, UNCHANGED <<bFile, bStaged, bBefore>>
  PROVE  StagedSoFar' /\ FilesFollow'
<1>1. bAt.pc \notin {"stage", "place", "rollFiles", "failed", "ready"}
      /\ bAt'.pc \notin {"stage", "place", "rollFiles", "failed", "ready"}
  BY DEF Installing
<1>2. StagedSoFar'
  BY <1>1 DEF StagedSoFar
<1>3. \A p \in PartSet : StagedAs(p)'
  BY <1>1 DEF FilesFollow, StagedAs
<1> QED
  BY <1>1, <1>2, <1>3 DEF FilesFollow

LEMMA QueryPackageKeeps == ASSUME BootstrapInv, QueryPackage PROVE BootstrapInv'
<1> USE DEF BootstrapInv
<1>1. /\ bAt.pc = "query" /\ bAt.part \in ApkIndices /\ bAt.part \in Indices
      /\ Part \in Apks /\ Part \in PartSet
      /\ bFile' = bFile /\ bPackage' = bPackage /\ bStaged' = bStaged /\ bChange' = bChange
      /\ bAtomic' = bAtomic /\ bBefore' = bBefore /\ bBoots' = bBoots
  BY PartsAreIndexed DEF QueryPackage, PackagesFollow, Part, deviceVars
<1>2. PICK wrong \in BOOLEAN :
        /\ bPlan' = [bPlan EXCEPT ![Part] = IF wrong THEN "absent"
                                            ELSE CASE bPackage[Part] = "new" -> "reuse"
                                                   [] bPackage[Part] = "old" -> "present"
                                                   [] OTHER -> "absent"]
        /\ bClean' = (bClean /\ ~wrong)
  BY DEF QueryPackage
<1>3. bPackage[Part] \in Contents /\ bPackage[Part] = bBefore.package[Part] /\ bChange[Part] = "none"
  BY <1>1 DEF BootstrapTypeOK, PackagesFollow, PackagesAreKnown
<1>4. /\ \A p \in PartSet : p # Part => bPlan'[p] = bPlan[p]
      /\ \/ bPlan'[Part] = "absent" /\ wrong
         \/ bPlan'[Part] = "absent" /\ bPackage[Part] = "none" /\ ~wrong
         \/ bPlan'[Part] = "present" /\ bPackage[Part] = "old"
         \/ bPlan'[Part] = "reuse" /\ bPackage[Part] = "new"
      /\ bPlan' \in [PartSet -> {"none", "reuse", "absent", "present"}]
  BY <1>1, <1>2, <1>3 DEF BootstrapTypeOK, Contents
<1>5. \/ /\ bAt' = [pc |-> "install", part |-> 1]
         /\ \A j \in ApkIndices : j <= bAt.part
      \/ \E m \in ApkIndices : /\ bAt' = [pc |-> "query", part |-> m]
                               /\ \A j \in ApkIndices : j < m => j <= bAt.part
  <2>1. bAt' = NextApk("query", bAt.part + 1, BootAt("install", 1), Apks)
    BY DEF QueryPackage
  <2>2. bAt.part + 1 \in Nat /\ \A j \in ApkIndices : j \in Nat /\ Parts[j] \in Apks
    BY <1>1, PartsAreIndexed DEF Indices
  <2>3. \/ /\ bAt' = BootAt("install", 1)
           /\ \A j \in ApkIndices : j >= bAt.part + 1 => Parts[j] \notin Apks
        \/ \E m \in ApkIndices :
             /\ bAt' = BootAt("query", m)
             /\ m >= bAt.part + 1 /\ Parts[m] \in Apks
             /\ \A j \in ApkIndices : j >= bAt.part + 1 /\ Parts[j] \in Apks => m <= j
    BY <2>1, <2>2, NextApkIsFirst
  <2> QED
    BY <2>2, <2>3, <1>1 DEF BootAt, Indices
<1>6. bAt' \in [pc : {"query", "install"}, part : Indices]
  <2>1. 1 \in Indices /\ ApkIndices \subseteq Indices
    BY PartsAreIndexed DEF Indices
  <2> QED
    BY <2>1, <1>5
<1>7. BootstrapTypeOK'
  BY <1>1, <1>2, <1>4, <1>6 DEF BootstrapTypeOK, Installing
<1>8. StagedSoFar' /\ FilesFollow'
  BY <1>1, <1>6, StagedStays DEF Installing
<1>9. PackagesAreKnown'
  <2> SUFFICES ASSUME NEW p \in Apks
               PROVE  /\ bChange[p] = "none" => bPackage[p] = bBefore.package[p]
                      /\ bPlan'[p] = "reuse" => bPackage[p] = "new" /\ bChange[p] = "none"
                      /\ bClean' /\ bPlan'[p] = "absent" => bBefore.package[p] = "none"
                      /\ bClean' /\ bPlan'[p] = "present" => bBefore.package[p] = "old"
                      /\ bClean' /\ bChange[p] = "added" => bBefore.package[p] = "none"
                      /\ bClean' /\ bChange[p] = "upgraded" => bBefore.package[p] = "old"
    BY <1>1 DEF PackagesAreKnown
  <2>1. CASE p = Part
    BY <2>1, <1>2, <1>3, <1>4
  <2>2. CASE p # Part
    BY <2>2, <1>2, <1>4, PartsAreIndexed DEF PackagesAreKnown
  <2> QED
    BY <2>1, <2>2
<1>10. PackagesFollow'
  <2>1. \A p \in Apks : bChange'[p] = "none"
    BY <1>1 DEF PackagesFollow
  <2>2. \A j \in ApkIndices : j <= bAt.part => bPlan'[Parts[j]] # "none"
    <3> TAKE j \in ApkIndices
    <3>1. CASE Parts[j] = Part
      BY <3>1, <1>4
    <3>2. CASE Parts[j] # Part
      BY <3>2, <1>1, <1>4, PartsAreIndexed DEF PackagesFollow, Part, Indices
    <3> QED
      BY <3>1, <3>2
  <2>3. CASE /\ bAt' = [pc |-> "install", part |-> 1]
             /\ \A j \in ApkIndices : j <= bAt.part
    <3>1. \A p \in Apks : bPlan'[p] # "none"
      BY <2>2, <2>3, PartsAreIndexed
    <3> QED
      BY <2>1, <2>3, <3>1 DEF PackagesFollow
  <2>4. CASE \E m \in ApkIndices : /\ bAt' = [pc |-> "query", part |-> m]
                                   /\ \A j \in ApkIndices : j < m => j <= bAt.part
    <3>1. /\ bAt'.pc = "query" /\ bAt'.part \in ApkIndices
          /\ \A j \in ApkIndices : j < bAt'.part => bPlan'[Parts[j]] # "none"
      BY <2>2, <2>4
    <3> QED
      BY <2>1, <3>1 DEF PackagesFollow
  <2> QED
    BY <1>5, <2>3, <2>4
<1> QED
  BY <1>7, <1>8, <1>9, <1>10

LEMMA ChooseInstallKeeps == ASSUME BootstrapInv, ChooseInstall PROVE BootstrapInv'
<1> USE DEF BootstrapInv
<1>1. /\ bAt.pc = "install" /\ 1 \in Indices /\ ApkIndices \subseteq Indices /\ Planned \subseteq Apks
      /\ bFile' = bFile /\ bPackage' = bPackage /\ bStaged' = bStaged /\ bPlan' = bPlan
      /\ bBefore' = bBefore /\ bClean' = bClean /\ bBoots' = bBoots /\ Planned' = Planned
  BY PartsAreIndexed DEF ChooseInstall, deviceVars, historyVars, Indices, Planned
<1>2. \A p \in Apks : /\ bChange[p] = "none" /\ bPlan[p] # "none"
                      /\ bPackage[p] = bBefore.package[p] /\ p \in PartSet
  BY <1>1, PartsAreIndexed DEF PackagesFollow, PackagesAreKnown
<1>3. \A p \in Apks : \/ p \in Planned /\ bPlan[p] \in {"absent", "present"}
                      \/ p \notin Planned /\ bPlan[p] = "reuse" /\ bPackage[p] = "new"
  BY <1>2 DEF Planned, BootstrapTypeOK, PackagesAreKnown
<1>4. CASE /\ bAtomic' = TRUE
           /\ bChange' = [p \in PartSet |-> IF p \notin Planned THEN "none"
                                            ELSE IF bPlan[p] = "present" THEN "upgraded" ELSE "added"]
           /\ bAt' = BootAt("commitSession", 1)
  <2>1. bAt' = [pc |-> "commitSession", part |-> 1]
    BY <1>4 DEF BootAt
  <2>2. BootstrapTypeOK'
    BY <1>1, <1>4, <2>1 DEF BootstrapTypeOK, Installing
  <2>3. StagedSoFar' /\ FilesFollow'
    BY <1>1, <2>1, StagedStays DEF Installing
  <2>4. \A p \in Apks : bChange'[p] = IF p \notin Planned THEN "none"
                                      ELSE IF bPlan[p] = "present" THEN "upgraded" ELSE "added"
    BY <1>2, <1>4
  <2>5. PackagesAreKnown'
    BY <2>4, <1>1, <1>2, <1>3 DEF PackagesAreKnown
  <2>6. PackagesFollow'
    BY <2>1, <2>4, <1>1, <1>2 DEF PackagesFollow
  <2> QED
    BY <2>2, <2>3, <2>5, <2>6
<1>5. CASE /\ bAtomic' = FALSE
           /\ bAt' = NextApk("single", 1, BootAt("grant", 1), Planned)
           /\ UNCHANGED bChange
  <2>1. \/ bAt' = [pc |-> "grant", part |-> 1] /\ \A j \in ApkIndices : Parts[j] \notin Planned
        \/ \E m \in ApkIndices : /\ bAt' = [pc |-> "single", part |-> m] /\ Parts[m] \in Planned
                                 /\ \A j \in ApkIndices : j < m => Parts[j] \notin Planned
    <3>1. \A j \in ApkIndices : j \in Nat /\ j >= 1
      BY PartsAreIndexed DEF Indices
    <3>2. \/ /\ bAt' = BootAt("grant", 1)
             /\ \A j \in ApkIndices : j >= 1 => Parts[j] \notin Planned
          \/ \E m \in ApkIndices :
               /\ bAt' = BootAt("single", m)
               /\ m >= 1 /\ Parts[m] \in Planned
               /\ \A j \in ApkIndices : j >= 1 /\ Parts[j] \in Planned => m <= j
      BY <1>5, NextApkIsFirst
    <3> QED
      BY <3>1, <3>2 DEF BootAt
  <2>2. bAt' \in [pc : {"single", "grant"}, part : Indices]
    BY <1>1, <2>1
  <2>3. BootstrapTypeOK'
    BY <1>1, <1>5, <2>2 DEF BootstrapTypeOK, Installing
  <2>4. StagedSoFar' /\ FilesFollow'
    BY <1>1, <2>2, StagedStays DEF Installing
  <2>5. PackagesAreKnown'
    BY <1>1, <1>5 DEF PackagesAreKnown
  <2>6. PackagesFollow'
    <3>1. CASE bAt' = [pc |-> "grant", part |-> 1] /\ \A j \in ApkIndices : Parts[j] \notin Planned
      <4>1. \A p \in Apks : p \notin Planned
        BY <3>1, PartsAreIndexed
      <4>2. \A p \in Apks : bPackage'[p] = "new"
        BY <4>1, <1>1, <1>3
      <4> QED
        BY <3>1, <4>2 DEF PackagesFollow
    <3>2. ASSUME NEW m \in ApkIndices, bAt' = [pc |-> "single", part |-> m], Parts[m] \in Planned,
                 \A j \in ApkIndices : j < m => Parts[j] \notin Planned
          PROVE  PackagesFollow'
      <4>1. Part' = Parts[m] /\ bAt'.part = m /\ bAt'.pc = "single"
        BY <3>2 DEF Part
      <4>2. \A j \in ApkIndices : IF j < m THEN bPackage'[Parts[j]] = "new" ELSE bChange'[Parts[j]] = "none"
        BY <3>2, <1>1, <1>2, <1>3, <1>5, PartsAreIndexed
      <4> QED
        BY <4>1, <4>2, <3>2, <1>1, <1>2 DEF PackagesFollow
    <3> QED
      BY <2>1, <3>1, <3>2
  <2> QED
    BY <2>3, <2>4, <2>5, <2>6
<1> QED
  BY <1>4, <1>5 DEF ChooseInstall

\* The installation gives up: the packages are rolled back from the last.
LEMMA InstallFails ==
  ASSUME BootstrapInv, bAt.pc \in Installing, bAt' = RollPackages, BootstrapTypeOK', PackagesAreKnown',
         UNCHANGED <<bFile, bStaged, bBefore>>
  PROVE  BootstrapInv'
<1>1. bAt' = [pc |-> "rollPackages", part |-> Len(Parts)]
  BY DEF RollPackages, BootAt
<1>2. StagedSoFar' /\ FilesFollow'
  BY <1>1, StagedStays DEF BootstrapInv
<1>3. \A j \in ApkIndices : ~(j > Len(Parts))
  BY PartsAreIndexed DEF Indices
<1>4. PackagesFollow'
  BY <1>1, <1>3 DEF PackagesFollow
<1> QED
  BY <1>2, <1>4 DEF BootstrapInv

LEMMA CommitSessionKeeps == ASSUME BootstrapInv, CommitSession PROVE BootstrapInv'
<1> USE DEF BootstrapInv
<1>1. /\ bAt.pc = "commitSession" /\ Planned \subseteq Apks /\ Planned' = Planned /\ 1 \in Indices
      /\ bFile' = bFile /\ bStaged' = bStaged /\ bPlan' = bPlan /\ bChange' = bChange
      /\ bAtomic' = bAtomic /\ bBefore' = bBefore /\ bClean' = bClean /\ bBoots' = bBoots
  BY PartsAreIndexed DEF CommitSession, ensureVars, historyVars, Planned, Indices
<1>2. \A p \in Apks : \/ p \in Planned /\ bChange[p] # "none" /\ bPlan[p] # "reuse" /\ bPackage'[p] \in {"new", bPackage[p]}
                      \/ p \notin Planned /\ bPackage'[p] = bPackage[p] /\ bPackage[p] = "new"
  <2>1. \A p \in Apks : bPackage'[p] = bPackage[p] \/ (p \in Planned /\ bPackage'[p] = "new")
    BY DEF CommitSession
  <2>2. \A p \in Planned : bChange[p] # "none" /\ bPlan[p] # "reuse"
    BY <1>1 DEF PackagesFollow, Planned
  <2>3. \A p \in Apks : p \notin Planned => bPackage[p] = "new"
    <3>1. \A p \in Apks : p \notin Planned => bPlan[p] = "reuse"
      BY <1>1, PartsAreIndexed DEF PackagesFollow, Planned, BootstrapTypeOK
    <3> QED
      BY <3>1 DEF PackagesAreKnown
  <2> QED
    BY <2>1, <2>2, <2>3
<1>3. bPackage' \in [Apks -> Contents]
  BY DEF CommitSession, BootstrapTypeOK, Contents
<1>4. PackagesAreKnown'
  BY <1>1, <1>2 DEF PackagesAreKnown
<1>5. bAt' \in [pc : {"grant", "rollPackages"}, part : Indices]
  BY <1>1, PartsAreIndexed DEF CommitSession, RollPackages, BootAt, Indices
<1>6. BootstrapTypeOK'
  BY <1>1, <1>3, <1>5 DEF BootstrapTypeOK, Installing
<1>7. CASE bAt' = RollPackages
  BY <1>1, <1>4, <1>6, <1>7, InstallFails DEF Installing
<1>8. CASE bAt' = BootAt("grant", 1) /\ \A p \in Planned : bPackage'[p] = "new"
  <2>1. bAt'.pc = "grant" /\ \A p \in Apks : bPackage'[p] = "new"
    BY <1>2, <1>8 DEF BootAt
  <2>2. StagedSoFar' /\ FilesFollow'
    BY <1>1, <2>1, StagedStays DEF Installing
  <2>3. PackagesFollow'
    BY <2>1 DEF PackagesFollow
  <2> QED
    BY <1>4, <1>6, <2>2, <2>3
<1> QED
  BY <1>7, <1>8 DEF CommitSession

\* From one package to the next that is planned: those between are in place.
LEMMA NextSingleKeeps ==
  ASSUME BootstrapInv, bAt.pc = "single",
         bAt' = NextApk("single", bAt.part + 1, BootAt("grant", 1), Planned),
         bPackage' \in [Apks -> Contents], bChange' \in [PartSet -> {"none", "added", "upgraded"}],
         bClean' \in BOOLEAN, bPackage'[Part] = "new",
         \A p \in Apks : p # Part => bPackage'[p] = bPackage[p] /\ bChange'[p] = bChange[p],
         PackagesAreKnown', UNCHANGED <<bFile, bStaged, bPlan, bAtomic, bBefore, bBoots>>
  PROVE  BootstrapInv'
<1> USE DEF BootstrapInv
<1>1. /\ bAt.part \in ApkIndices /\ Part \in Planned /\ Planned' = Planned /\ 1 \in Indices
      /\ \A j \in ApkIndices : IF j < bAt.part THEN bPackage[Parts[j]] = "new"
                               ELSE bChange[Parts[j]] = "none"
      /\ \A p \in Apks : bPlan'[p] # "none"
  BY PartsAreIndexed DEF PackagesFollow, Planned, Indices
<1>2. \A j \in ApkIndices : /\ j \in Nat /\ j \in Indices /\ Parts[j] \in Apks /\ (Parts[j] = Part => j = bAt.part)
  BY <1>1, PartsAreIndexed DEF Indices, Part
<1>3. \A p \in Apks : p \notin Planned => bPlan[p] = "reuse" /\ bPackage[p] = "new"
  BY PartsAreIndexed DEF Planned, PackagesFollow, PackagesAreKnown, BootstrapTypeOK
<1>4. \/ bAt' = [pc |-> "grant", part |-> 1] /\ \A j \in ApkIndices : j > bAt.part => Parts[j] \notin Planned
      \/ \E m \in ApkIndices : /\ bAt' = [pc |-> "single", part |-> m] /\ Parts[m] \in Planned /\ m > bAt.part
                               /\ \A j \in ApkIndices : j > bAt.part /\ j < m => Parts[j] \notin Planned
  <2>1. bAt.part + 1 \in Nat /\ bAt.part \in Nat
    BY <1>1, <1>2
  <2>2. \/ /\ bAt' = BootAt("grant", 1)
           /\ \A j \in ApkIndices : j >= bAt.part + 1 => Parts[j] \notin Planned
        \/ \E m \in ApkIndices :
             /\ bAt' = BootAt("single", m)
             /\ m >= bAt.part + 1 /\ Parts[m] \in Planned
             /\ \A j \in ApkIndices : j >= bAt.part + 1 /\ Parts[j] \in Planned => m <= j
    BY <2>1, NextApkIsFirst
  <2>3. CASE bAt' = BootAt("grant", 1) /\ \A j \in ApkIndices : j >= bAt.part + 1 => Parts[j] \notin Planned
    BY <2>1, <2>3, <1>2 DEF BootAt
  <2>4. ASSUME NEW m \in ApkIndices, bAt' = BootAt("single", m), m >= bAt.part + 1, Parts[m] \in Planned,
               \A j \in ApkIndices : j >= bAt.part + 1 /\ Parts[j] \in Planned => m <= j
        PROVE  /\ bAt' = [pc |-> "single", part |-> m] /\ Parts[m] \in Planned /\ m > bAt.part
               /\ \A j \in ApkIndices : j > bAt.part /\ j < m => Parts[j] \notin Planned
    BY <2>1, <2>4, <1>2 DEF BootAt
  <2> QED
    BY <2>2, <2>3, <2>4
<1>5. bAt' \in [pc : {"single", "grant"}, part : Indices]
  <2>1. \E m \in Indices : bAt' = [pc |-> "grant", part |-> m] \/ bAt' = [pc |-> "single", part |-> m]
    BY <1>1, <1>2, <1>4
  <2> QED
    BY <2>1
<1>6. BootstrapTypeOK'
  BY <1>5 DEF BootstrapTypeOK, Installing
<1>7. StagedSoFar' /\ FilesFollow'
  BY <1>5, StagedStays DEF Installing
<1>8. \A j \in ApkIndices : j <= bAt.part => bPackage'[Parts[j]] = "new"
  <2> TAKE j \in ApkIndices
  <2>1. CASE Parts[j] = Part
    BY <2>1
  <2>2. CASE Parts[j] # Part
    <3>1. j # bAt.part
      BY <2>2 DEF Part
    <3>2. j < bAt.part => bPackage[Parts[j]] = "new"
      BY <1>1
    <3> QED
      BY <2>2, <3>1, <3>2, <1>1, <1>2
  <2> QED
    BY <2>1, <2>2
<1>9. \A p \in Apks : p \notin Planned => bPackage'[p] = "new"
  BY <1>1, <1>3
<1>10. PackagesFollow'
  <2>1. CASE bAt' = [pc |-> "grant", part |-> 1] /\ \A j \in ApkIndices : j > bAt.part => Parts[j] \notin Planned
    <3>1. \A j \in ApkIndices : bPackage'[Parts[j]] = "new"
      BY <2>1, <1>1, <1>2, <1>8, <1>9
    <3>2. \A p \in Apks : bPackage'[p] = "new"
      BY <3>1, PartsAreIndexed
    <3> QED
      BY <2>1, <3>2 DEF PackagesFollow
  <2>2. ASSUME NEW m \in ApkIndices, bAt' = [pc |-> "single", part |-> m], Parts[m] \in Planned, m > bAt.part,
               \A j \in ApkIndices : j > bAt.part /\ j < m => Parts[j] \notin Planned
        PROVE  PackagesFollow'
    <3>1. bAt'.pc = "single" /\ bAt'.part = m /\ Part' = Parts[m]
      BY <2>2 DEF Part
    <3>2. \A j \in ApkIndices : IF j < m THEN bPackage'[Parts[j]] = "new" ELSE bChange'[Parts[j]] = "none"
      <4> TAKE j \in ApkIndices
      <4>1. CASE j < m
        BY <4>1, <2>2, <1>1, <1>2, <1>8, <1>9
      <4>2. CASE ~(j < m)
        BY <4>2, <2>2, <1>1, <1>2
      <4> QED
        BY <4>1, <4>2
    <3> QED
      BY <3>1, <3>2, <2>2, <1>1 DEF PackagesFollow
  <2> QED
    BY <1>4, <2>1, <2>2
<1> QED
  BY <1>6, <1>7, <1>10

LEMMA InstallSingleKeeps == ASSUME BootstrapInv, InstallSingle PROVE BootstrapInv'
<1> USE DEF BootstrapInv
<1>1. /\ bAt.pc = "single" /\ Part \in Planned /\ Part \in Apks /\ Part \in PartSet /\ bAt.part \in Indices
      /\ bChange[Part] = "none" /\ bPackage[Part] = bBefore.package[Part] /\ bPackage[Part] \in Contents
      /\ bPlan[Part] \in {"absent", "present"}
      /\ bFile' = bFile /\ bStaged' = bStaged /\ bPlan' = bPlan
      /\ bAtomic' = bAtomic /\ bBefore' = bBefore /\ bBoots' = bBoots
  <2>1. bAt.pc = "single"
    BY DEF InstallSingle
  <2>2. bAt.part \in ApkIndices /\ Part \in Planned
    BY <2>1 DEF PackagesFollow
  <2>3. bAt.part \in Indices /\ Part \in Apks /\ Part \in PartSet
    BY <2>2, PartsAreIndexed DEF Part
  <2>4. bChange[Part] = "none"
    BY <2>1, <2>2, <2>3 DEF PackagesFollow, Part, Indices
  <2> QED
    BY <2>1, <2>2, <2>3, <2>4 DEF InstallSingle, Planned, PackagesAreKnown, BootstrapTypeOK
<1>2. bPackage \in [Apks -> Contents] /\ bChange \in [PartSet -> {"none", "added", "upgraded"}] /\ bClean \in BOOLEAN
  BY DEF BootstrapTypeOK
<1>3. CASE bPackage[Part] = "new" /\ bAt' = NextApk("single", bAt.part + 1, BootAt("grant", 1), Planned)
           /\ UNCHANGED <<bPackage, bChange, bClean>>
  <2>1. PackagesAreKnown'
    BY <1>1, <1>3 DEF PackagesAreKnown
  <2> QED
    BY <2>1, <1>1, <1>2, <1>3, NextSingleKeeps
<1>4. CASE bAt' = RollPackages /\ UNCHANGED <<bPackage, bChange, bClean>>
  <2>1. PackagesAreKnown'
    BY <1>1, <1>4 DEF PackagesAreKnown
  <2>2. bAt' \in [pc : {"rollPackages"}, part : Indices]
    BY <1>4, PartsAreIndexed DEF RollPackages, BootAt, Indices
  <2>3. BootstrapTypeOK'
    BY <1>1, <1>4, <2>2 DEF BootstrapTypeOK
  <2> QED
    BY <2>1, <2>3, <1>1, <1>4, InstallFails DEF Installing
<1>5. ASSUME NEW wrong \in BOOLEAN,
             bChange' = [bChange EXCEPT ![Part] = IF bPackage[Part] # "none" /\ ~wrong THEN "upgraded" ELSE "added"],
             bClean' = (bClean /\ ~wrong),
             \/ /\ bPackage' = [bPackage EXCEPT ![Part] = "new"]
                /\ bAt' \in {NextApk("single", bAt.part + 1, BootAt("grant", 1), Planned), RollPackages}
             \/ UNCHANGED bPackage /\ bAt' = RollPackages
      PROVE  BootstrapInv'
  <2>1. /\ bChange'[Part] = IF bPackage[Part] # "none" /\ ~wrong THEN "upgraded" ELSE "added"
        /\ \A p \in Apks : p # Part => bPackage'[p] = bPackage[p] /\ bChange'[p] = bChange[p]
        /\ bPackage' \in [Apks -> Contents] /\ bChange' \in [PartSet -> {"none", "added", "upgraded"}]
        /\ bClean' \in BOOLEAN
    BY <1>1, <1>2, <1>5, PartsAreIndexed DEF Contents
  <2>2. PackagesAreKnown'
    <3> SUFFICES ASSUME NEW p \in Apks
                 PROVE  /\ bChange'[p] = "none" => bPackage'[p] = bBefore.package[p]
                        /\ bPlan[p] = "reuse" => bPackage'[p] = "new" /\ bChange'[p] = "none"
                        /\ bClean' /\ bPlan[p] = "absent" => bBefore.package[p] = "none"
                        /\ bClean' /\ bPlan[p] = "present" => bBefore.package[p] = "old"
                        /\ bClean' /\ bChange'[p] = "added" => bBefore.package[p] = "none"
                        /\ bClean' /\ bChange'[p] = "upgraded" => bBefore.package[p] = "old"
      BY <1>1 DEF PackagesAreKnown
    <3>1. bClean' => bClean /\ ~wrong
      BY <1>5
    <3>2. CASE p = Part
      BY <3>1, <3>2, <2>1, <1>1 DEF PackagesAreKnown
    <3>3. CASE p # Part
      BY <3>1, <3>3, <2>1 DEF PackagesAreKnown
    <3> QED
      BY <3>2, <3>3
  <2>3. CASE bAt' = RollPackages
    <3>1. bAt' \in [pc : {"rollPackages"}, part : Indices]
      BY <2>3, PartsAreIndexed DEF RollPackages, BootAt, Indices
    <3>2. BootstrapTypeOK'
      BY <3>1, <2>1, <1>1 DEF BootstrapTypeOK
    <3> QED
      BY <2>2, <2>3, <3>2, <1>1, InstallFails DEF Installing
  <2>4. CASE /\ bPackage' = [bPackage EXCEPT ![Part] = "new"]
             /\ bAt' = NextApk("single", bAt.part + 1, BootAt("grant", 1), Planned)
    <3>1. bPackage'[Part] = "new"
      BY <2>4, <1>1, <1>2
    <3> QED
      BY <3>1, <2>1, <2>2, <2>4, <1>1, NextSingleKeeps
  <2> QED
    BY <1>5, <2>3, <2>4
<1> QED
  BY <1>3, <1>4, <1>5 DEF InstallSingle

LEMMA GrantAndCommitKeeps == ASSUME BootstrapInv, GrantAndCommit PROVE BootstrapInv'
<1> USE DEF BootstrapInv
<1>1. /\ bAt.pc = "grant" /\ bPackage' = bPackage
      /\ bStaged' = bStaged /\ bPlan' = bPlan /\ bChange' = bChange /\ bAtomic' = bAtomic
      /\ bBefore' = bBefore /\ bClean' = bClean /\ bBoots' = bBoots
  BY DEF GrantAndCommit, ensureVars, historyVars
<1>2. PackagesAreKnown'
  BY <1>1 DEF PackagesAreKnown
<1>3. CASE bAt' = RollPackages /\ UNCHANGED bFile
  <2>1. bAt' \in [pc : {"rollPackages"}, part : Indices]
    BY <1>3, PartsAreIndexed DEF RollPackages, BootAt, Indices
  <2>2. BootstrapTypeOK'
    BY <1>1, <1>3, <2>1 DEF BootstrapTypeOK
  <2> QED
    BY <1>1, <1>2, <1>3, <2>2, InstallFails DEF Installing
<1>4. CASE /\ bAt' = BootAt("ready", 1)
           /\ bFile' = [p \in PartSet |-> IF bStaged[p] = "replaced"
                                            THEN [bFile[p] EXCEPT !.kept = "none"] ELSE bFile[p]]
  <2>1. bAt' = [pc |-> "ready", part |-> 1] /\ 1 \in Indices
    BY <1>4, PartsAreIndexed DEF BootAt, Indices
  <2>2. \A p \in PartSet : bFile'[p] \in FileType /\ bFile'[p].at = "new"
    <3> TAKE p \in PartSet
    <3>1. StagedAs(p) /\ bStaged[p] # "none" /\ bFile[p] \in FileType
          /\ bStaged[p] \in {"none", "reused", "placed", "replaced"}
      BY <1>1 DEF FilesFollow, StagedSoFar, Installing, BootstrapTypeOK
    <3>2. bFile[p].at = "new"
      BY <3>1 DEF StagedAs
    <3>3. CASE bStaged[p] = "replaced"
      <4>1. bFile'[p] = [bFile[p] EXCEPT !.kept = "none"]
        BY <3>3, <1>4
      <4>2. bFile'[p] = [at |-> "new", kept |-> "none"]
        BY <4>1, <3>1, <3>2 DEF FileType
      <4> QED
        BY <4>2 DEF FileType
    <3>4. CASE bStaged[p] # "replaced"
      BY <3>1, <3>2, <3>4, <1>4
    <3> QED
      BY <3>3, <3>4
  <2>3. bFile' \in [PartSet -> FileType]
    BY <2>2, <1>4
  <2>4. BootstrapTypeOK'
    BY <1>1, <2>1, <2>3 DEF BootstrapTypeOK
  <2>5. StagedSoFar'
    BY <2>1 DEF StagedSoFar, Installing
  <2>6. FilesFollow'
    BY <2>1, <2>2 DEF FilesFollow, Installing
  <2>7. PackagesFollow'
    BY <1>1, <2>1 DEF PackagesFollow
  <2> QED
    BY <1>2, <2>4, <2>5, <2>6, <2>7
<1> QED
  BY <1>3, <1>4 DEF GrantAndCommit

\* What Before gives: the index below, or where to go from the first.
LEMMA BeforeIs ==
  ASSUME NEW pc, NEW after, BootstrapTypeOK
  PROVE  \/ /\ bAt.part > 1 /\ bAt.part - 1 \in Indices
            /\ Before(pc, bAt.part, after) = [pc |-> pc, part |-> bAt.part - 1]
         \/ bAt.part = 1 /\ Before(pc, bAt.part, after) = after
BY PartsAreIndexed DEF BootstrapTypeOK, Indices, Before, BootAt

LEMMA RollbackPackageKeeps == ASSUME BootstrapInv, RollbackPackage PROVE BootstrapInv'
<1> USE DEF BootstrapInv
<1>1. /\ bAt.pc = "rollPackages" /\ bAt.part \in Indices /\ Len(Parts) \in Indices
      /\ bAt' = Before("rollPackages", bAt.part, RollFiles)
      /\ bFile' = bFile /\ bStaged' = bStaged /\ bPlan' = bPlan /\ bChange' = bChange
      /\ bAtomic' = bAtomic /\ bBefore' = bBefore /\ bBoots' = bBoots
  BY PartsAreIndexed DEF RollbackPackage, ensureVars, BootstrapTypeOK, Indices
<1>2. bPackage \in [Apks -> Contents] /\ bChange \in [PartSet -> {"none", "added", "upgraded"}] /\ bClean \in BOOLEAN
  BY DEF BootstrapTypeOK
<1>3. \/ bAt.part > 1 /\ bAt' = [pc |-> "rollPackages", part |-> bAt.part - 1] /\ bAt.part - 1 \in Indices
      \/ bAt.part = 1 /\ bAt' = [pc |-> "rollFiles", part |-> Len(Parts)]
  BY <1>1, BeforeIs DEF RollFiles, BootAt
<1>4. /\ bPackage' \in [Apks -> Contents] /\ bClean' \in BOOLEAN /\ (bClean' => bClean)
      /\ \A p \in Apks : p # Part => bPackage'[p] = bPackage[p]
      /\ \A p \in Apks : p = Part =>
           /\ bChange[p] = "none" => bPackage'[p] = bPackage[p]
           /\ bClean' => bPackage'[p] = CASE bChange[p] = "upgraded" -> "old"
                                          [] bChange[p] = "added" -> "none"
                                          [] OTHER -> bPackage[p]
  <2> DEFINE to == CASE bChange[Part] = "upgraded" -> "old"
                     [] bChange[Part] = "added" -> "none"
                     [] OTHER -> bPackage[Part]
  <2>1. CASE /\ bPackage' = IF Part \in Apks THEN [bPackage EXCEPT ![Part] = to] ELSE bPackage
             /\ UNCHANGED bClean
    <3>1. Part \in Apks => to \in Contents /\ (bChange[Part] = "none" => to = bPackage[Part])
      BY <1>2 DEF Contents
    <3>2. \A p \in Apks : p = Part => to = CASE bChange[p] = "upgraded" -> "old"
                                             [] bChange[p] = "added" -> "none"
                                             [] OTHER -> bPackage[p]
      OBVIOUS
    <3> HIDE DEF to
    <3>3. bPackage' \in [Apks -> Contents] /\ \A p \in Apks : bPackage'[p] = IF p = Part THEN to ELSE bPackage[p]
      BY <2>1, <3>1, <1>2
    <3> QED
      BY <2>1, <3>1, <3>2, <3>3, <1>2
  <2>2. CASE bChange[Part] # "none" /\ bClean' = FALSE /\ UNCHANGED bPackage
    BY <2>2, <1>2
  <2> QED
    BY <2>1, <2>2 DEF RollbackPackage
<1>5. PackagesAreKnown'
  <2> SUFFICES ASSUME NEW p \in Apks
               PROVE  /\ bChange[p] = "none" => bPackage'[p] = bBefore.package[p]
                      /\ bPlan[p] = "reuse" => bPackage'[p] = "new" /\ bChange[p] = "none"
                      /\ bClean' /\ bPlan[p] = "absent" => bBefore.package[p] = "none"
                      /\ bClean' /\ bPlan[p] = "present" => bBefore.package[p] = "old"
                      /\ bClean' /\ bChange[p] = "added" => bBefore.package[p] = "none"
                      /\ bClean' /\ bChange[p] = "upgraded" => bBefore.package[p] = "old"
    BY <1>1 DEF PackagesAreKnown
  <2>1. bChange[p] = "none" => bPackage'[p] = bPackage[p]
    BY <1>4
  <2> QED
    BY <2>1, <1>4 DEF PackagesAreKnown
<1>6. bClean' => \A i \in ApkIndices : i >= bAt.part => bPackage'[Parts[i]] = bBefore.package[Parts[i]]
  <2> SUFFICES ASSUME bClean', NEW i \in ApkIndices, i >= bAt.part
               PROVE  bPackage'[Parts[i]] = bBefore.package[Parts[i]]
    OBVIOUS
  <2>1. i \in Indices /\ Parts[i] \in Apks /\ Parts[i] \in PartSet /\ bClean
    BY <1>4, PartsAreIndexed
  <2>2. CASE Parts[i] = Part
    <3>1. /\ bChange[Parts[i]] \in {"none", "added", "upgraded"}
          /\ bChange[Parts[i]] = "none" => bPackage[Parts[i]] = bBefore.package[Parts[i]]
          /\ bChange[Parts[i]] = "added" => bBefore.package[Parts[i]] = "none"
          /\ bChange[Parts[i]] = "upgraded" => bBefore.package[Parts[i]] = "old"
      BY <2>1, <1>2 DEF PackagesAreKnown
    <3> QED
      BY <2>1, <2>2, <3>1, <1>4
  <2>3. CASE Parts[i] # Part
    <3>1. i > bAt.part
      BY <2>1, <2>3, <1>1 DEF Part, Indices
    <3> QED
      BY <2>1, <2>3, <3>1, <1>1, <1>4 DEF PackagesFollow
  <2> QED
    BY <2>2, <2>3
<1>7. BootstrapTypeOK'
  BY <1>1, <1>3, <1>4 DEF BootstrapTypeOK
<1>8. CASE bAt.part > 1 /\ bAt' = [pc |-> "rollPackages", part |-> bAt.part - 1]
  <2>1. StagedSoFar' /\ FilesFollow'
    BY <1>1, <1>8, StagedStays
  <2>2. \A i \in ApkIndices : i > bAt.part - 1 => i >= bAt.part
    BY <1>1, PartsAreIndexed DEF Indices
  <2>3. PackagesFollow'
    BY <1>1, <1>6, <1>8, <2>2 DEF PackagesFollow
  <2> QED
    BY <1>5, <1>7, <2>1, <2>3
<1>9. CASE bAt.part = 1 /\ bAt' = [pc |-> "rollFiles", part |-> Len(Parts)]
  <2>1. StagedSoFar'
    BY <1>9 DEF StagedSoFar, Installing
  <2>2. FilesFollow'
    <3>1. \A p \in PartSet : StagedAs(p)'
      BY <1>1 DEF FilesFollow, StagedAs
    <3> QED
      BY <1>9, <3>1, PartsAreIndexed DEF FilesFollow, Installing, Indices
  <2>3. PackagesFollow'
    <3>1. ASSUME bClean' PROVE bPackage' = bBefore.package
      <4>1. \A i \in ApkIndices : i >= 1
        BY PartsAreIndexed DEF Indices
      <4>2. \A p \in Apks : bPackage'[p] = bBefore.package[p]
        BY <3>1, <4>1, <1>6, <1>9, PartsAreIndexed
      <4> QED
        BY <4>2, <1>4 DEF BootstrapTypeOK
    <3> QED
      BY <1>1, <1>9, <3>1 DEF PackagesFollow
  <2> QED
    BY <1>5, <1>7, <2>1, <2>2, <2>3
<1> QED
  BY <1>3, <1>8, <1>9

LEMMA RollbackFileKeeps == ASSUME BootstrapInv, RollbackFile PROVE BootstrapInv'
<1> USE DEF BootstrapInv
<1>1. /\ bAt.pc = "rollFiles" /\ bAt.part \in Indices /\ 1 \in Indices /\ Part \in PartSet
      /\ bAt' = Before("rollFiles", bAt.part, BootAt("failed", 1))
      /\ bPackage' = bPackage /\ bStaged' = bStaged /\ bPlan' = bPlan /\ bChange' = bChange
      /\ bAtomic' = bAtomic /\ bBefore' = bBefore /\ bClean' = bClean /\ bBoots' = bBoots
  BY PartsAreIndexed DEF RollbackFile, ensureVars, historyVars, BootstrapTypeOK, Indices, Part
<1>2. /\ bFile \in [PartSet -> FileType] /\ bFile[Part] \in FileType /\ bBefore.file[Part] \in FileType
      /\ bStaged[Part] \in {"none", "reused", "placed", "replaced"}
  BY <1>1 DEF BootstrapTypeOK
<1>3. \/ bAt.part > 1 /\ bAt' = [pc |-> "rollFiles", part |-> bAt.part - 1] /\ bAt.part - 1 \in Indices
      \/ bAt.part = 1 /\ bAt' = [pc |-> "failed", part |-> 1]
  BY <1>1, BeforeIs DEF BootAt
<1>4. StagedAs(Part)
  BY <1>1 DEF FilesFollow, Part, Indices
<1>5. bFile'[Part] = bBefore.file[Part] /\ \A p \in PartSet : p # Part => bFile'[p] = bFile[p]
  <2>1. CASE bStaged[Part] = "replaced"
    <3>1. bFile[Part].kept = "old" /\ bBefore.file[Part] = [at |-> "old", kept |-> "none"]
      BY <2>1, <1>4 DEF StagedAs
    <3>2. bFile' = [bFile EXCEPT ![Part] = [at |-> bFile[Part].kept, kept |-> "none"]]
      BY <2>1 DEF RollbackFile
    <3> QED
      BY <3>1, <3>2, <1>1, <1>2
  <2>2. CASE bStaged[Part] = "placed"
    <3>1. bBefore.file[Part].at = "none" /\ bFile[Part] = [at |-> "new", kept |-> bBefore.file[Part].kept]
      BY <2>2, <1>4 DEF StagedAs
    <3>2. bFile' = [bFile EXCEPT ![Part].at = "none"]
      BY <2>2 DEF RollbackFile
    <3>3. bFile'[Part] = [bFile[Part] EXCEPT !.at = "none"] /\ \A p \in PartSet : p # Part => bFile'[p] = bFile[p]
      BY <3>2, <1>1, <1>2
    <3>4. bFile'[Part] = [at |-> "none", kept |-> bBefore.file[Part].kept]
      BY <3>1, <3>3
    <3>5. bBefore.file[Part] = [at |-> "none", kept |-> bBefore.file[Part].kept]
      BY <3>1, <1>2 DEF FileType
    <3> QED
      BY <3>3, <3>4, <3>5
  <2>3. CASE bStaged[Part] \in {"none", "reused"}
    BY <2>3, <1>4 DEF StagedAs, RollbackFile
  <2> QED
    BY <2>1, <2>2, <2>3, <1>2
<1>6. bFile' \in [PartSet -> FileType]
  <2>1. \A p \in PartSet : bFile'[p] \in FileType
    BY <1>2, <1>5
  <2>2. bFile' = [p \in PartSet |-> bFile'[p]]
    BY <1>2 DEF RollbackFile
  <2> QED
    BY <2>1, <2>2
<1>7. BootstrapTypeOK'
  BY <1>1, <1>3, <1>6 DEF BootstrapTypeOK
<1>8. StagedSoFar'
  BY <1>3 DEF StagedSoFar, Installing
<1>9. FilesFollow'
  <2>1. \A i \in Indices : IF i < bAt.part THEN StagedAs(Parts[i])'
                           ELSE bFile'[Parts[i]] = bBefore.file[Parts[i]]
    <3> TAKE i \in Indices
    <3>1. Parts[i] \in PartSet /\ (Parts[i] = Part => i = bAt.part)
      BY <1>1, PartsAreIndexed DEF Part
    <3>2. IF i <= bAt.part THEN StagedAs(Parts[i]) ELSE bFile[Parts[i]] = bBefore.file[Parts[i]]
      BY <1>1 DEF FilesFollow
    <3>3. CASE i < bAt.part
      <4>1. StagedAs(Parts[i]) /\ bFile'[Parts[i]] = bFile[Parts[i]]
        BY <3>1, <3>2, <3>3, <1>1, <1>5 DEF Indices
      <4> QED
        BY <4>1, <3>3, <1>1 DEF StagedAs
    <3>4. CASE i = bAt.part
      BY <3>4, <1>1, <1>5 DEF Part, Indices
    <3>5. CASE i > bAt.part
      BY <3>1, <3>2, <3>5, <1>1, <1>5 DEF Indices
    <3> QED
      BY <3>3, <3>4, <3>5, <1>1 DEF Indices
  <2>2. CASE bAt.part > 1 /\ bAt' = [pc |-> "rollFiles", part |-> bAt.part - 1]
    <3>1. \A i \in Indices : IF i <= bAt.part - 1 THEN StagedAs(Parts[i])'
                             ELSE bFile'[Parts[i]] = bBefore.file[Parts[i]]
      BY <2>1, <1>1 DEF Indices
    <3> QED
      BY <2>2, <3>1, <1>1 DEF FilesFollow, Installing
  <2>3. CASE bAt.part = 1 /\ bAt' = [pc |-> "failed", part |-> 1]
    <3>1. \A i \in Indices : bFile'[Parts[i]] = bBefore.file[Parts[i]]
      BY <2>1, <2>3 DEF Indices
    <3>2. \A p \in PartSet : bFile'[p] = bBefore.file[p]
      BY <3>1, PartsAreIndexed
    <3> QED
      BY <2>3, <3>2, <1>1 DEF FilesFollow, Installing
  <2> QED
    BY <1>3, <2>2, <2>3
<1>10. PackagesAreKnown'
  BY <1>1 DEF PackagesAreKnown
<1>11. PackagesFollow'
  BY <1>1, <1>3 DEF PackagesFollow
<1> QED
  BY <1>7, <1>8, <1>9, <1>10, <1>11

LEMMA RestartKeeps == ASSUME BootstrapInv, Restart PROVE BootstrapInv'
<1>1. /\ bAt' = [pc |-> "stage", part |-> 1] /\ 1 \in Indices /\ bAtomic' = FALSE /\ bClean' = TRUE
      /\ bFile' = bFile /\ bPackage' = bPackage /\ bBefore' = [file |-> bFile, package |-> bPackage]
      /\ bStaged' = AllNone /\ bPlan' = AllNone /\ bChange' = AllNone /\ bBoots' = bBoots + 1
  BY PartsAreIndexed DEF Restart, BootAt, Indices, deviceVars
<1>2. \A p \in PartSet : bStaged'[p] = "none" /\ bPlan'[p] = "none" /\ bChange'[p] = "none"
  BY <1>1 DEF AllNone
<1>3. BootstrapTypeOK'
  <2>1. bAt' \in [pc : {"stage"}, part : Indices]
    BY <1>1
  <2>2. bFile \in [PartSet -> FileType] /\ bPackage \in [Apks -> Contents] /\ bBoots \in Nat
    BY DEF BootstrapInv, BootstrapTypeOK
  <2>3. bBefore' \in [file : [PartSet -> FileType], package : [Apks -> Contents]]
    BY <2>2, <1>1
  <2>4. /\ bStaged' \in [PartSet -> {"none", "reused", "placed", "replaced"}]
        /\ bPlan' \in [PartSet -> {"none", "reuse", "absent", "present"}]
        /\ bChange' \in [PartSet -> {"none", "added", "upgraded"}]
    BY <1>1 DEF AllNone
  <2>5. bAt' \in [pc : {"stage", "place", "rollPackages", "rollFiles", "ready", "failed"} \cup Installing,
                  part : Indices]
    BY <2>1
  <2>6. bFile' \in [PartSet -> FileType] /\ bPackage' \in [Apks -> Contents] /\ bBoots' \in Nat
    BY <2>2, <1>1
  <2>7. bAtomic' \in BOOLEAN /\ bClean' \in BOOLEAN
    BY <1>1
  <2> QED
    BY <2>3, <2>4, <2>5, <2>6, <2>7 DEF BootstrapTypeOK
<1>4. StagedSoFar'
  BY <1>1, <1>2, PartsAreIndexed DEF StagedSoFar, Indices, Installing
<1>5. FilesFollow'
  BY <1>1, <1>2 DEF FilesFollow, StagedAs, Installing
<1>6. PackagesAreKnown' /\ PackagesFollow'
  BY <1>1, <1>2, PartsAreIndexed DEF PackagesAreKnown, PackagesFollow
<1> QED
  BY <1>3, <1>4, <1>5, <1>6 DEF BootstrapInv

LEMMA BootstrapStepsKeep == BootstrapInv /\ [BootstrapNext]_bootstrapVars => BootstrapInv'
<1> SUFFICES ASSUME BootstrapInv, [BootstrapNext]_bootstrapVars PROVE BootstrapInv'
  OBVIOUS
<1>1. CASE UNCHANGED bootstrapVars
  BY <1>1 DEF bootstrapVars, BootstrapInv, BootstrapTypeOK, StagedSoFar, FilesFollow, StagedAs, Part,
              PackagesAreKnown, PackagesFollow, Planned
<1>2. CASE BootstrapNext
  BY <1>2, StageReusedKeeps, StageAsideKeeps, StagePlaceKeeps, QueryPackageKeeps, ChooseInstallKeeps,
     CommitSessionKeeps, InstallSingleKeeps, GrantAndCommitKeeps, RollbackPackageKeeps, RollbackFileKeeps,
     RestartKeeps DEF BootstrapNext
<1> QED
  BY <1>1, <1>2

LEMMA BootstrapInvIsSafe == BootstrapInv => BootstrapSafe
<1> SUFFICES ASSUME BootstrapInv PROVE BootstrapSafe
  OBVIOUS
<1> USE DEF BootstrapInv
<1>1. FailureRestores
  BY DEF FailureRestores, FilesFollow, PackagesFollow
<1>2. ReadyIsComplete
  BY DEF ReadyIsComplete, FilesFollow, PackagesFollow
<1>3. FileIsNeverLost
  <2> SUFFICES ASSUME NEW p \in PartSet, bBefore.file[p] # [at |-> "none", kept |-> "none"],
                      bFile[p] = [at |-> "none", kept |-> "none"]
               PROVE  FALSE
    BY DEF FileIsNeverLost
  <2>1. bBefore.file[p] \in FileType /\ bStaged[p] \in {"none", "reused", "placed", "replaced"} /\ bAt.part \in Indices
        /\ bAt.pc \in {"stage", "place", "rollPackages", "rollFiles", "ready", "failed"} \cup Installing
    BY DEF BootstrapTypeOK
  <2>2. ~StagedAs(p)
    BY <2>1 DEF StagedAs
  <2>3. bAt.pc \in {"place", "rollFiles"}
    BY <2>1, <2>2 DEF FilesFollow
  <2>4. CASE bAt.pc = "place"
    <3>1. p = Part
      BY <2>2, <2>4 DEF FilesFollow
    <3> QED
      BY <2>1, <2>4, <3>1 DEF FilesFollow, FileType
  <2>5. CASE bAt.pc = "rollFiles"
    <3>1. PICK i \in Indices : p = Parts[i]
      BY PartsAreIndexed
    <3> QED
      BY <2>2, <2>5, <3>1 DEF FilesFollow
  <2> QED
    BY <2>3, <2>4, <2>5
<1> QED
  BY <1>1, <1>2, <1>3 DEF BootstrapSafe

\* The invariant of the bootstrap holds always, with starts that are killed (bootstrap.go: Ensure).
THEOREM BootstrapInvariant == BootstrapSpec => []BootstrapInv
BY BootstrapInitInv, BootstrapStepsKeep, PTL DEF BootstrapSpec

------------------------------------------------------------------------------
(* The store of the cases: what is staged, renamed and pruned, and the case that is   *)
(* replayed meanwhile.                                                                *)

Recordings == 1 .. MaxRecorded
CasePlaces == {Final(r) : r \in Recordings} \cup {Staging(a) : a \in 1 .. MaxSaves}
Directory == [rec : Recordings, files : SUBSET AllFiles, at : 0 .. MaxSaves]
Writing == {"case", "manifest", "index", "evidence", "commit"}
Committed == {"prune", "publish", "clear"}

CaseTypeOK ==
  /\ csDirs \in [DOMAIN csDirs -> Directory] /\ DOMAIN csDirs \subseteq CasePlaces
  /\ csDrafts \subseteq Recordings
  /\ csPending \in 0 .. MaxRecorded
  /\ csSave \in [pc : {"none"} \cup Writing \cup Committed, attempt : 0 .. MaxSaves]
  /\ csDelete \in CasePlaces \cup {NoPlace} /\ csHandle \in CasePlaces \cup {NoPlace}
  /\ csNames \subseteq AllFiles
  /\ csDoomed \subseteq CasePlaces
  /\ csReplay \in 0 .. MaxRecorded
  /\ csGone \subseteq Recordings
  /\ csCount \in [recordings : 0 .. MaxRecorded, saves : 0 .. MaxSaves, losses : Nat]

\* The finalizer saves a pending recording in the newest attempt; the draft is kept until the
\* case is published, and pruning comes before that.
SaveIsOfPending ==
  /\ csSave.pc # "none" => csPending # 0 /\ csSave.attempt \in 1 .. csCount.saves
  /\ csSave.pc = "none" => csSave = NoSave
  /\ csPending # 0 /\ csSave.pc # "clear" => csPending \in csDrafts
  /\ csDoomed # {} => csSave.pc = "publish"

\* No place is of an attempt that is still to come.
AttemptsAreCounted ==
  \A a \in 1 .. MaxSaves :
    Exists(Staging(a)) \/ csDelete = Staging(a) \/ csHandle = Staging(a) => a <= csCount.saves

\* A directory that loses files to a deletion or to pruning is not of a recording to be kept.
LosersAreGone ==
  /\ \A r \in Recordings \ csGone :
       Final(r) # csDelete /\ Final(r) # csHandle /\ Final(r) \notin csDoomed
  /\ csSave.pc # "none" /\ csPending \notin csGone =>
       Staging(csSave.attempt) # csDelete /\ Staging(csSave.attempt) # csHandle
  /\ csDelete = NoPlace => csHandle = NoPlace

\* What is staged before each step of the finalizer.
StagedAt(pc) ==
  IF pc = "case" THEN {}
  ELSE IF pc = "manifest" THEN {"case"}
  ELSE IF pc = "commit" THEN AllFiles
  ELSE {"case", "manifest"}
StagedInOrder ==
  csSave.pc \in Writing /\ csPending \notin csGone =>
    /\ Exists(Staging(csSave.attempt))
    /\ csDirs[Staging(csSave.attempt)].files = StagedAt(csSave.pc)

PublishedWasThere ==
  csSave.pc \in {"prune", "publish"} => Exists(Final(csPending)) \/ csPending \in csGone

\* A case in its place is complete, whether its draft is still there or not.
FinalsAreWhole == \A r \in Recordings \ csGone : Exists(Final(r)) => Whole(Final(r))
DraftOrCase == \A r \in 1 .. csCount.recordings \ csGone : r \in csDrafts \/ Exists(Final(r))

\* Nothing is saved during a replay, and a deletion under way is not of the replayed case.
ReplayIsAlone ==
  csReplay # 0 =>
    /\ csPending = 0 /\ csSave = NoSave
    /\ \A p \in DOMAIN csDirs : csDirs[p].rec = csReplay => p # csDelete /\ p # csHandle

CaseStoreInv ==
  /\ CaseTypeOK /\ SaveIsOfPending /\ AttemptsAreCounted /\ LosersAreGone /\ StagedInOrder
  /\ PublishedWasThere /\ FinalsAreWhole /\ DraftOrCase /\ ReplayIsAlone /\ ReplayedCaseIsKept

\* A place is of one case or of one attempt.
LEMMA PlacesAreDistinct ==
  /\ \A r, s : Final(r) = Final(s) => r = s
  /\ \A a, b : Staging(a) = Staging(b) => a = b
  /\ \A r, a : Final(r) # Staging(a)
  /\ \A r, a : Final(r) # NoPlace /\ Staging(a) # NoPlace
BY DEF Final, Staging, NoPlace

LEMMA RecordOneKeeps ==
  ASSUME CaseStoreInv, RecordOne
  PROVE  CaseStoreInv'
<1> USE DEF CaseStoreInv
<1>1. CaseTypeOK'
  BY CaseStoreAssumption DEF CaseTypeOK, RecordOne, Recordings, NoSave, Directory, Writing,
     Committed, csDeleteVars
<1>2. SaveIsOfPending'
  BY DEF SaveIsOfPending, NoSave, RecordOne, CaseTypeOK, csDeleteVars
<1>3. AttemptsAreCounted'
  BY DEF AttemptsAreCounted, Exists, RecordOne, csDeleteVars
<1>4. LosersAreGone'
  BY DEF LosersAreGone, RecordOne, NoSave, csDeleteVars
<1>5. StagedInOrder'
  BY DEF StagedInOrder, Exists, RecordOne, NoSave, Writing, csDeleteVars
<1>6. PublishedWasThere'
  BY DEF PublishedWasThere, Exists, RecordOne, NoSave, csDeleteVars
<1>7. FinalsAreWhole'
  BY DEF FinalsAreWhole, Exists, Whole, RecordOne, csDeleteVars
<1>8. DraftOrCase'
  BY DEF DraftOrCase, Exists, RecordOne, CaseTypeOK, csDeleteVars
<1>9. ReplayIsAlone'
  BY DEF ReplayIsAlone, RecordOne, csDeleteVars
<1>10. ReplayedCaseIsKept'
  BY DEF ReplayedCaseIsKept, HasCase, Exists, RecordOne, csDeleteVars
<1> QED
  BY <1>1, <1>2, <1>3, <1>4, <1>5, <1>6, <1>7, <1>8, <1>9, <1>10

LEMMA RecoverDraftKeeps ==
  ASSUME NEW r \in Recordings, CaseStoreInv, RecoverDraft(r)
  PROVE  CaseStoreInv'
<1> USE DEF CaseStoreInv
<1>1. CaseTypeOK'
  BY CaseStoreAssumption DEF CaseTypeOK, RecoverDraft, Recordings, NoSave, Directory, Writing,
     Committed, csDeleteVars
<1>2. SaveIsOfPending'
  BY DEF SaveIsOfPending, NoSave, RecoverDraft, csDeleteVars
<1>3. AttemptsAreCounted'
  BY DEF AttemptsAreCounted, Exists, RecoverDraft, csDeleteVars
<1>4. LosersAreGone'
  BY DEF LosersAreGone, RecoverDraft, NoSave, csDeleteVars
<1>5. StagedInOrder'
  BY DEF StagedInOrder, Exists, RecoverDraft, NoSave, Writing, csDeleteVars
<1>6. PublishedWasThere'
  BY DEF PublishedWasThere, Exists, RecoverDraft, NoSave, csDeleteVars
<1>7. FinalsAreWhole'
  BY DEF FinalsAreWhole, Exists, Whole, RecoverDraft, csDeleteVars
<1>8. DraftOrCase'
  BY DEF DraftOrCase, Exists, RecoverDraft, csDeleteVars
<1>9. ReplayIsAlone'
  BY DEF ReplayIsAlone, RecoverDraft, csDeleteVars
<1>10. ReplayedCaseIsKept'
  BY DEF ReplayedCaseIsKept, HasCase, Exists, RecoverDraft, csDeleteVars
<1> QED
  BY <1>1, <1>2, <1>3, <1>4, <1>5, <1>6, <1>7, <1>8, <1>9, <1>10

LEMMA RemoveDraftKeeps ==
  ASSUME NEW r \in Recordings, CaseStoreInv, RemoveDraft(r)
  PROVE  CaseStoreInv'
<1> USE DEF CaseStoreInv
<1>1. CaseTypeOK'
  BY DEF CaseTypeOK, RemoveDraft, Writing, Committed, csDeleteVars
<1>2. SaveIsOfPending'
  BY DEF SaveIsOfPending, NoSave, RemoveDraft, csDeleteVars
<1>3. AttemptsAreCounted'
  BY DEF AttemptsAreCounted, Exists, RemoveDraft, csDeleteVars
<1>4. LosersAreGone'
  BY DEF LosersAreGone, RemoveDraft, csDeleteVars
<1>5. StagedInOrder'
  BY DEF StagedInOrder, Exists, RemoveDraft, csDeleteVars
<1>6. PublishedWasThere'
  BY DEF PublishedWasThere, Exists, RemoveDraft, csDeleteVars
<1>7. FinalsAreWhole'
  BY DEF FinalsAreWhole, Exists, Whole, RemoveDraft, csDeleteVars
<1>8. DraftOrCase'
  BY DEF DraftOrCase, Exists, RemoveDraft, csDeleteVars
<1>9. ReplayIsAlone'
  BY DEF ReplayIsAlone, RemoveDraft, csDeleteVars
<1>10. ReplayedCaseIsKept'
  BY DEF ReplayedCaseIsKept, HasCase, Exists, RemoveDraft, csDeleteVars
<1> QED
  BY <1>1, <1>2, <1>3, <1>4, <1>5, <1>6, <1>7, <1>8, <1>9, <1>10

LEMMA BeginSaveKeeps ==
  ASSUME CaseStoreInv, BeginSave
  PROVE  CaseStoreInv'
<1> USE DEF CaseStoreInv
<1>1. CaseTypeOK'
  BY PlacesAreDistinct, CaseStoreAssumption DEF CaseTypeOK, BeginSave, Exists, CasePlaces,
     AllFiles, SaveIsOfPending, Recordings, NoSave, Directory, Writing, Committed, csDeleteVars
<1>2. SaveIsOfPending'
  BY PlacesAreDistinct, CaseStoreAssumption DEF SaveIsOfPending, NoSave, BeginSave, CaseTypeOK,
     csDeleteVars
<1>3. AttemptsAreCounted'
  BY PlacesAreDistinct, CaseStoreAssumption DEF AttemptsAreCounted, Exists, BeginSave,
     CaseTypeOK, csDeleteVars
<1>4. LosersAreGone'
  BY PlacesAreDistinct, CaseStoreAssumption DEF LosersAreGone, BeginSave, CaseTypeOK,
     AttemptsAreCounted, csDeleteVars
<1>5. StagedInOrder'
  BY PlacesAreDistinct DEF StagedInOrder, Exists, BeginSave, StagedAt, csDeleteVars
<1>6. PublishedWasThere'
  BY PlacesAreDistinct DEF PublishedWasThere, Exists, BeginSave, csDeleteVars
<1>7. FinalsAreWhole'
  BY PlacesAreDistinct DEF FinalsAreWhole, Exists, Whole, BeginSave, csDeleteVars
<1>8. DraftOrCase'
  BY PlacesAreDistinct DEF DraftOrCase, Exists, BeginSave, csDeleteVars
<1>9. ReplayIsAlone'
  BY PlacesAreDistinct DEF ReplayIsAlone, BeginSave, csDeleteVars
<1>10. ReplayedCaseIsKept'
  BY PlacesAreDistinct DEF ReplayedCaseIsKept, HasCase, Exists, BeginSave, ReplayIsAlone,
     csDeleteVars
<1> QED
  BY <1>1, <1>2, <1>3, <1>4, <1>5, <1>6, <1>7, <1>8, <1>9, <1>10

LEMMA WriteCaseKeeps ==
  ASSUME CaseStoreInv, WriteCase
  PROVE  CaseStoreInv'
<1> USE DEF CaseStoreInv
<1>1. CaseTypeOK'
  BY PlacesAreDistinct, CaseStoreAssumption DEF CaseTypeOK, WriteCase, Written, SaveGoto,
     CasePlaces, AllFiles, Exists, SaveIsOfPending, Recordings, NoSave, Directory, Writing,
     Committed, csDeleteVars
<1>2. SaveIsOfPending'
  BY PlacesAreDistinct DEF SaveIsOfPending, NoSave, WriteCase, Written, SaveGoto, CaseTypeOK,
     csDeleteVars
<1>3. AttemptsAreCounted'
  BY PlacesAreDistinct, CaseStoreAssumption DEF AttemptsAreCounted, Exists, WriteCase, Written,
     SaveGoto, SaveIsOfPending, CaseTypeOK, csDeleteVars
<1>4. LosersAreGone'
  BY PlacesAreDistinct DEF LosersAreGone, WriteCase, Written, SaveGoto, CaseTypeOK, csDeleteVars
<1>5. StagedInOrder'
  BY PlacesAreDistinct DEF StagedInOrder, Exists, WriteCase, Written, SaveGoto, StagedAt,
     AllFiles, Writing, CaseTypeOK, csDeleteVars
<1>6. PublishedWasThere'
  BY PlacesAreDistinct DEF PublishedWasThere, Exists, WriteCase, Written, SaveGoto, CaseTypeOK,
     csDeleteVars
<1>7. FinalsAreWhole'
  BY PlacesAreDistinct DEF FinalsAreWhole, Exists, Whole, WriteCase, Written, SaveGoto,
     csDeleteVars
<1>8. DraftOrCase'
  BY PlacesAreDistinct DEF DraftOrCase, Exists, WriteCase, Written, SaveGoto, csDeleteVars
<1>9. ReplayIsAlone'
  BY PlacesAreDistinct DEF ReplayIsAlone, WriteCase, Written, SaveGoto, NoSave, csDeleteVars
<1>10. ReplayedCaseIsKept'
  BY PlacesAreDistinct DEF ReplayedCaseIsKept, HasCase, Exists, WriteCase, Written, SaveGoto,
     ReplayIsAlone, NoSave, csDeleteVars
<1> QED
  BY <1>1, <1>2, <1>3, <1>4, <1>5, <1>6, <1>7, <1>8, <1>9, <1>10

LEMMA WriteManifestKeeps ==
  ASSUME CaseStoreInv, WriteManifest
  PROVE  CaseStoreInv'
<1> USE DEF CaseStoreInv
<1>1. CaseTypeOK'
  BY PlacesAreDistinct, CaseStoreAssumption DEF CaseTypeOK, WriteManifest, Written, SaveGoto,
     CasePlaces, AllFiles, Exists, SaveIsOfPending, Recordings, NoSave, Directory, Writing,
     Committed, csDeleteVars
<1>2. SaveIsOfPending'
  BY PlacesAreDistinct DEF SaveIsOfPending, NoSave, WriteManifest, Written, SaveGoto,
     CaseTypeOK, csDeleteVars
<1>3. AttemptsAreCounted'
  BY PlacesAreDistinct, CaseStoreAssumption DEF AttemptsAreCounted, Exists, WriteManifest,
     Written, SaveGoto, SaveIsOfPending, CaseTypeOK, csDeleteVars
<1>4. LosersAreGone'
  BY PlacesAreDistinct DEF LosersAreGone, WriteManifest, Written, SaveGoto, CaseTypeOK,
     csDeleteVars
<1>5. StagedInOrder'
  BY PlacesAreDistinct DEF StagedInOrder, Exists, WriteManifest, Written, SaveGoto, StagedAt,
     AllFiles, Writing, CaseTypeOK, csDeleteVars
<1>6. PublishedWasThere'
  BY PlacesAreDistinct DEF PublishedWasThere, Exists, WriteManifest, Written, SaveGoto,
     CaseTypeOK, csDeleteVars
<1>7. FinalsAreWhole'
  BY PlacesAreDistinct DEF FinalsAreWhole, Exists, Whole, WriteManifest, Written, SaveGoto,
     csDeleteVars
<1>8. DraftOrCase'
  BY PlacesAreDistinct DEF DraftOrCase, Exists, WriteManifest, Written, SaveGoto, csDeleteVars
<1>9. ReplayIsAlone'
  BY PlacesAreDistinct DEF ReplayIsAlone, WriteManifest, Written, SaveGoto, NoSave, csDeleteVars
<1>10. ReplayedCaseIsKept'
  BY PlacesAreDistinct DEF ReplayedCaseIsKept, HasCase, Exists, WriteManifest, Written,
     SaveGoto, ReplayIsAlone, NoSave, csDeleteVars
<1> QED
  BY <1>1, <1>2, <1>3, <1>4, <1>5, <1>6, <1>7, <1>8, <1>9, <1>10

LEMMA WriteEvidenceKeeps ==
  ASSUME CaseStoreInv, WriteEvidence
  PROVE  CaseStoreInv'
<1> USE DEF CaseStoreInv
<1>1. CaseTypeOK'
  BY PlacesAreDistinct, CaseStoreAssumption DEF CaseTypeOK, WriteEvidence, Written, SaveGoto,
     CasePlaces, AllFiles, Exists, SaveIsOfPending, Recordings, NoSave, Directory, Writing,
     Committed, csDeleteVars
<1>2. SaveIsOfPending'
  BY PlacesAreDistinct DEF SaveIsOfPending, NoSave, WriteEvidence, Written, SaveGoto,
     CaseTypeOK, csDeleteVars
<1>3. AttemptsAreCounted'
  BY PlacesAreDistinct, CaseStoreAssumption DEF AttemptsAreCounted, Exists, WriteEvidence,
     Written, SaveGoto, SaveIsOfPending, CaseTypeOK, csDeleteVars
<1>4. LosersAreGone'
  BY PlacesAreDistinct DEF LosersAreGone, WriteEvidence, Written, SaveGoto, CaseTypeOK,
     csDeleteVars
<1>5. StagedInOrder'
  BY PlacesAreDistinct DEF StagedInOrder, Exists, WriteEvidence, Written, SaveGoto, StagedAt,
     AllFiles, Writing, CaseTypeOK, csDeleteVars
<1>6. PublishedWasThere'
  BY PlacesAreDistinct DEF PublishedWasThere, Exists, WriteEvidence, Written, SaveGoto,
     CaseTypeOK, csDeleteVars
<1>7. FinalsAreWhole'
  BY PlacesAreDistinct DEF FinalsAreWhole, Exists, Whole, WriteEvidence, Written, SaveGoto,
     csDeleteVars
<1>8. DraftOrCase'
  BY PlacesAreDistinct DEF DraftOrCase, Exists, WriteEvidence, Written, SaveGoto, csDeleteVars
<1>9. ReplayIsAlone'
  BY PlacesAreDistinct DEF ReplayIsAlone, WriteEvidence, Written, SaveGoto, NoSave, csDeleteVars
<1>10. ReplayedCaseIsKept'
  BY PlacesAreDistinct DEF ReplayedCaseIsKept, HasCase, Exists, WriteEvidence, Written,
     SaveGoto, ReplayIsAlone, NoSave, csDeleteVars
<1> QED
  BY <1>1, <1>2, <1>3, <1>4, <1>5, <1>6, <1>7, <1>8, <1>9, <1>10

LEMMA BuildIndexKeeps ==
  ASSUME CaseStoreInv, BuildIndex
  PROVE  CaseStoreInv'
<1> USE DEF CaseStoreInv
<1>1. CaseTypeOK'
  BY DEF CaseTypeOK, BuildIndex, SaveGoto, Writing, Committed, csDeleteVars
<1>2. SaveIsOfPending'
  BY DEF SaveIsOfPending, NoSave, BuildIndex, SaveGoto, CaseTypeOK, csDeleteVars
<1>3. AttemptsAreCounted'
  BY DEF AttemptsAreCounted, Exists, BuildIndex, SaveGoto, csDeleteVars
<1>4. LosersAreGone'
  BY DEF LosersAreGone, BuildIndex, SaveGoto, CaseTypeOK, csDeleteVars
<1>5. StagedInOrder'
  BY DEF StagedInOrder, Exists, BuildIndex, SaveGoto, StagedAt, Writing, CaseTypeOK,
     csDeleteVars
<1>6. PublishedWasThere'
  BY DEF PublishedWasThere, Exists, BuildIndex, SaveGoto, CaseTypeOK, csDeleteVars
<1>7. FinalsAreWhole'
  BY DEF FinalsAreWhole, Exists, Whole, BuildIndex, SaveGoto, csDeleteVars
<1>8. DraftOrCase'
  BY DEF DraftOrCase, Exists, BuildIndex, SaveGoto, csDeleteVars
<1>9. ReplayIsAlone'
  BY DEF ReplayIsAlone, BuildIndex, SaveGoto, NoSave, csDeleteVars
<1>10. ReplayedCaseIsKept'
  BY DEF ReplayedCaseIsKept, HasCase, Exists, BuildIndex, SaveGoto, csDeleteVars
<1> QED
  BY <1>1, <1>2, <1>3, <1>4, <1>5, <1>6, <1>7, <1>8, <1>9, <1>10

LEMMA CommitCaseKeeps ==
  ASSUME CaseStoreInv, CommitCase
  PROVE  CaseStoreInv'
<1> USE DEF CaseStoreInv
<1>1. CaseTypeOK'
  BY PlacesAreDistinct, CaseStoreAssumption DEF CaseTypeOK, CommitCase, SaveGoto, CasePlaces,
     Exists, SaveIsOfPending, Recordings, NoSave, Directory, Writing, Committed, csDeleteVars
<1>2. SaveIsOfPending'
  BY PlacesAreDistinct DEF SaveIsOfPending, NoSave, CommitCase, SaveGoto, CaseTypeOK,
     csDeleteVars
<1>3. AttemptsAreCounted'
  BY PlacesAreDistinct DEF AttemptsAreCounted, Exists, CommitCase, SaveGoto, csDeleteVars
<1>4. LosersAreGone'
  BY PlacesAreDistinct DEF LosersAreGone, CommitCase, SaveGoto, CaseTypeOK, csDeleteVars
<1>5. StagedInOrder'
  BY PlacesAreDistinct DEF StagedInOrder, Exists, CommitCase, SaveGoto, Writing, CaseTypeOK,
     csDeleteVars
<1>6. PublishedWasThere'
  BY PlacesAreDistinct DEF PublishedWasThere, Exists, CommitCase, SaveGoto, csDeleteVars
<1>7. FinalsAreWhole'
  BY PlacesAreDistinct DEF FinalsAreWhole, Exists, Whole, CommitCase, SaveGoto, StagedInOrder,
     StagedAt, Writing, csDeleteVars
<1>8. DraftOrCase'
  BY PlacesAreDistinct DEF DraftOrCase, Exists, CommitCase, SaveGoto, csDeleteVars
<1>9. ReplayIsAlone'
  BY PlacesAreDistinct DEF ReplayIsAlone, CommitCase, SaveGoto, NoSave, csDeleteVars
<1>10. ReplayedCaseIsKept'
  BY PlacesAreDistinct DEF ReplayedCaseIsKept, HasCase, Exists, CommitCase, SaveGoto,
     ReplayIsAlone, NoSave, csDeleteVars
<1> QED
  BY <1>1, <1>2, <1>3, <1>4, <1>5, <1>6, <1>7, <1>8, <1>9, <1>10

LEMMA PruneCasesKeeps ==
  ASSUME CaseStoreInv, PruneCases
  PROVE  CaseStoreInv'
<1> USE DEF CaseStoreInv
<1>1. CaseTypeOK'
  BY PlacesAreDistinct, CaseStoreAssumption DEF CaseTypeOK, PruneCases, SaveGoto, SavedIn,
     CasePlaces, Recordings, Writing, Committed, Excess, csDeleteVars
<1>2. SaveIsOfPending'
  BY PlacesAreDistinct DEF SaveIsOfPending, NoSave, PruneCases, SaveGoto, CaseTypeOK,
     csDeleteVars
<1>3. AttemptsAreCounted'
  BY PlacesAreDistinct DEF AttemptsAreCounted, Exists, PruneCases, SaveGoto, csDeleteVars
<1>4. LosersAreGone'
  BY PlacesAreDistinct DEF LosersAreGone, PruneCases, SaveGoto, SavedIn, Recordings, Excess,
     Exists, CaseTypeOK, csDeleteVars
<1>5. StagedInOrder'
  BY PlacesAreDistinct DEF StagedInOrder, Exists, PruneCases, SaveGoto, Writing, CaseTypeOK,
     csDeleteVars
<1>6. PublishedWasThere'
  BY PlacesAreDistinct DEF PublishedWasThere, Exists, PruneCases, SaveGoto, csDeleteVars
<1>7. FinalsAreWhole'
  BY PlacesAreDistinct DEF FinalsAreWhole, Exists, Whole, PruneCases, SaveGoto, csDeleteVars
<1>8. DraftOrCase'
  BY PlacesAreDistinct DEF DraftOrCase, Exists, PruneCases, SaveGoto, csDeleteVars
<1>9. ReplayIsAlone'
  BY PlacesAreDistinct DEF ReplayIsAlone, PruneCases, SaveGoto, NoSave, csDeleteVars
<1>10. ReplayedCaseIsKept'
  BY PlacesAreDistinct DEF ReplayedCaseIsKept, HasCase, Exists, PruneCases, SaveGoto,
     csDeleteVars
<1> QED
  BY <1>1, <1>2, <1>3, <1>4, <1>5, <1>6, <1>7, <1>8, <1>9, <1>10

LEMMA PruneRemoveKeeps ==
  ASSUME NEW place \in csDoomed, CaseStoreInv, PruneRemove(place)
  PROVE  CaseStoreInv'
<1> USE DEF CaseStoreInv
<1>1. CaseTypeOK'
  BY PlacesAreDistinct DEF CaseTypeOK, PruneRemove, Unlinked, Without, Directory, Exists,
     csDeleteVars
<1>2. SaveIsOfPending'
  BY PlacesAreDistinct DEF SaveIsOfPending, NoSave, PruneRemove, Unlinked, Without, csDeleteVars
<1>3. AttemptsAreCounted'
  BY PlacesAreDistinct DEF AttemptsAreCounted, Exists, PruneRemove, Unlinked, Without,
     csDeleteVars
<1>4. LosersAreGone'
  BY PlacesAreDistinct DEF LosersAreGone, PruneRemove, Unlinked, Without, csDeleteVars
<1>5. StagedInOrder'
  BY PlacesAreDistinct DEF StagedInOrder, Exists, PruneRemove, Unlinked, Without, Writing,
     csDeleteVars
<1>6. PublishedWasThere'
  BY PlacesAreDistinct DEF PublishedWasThere, Exists, PruneRemove, Unlinked, Without,
     LosersAreGone, CaseTypeOK, SaveIsOfPending, Recordings, csDeleteVars
<1>7. FinalsAreWhole'
  BY PlacesAreDistinct DEF FinalsAreWhole, Exists, Whole, PruneRemove, Unlinked, Without,
     LosersAreGone, csDeleteVars
<1>8. DraftOrCase'
  BY PlacesAreDistinct, CaseStoreAssumption DEF DraftOrCase, Exists, PruneRemove, Unlinked,
     Without, LosersAreGone, CaseTypeOK, Recordings, csDeleteVars
<1>9. ReplayIsAlone'
  BY PlacesAreDistinct DEF ReplayIsAlone, PruneRemove, Unlinked, Without, NoSave, csDeleteVars
<1>10. ReplayedCaseIsKept'
  BY PlacesAreDistinct DEF ReplayedCaseIsKept, HasCase, Exists, PruneRemove, Unlinked, Without,
     ReplayIsAlone, NoSave, csDeleteVars
<1> QED
  BY <1>1, <1>2, <1>3, <1>4, <1>5, <1>6, <1>7, <1>8, <1>9, <1>10

LEMMA PublishCaseKeeps ==
  ASSUME CaseStoreInv, PublishCase
  PROVE  CaseStoreInv'
<1> USE DEF CaseStoreInv
<1>1. CaseTypeOK'
  BY DEF CaseTypeOK, PublishCase, SaveGoto, Writing, Committed, csDeleteVars
<1>2. SaveIsOfPending'
  BY DEF SaveIsOfPending, NoSave, PublishCase, SaveGoto, CaseTypeOK, csDeleteVars
<1>3. AttemptsAreCounted'
  BY DEF AttemptsAreCounted, Exists, PublishCase, SaveGoto, csDeleteVars
<1>4. LosersAreGone'
  BY DEF LosersAreGone, PublishCase, SaveGoto, CaseTypeOK, csDeleteVars
<1>5. StagedInOrder'
  BY DEF StagedInOrder, Exists, PublishCase, SaveGoto, Writing, CaseTypeOK, csDeleteVars
<1>6. PublishedWasThere'
  BY DEF PublishedWasThere, Exists, PublishCase, SaveGoto, CaseTypeOK, csDeleteVars
<1>7. FinalsAreWhole'
  BY DEF FinalsAreWhole, Exists, Whole, PublishCase, SaveGoto, csDeleteVars
<1>8. DraftOrCase'
  BY DEF DraftOrCase, Exists, PublishCase, SaveGoto, PublishedWasThere, csDeleteVars
<1>9. ReplayIsAlone'
  BY DEF ReplayIsAlone, PublishCase, SaveGoto, NoSave, csDeleteVars
<1>10. ReplayedCaseIsKept'
  BY DEF ReplayedCaseIsKept, HasCase, Exists, PublishCase, SaveGoto, csDeleteVars
<1> QED
  BY <1>1, <1>2, <1>3, <1>4, <1>5, <1>6, <1>7, <1>8, <1>9, <1>10

LEMMA ClearSaveKeeps ==
  ASSUME CaseStoreInv, ClearSave
  PROVE  CaseStoreInv'
<1> USE DEF CaseStoreInv
<1>1. CaseTypeOK'
  BY CaseStoreAssumption DEF CaseTypeOK, ClearSave, Recordings, NoSave, Directory, Writing,
     Committed, csDeleteVars
<1>2. SaveIsOfPending'
  BY DEF SaveIsOfPending, NoSave, ClearSave, csDeleteVars
<1>3. AttemptsAreCounted'
  BY DEF AttemptsAreCounted, Exists, ClearSave, csDeleteVars
<1>4. LosersAreGone'
  BY DEF LosersAreGone, ClearSave, NoSave, csDeleteVars
<1>5. StagedInOrder'
  BY DEF StagedInOrder, Exists, ClearSave, NoSave, Writing, csDeleteVars
<1>6. PublishedWasThere'
  BY DEF PublishedWasThere, Exists, ClearSave, NoSave, csDeleteVars
<1>7. FinalsAreWhole'
  BY DEF FinalsAreWhole, Exists, Whole, ClearSave, csDeleteVars
<1>8. DraftOrCase'
  BY DEF DraftOrCase, Exists, ClearSave, csDeleteVars
<1>9. ReplayIsAlone'
  BY DEF ReplayIsAlone, ClearSave, csDeleteVars
<1>10. ReplayedCaseIsKept'
  BY DEF ReplayedCaseIsKept, HasCase, Exists, ClearSave, csDeleteVars
<1> QED
  BY <1>1, <1>2, <1>3, <1>4, <1>5, <1>6, <1>7, <1>8, <1>9, <1>10

LEMMA AbortSaveKeeps ==
  ASSUME CaseStoreInv, AbortSave
  PROVE  CaseStoreInv'
<1> USE DEF CaseStoreInv
<1>1. CaseTypeOK'
  BY PlacesAreDistinct, CaseStoreAssumption DEF CaseTypeOK, AbortSave, Without, Recordings,
     NoSave, Directory, Writing, Committed, csDeleteVars
<1>2. SaveIsOfPending'
  BY PlacesAreDistinct DEF SaveIsOfPending, NoSave, AbortSave, Without, csDeleteVars
<1>3. AttemptsAreCounted'
  BY PlacesAreDistinct DEF AttemptsAreCounted, Exists, AbortSave, Without, csDeleteVars
<1>4. LosersAreGone'
  BY PlacesAreDistinct DEF LosersAreGone, AbortSave, Without, NoSave, csDeleteVars
<1>5. StagedInOrder'
  BY PlacesAreDistinct DEF StagedInOrder, Exists, AbortSave, Without, NoSave, Writing,
     csDeleteVars
<1>6. PublishedWasThere'
  BY PlacesAreDistinct DEF PublishedWasThere, Exists, AbortSave, Without, NoSave, csDeleteVars
<1>7. FinalsAreWhole'
  BY PlacesAreDistinct DEF FinalsAreWhole, Exists, Whole, AbortSave, Without, csDeleteVars
<1>8. DraftOrCase'
  BY PlacesAreDistinct DEF DraftOrCase, Exists, AbortSave, Without, csDeleteVars
<1>9. ReplayIsAlone'
  BY PlacesAreDistinct DEF ReplayIsAlone, AbortSave, Without, csDeleteVars
<1>10. ReplayedCaseIsKept'
  BY PlacesAreDistinct DEF ReplayedCaseIsKept, HasCase, Exists, AbortSave, Without,
     ReplayIsAlone, NoSave, csDeleteVars
<1> QED
  BY <1>1, <1>2, <1>3, <1>4, <1>5, <1>6, <1>7, <1>8, <1>9, <1>10

LEMMA DeleteCaseCheckKeeps ==
  ASSUME NEW place \in DOMAIN csDirs, CaseStoreInv, DeleteCaseCheck(place)
  PROVE  CaseStoreInv'
<1> USE DEF CaseStoreInv
<1>1. CaseTypeOK'
  BY PlacesAreDistinct, CaseStoreAssumption DEF CaseTypeOK, DeleteCaseCheck, Losing, SavedIn,
     SaveIsOfPending, CasePlaces, MayDelete, HasCase, Exists, Recordings, NoSave, Directory,
     Writing, Committed, csDeleteVars
<1>2. SaveIsOfPending'
  BY PlacesAreDistinct DEF SaveIsOfPending, NoSave, DeleteCaseCheck, Losing, csDeleteVars
<1>3. AttemptsAreCounted'
  BY PlacesAreDistinct DEF AttemptsAreCounted, Exists, DeleteCaseCheck, Losing, MayDelete,
     HasCase, csDeleteVars
<1>4. LosersAreGone'
  BY PlacesAreDistinct DEF LosersAreGone, DeleteCaseCheck, Losing, MayDelete, HasCase, SavedIn,
     Exists, Recordings, GateFree, csDeleteVars
<1>5. StagedInOrder'
  BY PlacesAreDistinct DEF StagedInOrder, Exists, DeleteCaseCheck, Losing, csDeleteVars
<1>6. PublishedWasThere'
  BY PlacesAreDistinct DEF PublishedWasThere, Exists, DeleteCaseCheck, Losing, csDeleteVars
<1>7. FinalsAreWhole'
  BY PlacesAreDistinct DEF FinalsAreWhole, Exists, Whole, DeleteCaseCheck, Losing, csDeleteVars
<1>8. DraftOrCase'
  BY PlacesAreDistinct DEF DraftOrCase, Exists, DeleteCaseCheck, Losing, csDeleteVars
<1>9. ReplayIsAlone'
  BY PlacesAreDistinct DEF ReplayIsAlone, DeleteCaseCheck, Losing, MayDelete, InUse, GateFree,
     LosersAreGone, HasCase, Exists, csDeleteVars
<1>10. ReplayedCaseIsKept'
  BY PlacesAreDistinct DEF ReplayedCaseIsKept, HasCase, Exists, DeleteCaseCheck, Losing,
     csDeleteVars
<1> QED
  BY <1>1, <1>2, <1>3, <1>4, <1>5, <1>6, <1>7, <1>8, <1>9, <1>10

LEMMA DeleteCaseOpenKeeps ==
  ASSUME CaseStoreInv, DeleteCaseOpen
  PROVE  CaseStoreInv'
<1> USE DEF CaseStoreInv
<1>1. CaseTypeOK'
  BY DEF CaseTypeOK, DeleteCaseOpen, Exists, Directory, csDeleteVars
<1>2. SaveIsOfPending'
  BY DEF SaveIsOfPending, NoSave, DeleteCaseOpen, csDeleteVars
<1>3. AttemptsAreCounted'
  BY DEF AttemptsAreCounted, Exists, DeleteCaseOpen, csDeleteVars
<1>4. LosersAreGone'
  BY DEF LosersAreGone, DeleteCaseOpen, NoPlace, csDeleteVars
<1>5. StagedInOrder'
  BY DEF StagedInOrder, Exists, DeleteCaseOpen, csDeleteVars
<1>6. PublishedWasThere'
  BY DEF PublishedWasThere, Exists, DeleteCaseOpen, csDeleteVars
<1>7. FinalsAreWhole'
  BY DEF FinalsAreWhole, Exists, Whole, DeleteCaseOpen, csDeleteVars
<1>8. DraftOrCase'
  BY DEF DraftOrCase, Exists, DeleteCaseOpen, csDeleteVars
<1>9. ReplayIsAlone'
  BY DEF ReplayIsAlone, DeleteCaseOpen, NoPlace, csDeleteVars
<1>10. ReplayedCaseIsKept'
  BY DEF ReplayedCaseIsKept, HasCase, Exists, DeleteCaseOpen, csDeleteVars
<1> QED
  BY <1>1, <1>2, <1>3, <1>4, <1>5, <1>6, <1>7, <1>8, <1>9, <1>10

LEMMA DeleteCaseUnlinkKeeps ==
  ASSUME NEW file \in AllFiles, CaseStoreInv, DeleteCaseUnlink(file)
  PROVE  CaseStoreInv'
<1> USE DEF CaseStoreInv
<1>1. CaseTypeOK'
  BY PlacesAreDistinct DEF CaseTypeOK, DeleteCaseUnlink, Unlinked, Directory, Exists,
     csDeleteVars
<1>2. SaveIsOfPending'
  BY PlacesAreDistinct DEF SaveIsOfPending, NoSave, DeleteCaseUnlink, Unlinked, csDeleteVars
<1>3. AttemptsAreCounted'
  BY PlacesAreDistinct DEF AttemptsAreCounted, Exists, DeleteCaseUnlink, Unlinked, csDeleteVars
<1>4. LosersAreGone'
  BY PlacesAreDistinct DEF LosersAreGone, DeleteCaseUnlink, Unlinked, csDeleteVars
<1>5. StagedInOrder'
  BY PlacesAreDistinct DEF StagedInOrder, Exists, DeleteCaseUnlink, Unlinked, LosersAreGone,
     Writing, csDeleteVars
<1>6. PublishedWasThere'
  BY PlacesAreDistinct DEF PublishedWasThere, Exists, DeleteCaseUnlink, Unlinked, csDeleteVars
<1>7. FinalsAreWhole'
  BY PlacesAreDistinct DEF FinalsAreWhole, Exists, Whole, DeleteCaseUnlink, Unlinked,
     LosersAreGone, csDeleteVars
<1>8. DraftOrCase'
  BY PlacesAreDistinct DEF DraftOrCase, Exists, DeleteCaseUnlink, Unlinked, csDeleteVars
<1>9. ReplayIsAlone'
  BY PlacesAreDistinct DEF ReplayIsAlone, DeleteCaseUnlink, Unlinked, Exists, csDeleteVars
<1>10. ReplayedCaseIsKept'
  BY PlacesAreDistinct DEF ReplayedCaseIsKept, HasCase, Exists, DeleteCaseUnlink, Unlinked,
     ReplayIsAlone, csDeleteVars
<1> QED
  BY <1>1, <1>2, <1>3, <1>4, <1>5, <1>6, <1>7, <1>8, <1>9, <1>10

LEMMA DeleteCaseRmdirKeeps ==
  ASSUME CaseStoreInv, DeleteCaseRmdir
  PROVE  CaseStoreInv'
<1> USE DEF CaseStoreInv
<1>1. CaseTypeOK'
  BY PlacesAreDistinct DEF CaseTypeOK, DeleteCaseRmdir, Without, csDeleteVars
<1>2. SaveIsOfPending'
  BY PlacesAreDistinct DEF SaveIsOfPending, NoSave, DeleteCaseRmdir, Without, csDeleteVars
<1>3. AttemptsAreCounted'
  BY PlacesAreDistinct DEF AttemptsAreCounted, Exists, DeleteCaseRmdir, Without, csDeleteVars
<1>4. LosersAreGone'
  BY PlacesAreDistinct DEF LosersAreGone, DeleteCaseRmdir, Without, csDeleteVars
<1>5. StagedInOrder'
  BY PlacesAreDistinct DEF StagedInOrder, Exists, DeleteCaseRmdir, Without, LosersAreGone,
     Writing, csDeleteVars
<1>6. PublishedWasThere'
  BY PlacesAreDistinct DEF PublishedWasThere, Exists, DeleteCaseRmdir, Without, LosersAreGone,
     CaseTypeOK, SaveIsOfPending, Recordings, NoSave, csDeleteVars
<1>7. FinalsAreWhole'
  BY PlacesAreDistinct DEF FinalsAreWhole, Exists, Whole, DeleteCaseRmdir, Without, csDeleteVars
<1>8. DraftOrCase'
  BY PlacesAreDistinct, CaseStoreAssumption DEF DraftOrCase, Exists, DeleteCaseRmdir, Without,
     LosersAreGone, CaseTypeOK, Recordings, csDeleteVars
<1>9. ReplayIsAlone'
  BY PlacesAreDistinct DEF ReplayIsAlone, DeleteCaseRmdir, Without, CaseTypeOK, CasePlaces,
     csDeleteVars
<1>10. ReplayedCaseIsKept'
  BY PlacesAreDistinct DEF ReplayedCaseIsKept, HasCase, Exists, DeleteCaseRmdir, Without,
     ReplayIsAlone, csDeleteVars
<1> QED
  BY <1>1, <1>2, <1>3, <1>4, <1>5, <1>6, <1>7, <1>8, <1>9, <1>10

LEMMA ReplayStoredKeeps ==
  ASSUME NEW place \in DOMAIN csDirs, CaseStoreInv, ReplayStored(place)
  PROVE  CaseStoreInv'
<1> USE DEF CaseStoreInv
<1>1. CaseTypeOK'
  BY PlacesAreDistinct, CaseStoreAssumption DEF CaseTypeOK, ReplayStored, Directory, Recordings,
     csDeleteVars
<1>2. SaveIsOfPending'
  BY PlacesAreDistinct DEF SaveIsOfPending, NoSave, ReplayStored, csDeleteVars
<1>3. AttemptsAreCounted'
  BY PlacesAreDistinct DEF AttemptsAreCounted, Exists, ReplayStored, csDeleteVars
<1>4. LosersAreGone'
  BY PlacesAreDistinct DEF LosersAreGone, ReplayStored, csDeleteVars
<1>5. StagedInOrder'
  BY PlacesAreDistinct DEF StagedInOrder, Exists, ReplayStored, csDeleteVars
<1>6. PublishedWasThere'
  BY PlacesAreDistinct DEF PublishedWasThere, Exists, ReplayStored, csDeleteVars
<1>7. FinalsAreWhole'
  BY PlacesAreDistinct DEF FinalsAreWhole, Exists, Whole, ReplayStored, csDeleteVars
<1>8. DraftOrCase'
  BY PlacesAreDistinct DEF DraftOrCase, Exists, ReplayStored, csDeleteVars
<1>9. ReplayIsAlone'
  BY PlacesAreDistinct DEF ReplayIsAlone, ReplayStored, GateFree, LosersAreGone, CaseTypeOK,
     CasePlaces, Recordings, csDeleteVars
<1>10. ReplayedCaseIsKept'
  BY PlacesAreDistinct DEF ReplayedCaseIsKept, HasCase, Exists, ReplayStored, csDeleteVars
<1> QED
  BY <1>1, <1>2, <1>3, <1>4, <1>5, <1>6, <1>7, <1>8, <1>9, <1>10

LEMMA StoredReplayEndsKeeps ==
  ASSUME CaseStoreInv, StoredReplayEnds
  PROVE  CaseStoreInv'
<1> USE DEF CaseStoreInv
<1>1. CaseTypeOK'
  BY CaseStoreAssumption DEF CaseTypeOK, StoredReplayEnds, csDeleteVars
<1>2. SaveIsOfPending'
  BY DEF SaveIsOfPending, NoSave, StoredReplayEnds, csDeleteVars
<1>3. AttemptsAreCounted'
  BY DEF AttemptsAreCounted, Exists, StoredReplayEnds, csDeleteVars
<1>4. LosersAreGone'
  BY DEF LosersAreGone, StoredReplayEnds, csDeleteVars
<1>5. StagedInOrder'
  BY DEF StagedInOrder, Exists, StoredReplayEnds, csDeleteVars
<1>6. PublishedWasThere'
  BY DEF PublishedWasThere, Exists, StoredReplayEnds, csDeleteVars
<1>7. FinalsAreWhole'
  BY DEF FinalsAreWhole, Exists, Whole, StoredReplayEnds, csDeleteVars
<1>8. DraftOrCase'
  BY DEF DraftOrCase, Exists, StoredReplayEnds, csDeleteVars
<1>9. ReplayIsAlone'
  BY DEF ReplayIsAlone, StoredReplayEnds, csDeleteVars
<1>10. ReplayedCaseIsKept'
  BY DEF ReplayedCaseIsKept, HasCase, Exists, StoredReplayEnds, csDeleteVars
<1> QED
  BY <1>1, <1>2, <1>3, <1>4, <1>5, <1>6, <1>7, <1>8, <1>9, <1>10

LEMMA LoseAgentKeeps ==
  ASSUME CaseStoreInv, LoseAgent
  PROVE  CaseStoreInv'
<1> USE DEF CaseStoreInv
<1>1. CaseTypeOK'
  BY PlacesAreDistinct, CaseStoreAssumption DEF CaseTypeOK, LoseAgent, Recordings, NoSave,
     Directory, Writing, Committed, csDeleteVars
<1>2. SaveIsOfPending'
  BY PlacesAreDistinct DEF SaveIsOfPending, NoSave, LoseAgent, csDeleteVars
<1>3. AttemptsAreCounted'
  BY PlacesAreDistinct DEF AttemptsAreCounted, Exists, LoseAgent, csDeleteVars
<1>4. LosersAreGone'
  BY PlacesAreDistinct DEF LosersAreGone, LoseAgent, CaseTypeOK, CasePlaces, NoSave,
     csDeleteVars
<1>5. StagedInOrder'
  BY PlacesAreDistinct DEF StagedInOrder, Exists, LoseAgent, NoSave, Writing, csDeleteVars
<1>6. PublishedWasThere'
  BY PlacesAreDistinct DEF PublishedWasThere, Exists, LoseAgent, NoSave, csDeleteVars
<1>7. FinalsAreWhole'
  BY PlacesAreDistinct DEF FinalsAreWhole, Exists, Whole, LoseAgent, csDeleteVars
<1>8. DraftOrCase'
  BY PlacesAreDistinct DEF DraftOrCase, Exists, LoseAgent, csDeleteVars
<1>9. ReplayIsAlone'
  BY PlacesAreDistinct DEF ReplayIsAlone, LoseAgent, csDeleteVars
<1>10. ReplayedCaseIsKept'
  BY PlacesAreDistinct DEF ReplayedCaseIsKept, HasCase, Exists, LoseAgent, csDeleteVars
<1> QED
  BY <1>1, <1>2, <1>3, <1>4, <1>5, <1>6, <1>7, <1>8, <1>9, <1>10

LEMMA CaseStoreInitInv == CaseStoreInit => CaseStoreInv
<1> SUFFICES ASSUME CaseStoreInit PROVE CaseStoreInv
  OBVIOUS
<1>1. DOMAIN csDirs = {}
  BY DEF CaseStoreInit
<1>2. CaseTypeOK
  BY <1>1, CaseStoreAssumption DEF CaseStoreInit, CaseTypeOK, NoSave
<1>3. SaveIsOfPending /\ ReplayIsAlone
  BY <1>1 DEF CaseStoreInit, SaveIsOfPending, ReplayIsAlone, NoSave
<1>4. AttemptsAreCounted /\ LosersAreGone
  BY <1>1, PlacesAreDistinct DEF CaseStoreInit, AttemptsAreCounted, LosersAreGone, NoSave, Exists
<1>5. StagedInOrder /\ PublishedWasThere
  BY <1>1 DEF CaseStoreInit, StagedInOrder, PublishedWasThere, NoSave, Writing
<1>6. FinalsAreWhole /\ DraftOrCase /\ ReplayedCaseIsKept
  BY <1>1 DEF CaseStoreInit, FinalsAreWhole, DraftOrCase, ReplayedCaseIsKept, Exists
<1> QED
  BY <1>2, <1>3, <1>4, <1>5, <1>6 DEF CaseStoreInv

LEMMA CaseStoreStepsKeep == CaseStoreInv /\ [CaseStoreNext]_caseStoreVars => CaseStoreInv'
<1> SUFFICES ASSUME CaseStoreInv, [CaseStoreNext]_caseStoreVars PROVE CaseStoreInv'
  OBVIOUS
<1>1. CASE UNCHANGED caseStoreVars
  BY <1>1 DEF caseStoreVars, csDeleteVars, CaseStoreInv, CaseTypeOK, SaveIsOfPending,
     AttemptsAreCounted,
              LosersAreGone, StagedInOrder, PublishedWasThere, FinalsAreWhole, DraftOrCase,
              ReplayIsAlone, ReplayedCaseIsKept, Exists, HasCase, Whole
<1>2. CASE RecordOne \/ \E r \in Recordings : RecoverDraft(r) \/ RemoveDraft(r)
  BY <1>2, RecordOneKeeps, RecoverDraftKeeps, RemoveDraftKeeps
<1>3. CASE \/ BeginSave \/ WriteCase \/ WriteManifest \/ BuildIndex \/ WriteEvidence \/ CommitCase
           \/ PruneCases \/ PublishCase \/ ClearSave \/ AbortSave
           \/ \E place \in csDoomed : PruneRemove(place)
  BY <1>3, BeginSaveKeeps, WriteCaseKeeps, WriteManifestKeeps, BuildIndexKeeps, WriteEvidenceKeeps,
     CommitCaseKeeps, PruneCasesKeeps, PublishCaseKeeps, ClearSaveKeeps, AbortSaveKeeps,
     PruneRemoveKeeps
<1>4. CASE \/ \E place \in DOMAIN csDirs : DeleteCaseCheck(place) \/ ReplayStored(place)
           \/ \E file \in AllFiles : DeleteCaseUnlink(file)
           \/ DeleteCaseOpen \/ DeleteCaseRmdir \/ StoredReplayEnds \/ LoseAgent
  BY <1>4, DeleteCaseCheckKeeps, ReplayStoredKeeps, DeleteCaseUnlinkKeeps, DeleteCaseOpenKeeps,
     DeleteCaseRmdirKeeps, StoredReplayEndsKeeps, LoseAgentKeeps
<1> QED
  BY <1>1, <1>2, <1>3, <1>4 DEF CaseStoreNext, Recordings

LEMMA CaseStoreInvIsSafe == CaseStoreInv => CasesSafe
<1> SUFFICES ASSUME CaseStoreInv PROVE CasesSafe
  OBVIOUS
<1>1. \A r \in 1 .. csCount.recordings : r \in Recordings
  BY CaseStoreAssumption DEF CaseStoreInv, CaseTypeOK, Recordings
<1>2. NothingIsLost
  BY <1>1 DEF CaseStoreInv, NothingIsLost, FinalsAreWhole, DraftOrCase
<1> QED
  BY <1>2 DEF CaseStoreInv, CasesSafe

\* The invariant of the case store holds always, with saves and deletions that stop half-way
\* (recording_store.go: persistRecording, pruneCases, DeleteCase).
THEOREM CaseStoreInvariant == CaseStoreSpec => []CaseStoreInv
BY CaseStoreInitInv, CaseStoreStepsKeep, PTL DEF CaseStoreSpec

------------------------------------------------------------------------------
(* The recovery of an exploration: the answers to special scenes, and the ladder back *)
(* to the target.                                                                     *)

RecoveryPlaces == {"look", "scene", "off", "turn", "stopped"}

LoopType == [ad : BOOLEAN, number : 0 .. MaxNumber, shop : BOOLEAN, quiet : BOOLEAN,
             stuck : SceneActivities \cup {"none"}, cold : BOOLEAN, pending : {"none", "undo"}]

RecoveryTypeOK ==
  /\ rAt \in [pc : RecoveryPlaces, scene : Scenes \cup {NoScene}]
  /\ rAt.pc \in {"scene", "off", "turn"} => rAt.scene \in Scenes
  /\ rLoop \in LoopType
  /\ rTries \in [SpecialKeys -> Nat]
  /\ rEscape \in [activity : SceneActivities \cup {"none"}, tries : Nat, cooling : BOOLEAN]
  /\ rDone \in [Episodes -> Nat]

IsAd(s) == Kind(s) = "ad"
Limit(k) == IF k[1] = "load_failure" /\ MaxAttempts > 2 THEN 2 ELSE MaxAttempts

\* An ad is answered while its encounter lasts; its number is that of the attempts that count.
AdsAreEncounters ==
  /\ rPc = "scene" /\ IsAd(rScene) => rLoop.ad
  /\ ~rLoop.ad => \A s \in Scenes : IsAd(s) => rDone[Key(s, 0)] = 0

\* Each answer was an attempt on the scene's present key, and no key has more than its limit.
AnswersAreAttempts ==
  \A s \in Scenes : (IsAd(s) => rLoop.ad) => rDone[Key(s, 0)] <= rTries[Key(s, rLoop.number)]

\* The ladder has pressed BACK on the activity whose rungs it counts.
RungsAreOfBack == rEscape.tries > 0 => rBacked = rEscape.activity

RecoveryInv ==
  RecoveryTypeOK /\ AdsAreEncounters /\ AnswersAreAttempts /\ RungsAreOfBack /\ RecoverySafe

\* The keys: an episode is of one kind, and scenes that share it share a key in each encounter.
LEMMA KeysAreOfEpisodes ==
  /\ \A s \in Scenes, n \in 0 .. MaxNumber : Key(s, n) \in SpecialKeys
  /\ \A s \in Scenes : Key(s, 0) \in Episodes /\ Key(s, 0)[1] = Kind(s)
  /\ \A k \in Episodes : \E s \in Scenes : k = Key(s, 0)
  /\ \A s, t \in Scenes, n \in 0 .. MaxNumber : Key(s, 0) = Key(t, 0) => Key(s, n) = Key(t, n)
<1> HIDE DEF Kind
<1>1. \A s \in Scenes, n \in 0 .. MaxNumber : Key(s, n) \in SpecialKeys
  BY DEF SpecialKeys
<1>2. \A s \in Scenes : Key(s, 0) \in Episodes /\ Key(s, 0)[1] = Kind(s)
  BY DEF Episodes, Key
<1>3. \A k \in Episodes : \E s \in Scenes : k = Key(s, 0)
  BY DEF Episodes
<1>4. \A s, t \in Scenes, n \in 0 .. MaxNumber : Key(s, 0) = Key(t, 0) => Key(s, n) = Key(t, n)
  BY DEF Key
<1> QED
  BY <1>1, <1>2, <1>3, <1>4

LEMMA LimitsAreNumbers ==
  /\ MaxAttempts \in Nat \ {0} /\ MaxEscapes \in Nat \ {0} /\ MaxNumber \in Nat
  /\ \A k : Limit(k) \in Nat \ {0}
BY RecoveryAssumption DEF Limit

LEMMA RecoveryInitInv == RecoveryInit => RecoveryInv
<1> SUFFICES ASSUME RecoveryInit PROVE RecoveryInv
  OBVIOUS
<1>1. RecoveryTypeOK
  <2>1. rAt \in [pc : RecoveryPlaces, scene : Scenes \cup {NoScene}] /\ rAt.pc = "look"
    BY DEF RecoveryInit, RecoveryPlaces
  <2>2. rLoop \in LoopType
    BY LimitsAreNumbers DEF RecoveryInit, LoopType
  <2> QED
    BY <2>1, <2>2 DEF RecoveryInit, RecoveryTypeOK, None
<1>2. AdsAreEncounters
  BY KeysAreOfEpisodes DEF RecoveryInit, AdsAreEncounters, rPc
<1>3. AnswersAreAttempts
  <2>1. rLoop.number = 0 /\ rDone = [k \in Episodes |-> 0] /\ rTries = [k \in SpecialKeys |-> 0]
    BY DEF RecoveryInit, None
  <2>2. \A s \in Scenes : Key(s, 0) \in SpecialKeys /\ Key(s, 0) \in Episodes
    <3>1. 0 \in 0 .. MaxNumber
      BY LimitsAreNumbers
    <3> QED
      BY <3>1, KeysAreOfEpisodes
  <2>3. \A s \in Scenes : rDone[Key(s, 0)] = 0 /\ rTries[Key(s, 0)] = 0
    BY <2>1, <2>2
  <2> QED
    <3>1. \A s \in Scenes : rDone[Key(s, 0)] = 0 /\ rTries[Key(s, rLoop.number)] = 0
      BY <2>1, <2>3
    <3> QED
      BY <3>1 DEF AnswersAreAttempts
<1>4. RungsAreOfBack
  BY DEF RecoveryInit, RungsAreOfBack
<1>5. RecoverySafe
  <2>1. SpecialBudget
    BY LimitsAreNumbers DEF RecoveryInit, SpecialBudget, Limit
  <2>2. KillAfterBack
    BY DEF RecoveryInit, KillAfterBack, NoRestart
  <2> QED
    BY <2>1, <2>2 DEF RecoverySafe
<1> QED
  BY <1>1, <1>2, <1>3, <1>4, <1>5 DEF RecoveryInv

\* The loop goes somewhere but to a scene, with a scene of its own where it has one.
GoesOn ==
  /\ rAt' \in [pc : RecoveryPlaces \ {"scene"}, scene : Scenes \cup {NoScene}]
  /\ rAt'.pc \in {"off", "turn"} => rAt'.scene \in Scenes

LEMMA StepGoesOn ==
  ASSUME RecoveryTypeOK, NEW from \in RecoveryPlaces, NEW to \in RecoveryPlaces \ {"scene"}, StepTo(from, to),
         to \in {"off", "turn"} => from \in {"scene", "off"}
  PROVE  GoesOn
<1>1. rAt.pc = from /\ rAt' = [pc |-> to, scene |-> IF to \in {"scene", "off", "turn"} THEN rAt.scene ELSE NoScene]
  BY DEF StepTo, rPc, rScene
<1>2. rAt.scene \in Scenes \cup {NoScene} /\ (to \in {"off", "turn"} => rAt.scene \in Scenes)
  BY <1>1 DEF RecoveryTypeOK
<1> QED
  BY <1>1, <1>2 DEF GoesOn

\* A step that neither answers, nor restarts, nor changes the encounter.
LEMMA QuietStep ==
  ASSUME RecoveryInv, GoesOn, rLoop' \in LoopType, rLoop'.ad = rLoop.ad, rLoop'.number = rLoop.number,
         UNCHANGED <<rTries, rDone, rDid, rBacked>>,
         rEscape' \in [activity : SceneActivities \cup {"none"}, tries : Nat, cooling : BOOLEAN],
         rEscape' = rEscape \/ rEscape'.tries = 0
  PROVE  RecoveryInv'
<1> USE DEF RecoveryInv
<1>1. RecoveryTypeOK'
  BY DEF RecoveryTypeOK, GoesOn, RecoveryPlaces
<1>2. AdsAreEncounters'
  BY DEF AdsAreEncounters, GoesOn, rPc
<1>3. AnswersAreAttempts'
  BY DEF AnswersAreAttempts
<1>4. RungsAreOfBack'
  BY DEF RungsAreOfBack
<1>5. RecoverySafe'
  BY DEF RecoverySafe, SpecialBudget, KillAfterBack
<1> QED
  BY <1>1, <1>2, <1>3, <1>4, <1>5

LEMMA LookKeeps == ASSUME RecoveryInv, NEW s \in Scenes, Look(s) PROVE RecoveryInv'
<1> USE DEF RecoveryInv
<1> DEFINE ends == ~IsAd(s) /\ rLoop.ad /\ s.fg = "target"
<1> DEFINE begins == IsAd(s) /\ ~rLoop.ad
<1>1. /\ rAt' = [pc |-> "scene", scene |-> s] /\ rDid' = NoRestart
      /\ begins => rLoop.number < MaxNumber
      /\ rDone' = [k \in Episodes |-> IF ends /\ k[1] = "ad" THEN 0 ELSE rDone[k]]
      /\ UNCHANGED <<rTries, rEscape, rBacked>>
  BY DEF Look, IsAd
<1>2. rLoop' = [rLoop EXCEPT !.ad = (@ \/ IsAd(s)) /\ ~ends,
                             !.number = IF begins THEN @ + 1 ELSE @,
                             !.quiet = @ /\ Kind(s) = "load_failure",
                             !.shop = @ \/ Kind(s) = "purchase_failure"]
  BY DEF Look, IsAd
<1>3. rLoop \in LoopType /\ rLoop.number \in 0 .. MaxNumber /\ rLoop.ad \in BOOLEAN
  BY DEF RecoveryTypeOK, LoopType
<1>4. rLoop'.ad = ((rLoop.ad \/ IsAd(s)) /\ ~ends)
  BY <1>2, <1>3 DEF LoopType
<1>5. rLoop'.number = IF begins THEN rLoop.number + 1 ELSE rLoop.number
  BY <1>2, <1>3 DEF LoopType
<1>6. rLoop'.number \in 0 .. MaxNumber
  BY <1>1, <1>3, <1>5, LimitsAreNumbers
<1>7. rLoop' \in LoopType
  BY <1>2, <1>3, <1>6 DEF LoopType
<1>8. \A t \in Scenes : rDone'[Key(t, 0)] = IF ends /\ IsAd(t) THEN 0 ELSE rDone[Key(t, 0)]
  BY <1>1, KeysAreOfEpisodes DEF IsAd
<1>9. rDone' \in [Episodes -> Nat]
  BY <1>1 DEF RecoveryTypeOK
<1> HIDE DEF ends, begins
<1>10. RecoveryTypeOK'
  BY <1>1, <1>7, <1>9 DEF RecoveryTypeOK, RecoveryPlaces
<1>11. AdsAreEncounters'
  BY <1>1, <1>3, <1>4, <1>8 DEF AdsAreEncounters, rPc, rScene, ends
<1>12. AnswersAreAttempts'
  <2> SUFFICES ASSUME NEW t \in Scenes, IsAd(t) => rLoop'.ad
               PROVE  rDone'[Key(t, 0)] <= rTries[Key(t, rLoop'.number)]
    BY <1>1 DEF AnswersAreAttempts
  <2>1. rTries[Key(t, rLoop'.number)] \in Nat /\ rTries[Key(t, rLoop.number)] \in Nat /\ rDone[Key(t, 0)] \in Nat
    BY <1>3, <1>6, KeysAreOfEpisodes DEF RecoveryTypeOK
  <2>2. CASE ~IsAd(t)
    <3>1. Key(t, rLoop'.number) = Key(t, rLoop.number)
      BY <2>2 DEF Key, IsAd
    <3> QED
      BY <2>2, <3>1, <1>8 DEF AnswersAreAttempts
  <2>3. CASE IsAd(t) /\ begins
    BY <2>1, <2>3, <1>8 DEF AdsAreEncounters, begins
  <2>4. CASE IsAd(t) /\ ~begins
    <3>1. rLoop'.number = rLoop.number
      BY <2>4, <1>5
    <3>2. rLoop.ad
      BY <2>4, <1>4 DEF begins
    <3> QED
      BY <2>1, <2>4, <3>1, <3>2, <1>8 DEF AnswersAreAttempts
  <2> QED
    BY <2>2, <2>3, <2>4
<1>13. RungsAreOfBack'
  BY <1>1 DEF RungsAreOfBack
<1>14. RecoverySafe'
  <2>1. SpecialBudget'
    BY <1>1, LimitsAreNumbers DEF RecoverySafe, SpecialBudget, Limit
  <2>2. KillAfterBack'
    BY <1>1 DEF KillAfterBack, NoRestart
  <2> QED
    BY <2>1, <2>2 DEF RecoverySafe
<1> QED
  BY <1>10, <1>11, <1>12, <1>13, <1>14

LEMMA SceneAnsweredKeeps == ASSUME RecoveryInv, SceneAnswered PROVE RecoveryInv'
<1> USE DEF RecoveryInv
<1>1. /\ rAt.pc = "scene" /\ rScene \in Scenes /\ rTries[CurrentKey] < MaxAttempts
      /\ Kind(rScene) = "load_failure" => rTries[CurrentKey] < 2
      /\ UNCHANGED <<rLoop, rEscape, rDid, rBacked>>
  <2>1. rAt.pc = "scene"
    BY DEF SceneAnswered, Answerable, rPc
  <2>2. rScene \in Scenes /\ rLoop.number \in 0 .. MaxNumber
    BY <2>1 DEF RecoveryTypeOK, rScene, LoopType
  <2>3. rTries[CurrentKey] \in Nat
    BY <2>2, KeysAreOfEpisodes DEF RecoveryTypeOK, CurrentKey
  <2> QED
    BY <2>1, <2>2, <2>3, LimitsAreNumbers
    DEF SceneAnswered, Answerable, GivenUp, Spent, CurrentKind, ladderVars
<1>2. GoesOn
  <2>1. \/ StepTo("scene", "look")
        \/ StepTo("scene", "stopped")
    BY DEF SceneAnswered, Counts, Fails
  <2> QED
    BY <2>1, StepGoesOn DEF RecoveryPlaces
<1>3. CASE UNCHANGED <<rTries, rDone>>
  BY <1>1, <1>2, <1>3, QuietStep DEF RecoveryTypeOK
<1>4. CASE /\ rTries' = [rTries EXCEPT ![CurrentKey] = @ + 1]
           /\ rDone' = rDone \/ rDone' = [rDone EXCEPT ![Key(rScene, 0)] = @ + 1]
  <2>1. /\ rLoop.number \in 0 .. MaxNumber /\ CurrentKey \in SpecialKeys /\ CurrentKey = Key(rScene, rLoop.number)
        /\ Key(rScene, 0) \in Episodes
        /\ rTries \in [SpecialKeys -> Nat] /\ rDone \in [Episodes -> Nat]
    BY <1>1, KeysAreOfEpisodes DEF RecoveryTypeOK, LoopType, CurrentKey
  <2>2. /\ rTries' \in [SpecialKeys -> Nat] /\ rDone' \in [Episodes -> Nat]
        /\ rTries'[CurrentKey] = rTries[CurrentKey] + 1
        /\ \A k \in SpecialKeys : rTries[k] <= rTries'[k]
        /\ \A k \in Episodes : k # Key(rScene, 0) => rDone'[k] = rDone[k]
        /\ rDone'[Key(rScene, 0)] <= rDone[Key(rScene, 0)] + 1
    BY <1>4, <2>1
  <2>3. rDone[Key(rScene, 0)] <= rTries[CurrentKey]
    BY <1>1, <2>1 DEF AnswersAreAttempts, AdsAreEncounters, rPc
  <2>4. rDone[Key(rScene, 0)] \in Nat /\ rDone'[Key(rScene, 0)] \in Nat /\ rTries[CurrentKey] \in Nat
    BY <2>1, <2>2
  <2>5. RecoveryTypeOK'
    BY <1>1, <1>2, <2>2 DEF RecoveryTypeOK, GoesOn, RecoveryPlaces
  <2>6. AdsAreEncounters'
    <3>1. ~rLoop.ad => ~IsAd(rScene)
      BY <1>1 DEF AdsAreEncounters, rPc
    <3>2. \A t \in Scenes : IsAd(t) /\ ~rLoop.ad => Key(t, 0) # Key(rScene, 0) /\ Key(t, 0) \in Episodes
      BY <3>1, <1>1, KeysAreOfEpisodes DEF IsAd
    <3> QED
      BY <3>2, <1>1, <1>2, <2>2 DEF AdsAreEncounters, GoesOn, rPc
  <2>7. AnswersAreAttempts'
    <3> SUFFICES ASSUME NEW t \in Scenes, IsAd(t) => rLoop.ad
                 PROVE  rDone'[Key(t, 0)] <= rTries'[Key(t, rLoop.number)]
      BY <1>1 DEF AnswersAreAttempts
    <3>1. /\ Key(t, rLoop.number) \in SpecialKeys /\ Key(t, 0) \in Episodes
          /\ rDone[Key(t, 0)] <= rTries[Key(t, rLoop.number)]
      BY <2>1, KeysAreOfEpisodes DEF AnswersAreAttempts
    <3>2. CASE Key(t, 0) = Key(rScene, 0)
      <4>1. Key(t, rLoop.number) = CurrentKey
        BY <3>2, <1>1, <2>1, KeysAreOfEpisodes
      <4> QED
        BY <3>2, <4>1, <2>2, <2>3, <2>4
    <3>3. CASE Key(t, 0) # Key(rScene, 0)
      <4>1. /\ rDone'[Key(t, 0)] = rDone[Key(t, 0)] /\ rDone[Key(t, 0)] \in Nat
            /\ rTries[Key(t, rLoop.number)] \in Nat /\ rTries'[Key(t, rLoop.number)] \in Nat
            /\ rTries[Key(t, rLoop.number)] <= rTries'[Key(t, rLoop.number)]
        BY <3>1, <3>3, <2>1, <2>2
      <4> QED
        BY <3>1, <4>1
    <3> QED
      BY <3>2, <3>3
  <2>8. RungsAreOfBack'
    BY <1>1 DEF RungsAreOfBack
  <2>9. RecoverySafe'
    <3>1. rDone'[Key(rScene, 0)] <= Limit(Key(rScene, 0))
      <4>1. Key(rScene, 0)[1] = "load_failure" => rTries[CurrentKey] < 2
        BY <1>1, KeysAreOfEpisodes
      <4> QED
        BY <4>1, <1>1, <2>2, <2>3, <2>4, LimitsAreNumbers DEF Limit
    <3>2. \A k \in Episodes : rDone'[k] <= Limit(k)
      BY <3>1, <2>2 DEF RecoverySafe, SpecialBudget, Limit
    <3> QED
      BY <3>2, <1>1 DEF RecoverySafe, SpecialBudget, KillAfterBack, Limit
  <2> QED
    BY <2>5, <2>6, <2>7, <2>8, <2>9
<1> QED
  BY <1>3, <1>4 DEF SceneAnswered

\* What the ladder gives: its rungs above the first are of the activity that BACK was pressed on.
Rungs == [activity : SceneActivities \cup {"none"}, tries : Nat, cooling : BOOLEAN]
RungsAfter(result) ==
  /\ result.escape \in Rungs
  /\ result.what = "relaunch" => rBacked = rScene.activity
  /\ result.what # "relaunch" /\ result.escape.tries > 0 =>
       result.escape.activity = IF result.what = "back" THEN rScene.activity ELSE rBacked

LEMMA LadderBacksFirst ==
  ASSUME RecoveryInv, rScene \in Scenes, NEW allowed \in BOOLEAN,
         NEW result \in Ladder(rScene.activity, allowed)
  PROVE  RungsAfter(result)
<1> DEFINE a == rScene.activity
<1> DEFINE e == IF rEscape.activity = a THEN rEscape ELSE [rEscape EXCEPT !.activity = a, !.tries = 0]
<1>1. a \in SceneActivities
  BY DEF SceneActivities
<1>2. rEscape \in Rungs /\ (rEscape.tries > 0 => rBacked = rEscape.activity)
  BY DEF RecoveryInv, RecoveryTypeOK, RungsAreOfBack, Rungs
<1> HIDE DEF a
<1>3. e \in Rungs /\ e.activity = a /\ (e.tries > 0 => rBacked = a)
  <2>1. CASE rEscape.activity = a
    BY <1>2, <2>1
  <2>2. CASE rEscape.activity # a
    <3>1. e = [rEscape EXCEPT !.activity = a, !.tries = 0]
      BY <2>2
    <3> HIDE DEF e
    <3>2. e \in Rungs
      BY <1>1, <1>2, <3>1 DEF Rungs
    <3>3. e.activity = a /\ e.tries = 0
      BY <1>2, <3>1 DEF Rungs
    <3> QED
      BY <3>2, <3>3
  <2> QED
    BY <2>1, <2>2
<1>4. \/ result = [what |-> "none", escape |-> e]
      \/ e.tries = 0 /\ result = [what |-> "back", escape |-> [e EXCEPT !.tries = 1]]
      \/ e.tries # 0 /\ result = [what |-> "relaunch", escape |-> [e EXCEPT !.tries = 0, !.cooling = TRUE]]
      \/ /\ e.tries >= MaxEscapes
         /\ result = [what |-> "relaunch", escape |-> [e EXCEPT !.activity = "none", !.tries = 0]]
      \/ e.tries = 0 /\ result = [what |-> "back", escape |-> [e EXCEPT !.tries = @ + 1]]
      \/ e.tries # 0 /\ result = [what |-> "swipe", escape |-> [e EXCEPT !.tries = @ + 1]]
  BY DEF Ladder, a
<1> HIDE DEF e
<1>5. e.tries \in Nat /\ e.cooling \in BOOLEAN
  BY <1>3 DEF Rungs
<1>6. CASE result = [what |-> "none", escape |-> e]
  BY <1>3, <1>6 DEF RungsAfter, a
<1>7. CASE e.tries = 0 /\ result = [what |-> "back", escape |-> [e EXCEPT !.tries = 1]]
  BY <1>3, <1>5, <1>7 DEF RungsAfter, a, Rungs
<1>8. CASE e.tries # 0 /\ result = [what |-> "relaunch", escape |-> [e EXCEPT !.tries = 0, !.cooling = TRUE]]
  <2>1. e.tries > 0
    BY <1>5, <1>8
  <2>2. result.escape \in Rungs /\ result.what = "relaunch"
    BY <1>3, <1>8 DEF Rungs
  <2> QED
    BY <1>3, <2>1, <2>2 DEF RungsAfter, a
<1>9. CASE /\ e.tries >= MaxEscapes
           /\ result = [what |-> "relaunch", escape |-> [e EXCEPT !.activity = "none", !.tries = 0]]
  <2>1. e.tries > 0
    BY <1>5, <1>9, LimitsAreNumbers
  <2>2. result.escape \in Rungs /\ result.what = "relaunch"
    BY <1>3, <1>9 DEF Rungs
  <2> QED
    BY <1>3, <2>1, <2>2 DEF RungsAfter, a
<1>10. CASE e.tries = 0 /\ result = [what |-> "back", escape |-> [e EXCEPT !.tries = @ + 1]]
  BY <1>3, <1>5, <1>10 DEF RungsAfter, a, Rungs
<1>11. CASE e.tries # 0 /\ result = [what |-> "swipe", escape |-> [e EXCEPT !.tries = @ + 1]]
  BY <1>3, <1>5, <1>11 DEF RungsAfter, a, Rungs
<1> QED
  BY <1>4, <1>6, <1>7, <1>8, <1>9, <1>10, <1>11

LEMMA RestartTargetKeeps ==
  ASSUME RecoveryInv, GoesOn, NEW loop \in LoopType, loop.ad = rLoop.ad, loop.number = rLoop.number,
         NEW why, NEW result, Restarts(why, loop, result), rScene \in Scenes,
         RungsAfter(result) \/ (why = "stuck" /\ result.what = "relaunch" /\ result.escape \in Rungs)
  PROVE  RecoveryInv'
<1> USE DEF RecoveryInv
<1>1. rDid' = [why |-> why, activity |-> rScene.activity, what |-> result.what]
  BY DEF Restarts
<1>2. CASE result.what = "relaunch"
  <2>1. /\ rLoop' = [loop EXCEPT !.ad = FALSE, !.number = @ + 1] /\ loop.number < MaxNumber
        /\ rTries' = [k \in SpecialKeys |-> 0] /\ rDone' = [k \in Episodes |-> 0] /\ rBacked' = rBacked
        /\ rEscape' = [result.escape EXCEPT !.activity = "none", !.tries = 0]
    BY <1>2 DEF Restarts, None
  <2>2. loop.number + 1 \in 0 .. MaxNumber /\ loop.number \in 0 .. MaxNumber
    BY <2>1, LimitsAreNumbers DEF LoopType
  <2>3. rLoop' \in LoopType
    BY <2>1, <2>2 DEF LoopType
  <2>4. rLoop'.ad = FALSE /\ rLoop'.number \in 0 .. MaxNumber
    BY <2>1, <2>2 DEF LoopType
  <2>5. rEscape' \in Rungs /\ rEscape'.tries = 0
    BY <2>1 DEF RungsAfter, Rungs
  <2>6. RecoveryTypeOK'
    BY <2>1, <2>3, <2>5 DEF RecoveryTypeOK, GoesOn, RecoveryPlaces, Rungs
  <2>7. \A s \in Scenes : /\ rDone'[Key(s, 0)] = 0
                          /\ rTries'[Key(s, rLoop'.number)] = 0
    BY <2>1, <2>4, KeysAreOfEpisodes
  <2>8. AdsAreEncounters'
    BY <2>7 DEF AdsAreEncounters, GoesOn, rPc
  <2>9. AnswersAreAttempts'
    BY <2>7 DEF AnswersAreAttempts
  <2>10. RungsAreOfBack'
    BY <2>5 DEF RungsAreOfBack
  <2>11. RecoverySafe'
    <3>1. SpecialBudget'
      BY <2>1, LimitsAreNumbers DEF SpecialBudget, Limit
    <3>2. KillAfterBack'
      BY <1>1, <1>2, <2>1 DEF KillAfterBack, RungsAfter
    <3> QED
      BY <3>1, <3>2 DEF RecoverySafe
  <2> QED
    BY <2>6, <2>8, <2>9, <2>10, <2>11
<1>3. CASE result.what # "relaunch"
  <2>1. /\ rLoop' = loop /\ UNCHANGED <<rTries, rDone>>
        /\ rEscape' = result.escape /\ rBacked' = IF result.what = "back" THEN rScene.activity ELSE rBacked
    BY <1>3 DEF Restarts
  <2>2. /\ rEscape' \in Rungs
        /\ rEscape'.tries > 0 => rBacked' = rEscape'.activity
    BY <1>3, <2>1 DEF RungsAfter
  <2>3. RecoveryTypeOK'
    BY <2>1, <2>2 DEF RecoveryTypeOK, GoesOn, RecoveryPlaces, Rungs
  <2>4. AdsAreEncounters'
    BY <2>1 DEF AdsAreEncounters, GoesOn, rPc
  <2>5. AnswersAreAttempts'
    BY <2>1 DEF AnswersAreAttempts
  <2>6. RungsAreOfBack'
    BY <2>2 DEF RungsAreOfBack
  <2>7. RecoverySafe'
    BY <1>1, <1>3, <2>1 DEF RecoverySafe, SpecialBudget, KillAfterBack
  <2> QED
    BY <2>3, <2>4, <2>5, <2>6, <2>7
<1> QED
  BY <1>2, <1>3

LEMMA RestartFromKeeps ==
  ASSUME RecoveryInv, NEW from \in {"scene", "turn"}, NEW why,
         NEW loop \in LoopType, loop.ad = rLoop.ad, loop.number = rLoop.number,
         RestartFrom(from, why, loop)
  PROVE  RecoveryInv'
<1>1. rAt.pc = from /\ (StepTo(from, "look") \/ StepTo(from, "stopped"))
  BY DEF RestartFrom, StepTo, rPc
<1>2. rScene \in Scenes
  BY <1>1 DEF RecoveryInv, RecoveryTypeOK, rScene
<1>3. GoesOn
  BY <1>1, StepGoesOn DEF RecoveryInv, RecoveryPlaces
<1>4. PICK result \in Ladder(rScene.activity, loop.cold) : Restarts(why, loop, result)
  BY DEF RestartFrom
<1>5. loop.cold \in BOOLEAN
  BY DEF LoopType
<1> QED
  BY <1>2, <1>3, <1>4, <1>5, LadderBacksFirst, RestartTargetKeeps

LEMMA SceneUnhandledKeeps == ASSUME RecoveryInv, SceneUnhandled PROVE RecoveryInv'
<1> DEFINE loop == [rLoop EXCEPT !.cold = TRUE]
<1>1. RestartFrom("scene", "unhandled", loop)
  BY DEF SceneUnhandled
<1>2. loop \in LoopType /\ loop.ad = rLoop.ad /\ loop.number = rLoop.number
  BY DEF RecoveryInv, RecoveryTypeOK, LoopType
<1> QED
  BY <1>1, <1>2, RestartFromKeeps

LEMMA AttemptsSpentKeeps == ASSUME RecoveryInv, AttemptsSpent PROVE RecoveryInv'
<1> DEFINE loop == [rLoop EXCEPT !.cold = @ \/ CurrentKind # "purchase_failure"]
<1>1. RestartFrom("scene", CurrentKind, loop)
  BY DEF AttemptsSpent
<1>2. loop \in LoopType /\ loop.ad = rLoop.ad /\ loop.number = rLoop.number
  BY DEF RecoveryInv, RecoveryTypeOK, LoopType
<1> HIDE DEF loop
<1> QED
  BY <1>1, <1>2, RestartFromKeeps

LEMMA GraphRestartKeeps == ASSUME RecoveryInv, GraphRestart PROVE RecoveryInv'
<1> DEFINE loop == [rLoop EXCEPT !.cold = FALSE, !.pending = "none"]
<1>1. RestartFrom("turn", "graph", loop)
  BY DEF GraphRestart
<1>2. loop \in LoopType /\ loop.ad = rLoop.ad /\ loop.number = rLoop.number
  BY DEF RecoveryInv, RecoveryTypeOK, LoopType
<1> QED
  BY <1>1, <1>2, RestartFromKeeps

LEMMA StuckRestartKeeps == ASSUME RecoveryInv, StuckRestart PROVE RecoveryInv'
<1> DEFINE loop == [rLoop EXCEPT !.pending = "none"]
<1> DEFINE result == [what |-> "relaunch", escape |-> rEscape]
<1>1. rAt.pc = "turn" /\ Restarts("stuck", loop, result) /\ (StepTo("turn", "look") \/ StepTo("turn", "stopped"))
  BY DEF StuckRestart, rPc
<1>2. loop \in LoopType /\ loop.ad = rLoop.ad /\ loop.number = rLoop.number
  BY DEF RecoveryInv, RecoveryTypeOK, LoopType
<1>3. rScene \in Scenes /\ result.what = "relaunch" /\ result.escape \in Rungs
  BY <1>1 DEF RecoveryInv, RecoveryTypeOK, rScene, Rungs
<1>4. GoesOn
  BY <1>1, StepGoesOn DEF RecoveryInv, RecoveryPlaces
<1> HIDE DEF loop, result
<1> QED
  BY <1>1, <1>2, <1>3, <1>4, RestartTargetKeeps

LEMMA CaptureFailsKeeps == ASSUME RecoveryInv, CaptureFails PROVE RecoveryInv'
<1>1. StepTo("look", "look") \/ StepTo("look", "stopped")
  BY DEF CaptureFails, Fails
<1>2. GoesOn
  BY <1>1, StepGoesOn DEF RecoveryInv, RecoveryPlaces
<1>3. UNCHANGED <<rTries, rDone, rDid, rBacked>>
  BY DEF CaptureFails, sceneVars, ladderVars
<1>6. rLoop' \in LoopType /\ rLoop'.ad = rLoop.ad /\ rLoop'.number = rLoop.number
  BY DEF CaptureFails, RecoveryInv, RecoveryTypeOK
<1>7. /\ rEscape' \in [activity : SceneActivities \cup {"none"}, tries : Nat, cooling : BOOLEAN]
      /\ rEscape' = rEscape
  BY DEF RecoveryInv, RecoveryTypeOK, CaptureFails, ladderVars
<1> QED
  BY <1>2, <1>3, <1>6, <1>7, QuietStep

LEMMA SceneUnreadableKeeps == ASSUME RecoveryInv, NEW s \in Scenes, SceneUnreadable(s) PROVE RecoveryInv'
<1>1. StepTo("look", "look") \/ StepTo("look", "stopped")
  BY DEF SceneUnreadable, Fails
<1>2. GoesOn
  BY <1>1, StepGoesOn DEF RecoveryInv, RecoveryPlaces
<1>3. UNCHANGED <<rTries, rDone, rDid, rBacked>>
  BY DEF SceneUnreadable, sceneVars, ladderVars
<1>6. rLoop' \in LoopType /\ rLoop'.ad = rLoop.ad /\ rLoop'.number = rLoop.number
  BY DEF SceneUnreadable, RecoveryInv, RecoveryTypeOK
<1>7. /\ rEscape' \in [activity : SceneActivities \cup {"none"}, tries : Nat, cooling : BOOLEAN]
      /\ rEscape' = rEscape
  BY DEF RecoveryInv, RecoveryTypeOK, SceneUnreadable, ladderVars
<1> QED
  BY <1>2, <1>3, <1>6, <1>7, QuietStep

LEMMA LeaveHandoffKeeps == ASSUME RecoveryInv, NEW s \in Scenes, LeaveHandoff(s) PROVE RecoveryInv'
<1>1. StepTo("look", "look") \/ StepTo("look", "stopped")
  BY DEF LeaveHandoff
<1>2. GoesOn
  BY <1>1, StepGoesOn DEF RecoveryInv, RecoveryPlaces
<1>3. UNCHANGED <<rTries, rDone, rDid, rBacked>>
  BY DEF LeaveHandoff, sceneVars, ladderVars
<1>6. rLoop' \in LoopType /\ rLoop'.ad = rLoop.ad /\ rLoop'.number = rLoop.number
  BY DEF LeaveHandoff, RecoveryInv, RecoveryTypeOK
<1>7. /\ rEscape' \in [activity : SceneActivities \cup {"none"}, tries : Nat, cooling : BOOLEAN]
      /\ rEscape' = rEscape
  BY DEF RecoveryInv, RecoveryTypeOK, LeaveHandoff, ladderVars
<1> QED
  BY <1>2, <1>3, <1>6, <1>7, QuietStep

LEMMA SceneIsOrdinaryKeeps == ASSUME RecoveryInv, SceneIsOrdinary PROVE RecoveryInv'
<1>1. StepTo("scene", "off")
  BY DEF SceneIsOrdinary
<1>2. GoesOn
  BY <1>1, StepGoesOn DEF RecoveryInv, RecoveryPlaces
<1>3. UNCHANGED <<rTries, rDone, rDid, rBacked>>
  BY DEF SceneIsOrdinary, sceneVars, ladderVars
<1>5. rLoop' = [rLoop EXCEPT !.quiet = @ \/ GivenUp]
  BY DEF SceneIsOrdinary
<1> HIDE DEF GivenUp
<1>6. rLoop' \in LoopType /\ rLoop'.ad = rLoop.ad /\ rLoop'.number = rLoop.number
  BY <1>5 DEF RecoveryInv, RecoveryTypeOK, LoopType
<1>7. /\ rEscape' \in [activity : SceneActivities \cup {"none"}, tries : Nat, cooling : BOOLEAN]
      /\ rEscape' = rEscape
  BY DEF RecoveryInv, RecoveryTypeOK, SceneIsOrdinary, ladderVars
<1> QED
  BY <1>2, <1>3, <1>6, <1>7, QuietStep

LEMMA SceneWaitsKeeps == ASSUME RecoveryInv, SceneWaits PROVE RecoveryInv'
<1>1. StepTo("scene", "look")
  BY DEF SceneWaits
<1>2. GoesOn
  BY <1>1, StepGoesOn DEF RecoveryInv, RecoveryPlaces
<1>3. UNCHANGED <<rTries, rDone, rDid, rBacked>>
  BY DEF SceneWaits, sceneVars, ladderVars
<1>6. rLoop' \in LoopType /\ rLoop'.ad = rLoop.ad /\ rLoop'.number = rLoop.number
  BY DEF SceneWaits, RecoveryInv, RecoveryTypeOK
<1>7. /\ rEscape' \in [activity : SceneActivities \cup {"none"}, tries : Nat, cooling : BOOLEAN]
      /\ rEscape' = rEscape
  BY DEF RecoveryInv, RecoveryTypeOK, SceneWaits, ladderVars
<1> QED
  BY <1>2, <1>3, <1>6, <1>7, QuietStep

LEMMA PolicyRequiredKeeps == ASSUME RecoveryInv, PolicyRequired PROVE RecoveryInv'
<1>1. StepTo("scene", "stopped")
  BY DEF PolicyRequired
<1>2. GoesOn
  BY <1>1, StepGoesOn DEF RecoveryInv, RecoveryPlaces
<1>3. UNCHANGED <<rTries, rDone, rDid, rBacked>>
  BY DEF PolicyRequired, sceneVars, ladderVars
<1>6. rLoop' \in LoopType /\ rLoop'.ad = rLoop.ad /\ rLoop'.number = rLoop.number
  BY DEF PolicyRequired, RecoveryInv, RecoveryTypeOK
<1>7. /\ rEscape' \in [activity : SceneActivities \cup {"none"}, tries : Nat, cooling : BOOLEAN]
      /\ rEscape' = rEscape
  BY DEF RecoveryInv, RecoveryTypeOK, PolicyRequired, ladderVars
<1> QED
  BY <1>2, <1>3, <1>6, <1>7, QuietStep

LEMMA OnboardingSpentKeeps == ASSUME RecoveryInv, OnboardingSpent PROVE RecoveryInv'
<1>1. StepTo("scene", "off")
  BY DEF OnboardingSpent
<1>2. GoesOn
  BY <1>1, StepGoesOn DEF RecoveryInv, RecoveryPlaces
<1>3. UNCHANGED <<rTries, rDone, rDid, rBacked>>
  BY DEF OnboardingSpent, sceneVars, ladderVars
<1>4. rScene.activity \in SceneActivities
  BY <1>1 DEF RecoveryInv, RecoveryTypeOK, StepTo, rPc, rScene, SceneActivities
<1>6. rLoop' \in LoopType /\ rLoop'.ad = rLoop.ad /\ rLoop'.number = rLoop.number
  BY <1>4 DEF RecoveryInv, RecoveryTypeOK, LoopType, OnboardingSpent
<1>7. /\ rEscape' \in [activity : SceneActivities \cup {"none"}, tries : Nat, cooling : BOOLEAN]
      /\ rEscape' = rEscape
  BY DEF RecoveryInv, RecoveryTypeOK, OnboardingSpent, ladderVars
<1> QED
  BY <1>2, <1>3, <1>6, <1>7, QuietStep

LEMMA OnTargetKeeps == ASSUME RecoveryInv, OnTarget PROVE RecoveryInv'
<1>1. StepTo("off", "turn")
  BY DEF OnTarget
<1>2. GoesOn
  BY <1>1, StepGoesOn DEF RecoveryInv, RecoveryPlaces
<1>3. UNCHANGED <<rTries, rDone, rDid, rBacked>>
  BY DEF OnTarget, sceneVars, ladderVars
<1>6. rLoop' \in LoopType /\ rLoop'.ad = rLoop.ad /\ rLoop'.number = rLoop.number
  BY DEF OnTarget, RecoveryInv, RecoveryTypeOK
<1>7. /\ rEscape' \in [activity : SceneActivities \cup {"none"}, tries : Nat, cooling : BOOLEAN]
      /\ rEscape' = rEscape
  BY DEF RecoveryInv, RecoveryTypeOK, OnTarget, ladderVars
<1> QED
  BY <1>2, <1>3, <1>6, <1>7, QuietStep

LEMMA OffTargetWaitsKeeps == ASSUME RecoveryInv, OffTargetWaits PROVE RecoveryInv'
<1>1. StepTo("off", "look")
  BY DEF OffTargetWaits
<1>2. GoesOn
  BY <1>1, StepGoesOn DEF RecoveryInv, RecoveryPlaces
<1>3. UNCHANGED <<rTries, rDone, rDid, rBacked>>
  BY DEF OffTargetWaits, sceneVars, ladderVars
<1>6. rLoop' \in LoopType /\ rLoop'.ad = rLoop.ad /\ rLoop'.number = rLoop.number
  BY DEF OffTargetWaits, RecoveryInv, RecoveryTypeOK
<1>7. /\ rEscape' \in [activity : SceneActivities \cup {"none"}, tries : Nat, cooling : BOOLEAN]
      /\ rEscape' = rEscape
  BY DEF RecoveryInv, RecoveryTypeOK, OffTargetWaits, ladderVars
<1> QED
  BY <1>2, <1>3, <1>6, <1>7, QuietStep

LEMMA ResumeTargetKeeps == ASSUME RecoveryInv, ResumeTarget PROVE RecoveryInv'
<1>1. StepTo("off", "look") \/ StepTo("off", "stopped")
  BY DEF ResumeTarget
<1>2. GoesOn
  BY <1>1, StepGoesOn DEF RecoveryInv, RecoveryPlaces
<1>3. UNCHANGED <<rTries, rDone, rDid, rBacked>>
  BY DEF ResumeTarget, sceneVars, ladderVars
<1>6. rLoop' \in LoopType /\ rLoop'.ad = rLoop.ad /\ rLoop'.number = rLoop.number
  BY DEF RecoveryInv, RecoveryTypeOK, LoopType, ResumeTarget
<1>7. /\ rEscape' \in [activity : SceneActivities \cup {"none"}, tries : Nat, cooling : BOOLEAN]
      /\ rEscape' = rEscape
  BY DEF RecoveryInv, RecoveryTypeOK, ResumeTarget, ladderVars
<1> QED
  BY <1>2, <1>3, <1>6, <1>7, QuietStep

LEMMA LeaveExternalKeeps == ASSUME RecoveryInv, LeaveExternal PROVE RecoveryInv'
<1>1. StepTo("off", "look") \/ StepTo("off", "stopped")
  BY DEF LeaveExternal
<1>2. GoesOn
  BY <1>1, StepGoesOn DEF RecoveryInv, RecoveryPlaces
<1>3. UNCHANGED <<rTries, rDone, rDid, rBacked>>
  BY DEF LeaveExternal, sceneVars, ladderVars
<1>6. rLoop' \in LoopType /\ rLoop'.ad = rLoop.ad /\ rLoop'.number = rLoop.number
  BY DEF RecoveryInv, RecoveryTypeOK, LoopType, LeaveExternal
<1>7. /\ rEscape' \in [activity : SceneActivities \cup {"none"}, tries : Nat, cooling : BOOLEAN]
      /\ rEscape' = rEscape
  BY DEF RecoveryInv, RecoveryTypeOK, LeaveExternal, ladderVars
<1> QED
  BY <1>2, <1>3, <1>6, <1>7, QuietStep

LEMMA RelaunchFromExternalKeeps == ASSUME RecoveryInv, RelaunchFromExternal PROVE RecoveryInv'
<1>1. StepTo("off", "look") \/ StepTo("off", "stopped")
  BY DEF RelaunchFromExternal
<1>2. GoesOn
  BY <1>1, StepGoesOn DEF RecoveryInv, RecoveryPlaces
<1>3. UNCHANGED <<rTries, rDone, rDid, rBacked>>
  BY DEF RelaunchFromExternal, sceneVars, ladderVars
<1>6. rLoop' \in LoopType /\ rLoop'.ad = rLoop.ad /\ rLoop'.number = rLoop.number
  BY DEF RecoveryInv, RecoveryTypeOK, LoopType, RelaunchFromExternal
<1>7. /\ rEscape' \in [activity : SceneActivities \cup {"none"}, tries : Nat, cooling : BOOLEAN]
      /\ rEscape'.tries = 0
  BY DEF RecoveryInv, RecoveryTypeOK, RelaunchFromExternal
<1> QED
  BY <1>2, <1>3, <1>6, <1>7, QuietStep

LEMMA PageSettlesKeeps == ASSUME RecoveryInv, PageSettles PROVE RecoveryInv'
<1>1. StepTo("turn", "look")
  BY DEF PageSettles
<1>2. GoesOn
  BY <1>1, StepGoesOn DEF RecoveryInv, RecoveryPlaces
<1>3. UNCHANGED <<rTries, rDone, rDid, rBacked>>
  BY DEF PageSettles, sceneVars, ladderVars
<1>6. rLoop' \in LoopType /\ rLoop'.ad = rLoop.ad /\ rLoop'.number = rLoop.number
  BY DEF PageSettles, RecoveryInv, RecoveryTypeOK
<1>7. /\ rEscape' \in [activity : SceneActivities \cup {"none"}, tries : Nat, cooling : BOOLEAN]
      /\ rEscape' = rEscape
  BY DEF RecoveryInv, RecoveryTypeOK, PageSettles, ladderVars
<1> QED
  BY <1>2, <1>3, <1>6, <1>7, QuietStep

LEMMA LeaveGuardedKeeps == ASSUME RecoveryInv, LeaveGuarded PROVE RecoveryInv'
<1>1. StepTo("turn", "look") \/ StepTo("turn", "stopped")
  BY DEF LeaveGuarded
<1>2. GoesOn
  BY <1>1, StepGoesOn DEF RecoveryInv, RecoveryPlaces
<1>3. UNCHANGED <<rTries, rDone, rDid, rBacked>>
  BY DEF LeaveGuarded, sceneVars, ladderVars
<1>6. rLoop' \in LoopType /\ rLoop'.ad = rLoop.ad /\ rLoop'.number = rLoop.number
  BY DEF LeaveGuarded, RecoveryInv, RecoveryTypeOK
<1>7. /\ rEscape' \in [activity : SceneActivities \cup {"none"}, tries : Nat, cooling : BOOLEAN]
      /\ rEscape' = rEscape
  BY DEF RecoveryInv, RecoveryTypeOK, LeaveGuarded, ladderVars
<1> QED
  BY <1>2, <1>3, <1>6, <1>7, QuietStep

LEMMA SessionEndsKeeps == ASSUME RecoveryInv, SessionEnds PROVE RecoveryInv'
<1>1. StepTo("turn", "stopped")
  BY DEF SessionEnds
<1>2. GoesOn
  BY <1>1, StepGoesOn DEF RecoveryInv, RecoveryPlaces
<1>3. UNCHANGED <<rTries, rDone, rDid, rBacked>>
  BY DEF SessionEnds, sceneVars, ladderVars
<1>6. rLoop' \in LoopType /\ rLoop'.ad = rLoop.ad /\ rLoop'.number = rLoop.number
  BY DEF SessionEnds, RecoveryInv, RecoveryTypeOK
<1>7. /\ rEscape' \in [activity : SceneActivities \cup {"none"}, tries : Nat, cooling : BOOLEAN]
      /\ rEscape' = rEscape
  BY DEF RecoveryInv, RecoveryTypeOK, SessionEnds, ladderVars
<1> QED
  BY <1>2, <1>3, <1>6, <1>7, QuietStep

LEMMA OrdinaryTurnKeeps == ASSUME RecoveryInv, OrdinaryTurn PROVE RecoveryInv'
<1>1. StepTo("turn", "look")
  BY DEF OrdinaryTurn
<1>2. GoesOn
  BY <1>1, StepGoesOn DEF RecoveryInv, RecoveryPlaces
<1>3. UNCHANGED <<rTries, rDone, rDid, rBacked>>
  BY DEF OrdinaryTurn, sceneVars, ladderVars
<1>4. rScene.activity \in SceneActivities
  BY <1>1 DEF RecoveryInv, RecoveryTypeOK, StepTo, rPc, rScene, SceneActivities
<1>5. PICK pending \in {"none", "undo"}, stuck \in {"none", rScene.activity} :
          rLoop' = [rLoop EXCEPT !.pending = pending, !.stuck = stuck]
  BY DEF OrdinaryTurn
<1>6. rLoop' \in LoopType /\ rLoop'.ad = rLoop.ad /\ rLoop'.number = rLoop.number
  BY <1>4, <1>5 DEF RecoveryInv, RecoveryTypeOK, LoopType
<1>7. /\ rEscape' \in [activity : SceneActivities \cup {"none"}, tries : Nat, cooling : BOOLEAN]
      /\ rEscape' = rEscape
  BY DEF RecoveryInv, RecoveryTypeOK, OrdinaryTurn, ladderVars
<1> QED
  BY <1>2, <1>3, <1>6, <1>7, QuietStep

LEMMA TurnFailsKeeps == ASSUME RecoveryInv, TurnFails PROVE RecoveryInv'
<1>1. StepTo("turn", "look") \/ StepTo("turn", "stopped")
  BY DEF TurnFails, Counts, Fails
<1>2. GoesOn
  BY <1>1, StepGoesOn DEF RecoveryInv, RecoveryPlaces
<1>3. UNCHANGED <<rTries, rDone, rDid, rBacked>>
  BY DEF TurnFails, sceneVars, ladderVars
<1>6. rLoop' \in LoopType /\ rLoop'.ad = rLoop.ad /\ rLoop'.number = rLoop.number
  BY DEF TurnFails, RecoveryInv, RecoveryTypeOK
<1>7. /\ rEscape' \in [activity : SceneActivities \cup {"none"}, tries : Nat, cooling : BOOLEAN]
      /\ rEscape' = rEscape
  BY DEF RecoveryInv, RecoveryTypeOK, TurnFails, ladderVars
<1> QED
  BY <1>2, <1>3, <1>6, <1>7, QuietStep

LEMMA RecoveryStepsKeep == RecoveryInv /\ [RecoveryNext]_recoveryVars => RecoveryInv'
<1> SUFFICES ASSUME RecoveryInv, [RecoveryNext]_recoveryVars PROVE RecoveryInv'
  OBVIOUS
<1>1. CASE UNCHANGED recoveryVars
  BY <1>1 DEF recoveryVars, RecoveryInv, RecoveryTypeOK, AdsAreEncounters, AnswersAreAttempts,
              RungsAreOfBack, RecoverySafe, SpecialBudget, KillAfterBack, rPc, rScene
<1>2. ASSUME NEW s \in Scenes, Look(s) \/ SceneUnreadable(s) \/ LeaveHandoff(s) PROVE RecoveryInv'
  BY <1>2, LookKeeps, SceneUnreadableKeeps, LeaveHandoffKeeps
<1>3. CASE CaptureFails
  BY <1>3, CaptureFailsKeeps
<1>4. CASE SceneIsOrdinary
  BY <1>4, SceneIsOrdinaryKeeps
<1>5. CASE SceneWaits
  BY <1>5, SceneWaitsKeeps
<1>6. CASE PolicyRequired
  BY <1>6, PolicyRequiredKeeps
<1>7. CASE OnboardingSpent
  BY <1>7, OnboardingSpentKeeps
<1>8. CASE OnTarget
  BY <1>8, OnTargetKeeps
<1>9. CASE OffTargetWaits
  BY <1>9, OffTargetWaitsKeeps
<1>10. CASE ResumeTarget
  BY <1>10, ResumeTargetKeeps
<1>11. CASE LeaveExternal
  BY <1>11, LeaveExternalKeeps
<1>12. CASE RelaunchFromExternal
  BY <1>12, RelaunchFromExternalKeeps
<1>13. CASE PageSettles
  BY <1>13, PageSettlesKeeps
<1>14. CASE LeaveGuarded
  BY <1>14, LeaveGuardedKeeps
<1>15. CASE SessionEnds
  BY <1>15, SessionEndsKeeps
<1>16. CASE OrdinaryTurn
  BY <1>16, OrdinaryTurnKeeps
<1>17. CASE TurnFails
  BY <1>17, TurnFailsKeeps
<1>18. CASE SceneAnswered
  BY <1>18, SceneAnsweredKeeps
<1>19. CASE SceneUnhandled
  BY <1>19, SceneUnhandledKeeps
<1>20. CASE AttemptsSpent
  BY <1>20, AttemptsSpentKeeps
<1>21. CASE GraphRestart
  BY <1>21, GraphRestartKeeps
<1>22. CASE StuckRestart
  BY <1>22, StuckRestartKeeps
<1> QED
  BY <1>1, <1>2, <1>3, <1>4, <1>5, <1>6, <1>7, <1>8, <1>9, <1>10, <1>11, <1>12, <1>13, <1>14, <1>15,
     <1>16, <1>17, <1>18, <1>19, <1>20, <1>21, <1>22 DEF RecoveryNext

\* The invariant of the recovery holds always, whatever is on the screen (special_step.go,
\* foreground_recovery.go and the loop that calls them).
THEOREM RecoveryInvariant == RecoverySpec => []RecoveryInv
BY RecoveryInitInv, RecoveryStepsKeep, PTL DEF RecoverySpec

------------------------------------------------------------------------------
(* The recording of touches: which finger is known, and which touches are in the case. *)

Fingers == [pc : {"scan", "feed"}, slot : Int, touch : Nat, place : Places \cup {"none"}, at : Nat, observed : Nat]
Contacts == [slot : Int, touch : Nat, from : Places \cup {"none"}, to : Places, at : Nat, ended : Nat]
ActionTypes == {"tap", "double_tap", "long_press", "swipe", "multi_touch", "input", "assert_screenshot"}
RecordedActions ==
  [type : ActionTypes, at : Nat, contacts : SUBSET Contacts, target : Nat, recording : Nat,
   shot : Nat, reference : Nat]
AppendRequests ==
  [pc : {"idle", "append"}, kind : {"input", "assert_screenshot"}, recording : Nat, shot : Nat]

TouchTypeOK ==
  /\ tClock \in Nat
  /\ tRecording \in [generation : Nat, running : BOOLEAN, saved : BOOLEAN, excluded : SUBSET Places, first : Nat]
  /\ tSeen \in Fingers /\ (tSeen.pc = "feed" => tSeen.slot \in Slots)
  /\ tGesture \in [Slots -> Fingers]
  /\ tCompleted \in SUBSET Contacts
  /\ tTargets \in [Slots -> Nat]
  /\ tActions \in Seq(RecordedActions)
  /\ tRequest \in [Requests -> AppendRequests]
  /\ tCount \in [touches : Nat, appends : Nat]

\* Between two recordings no finger is known to be down.
IdleKnowsNoFinger ==
  ~tRecording.running =>
    /\ tSeen.pc = "scan" /\ tCompleted = {}
    /\ \A s \in Slots : ~Active(s)

\* The touches since the recording began of which the Normalizer has heard.
Heard == tRecording.first .. (IF tSeen.pc = "feed" THEN tCount.touches - 1 ELSE tCount.touches)
InCase(n) == \E i \in DOMAIN tActions : n \in TouchesOf(tActions[i])

\* Every touch the Normalizer knows is of this recording; the one it has not heard of is the last.
TouchesAreHeard ==
  /\ tRecording.first <= tCount.touches + 1
  /\ tSeen.pc = "feed" => /\ tSeen.touch = tCount.touches /\ tSeen.touch >= tRecording.first
                          /\ tSeen.observed \in {0, tSeen.touch}
  /\ \A s \in Slots : Active(s) => tGesture[s].touch \in Heard /\ tTargets[s] \in {0, tGesture[s].touch}
  /\ \A c \in tCompleted : c.touch \in Heard
  /\ \A n : InCase(n) => n \in Heard

\* Fingers that are down have touches of their own, and none of a gesture that is not over is
\* in the case.
TouchesAreApart ==
  /\ \A s, r \in Slots : Active(s) /\ Active(r) /\ s # r => tGesture[s].touch # tGesture[r].touch
  /\ \A s \in Slots : Active(s) =>
       /\ ~InCase(tGesture[s].touch)
       /\ \A c \in tCompleted : c.touch # tGesture[s].touch /\ ~InCase(c.touch)

\* The reference of a screenshot assertion is its place in the case.
ReferencesArePlaces ==
  \A i \in DOMAIN tActions :
    tActions[i].type = "assert_screenshot" =>
      tActions[i].reference = i /\ i \in DOMAIN tAssets /\ tAssets[i] = tActions[i].shot

TouchInv ==
  /\ TouchTypeOK /\ IdleKnowsNoFinger /\ TouchesAreHeard /\ TouchesAreApart
  /\ TouchesRecordedOnce /\ StaysWithRecording /\ ReferencesArePlaces

LEMMA GestureIsRecorded ==
  ASSUME TouchTypeOK, NEW lifted \in SUBSET Contacts, lifted # {}, NEW target \in Nat
  PROVE  LET a == Gesture(lifted, target)
         IN /\ a \in RecordedActions /\ a.contacts = lifted /\ a.recording = tRecording.generation
            /\ a.target \in {0, target} /\ a.type # "assert_screenshot"
<1> DEFINE kind == Gesture(lifted, target).type
<1> DEFINE starts == {c.at : c \in lifted}
<1> DEFINE aim == IF kind = "multi_touch" THEN 0 ELSE target
<1>1. kind \in {"multi_touch", "swipe", "long_press", "tap"}
  BY DEF Gesture
<1>2. Gesture(lifted, target) = [type |-> kind, at |-> Min(starts), contacts |-> lifted, target |-> aim,
                                 recording |-> tRecording.generation, shot |-> 0, reference |-> 0]
  BY DEF Gesture
<1>3. Min(starts) \in Nat
  <2>1. starts \subseteq Nat /\ starts # {}
    BY DEF Contacts
  <2> HIDE DEF starts
  <2>2. PICK least \in starts : \A n \in starts : least <= n
    BY <2>1, LeastNatural
  <2> QED
    BY <2>1, <2>2 DEF Min
<1>4. aim \in Nat /\ aim \in {0, target} /\ tRecording.generation \in Nat
  BY DEF TouchTypeOK
<1> HIDE DEF kind, starts, aim
<1> QED
  BY <1>1, <1>2, <1>3, <1>4 DEF RecordedActions, ActionTypes

\* What appending an action leaves of the case: all that was there, but for a tap that is now a
\* double tap, and at most the action behind it.
IsStill(b, c) ==
  /\ c.contacts = b.contacts /\ c.target = b.target /\ c.recording = b.recording
  /\ c.shot = b.shot /\ c.reference = b.reference
  /\ c.type = "assert_screenshot" <=> b.type = "assert_screenshot"
Grows(after, a) ==
  /\ after \in Seq(RecordedActions)
  /\ Len(after) \in {Len(tActions), Len(tActions) + 1}
  /\ \A i \in 1 .. Len(tActions) : IsStill(tActions[i], after[i])
  /\ Len(after) = Len(tActions) + 1 => after[Len(after)] = a

LEMMA AppendedGrows ==
  ASSUME tActions \in Seq(RecordedActions), NEW a \in RecordedActions
  PROVE  Grows(Appended(a), a)
<1>1. CASE Appended(a) = tActions
  BY <1>1 DEF Grows, IsStill
<1>2. CASE Appended(a) = Append(tActions, a)
  <2>1. /\ Append(tActions, a) \in Seq(RecordedActions) /\ Len(Append(tActions, a)) = Len(tActions) + 1
        /\ Append(tActions, a)[Len(tActions) + 1] = a
        /\ \A i \in 1 .. Len(tActions) : Append(tActions, a)[i] = tActions[i]
    BY AppendProperties
  <2> QED
    BY <1>2, <2>1 DEF Grows, IsStill
<1>3. CASE Joins(a) /\ Appended(a) = [tActions EXCEPT ![Len(tActions)].type = "double_tap"]
  <2> DEFINE n == Len(tActions)
  <2> DEFINE joined == [tActions[n] EXCEPT !.type = "double_tap"]
  <2>1. n = Len(tActions) /\ n \in 1 .. Len(tActions)
    BY <1>3 DEF Joins
  <2>2. tActions[n] \in RecordedActions /\ tActions[n].type = "tap"
    BY <2>1, <1>3 DEF Joins, Last
  <2>3. joined \in RecordedActions /\ IsStill(tActions[n], joined)
    BY <2>2 DEF RecordedActions, ActionTypes, IsStill
  <2>4. Appended(a) = [tActions EXCEPT ![n] = joined]
    BY <1>3
  <2> HIDE DEF joined, n
  <2>5. Appended(a) \in Seq(RecordedActions) /\ Len(Appended(a)) = Len(tActions)
    BY <2>1, <2>3, <2>4, ExceptSeq
  <2>6. \A i \in 1 .. Len(tActions) : Appended(a)[i] = IF i = n THEN joined ELSE tActions[i]
    <3>1. DOMAIN tActions = 1 .. Len(tActions)
      OBVIOUS
    <3> QED
      BY <3>1, <2>4
  <2> QED
    BY <2>3, <2>5, <2>6 DEF Grows, IsStill
<1> QED
  BY <1>1, <1>2, <1>3 DEF Appended

\* An action of this recording, made of touches that are in no gesture yet, keeps the case right.
LEMMA CaseGrows ==
  ASSUME TouchInv, NEW a \in RecordedActions, Grows(tActions', a), UNCHANGED <<tRecording, tCount, tSeen>>,
         a.recording = tRecording.generation,
         \A n \in TouchesOf(a) : n \in Heard /\ ~InCase(n),
         a.contacts # {} /\ a.target # 0 => a.target \in TouchesOf(a),
         a.type = "assert_screenshot" =>
           /\ a.reference = Len(tActions) + 1 /\ Len(tActions) + 1 \in DOMAIN tAssets'
           /\ tAssets'[Len(tActions) + 1] = a.shot,
         \A i \in 1 .. Len(tActions) :
           i \in DOMAIN tAssets => i \in DOMAIN tAssets' /\ tAssets'[i] = tAssets[i]
  PROVE  /\ TouchesRecordedOnce' /\ StaysWithRecording' /\ ReferencesArePlaces'
         /\ tActions' \in Seq(RecordedActions)
         /\ \A n : InCase(n)' => InCase(n) \/ n \in TouchesOf(a)
<1>1. /\ tActions \in Seq(RecordedActions) /\ tActions' \in Seq(RecordedActions)
      /\ DOMAIN tActions = 1 .. Len(tActions) /\ DOMAIN tActions' = 1 .. Len(tActions')
      /\ Len(tActions) \in Nat
  BY DEF TouchInv, TouchTypeOK, Grows
<1>2. \A i \in DOMAIN tActions' : \/ i \in DOMAIN tActions /\ IsStill(tActions[i], tActions'[i])
                                  \/ i = Len(tActions) + 1 /\ tActions'[i] = a
  <2> SUFFICES ASSUME NEW i \in 1 .. Len(tActions')
               PROVE  \/ i \in 1 .. Len(tActions) /\ IsStill(tActions[i], tActions'[i])
                      \/ i = Len(tActions) + 1 /\ tActions'[i] = a
    BY <1>1
  <2>1. CASE i \in 1 .. Len(tActions)
    BY <2>1 DEF Grows
  <2>2. CASE i \notin 1 .. Len(tActions)
    <3> DEFINE more == Len(tActions')
    <3>0. more \in {Len(tActions), Len(tActions) + 1} /\ i \in 1 .. more
      BY <1>1 DEF Grows
    <3> HIDE DEF more
    <3>1. i = Len(tActions) + 1 /\ more = Len(tActions) + 1
      BY <2>2, <3>0, <1>1
    <3> QED
      BY <3>1 DEF Grows, more
  <2> QED
    BY <2>1, <2>2
<1>3. \A i \in DOMAIN tActions' : i \in DOMAIN tActions /\ IsStill(tActions[i], tActions'[i]) =>
        TouchesOf(tActions'[i]) = TouchesOf(tActions[i])
  BY DEF TouchesOf, IsStill
<1>4. TouchesRecordedOnce'
  <2>1. ASSUME NEW i \in DOMAIN tActions', NEW j \in DOMAIN tActions', i # j
        PROVE  TouchesOf(tActions'[i]) \cap TouchesOf(tActions'[j]) = {}
    <3>1. CASE i \in DOMAIN tActions /\ j \in DOMAIN tActions
      BY <3>1, <2>1, <1>1, <1>2, <1>3 DEF TouchInv, TouchesRecordedOnce
    <3>2. CASE i \in DOMAIN tActions /\ j = Len(tActions) + 1
      <4>1. tActions'[j] = a /\ TouchesOf(tActions'[i]) = TouchesOf(tActions[i])
        BY <3>2, <1>1, <1>2, <1>3
      <4> QED
        BY <4>1, <3>2 DEF InCase
    <3>3. CASE j \in DOMAIN tActions /\ i = Len(tActions) + 1
      <4>1. tActions'[i] = a /\ TouchesOf(tActions'[j]) = TouchesOf(tActions[j])
        BY <3>3, <1>1, <1>2, <1>3
      <4> QED
        BY <4>1, <3>3 DEF InCase
    <3> QED
      BY <3>1, <3>2, <3>3, <2>1, <1>2
  <2>2. ASSUME NEW i \in DOMAIN tActions'
        PROVE  /\ \A n \in TouchesOf(tActions'[i]) : n >= tRecording.first
               /\ tActions'[i].contacts # {} /\ tActions'[i].target # 0 => tActions'[i].target \in TouchesOf(tActions'[i])
    <3>1. CASE i \in DOMAIN tActions /\ IsStill(tActions[i], tActions'[i])
      BY <3>1, <1>3 DEF TouchInv, TouchesRecordedOnce, IsStill
    <3>2. CASE tActions'[i] = a
      BY <3>2 DEF Heard
    <3> QED
      BY <3>1, <3>2, <1>2
  <2> QED
    BY <2>1, <2>2 DEF TouchesRecordedOnce, TouchesOf
<1>5. StaysWithRecording'
  BY <1>2 DEF TouchInv, StaysWithRecording, IsStill
<1>6. ReferencesArePlaces'
  BY <1>1, <1>2 DEF TouchInv, ReferencesArePlaces, IsStill
<1>7. \A n : InCase(n)' => InCase(n) \/ n \in TouchesOf(a)
  <2> SUFFICES ASSUME NEW n, NEW i \in DOMAIN tActions', n \in TouchesOf(tActions'[i])
               PROVE  InCase(n) \/ n \in TouchesOf(a)
    BY DEF InCase, TouchesOf
  <2> QED
    BY <1>2, <1>3 DEF InCase
<1> QED
  BY <1>1, <1>4, <1>5, <1>6, <1>7

LEMMA TouchInitInv == TouchInit => TouchInv
<1> SUFFICES ASSUME TouchInit PROVE TouchInv
  OBVIOUS
<1>1. NoSeen \in Fingers /\ NoRequest \in AppendRequests /\ NoSeen.pc = "scan"
  BY DEF NoSeen, NoRequest, Fingers, AppendRequests
<1>2. TouchTypeOK
  BY <1>1 DEF TouchInit, TouchTypeOK
<1>3. \A s \in Slots : ~Active(s)
  BY <1>1 DEF TouchInit, Active
<1>4. \A n : ~InCase(n)
  BY DEF TouchInit, InCase
<1>5. IdleKnowsNoFinger /\ TouchesAreHeard /\ TouchesAreApart
  BY <1>1, <1>3, <1>4 DEF TouchInit, IdleKnowsNoFinger, TouchesAreHeard, TouchesAreApart
<1>6. TouchesRecordedOnce /\ StaysWithRecording /\ ReferencesArePlaces
  BY DEF TouchInit, TouchesRecordedOnce, StaysWithRecording, ReferencesArePlaces
<1> QED
  BY <1>2, <1>5, <1>6 DEF TouchInv

\* A step that leaves the case to the recording it is of.
LEMMA CaseStays ==
  ASSUME TouchInv, UNCHANGED caseVars,
         tRecording'.first = tRecording.first, tRecording'.generation = tRecording.generation
  PROVE  /\ TouchesRecordedOnce' /\ StaysWithRecording' /\ ReferencesArePlaces'
         /\ \A n : InCase(n)' <=> InCase(n)
<1>1. TouchesRecordedOnce'
  BY DEF TouchInv, caseVars, TouchesRecordedOnce, TouchesOf
<1>2. StaysWithRecording' /\ ReferencesArePlaces'
  BY DEF TouchInv, caseVars, StaysWithRecording, ReferencesArePlaces
<1>3. \A n : InCase(n)' <=> InCase(n)
  BY DEF caseVars, InCase, TouchesOf
<1> QED
  BY <1>1, <1>2, <1>3

\* A step that touches neither the fingers nor the case.
LEMMA NoTouchKeeps ==
  ASSUME TouchInv, UNCHANGED <<tSeen, gestureVars, caseVars>>, tCount'.touches = tCount.touches,
         tRecording'.first = tRecording.first, tRecording'.generation = tRecording.generation,
         tRecording'.running = tRecording.running, TouchTypeOK'
  PROVE  TouchInv'
<1>1. /\ TouchesRecordedOnce' /\ StaysWithRecording' /\ ReferencesArePlaces'
      /\ \A n : InCase(n)' <=> InCase(n)
  BY CaseStays
<1>2. Heard' = Heard
  BY DEF Heard
<1>3. IdleKnowsNoFinger'
  BY DEF TouchInv, IdleKnowsNoFinger, Active, gestureVars
<1>4. TouchesAreHeard'
  BY <1>1, <1>2 DEF TouchInv, TouchesAreHeard, Active, gestureVars
<1>5. TouchesAreApart'
  BY <1>1 DEF TouchInv, TouchesAreApart, Active, gestureVars
<1> QED
  BY <1>1, <1>3, <1>4, <1>5 DEF TouchInv

LEMMA TickKeeps == ASSUME TouchInv, Tick PROVE TouchInv'
<1>1. TouchTypeOK'
  BY DEF Tick, TouchInv, TouchTypeOK, gestureVars, caseVars
<1> QED
  BY <1>1, NoTouchKeeps DEF Tick

LEMMA SealCaseKeeps == ASSUME TouchInv, SealCase PROVE TouchInv'
<1>1. /\ tRecording' \in [generation : Nat, running : BOOLEAN, saved : BOOLEAN, excluded : SUBSET Places, first : Nat]
      /\ tRecording'.first = tRecording.first /\ tRecording'.generation = tRecording.generation
      /\ tRecording'.running = tRecording.running
  BY DEF SealCase, TouchInv, TouchTypeOK
<1>2. TouchTypeOK'
  BY <1>1 DEF SealCase, TouchInv, TouchTypeOK, gestureVars, caseVars
<1> QED
  BY <1>1, <1>2, NoTouchKeeps DEF SealCase

LEMMA MoveOverlayKeeps == ASSUME TouchInv, NEW b \in SUBSET Places, MoveOverlay(b) PROVE TouchInv'
<1>1. /\ tRecording' \in [generation : Nat, running : BOOLEAN, saved : BOOLEAN, excluded : SUBSET Places, first : Nat]
      /\ tRecording'.first = tRecording.first /\ tRecording'.generation = tRecording.generation
      /\ tRecording'.running = tRecording.running
  BY DEF MoveOverlay, TouchInv, TouchTypeOK
<1>2. TouchTypeOK'
  BY <1>1 DEF MoveOverlay, TouchInv, TouchTypeOK, gestureVars, caseVars
<1> QED
  BY <1>1, <1>2, NoTouchKeeps DEF MoveOverlay

LEMMA CallAppendKeeps ==
  ASSUME TouchInv, NEW q \in Requests, NEW kind \in {"input", "assert_screenshot"}, CallAppend(q, kind)
  PROVE  TouchInv'
<1> DEFINE asked == [pc |-> "append", kind |-> kind, recording |-> tRecording.generation, shot |-> tCount'.appends]
<1>1. tCount' = [tCount EXCEPT !.appends = @ + 1] /\ tRequest' = [tRequest EXCEPT ![q] = asked]
  BY DEF CallAppend
<1>2. tCount' \in [touches : Nat, appends : Nat] /\ tCount'.touches = tCount.touches
  BY <1>1 DEF TouchInv, TouchTypeOK
<1>3. asked \in AppendRequests
  BY <1>2 DEF TouchInv, TouchTypeOK, AppendRequests
<1> HIDE DEF asked
<1>4. TouchTypeOK'
  BY <1>1, <1>2, <1>3 DEF CallAppend, TouchInv, TouchTypeOK, gestureVars, caseVars
<1> QED
  BY <1>2, <1>4, NoTouchKeeps DEF CallAppend

LEMMA BeginRecordingKeeps == ASSUME TouchInv, NEW b \in SUBSET Places, BeginRecording(b) PROVE TouchInv'
<1>1. /\ ~tRecording.running /\ tActions' = <<>> /\ tAssets' = <<>>
      /\ UNCHANGED <<tClock, tSeen, tGesture, tCompleted, tTargets, tRequest, tCount>>
      /\ tRecording' = [generation |-> tRecording.generation + 1, running |-> TRUE, saved |-> FALSE,
                        excluded |-> b, first |-> tCount.touches + 1]
  BY DEF BeginRecording, gestureVars
<1>2. tSeen.pc = "scan" /\ tCompleted = {} /\ \A s \in Slots : ~Active(s)
  BY <1>1 DEF TouchInv, IdleKnowsNoFinger, NoSeen
<1>3. TouchTypeOK'
  BY <1>1 DEF TouchInv, TouchTypeOK
<1>4. \A s \in Slots : ~Active(s)'
  BY <1>1, <1>2 DEF Active
<1>5. \A n : ~InCase(n)'
  BY <1>1 DEF InCase
<1>6. IdleKnowsNoFinger' /\ TouchesAreHeard' /\ TouchesAreApart'
  <2>1. tRecording'.first <= tCount'.touches + 1
    BY <1>1 DEF TouchInv, TouchTypeOK
  <2> QED
    BY <1>1, <1>2, <1>4, <1>5, <2>1 DEF IdleKnowsNoFinger, TouchesAreHeard, TouchesAreApart
<1>7. TouchesRecordedOnce' /\ StaysWithRecording' /\ ReferencesArePlaces'
  BY <1>1 DEF TouchesRecordedOnce, StaysWithRecording, ReferencesArePlaces
<1> QED
  BY <1>3, <1>6, <1>7 DEF TouchInv

LEMMA CaptureReturnsKeeps == ASSUME TouchInv, CaptureReturns PROVE TouchInv'
<1>1. /\ tSeen.pc = "scan" /\ tRecording' = [tRecording EXCEPT !.running = FALSE]
      /\ tGesture' = [s \in Slots |-> NoSeen] /\ tCompleted' = {} /\ tTargets' = [s \in Slots |-> 0]
      /\ UNCHANGED <<tClock, tSeen, caseVars, tRequest, tCount>>
  BY DEF CaptureReturns, Reading
<1>2. /\ tRecording' \in [generation : Nat, running : BOOLEAN, saved : BOOLEAN, excluded : SUBSET Places, first : Nat]
      /\ tRecording'.first = tRecording.first /\ tRecording'.generation = tRecording.generation
  BY <1>1 DEF TouchInv, TouchTypeOK
<1>3. NoSeen \in Fingers /\ NoSeen.pc = "scan"
  BY DEF NoSeen, Fingers
<1>4. TouchTypeOK'
  BY <1>1, <1>2, <1>3 DEF TouchInv, TouchTypeOK, caseVars
<1>5. \A s \in Slots : ~Active(s)'
  BY <1>1, <1>3 DEF Active
<1>6. /\ TouchesRecordedOnce' /\ StaysWithRecording' /\ ReferencesArePlaces'
      /\ \A n : InCase(n)' <=> InCase(n)
  BY <1>1, <1>2, CaseStays
<1>7. Heard' = Heard
  BY <1>1, <1>2 DEF Heard
<1>8. IdleKnowsNoFinger' /\ TouchesAreHeard' /\ TouchesAreApart'
  BY <1>1, <1>5, <1>6, <1>7 DEF TouchInv, IdleKnowsNoFinger, TouchesAreHeard, TouchesAreApart
<1> QED
  BY <1>4, <1>6, <1>8 DEF TouchInv

LEMMA TouchDownKeeps ==
  ASSUME TouchInv, NEW s \in Slots, NEW place \in Places, NEW found \in BOOLEAN, TouchDown(s, place, found)
  PROVE  TouchInv'
<1> DEFINE n == tCount.touches + 1
<1> DEFINE down == [pc |-> "feed", slot |-> s, touch |-> n, place |-> place, at |-> tClock,
                    observed |-> Observed(n, found)]
<1>1. /\ tRecording.running /\ tSeen.pc = "scan"
      /\ tCount' = [tCount EXCEPT !.touches = @ + 1]
      /\ UNCHANGED <<tClock, tRecording, tGesture, tCompleted, tTargets, tActions, tAssets, tRequest>>
  BY DEF TouchDown, Reports, Reading, gestureVars, caseVars
<1>2. tCount' \in [touches : Nat, appends : Nat] /\ tCount'.touches = n /\ n \in Nat /\ tCount.touches \in Nat
  BY <1>1 DEF TouchInv, TouchTypeOK
<1>3. tSeen' = down
  BY <1>2 DEF TouchDown
<1>4. Observed(n, found) \in Nat /\ Observed(n, found) \in {0, n}
  BY <1>2 DEF Observed
<1>5. down \in Fingers
  BY <1>2, <1>4, TouchAssumption DEF TouchInv, TouchTypeOK, Fingers
<1>6. down.pc = "feed" /\ down.slot = s /\ down.touch = n /\ down.observed \in {0, n}
  BY <1>4
<1> HIDE DEF down
<1>7. TouchTypeOK'
  BY <1>1, <1>2, <1>3, <1>5, <1>6 DEF TouchInv, TouchTypeOK
<1>8. /\ TouchesRecordedOnce' /\ StaysWithRecording' /\ ReferencesArePlaces'
      /\ \A m : InCase(m)' <=> InCase(m)
  BY <1>1, CaseStays DEF caseVars
<1>9. Heard' = Heard /\ n >= tRecording.first
  <2>1. Heard' = tRecording.first .. (n - 1) /\ Heard = tRecording.first .. tCount.touches
    BY <1>1, <1>2, <1>3, <1>6 DEF Heard
  <2> QED
    BY <2>1, <1>2 DEF TouchInv, TouchTypeOK, TouchesAreHeard
<1>10. IdleKnowsNoFinger'
  BY <1>1 DEF IdleKnowsNoFinger
<1>11. TouchesAreHeard'
  <2>1. tRecording'.first <= tCount'.touches + 1
    BY <1>1, <1>2, <1>9 DEF TouchInv, TouchTypeOK
  <2> QED
    BY <1>1, <1>2, <1>3, <1>6, <1>8, <1>9, <2>1 DEF TouchInv, TouchesAreHeard, Active
<1>12. TouchesAreApart'
  BY <1>1, <1>8 DEF TouchInv, TouchesAreApart, Active
<1> QED
  BY <1>7, <1>8, <1>10, <1>11, <1>12 DEF TouchInv

LEMMA FeedDownKeeps == ASSUME TouchInv, FeedDown PROVE TouchInv'
<1> DEFINE s == tSeen.slot
<1>1. /\ tSeen.pc = "feed" /\ s \in Slots /\ tSeen \in Fingers
      /\ tTargets' = [tTargets EXCEPT ![s] = tSeen.observed]
      /\ tGesture' = [tGesture EXCEPT ![s] = tSeen]
      /\ tSeen' = NoSeen
      /\ UNCHANGED <<tClock, tRecording, tActions, tAssets, tRequest, tCount>>
  BY DEF FeedDown, TouchInv, TouchTypeOK, caseVars
<1>2. tCompleted' = tCompleted \/ tCompleted' = {}
  BY DEF FeedDown
<1>3. (\A r \in Slots : ~Active(r)) => tCompleted' = {}
  BY DEF FeedDown
<1>4. NoSeen \in Fingers /\ NoSeen.pc = "scan"
  BY DEF NoSeen, Fingers
<1>5. tSeen.observed \in Nat /\ tSeen.touch \in Nat
  BY <1>1 DEF Fingers
<1> HIDE DEF s
<1>6. TouchTypeOK'
  BY <1>1, <1>2, <1>4, <1>5 DEF TouchInv, TouchTypeOK
<1>7. /\ \A r \in Slots : tGesture'[r] = IF r = s THEN tSeen ELSE tGesture[r]
      /\ \A r \in Slots : tTargets'[r] = IF r = s THEN tSeen.observed ELSE tTargets[r]
  BY <1>1 DEF TouchInv, TouchTypeOK
<1>8. /\ TouchesRecordedOnce' /\ StaysWithRecording' /\ ReferencesArePlaces'
      /\ \A m : InCase(m)' <=> InCase(m)
  BY <1>1, CaseStays DEF caseVars
<1>9. tSeen.touch \in Heard' /\ tSeen.touch \notin Heard /\ Heard \subseteq Heard'
  <2>1. Heard = tRecording.first .. (tCount.touches - 1) /\ Heard' = tRecording.first .. tCount.touches
    BY <1>1, <1>4 DEF Heard
  <2>2. tSeen.touch = tCount.touches /\ tSeen.touch >= tRecording.first
    BY <1>1 DEF TouchInv, TouchesAreHeard
  <2>3. tCount.touches \in Nat /\ tRecording.first \in Nat
    BY DEF TouchInv, TouchTypeOK
  <2> QED
    BY <2>1, <2>2, <2>3
<1>10. IdleKnowsNoFinger'
  BY <1>1 DEF TouchInv, IdleKnowsNoFinger
<1>11. TouchesAreHeard'
  <2>1. ASSUME NEW r \in Slots, Active(r)'
        PROVE  tGesture'[r].touch \in Heard' /\ tTargets'[r] \in {0, tGesture'[r].touch}
    <3>1. CASE r = s
      BY <3>1, <1>1, <1>7, <1>9 DEF TouchInv, TouchesAreHeard
    <3>2. CASE r # s
      BY <3>2, <2>1, <1>7, <1>9 DEF TouchInv, TouchesAreHeard, Active
    <3> QED
      BY <3>1, <3>2
  <2>2. \A c \in tCompleted' : c.touch \in Heard'
    BY <1>2, <1>9 DEF TouchInv, TouchesAreHeard
  <2>3. \A m : InCase(m)' => m \in Heard'
    BY <1>8, <1>9 DEF TouchInv, TouchesAreHeard
  <2> QED
    BY <2>1, <2>2, <2>3, <1>1, <1>4 DEF TouchInv, TouchesAreHeard
<1>12. TouchesAreApart'
  <2>1. \A r \in Slots : Active(r) => tGesture[r].touch # tSeen.touch
    BY <1>9 DEF TouchInv, TouchesAreHeard
  <2>2. ~InCase(tSeen.touch) /\ \A c \in tCompleted : c.touch # tSeen.touch
    BY <1>9 DEF TouchInv, TouchesAreHeard
  <2>3. \A c \in tCompleted' : ~InCase(c.touch)
    BY <1>2, <1>3 DEF TouchInv, TouchesAreApart
  <2>4. ASSUME NEW r \in Slots, NEW t \in Slots, Active(r)', Active(t)', r # t
        PROVE  tGesture'[r].touch # tGesture'[t].touch
    BY <2>1, <2>4, <1>7 DEF TouchInv, TouchesAreApart, Active
  <2>5. ASSUME NEW r \in Slots, Active(r)'
        PROVE  (~InCase(tGesture[r].touch))' /\ \A c \in tCompleted' : c.touch # tGesture'[r].touch
    BY <2>2, <2>5, <1>2, <1>7, <1>8 DEF TouchInv, TouchesAreApart, Active
  <2> QED
    BY <2>3, <2>4, <2>5, <1>8 DEF TouchesAreApart
<1> QED
  BY <1>6, <1>8, <1>10, <1>11, <1>12 DEF TouchInv

LEMMA TouchUpKeeps == ASSUME TouchInv, NEW s \in Slots, NEW place \in Places, TouchUp(s, place) PROVE TouchInv'
<1>1. /\ tRecording.running /\ tSeen.pc = "scan"
      /\ tGesture' = [tGesture EXCEPT ![s] = NoSeen] /\ tTargets' = [tTargets EXCEPT ![s] = 0]
      /\ UNCHANGED <<tClock, tRecording, tSeen, tAssets, tRequest, tCount>>
  BY DEF TouchUp, Reports, Reading
<1>2. NoSeen \in Fingers /\ NoSeen.pc = "scan"
  BY DEF NoSeen, Fingers
<1>3. \A r \in Slots : tGesture'[r] = IF r = s THEN NoSeen ELSE tGesture[r]
  BY <1>1 DEF TouchInv, TouchTypeOK
<1>4. \A r \in Slots : r # s => tTargets'[r] = tTargets[r]
  BY <1>1 DEF TouchInv, TouchTypeOK
<1>5. \A r \in Slots : Active(r)' <=> (Active(r) /\ r # s)
  BY <1>2, <1>3 DEF Active
<1>6. Lifted(s, place) \in Contacts /\ Lifted(s, place).touch = tGesture[s].touch
  <2>1. tGesture[s] \in Fingers /\ s \in Int /\ tClock \in Nat
    BY TouchAssumption DEF TouchInv, TouchTypeOK
  <2> QED
    BY <2>1 DEF Lifted, Contacts, Fingers
<1>7. tCompleted' = IF Active(s) THEN tCompleted \cup {Lifted(s, place)} ELSE tCompleted
  BY DEF TouchUp
<1>8. tCompleted' \in SUBSET Contacts
  BY <1>6, <1>7 DEF TouchInv, TouchTypeOK
<1>9. Heard' = Heard
  BY <1>1 DEF Heard
<1>10. \A c \in tCompleted' : c.touch \in Heard
  BY <1>6, <1>7 DEF TouchInv, TouchesAreHeard
<1> HIDE DEF Lifted
<1>11. ASSUME TouchesRecordedOnce', StaysWithRecording', ReferencesArePlaces', tActions' \in Seq(RecordedActions),
              \A n : InCase(n)' => n \in Heard /\ (InCase(n) \/ \A r \in Slots : ~Active(r)')
       PROVE  TouchInv'
  <2>1. TouchTypeOK'
    BY <1>1, <1>2, <1>8, <1>11 DEF TouchInv, TouchTypeOK
  <2>2. IdleKnowsNoFinger'
    BY <1>1 DEF IdleKnowsNoFinger
  <2>3. TouchesAreHeard'
    BY <1>1, <1>3, <1>4, <1>5, <1>9, <1>10, <1>11 DEF TouchInv, TouchesAreHeard
  <2>4. TouchesAreApart'
    <3>1. ASSUME NEW r \in Slots, Active(r)'
          PROVE  /\ (~InCase(tGesture[r].touch))'
                 /\ \A c \in tCompleted' : c.touch # tGesture'[r].touch /\ ~InCase(c.touch)'
      <4>1. Active(r) /\ r # s /\ tGesture'[r] = tGesture[r] /\ \A n : InCase(n)' => InCase(n)
        BY <3>1, <1>3, <1>5, <1>11
      <4>2. \A c \in tCompleted : c.touch # tGesture[r].touch /\ ~InCase(c.touch)
        BY <4>1 DEF TouchInv, TouchesAreApart
      <4>3. Active(s) => tGesture[s].touch # tGesture[r].touch /\ ~InCase(tGesture[s].touch)
        BY <4>1 DEF TouchInv, TouchesAreApart
      <4>4. ~InCase(tGesture[r].touch)
        BY <4>1 DEF TouchInv, TouchesAreApart
      <4> QED
        BY <4>1, <4>2, <4>3, <4>4, <1>6, <1>7
    <3>2. \A r, t \in Slots : Active(r)' /\ Active(t)' /\ r # t => tGesture'[r].touch # tGesture'[t].touch
      BY <1>3, <1>5 DEF TouchInv, TouchesAreApart
    <3> QED
      BY <3>1, <3>2 DEF TouchesAreApart
  <2> QED
    BY <2>1, <2>2, <2>3, <2>4, <1>11 DEF TouchInv
<1>12. CASE Active(s) /\ \A r \in Slots \ {s} : ~Active(r)
  <2> DEFINE a == Gesture(tCompleted', tTargets[s])
  <2>1. tActions' = Appended(a)
    BY <1>12 DEF TouchUp
  <2>2. tCompleted' # {} /\ Lifted(s, place) \in tCompleted' /\ tTargets[s] \in Nat
    BY <1>12, <1>7 DEF TouchInv, TouchTypeOK
  <2>3. /\ a \in RecordedActions /\ a.contacts = tCompleted' /\ a.recording = tRecording.generation
        /\ a.target \in {0, tTargets[s]} /\ a.type # "assert_screenshot"
    BY <1>8, <2>2, GestureIsRecorded DEF TouchInv
  <2> HIDE DEF a
  <2>4. Grows(tActions', a)
    BY <2>1, <2>3, AppendedGrows DEF TouchInv, TouchTypeOK
  <2>5. TouchesOf(a) = {c.touch : c \in tCompleted'}
    BY <2>3 DEF TouchesOf
  <2>6. \A n \in TouchesOf(a) : n \in Heard /\ ~InCase(n)
    <3>1. \A c \in tCompleted : ~InCase(c.touch)
      BY <1>12 DEF TouchInv, TouchesAreApart
    <3>2. ~InCase(tGesture[s].touch)
      BY <1>12 DEF TouchInv, TouchesAreApart
    <3> QED
      BY <3>1, <3>2, <2>5, <1>6, <1>7, <1>10
  <2>7. a.target # 0 => a.target \in TouchesOf(a)
    <3>1. tTargets[s] \in {0, tGesture[s].touch}
      BY <1>12 DEF TouchInv, TouchesAreHeard
    <3>2. tGesture[s].touch \in TouchesOf(a)
      BY <2>2, <2>5, <1>6
    <3> QED
      BY <3>1, <3>2, <2>3
  <2>8. /\ TouchesRecordedOnce' /\ StaysWithRecording' /\ ReferencesArePlaces'
        /\ tActions' \in Seq(RecordedActions)
        /\ \A n : InCase(n)' => InCase(n) \/ n \in TouchesOf(a)
    BY <1>1, <2>3, <2>4, <2>6, <2>7, CaseGrows
  <2>9. \A r \in Slots : ~Active(r)'
    BY <1>5, <1>12
  <2>10. \A n : InCase(n)' => n \in Heard
    BY <2>6, <2>8 DEF TouchInv, TouchesAreHeard
  <2> QED
    BY <1>11, <2>8, <2>9, <2>10
<1>13. CASE ~(Active(s) /\ \A r \in Slots \ {s} : ~Active(r))
  <2>1. tActions' = tActions
    BY <1>13 DEF TouchUp
  <2>2. /\ TouchesRecordedOnce' /\ StaysWithRecording' /\ ReferencesArePlaces'
        /\ \A m : InCase(m)' <=> InCase(m)
    BY <1>1, <2>1, CaseStays DEF caseVars
  <2> QED
    BY <1>11, <2>1, <2>2 DEF TouchInv, TouchTypeOK, TouchesAreHeard
<1> QED
  BY <1>12, <1>13

LEMMA AppendAskedKeeps == ASSUME TouchInv, NEW q \in Requests, AppendAsked(q) PROVE TouchInv'
<1> DEFINE r == tRequest[q]
<1> DEFINE a == Asked(r)
<1>1. /\ tRequest' = [tRequest EXCEPT ![q] = NoRequest]
      /\ UNCHANGED <<tClock, tRecording, tSeen, tGesture, tCompleted, tTargets, tCount>>
  BY DEF AppendAsked, gestureVars
<1>2. NoRequest \in AppendRequests /\ r \in AppendRequests
  BY DEF NoRequest, AppendRequests, TouchInv, TouchTypeOK
<1>3. tRequest' \in [Requests -> AppendRequests]
  BY <1>1, <1>2 DEF TouchInv, TouchTypeOK
<1>4. CASE UNCHANGED caseVars
  <2>1. TouchTypeOK'
    BY <1>1, <1>3, <1>4 DEF TouchInv, TouchTypeOK, caseVars
  <2> QED
    BY <1>1, <1>4, <2>1, NoTouchKeeps DEF gestureVars
<1>5. CASE /\ Current(r) /\ tActions' = Appended(a)
           /\ tAssets' = IF r.kind = "assert_screenshot" THEN Put(tAssets, Reference, r.shot) ELSE tAssets
  <2>1. /\ r.kind \in {"input", "assert_screenshot"} /\ r.recording \in Nat /\ r.shot \in Nat
        /\ Reference \in Nat /\ tClock \in Nat
    BY <1>2 DEF AppendRequests, Reference, TouchInv, TouchTypeOK
  <2>2. a \in RecordedActions
    BY <2>1 DEF Asked, RecordedActions, ActionTypes
  <2>3. /\ a.recording = r.recording /\ a.contacts = {} /\ a.type = r.kind /\ a.shot = r.shot
        /\ a.type = "assert_screenshot" => a.reference = Len(tActions) + 1
    BY DEF Asked, Reference
  <2> HIDE DEF a, r
  <2>4. Grows(tActions', a)
    BY <1>5, <2>2, AppendedGrows DEF TouchInv, TouchTypeOK
  <2>5. TouchesOf(a) = {}
    BY <2>3 DEF TouchesOf
  <2>6. a.recording = tRecording.generation
    BY <1>5, <2>3 DEF Current
  <2>7. a.type = "assert_screenshot" =>
          Len(tActions) + 1 \in DOMAIN tAssets' /\ tAssets'[Len(tActions) + 1] = a.shot
    BY <1>5, <2>3 DEF Put, Reference
  <2>8. ASSUME NEW i \in 1 .. Len(tActions), i \in DOMAIN tAssets
        PROVE  i \in DOMAIN tAssets' /\ tAssets'[i] = tAssets[i]
    <3>1. i # Len(tActions) + 1
      BY DEF TouchInv, TouchTypeOK
    <3> QED
      BY <1>5, <2>8, <3>1 DEF Put, Reference
  <2>9. /\ TouchesRecordedOnce' /\ StaysWithRecording' /\ ReferencesArePlaces'
        /\ tActions' \in Seq(RecordedActions)
        /\ \A n : InCase(n)' => InCase(n)
    BY <1>1, <2>2, <2>3, <2>4, <2>5, <2>6, <2>7, <2>8, CaseGrows
  <2>10. Heard' = Heard
    BY <1>1 DEF Heard
  <2>11. TouchTypeOK'
    BY <1>1, <1>3, <2>9 DEF TouchInv, TouchTypeOK
  <2>12. IdleKnowsNoFinger'
    BY <1>1 DEF TouchInv, IdleKnowsNoFinger, Active
  <2>13. TouchesAreHeard'
    BY <1>1, <2>9, <2>10 DEF TouchInv, TouchesAreHeard, Active
  <2>14. TouchesAreApart'
    BY <1>1, <2>9 DEF TouchInv, TouchesAreApart, Active
  <2> QED
    BY <2>9, <2>11, <2>12, <2>13, <2>14 DEF TouchInv
<1> QED
  BY <1>4, <1>5 DEF AppendAsked

LEMMA TouchStepsKeep == TouchInv /\ [TouchNext]_touchVars => TouchInv'
<1> SUFFICES ASSUME TouchInv, [TouchNext]_touchVars PROVE TouchInv'
  OBVIOUS
<1>1. CASE UNCHANGED touchVars
  <2>1. TouchTypeOK'
    BY <1>1 DEF touchVars, TouchInv, TouchTypeOK
  <2> QED
    BY <1>1, <2>1, NoTouchKeeps DEF touchVars, gestureVars, caseVars
<1>2. CASE Tick \/ CaptureReturns \/ SealCase \/ FeedDown
  BY <1>2, TickKeeps, CaptureReturnsKeeps, SealCaseKeeps, FeedDownKeeps
<1>3. ASSUME NEW b \in {{}, Overlay}, BeginRecording(b) \/ MoveOverlay(b) PROVE TouchInv'
  <2>1. b \in SUBSET Places
    BY TouchAssumption
  <2> QED
    BY <1>3, <2>1, BeginRecordingKeeps, MoveOverlayKeeps
<1>4. ASSUME NEW s \in Slots, NEW place \in Places,
             TouchUp(s, place) \/ \E found \in BOOLEAN : TouchDown(s, place, found)
      PROVE  TouchInv'
  BY <1>4, TouchUpKeeps, TouchDownKeeps
<1>5. ASSUME NEW q \in Requests, AppendAsked(q) \/ \E k \in {"input", "assert_screenshot"} : CallAppend(q, k)
      PROVE  TouchInv'
  BY <1>5, AppendAskedKeeps, CallAppendKeeps
<1> QED
  BY <1>1, <1>2, <1>3, <1>4, <1>5 DEF TouchNext

LEMMA TouchInvIsSafe == TouchInv => RecordingSafe
BY DEF TouchInv, RecordingSafe, ReferencesAreOwn, ReferencesArePlaces

\* The invariant of a recording holds always, for any touches and screenshots (recording_capture.go
\* and the Normalizer).
THEOREM TouchInvariant == TouchSpec => []TouchInv
BY TouchInitInv, TouchStepsKeep, PTL DEF TouchSpec

------------------------------------------------------------------------------
(* The replay of a case: the receipts of its steps, and where its inputs go.          *)

StepPlaces == {"delay", "front", "locate", "input"}
ReplayPlaces == {"idle", "display", "accept", "cycled", "cycleFront", "persist"} \cup StepPlaces
ReplayRecords ==
  [pc : ReplayPlaces, from : 0 .. Total, loops : Int, cycle : 0 .. MaxCycles, completed : 0 .. Total,
   part : Nat \ {0}, front : {"none", "target"}, page : {{}} \cup {l.nodes : l \in Layouts},
   at : {0} \cup {n.at : n \in UNION {l.nodes : l \in Layouts}} \cup {Recorded[i].target.at : i \in 1 .. Total},
   cancelled : BOOLEAN,
   reason : {"none", "display_unavailable", "stopped", "safety_stop", "assertion_failed", "input_failed",
             "completed"},
   verdict : {"none", "passed", "failed", "not_tested"}]

ReplayTypeOK ==
  /\ eScreen \in Layouts
  /\ eReplay \in ReplayRecords
  /\ eDone \in Seq(1 .. Total)
  /\ DOMAIN eReceipts \subseteq (1 .. MaxCycles) \X (1 .. Total)

\* What the place of the loop says of its counters, and of what it knows of the screen.
PlaceOfReplay ==
  /\ eReplay.pc = "display" => eReceipts = <<>> /\ eReplay.completed = eReplay.from
  /\ eReplay.pc = "accept" \/ eReplay.pc \in StepPlaces =>
       /\ Total > 0 /\ eReplay.cycle \in 1 .. MaxCycles
       /\ eReplay.cycle = 1 => eReplay.completed \in eReplay.from .. Total - 1
  /\ eReplay.pc \in {"cycled", "cycleFront"} => eReplay.completed = Total /\ eReplay.cycle \in 1 .. MaxCycles
  /\ eReplay.pc = "cycleFront" => eReplay.cycle < MaxCycles
  /\ eReplay.pc \in {"delay", "front", "locate"} => eReplay.page = {}
  /\ eReplay.pc \in {"locate", "input"} => eReplay.front = "target"
  /\ eReplay.pc \notin {"persist", "idle"} => eReplay.reason = "none"
  /\ eReplay.pc # "idle" => eReplay.verdict = "none"

\* The steps of this cycle up to n are accepted, and in the first cycle no others.
StepsFilled(n) ==
  /\ \A i \in 1 .. n : eReplay.cycle > 1 => <<eReplay.cycle, i>> \in DOMAIN eReceipts
  /\ eReplay.cycle = 1 => DOMAIN eReceipts = {<<1, i>> : i \in eReplay.from + 1 .. n}
Earlier(s) == s[1] < eReplay.cycle \/ (s[1] = eReplay.cycle /\ s[2] < Index)

\* The steps accepted are those up to the place of the loop, and all but the one under way executed.
ReceiptsFollow ==
  /\ eReplay.pc = "accept" =>
       /\ StepsFilled(Index - 1)
       /\ \A s \in DOMAIN eReceipts : Earlier(s) /\ eReceipts[s] = "executed"
  /\ eReplay.pc \in StepPlaces =>
       /\ StepsFilled(Index) /\ StepId \in DOMAIN eReceipts
       /\ \A s \in DOMAIN eReceipts : s # StepId => Earlier(s) /\ eReceipts[s] = "executed"
  /\ eReplay.pc \in {"cycled", "cycleFront"} \/ eReplay.reason = "completed" =>
       /\ StepsFilled(Total) /\ eReplay.cycle \in 1 .. MaxCycles
       /\ \A s \in DOMAIN eReceipts : s[1] <= eReplay.cycle /\ eReceipts[s] = "executed"
  /\ \A s \in DOMAIN eReceipts : eReceipts[s] = "accepted" => s = StepId

\* A screenshot that was looked at is one that an action of the case expects.
LooksMatch == eInput.kind = "look" => \E i \in 1 .. Total : Recorded[i].expects = eInput.at

ReplayInv ==
  /\ ReplayTypeOK /\ PlaceOfReplay /\ ReceiptsFollow /\ LooksMatch
  /\ ActionsInOrder /\ InputsAreMeant /\ TapsFindTheirControl /\ PassedIsEarned

\* What the remainder does when one more is counted.
LEMMA DivisionIsUnique ==
  ASSUME NEW t \in Nat, NEW a \in Int, NEW b \in Int, NEW r \in 0 .. t - 1, NEW s \in 0 .. t - 1,
         t * a + r = t * b + s
  PROVE  a = b
BY SMT

LEMMA Division ==
  ASSUME NEW m \in Nat, NEW t \in Nat, t > 0
  PROVE  m \div t \in Int /\ m % t \in 0 .. t - 1 /\ m = t * (m \div t) + (m % t)
<1>1. m = (m \div t) * t + (m % t)
  BY Z3
<1>2. m \div t \in Int /\ m % t \in 0 .. t - 1
  OBVIOUS
<1> QED
  BY <1>1, <1>2

LEMMA RemainderCounts ==
  ASSUME NEW m \in Nat, NEW t \in Nat, t > 0
  PROVE  m % t \in 0 .. t - 1 /\ (m + 1) % t = IF m % t = t - 1 THEN 0 ELSE (m % t) + 1
<1> DEFINE q == m \div t
<1> DEFINE r == m % t
<1> DEFINE p == (m + 1) \div t
<1> DEFINE s == (m + 1) % t
<1>1. q \in Int /\ r \in 0 .. t - 1 /\ m = t * q + r
  BY Division
<1>2. p \in Int /\ s \in 0 .. t - 1 /\ m + 1 = t * p + s
  BY Division
<1> HIDE DEF q, r, p, s
<1>3. CASE r = t - 1
  <2>1. t * (q + 1) = t * q + t
    BY <1>1
  <2>2. t * p + s = t * (q + 1) + 0
    BY <1>1, <1>2, <1>3, <2>1
  <2>3. p = q + 1
    BY <1>1, <1>2, <2>2, DivisionIsUnique
  <2>4. s = 0
    BY <1>1, <1>2, <2>2, <2>3
  <2> QED
    BY <1>1, <1>3, <2>4 DEF r, s
<1>4. CASE r # t - 1
  <2>1. r + 1 \in 0 .. t - 1 /\ t * p + s = t * q + (r + 1)
    BY <1>1, <1>2, <1>4
  <2>2. p = q
    BY <1>1, <1>2, <2>1, DivisionIsUnique
  <2>3. s = r + 1
    BY <1>1, <1>2, <2>1, <2>2
  <2> QED
    BY <1>1, <1>4, <2>3 DEF r, s
<1> QED
  BY <1>3, <1>4

LEMMA ReplayConstants ==
  /\ MaxCycles \in Nat \ {0} /\ Total \in Nat /\ Loops \subseteq Int
  /\ \A i \in 1 .. Total : Recorded[i].type \in ReplayTypes
BY ReplayAssumption DEF Total

\* The action under way is one of the case.
LEMMA IndexIsAction ==
  ASSUME ReplayTypeOK, Total > 0
  PROVE  Index \in 1 .. Total /\ Index = IF eReplay.completed = Total THEN 1 ELSE eReplay.completed + 1
<1>1. eReplay.completed \in 0 .. Total
  BY DEF ReplayTypeOK, ReplayRecords
<1> QED
  BY <1>1, ReplayConstants DEF Index

LEMMA ReplayInitInv == ReplayInit => ReplayInv
<1> SUFFICES ASSUME ReplayInit PROVE ReplayInv
  OBVIOUS
<1>1. NoReplay \in ReplayRecords
  BY ReplayConstants DEF NoReplay, ReplayRecords, ReplayPlaces
<1>2. ReplayTypeOK
  BY <1>1 DEF ReplayInit, ReplayTypeOK
<1>3. PlaceOfReplay
  BY DEF ReplayInit, PlaceOfReplay, NoReplay, StepPlaces
<1>4. ReceiptsFollow
  BY DEF ReplayInit, ReceiptsFollow, NoReplay, StepPlaces
<1>5. LooksMatch /\ InputsAreMeant
  BY DEF ReplayInit, LooksMatch, InputsAreMeant, NoInput
<1>6. ActionsInOrder
  BY DEF ReplayInit, ActionsInOrder, NoReplay
<1>7. TapsFindTheirControl /\ PassedIsEarned
  BY DEF ReplayInit, TapsFindTheirControl, PassedIsEarned, NoReplay, Here
<1> QED
  BY <1>2, <1>3, <1>4, <1>5, <1>6, <1>7 DEF ReplayInv

\* A step that neither accepts nor ends a step of the case.
SameProgress ==
  /\ eReplay'.from = eReplay.from /\ eReplay'.cycle = eReplay.cycle /\ eReplay'.completed = eReplay.completed

LEMMA ProgressStays ==
  ASSUME SameProgress
  PROVE  /\ Index' = Index /\ StepId' = StepId /\ Doing' = Doing
         /\ \A s : Earlier(s)' <=> Earlier(s)
         /\ UNCHANGED eReceipts => \A n : StepsFilled(n)' <=> StepsFilled(n)
<1>1. Index' = Index
  BY DEF SameProgress, Index
<1> QED
  BY <1>1 DEF SameProgress, StepId, Doing, Earlier, StepsFilled

LEMMA ReplayQuiet ==
  ASSUME ReplayInv, eReplay.pc # "idle", SameProgress, UNCHANGED <<eReceipts, eDone>>,
         eReplay' \in ReplayRecords, eScreen' \in Layouts,
         eReplay'.reason = eReplay.reason, eReplay'.verdict = eReplay.verdict,
         \/ eReplay'.pc = eReplay.pc
         \/ eReplay.pc \in StepPlaces /\ eReplay'.pc \in StepPlaces
         \/ eReplay.pc = "cycled" /\ eReplay'.pc = "cycleFront",
         PlaceOfReplay', TapsFindTheirControl', LooksMatch', InputsAreMeant'
  PROVE  ReplayInv'
<1>1. ReplayTypeOK'
  BY DEF ReplayInv, ReplayTypeOK
<1>2. ReceiptsFollow'
  BY ProgressStays DEF ReplayInv, ReceiptsFollow, SameProgress, StepPlaces
<1>3. ActionsInOrder'
  BY DEF ReplayInv, ActionsInOrder, SameProgress
<1>4. PassedIsEarned'
  BY DEF ReplayInv, PlaceOfReplay, PassedIsEarned
<1> QED
  BY <1>1, <1>2, <1>3, <1>4 DEF ReplayInv

\* The replay ends with a reason.
LEMMA FinishKeeps ==
  ASSUME ReplayInv, eReplay.pc \notin {"idle", "persist"}, UNCHANGED <<eScreen, eInput, eDone>>,
         NEW reason \in {"display_unavailable", "stopped", "safety_stop", "assertion_failed", "input_failed",
                         "completed"},
         Finish(reason),
         reason = "completed" => eReplay.pc = "cycled",
         eReceipts' = eReceipts \/ (eReplay.pc = "input" /\ Receipt("failed") /\ reason # "completed")
  PROVE  ReplayInv'
<1>1. eReplay' = [eReplay EXCEPT !.pc = "persist", !.reason = reason] /\ eReplay \in ReplayRecords
  BY DEF Finish, ReplayInv, ReplayTypeOK
<1>2. eReplay' \in ReplayRecords
  BY <1>1 DEF ReplayRecords, ReplayPlaces
<1>3. /\ eReplay'.pc = "persist" /\ eReplay'.reason = reason /\ eReplay'.verdict = eReplay.verdict
      /\ SameProgress
  BY <1>1 DEF ReplayRecords, SameProgress
<1>4. DOMAIN eReceipts' = DOMAIN eReceipts
  BY DEF Receipt
<1>5. ReplayTypeOK'
  BY <1>2, <1>4 DEF ReplayInv, ReplayTypeOK
<1>6. eReplay.verdict = "none" /\ PlaceOfReplay'
  BY <1>3 DEF ReplayInv, PlaceOfReplay, StepPlaces
<1>7. ReceiptsFollow'
  <2>1. reason = "completed" => /\ StepsFilled(Total)' /\ eReplay'.cycle \in 1 .. MaxCycles
                                /\ \A s \in DOMAIN eReceipts' : s[1] <= eReplay'.cycle /\ eReceipts'[s] = "executed"
    BY <1>3, ProgressStays DEF ReplayInv, ReceiptsFollow, SameProgress
  <2>2. \A s \in DOMAIN eReceipts' : eReceipts'[s] = "accepted" => s = StepId'
    BY <1>3, ProgressStays DEF ReplayInv, ReceiptsFollow, Receipt
  <2> QED
    BY <1>3, <2>1, <2>2 DEF ReceiptsFollow, StepPlaces
<1>8. LooksMatch' /\ InputsAreMeant'
  BY DEF ReplayInv, LooksMatch, InputsAreMeant
<1>9. ActionsInOrder'
  BY <1>3 DEF ReplayInv, ActionsInOrder, SameProgress
<1>10. TapsFindTheirControl' /\ PassedIsEarned'
  BY <1>3, <1>6 DEF TapsFindTheirControl, PassedIsEarned, Here
<1> QED
  BY <1>5, <1>6, <1>7, <1>8, <1>9, <1>10 DEF ReplayInv

LEMMA StopExecutionKeeps == ASSUME ReplayInv, StopExecution PROVE ReplayInv'
<1>1. /\ eReplay.pc # "idle" /\ eReplay' = [eReplay EXCEPT !.cancelled = TRUE] /\ eReplay \in ReplayRecords
      /\ UNCHANGED <<eScreen, eReceipts, eInput, eDone>> /\ eScreen \in Layouts
  BY DEF StopExecution, ReplayInv, ReplayTypeOK
<1>2. eReplay' \in ReplayRecords
  BY <1>1 DEF ReplayRecords
<1>3. /\ SameProgress /\ eReplay'.pc = eReplay.pc
      /\ eReplay'.reason = eReplay.reason /\ eReplay'.verdict = eReplay.verdict
      /\ eReplay'.page = eReplay.page /\ eReplay'.at = eReplay.at /\ eReplay'.front = eReplay.front
  BY <1>1 DEF ReplayRecords, SameProgress
<1>4. PlaceOfReplay'
  BY <1>1, <1>3 DEF ReplayInv, PlaceOfReplay, SameProgress
<1>5. TapsFindTheirControl'
  BY <1>1, <1>3, ProgressStays DEF ReplayInv, TapsFindTheirControl, Here
<1>6. LooksMatch' /\ InputsAreMeant'
  BY <1>1 DEF ReplayInv, LooksMatch, InputsAreMeant
<1> QED
  BY <1>1, <1>2, <1>3, <1>4, <1>5, <1>6, ReplayQuiet

LEMMA ScreenChangesKeeps == ASSUME ReplayInv, ScreenChanges PROVE ReplayInv'
<1>1. /\ eReplay.pc # "idle" /\ eReplay' = eReplay /\ eReplay \in ReplayRecords
      /\ UNCHANGED <<eReceipts, eInput, eDone>> /\ eScreen' \in Layouts
  BY DEF ScreenChanges, ReplayInv, ReplayTypeOK
<1>2. SameProgress
  BY <1>1 DEF SameProgress
<1>3. PlaceOfReplay'
  BY <1>1 DEF ReplayInv, PlaceOfReplay
<1>4. TapsFindTheirControl'
  BY <1>1, <1>2, ProgressStays DEF ReplayInv, TapsFindTheirControl, Here
<1>5. LooksMatch' /\ InputsAreMeant'
  BY <1>1 DEF ReplayInv, LooksMatch, InputsAreMeant
<1> QED
  BY <1>1, <1>2, <1>3, <1>4, <1>5, ReplayQuiet

LEMMA AllowPermissionKeeps == ASSUME ReplayInv, AllowPermission PROVE ReplayInv'
<1>1. /\ eReplay.pc # "idle" /\ eReplay' = eReplay /\ eReplay \in ReplayRecords
      /\ UNCHANGED <<eScreen, eReceipts, eDone>> /\ eScreen \in Layouts
  BY DEF AllowPermission, ReplayInv, ReplayTypeOK, Here
<1>2. SameProgress
  BY <1>1 DEF SameProgress
<1>3. PlaceOfReplay'
  BY <1>1 DEF ReplayInv, PlaceOfReplay
<1>4. TapsFindTheirControl'
  BY <1>1, <1>2, ProgressStays DEF ReplayInv, TapsFindTheirControl, Here
<1>5. LooksMatch' /\ InputsAreMeant'
  <2>1. CASE UNCHANGED eInput
    BY <2>1 DEF ReplayInv, LooksMatch, InputsAreMeant
  <2>2. ASSUME NEW node \in AllowNodes(eScreen.nodes),
               eInput' = [kind |-> "allow", at |-> node.at, front |-> "permission", page |-> eScreen.nodes]
        PROVE  LooksMatch' /\ InputsAreMeant'
    <3>1. node \in eScreen.nodes /\ node.says = {"allow"}
      BY DEF AllowNodes
    <3> QED
      BY <2>2, <3>1 DEF LooksMatch, InputsAreMeant
  <2> QED
    BY <2>1, <2>2 DEF AllowPermission
<1> QED
  BY <1>1, <1>2, <1>3, <1>4, <1>5, ReplayQuiet

LEMMA StepDelayKeeps == ASSUME ReplayInv, StepDelay PROVE ReplayInv'
<1>1. eReplay.pc = "delay" /\ UNCHANGED <<eScreen, eReceipts, eInput, eDone>> /\ eReplay \in ReplayRecords
      /\ eScreen \in Layouts
  BY DEF StepDelay, Here, Kept, ReplayInv, ReplayTypeOK
<1>2. CASE Finish("stopped")
  BY <1>1, <1>2, FinishKeeps
<1>3. CASE eReplay' = [eReplay EXCEPT !.pc = "front"]
  <2>1. eReplay' \in ReplayRecords
    BY <1>1, <1>3 DEF ReplayRecords, ReplayPlaces, StepPlaces
  <2>2. /\ SameProgress /\ eReplay'.pc = "front"
        /\ eReplay'.reason = eReplay.reason /\ eReplay'.verdict = eReplay.verdict
        /\ eReplay'.page = eReplay.page /\ eReplay'.front = eReplay.front
    BY <1>1, <1>3 DEF ReplayRecords, SameProgress
  <2>3. PlaceOfReplay'
    BY <1>1, <2>2 DEF ReplayInv, PlaceOfReplay, SameProgress, StepPlaces
  <2>4. TapsFindTheirControl'
    BY <2>2 DEF TapsFindTheirControl, Here
  <2>5. LooksMatch' /\ InputsAreMeant'
    BY <1>1 DEF ReplayInv, LooksMatch, InputsAreMeant
  <2> QED
    BY <1>1, <2>1, <2>2, <2>3, <2>4, <2>5, ReplayQuiet DEF StepPlaces
<1> QED
  BY <1>2, <1>3 DEF StepDelay, GoOn

LEMMA NotInFrontKeeps == ASSUME ReplayInv, NotInFront PROVE ReplayInv'
<1>1. eReplay.pc \in {"front", "cycleFront"} /\ UNCHANGED <<eScreen, eReceipts, eInput, eDone>>
  BY DEF NotInFront, Here, Kept
<1> QED
  BY <1>1, FinishKeeps DEF NotInFront

\* A new cycle starts with its first action, the first one where the replay resumes.
LEMMA BeginCycleKeeps ==
  ASSUME ReplayInv, NEW c, BeginCycle(c), Kept,
         \/ eReplay.pc = "display" /\ c = 1
         \/ eReplay.pc = "cycleFront" /\ c = eReplay.cycle + 1
  PROVE  ReplayInv'
<1> DEFINE over == Total = 0 \/ (c = 1 /\ eReplay.from = Total)
<1>1. /\ eReplay' = [eReplay EXCEPT !.cycle = c, !.pc = IF over THEN "cycled" ELSE "accept"]
      /\ UNCHANGED <<eScreen, eReceipts, eInput, eDone>> /\ eReplay \in ReplayRecords
  BY DEF BeginCycle, Kept, ReplayInv, ReplayTypeOK
<1>2. /\ eReplay.completed \in 0 .. Total /\ eReplay.from \in 0 .. Total
      /\ eReplay.cycle \in 0 .. MaxCycles /\ Total \in Nat /\ MaxCycles \in Nat \ {0}
  BY <1>1, ReplayConstants DEF ReplayRecords
<1>3. /\ c \in 1 .. MaxCycles
      /\ c = 1 => eReplay.pc = "display" /\ eReceipts = <<>> /\ eReplay.completed = eReplay.from
      /\ c # 1 => eReplay.pc = "cycleFront" /\ eReplay.completed = Total /\ c > eReplay.cycle
  <2>1. CASE eReplay.pc = "display" /\ c = 1
    BY <2>1, <1>2 DEF ReplayInv, PlaceOfReplay
  <2>2. CASE eReplay.pc = "cycleFront" /\ c = eReplay.cycle + 1
    BY <2>2, <1>2 DEF ReplayInv, PlaceOfReplay
  <2> QED
    BY <2>1, <2>2
<1>4. eReplay' \in ReplayRecords
  <2> DEFINE pc == IF over THEN "cycled" ELSE "accept"
  <2>1. pc \in ReplayPlaces /\ c \in 0 .. MaxCycles
    BY <1>3 DEF ReplayPlaces
  <2>2. eReplay' = [eReplay EXCEPT !.cycle = c, !.pc = pc]
    BY <1>1
  <2> HIDE DEF pc
  <2> QED
    BY <1>1, <2>1, <2>2 DEF ReplayRecords
<1>5. /\ eReplay'.pc = IF over THEN "cycled" ELSE "accept"
      /\ eReplay'.cycle = c /\ eReplay'.from = eReplay.from /\ eReplay'.completed = eReplay.completed
      /\ eReplay'.reason = eReplay.reason /\ eReplay'.verdict = eReplay.verdict
  BY <1>1 DEF ReplayRecords
<1>6. eReplay.reason = "none" /\ eReplay.verdict = "none"
  BY <1>3 DEF ReplayInv, PlaceOfReplay
<1>7. ReplayTypeOK'
  BY <1>1, <1>4 DEF ReplayInv, ReplayTypeOK
<1>8. PlaceOfReplay'
  BY <1>2, <1>3, <1>5, <1>6 DEF PlaceOfReplay, StepPlaces
<1>9. ReceiptsFollow'
  <2>1. CASE c = 1
    <3>1. DOMAIN eReceipts' = {}
      BY <1>1, <1>3, <2>1
    <3>2. ASSUME over PROVE StepsFilled(Total)'
      <4>1. eReplay.from + 1 .. Total = {}
        BY <1>2, <2>1, <3>2
      <4> QED
        BY <1>5, <2>1, <3>1, <4>1 DEF StepsFilled
    <3>3. ASSUME ~over PROVE StepsFilled(Index - 1)'
      <4>1. Index' - 1 = eReplay.from
        BY <1>2, <1>3, <1>5, <2>1, <3>3 DEF Index
      <4>2. eReplay.from + 1 .. eReplay.from = {}
        BY <1>2
      <4>3. \A n : n = eReplay.from => StepsFilled(n)'
        BY <1>5, <2>1, <3>1, <4>2 DEF StepsFilled
      <4> QED
        BY <4>1, <4>3
    <3> QED
      BY <1>2, <1>3, <1>5, <1>6, <3>1, <3>2, <3>3 DEF ReceiptsFollow, StepPlaces
  <2>2. CASE c # 1
    <3>1. \A s \in DOMAIN eReceipts : s[1] <= eReplay.cycle /\ eReceipts[s] = "executed"
      BY <1>3, <2>2 DEF ReplayInv, ReceiptsFollow
    <3>2. \A s \in DOMAIN eReceipts : s[1] \in Nat
      BY DEF ReplayInv, ReplayTypeOK
    <3>3. \A s \in DOMAIN eReceipts' : s[1] < c /\ eReceipts'[s] = "executed"
      BY <1>1, <1>2, <1>3, <2>2, <3>1, <3>2
    <3>4. ASSUME over PROVE StepsFilled(Total)' /\ Total = 0
      BY <1>5, <2>2, <3>4 DEF StepsFilled
    <3>5. ASSUME ~over PROVE StepsFilled(Index - 1)'
      <4>1. Index' - 1 = 0
        BY <1>3, <1>5, <2>2 DEF Index
      <4>2. \A n : n = 0 => StepsFilled(n)'
        BY <1>5, <2>2 DEF StepsFilled
      <4> QED
        BY <4>1, <4>2
    <3>6. \A s \in DOMAIN eReceipts' : s[1] <= c
      BY <1>1, <1>3, <3>2, <3>3
    <3> QED
      BY <1>3, <1>5, <1>6, <3>3, <3>4, <3>5, <3>6 DEF ReceiptsFollow, StepPlaces, Earlier
  <2> QED
    BY <2>1, <2>2
<1>10. LooksMatch' /\ InputsAreMeant'
  BY <1>1 DEF ReplayInv, LooksMatch, InputsAreMeant
<1>11. ActionsInOrder'
  BY <1>1, <1>5 DEF ReplayInv, ActionsInOrder
<1>12. TapsFindTheirControl' /\ PassedIsEarned'
  BY <1>5, <1>6 DEF TapsFindTheirControl, PassedIsEarned, Here
<1> QED
  BY <1>7, <1>8, <1>9, <1>10, <1>11, <1>12 DEF ReplayInv

LEMMA ReadDisplayKeeps == ASSUME ReplayInv, ReadDisplay PROVE ReplayInv'
<1>1. eReplay.pc = "display" /\ Kept
  BY DEF ReadDisplay, Here
<1> QED
  BY <1>1, FinishKeeps, BeginCycleKeeps DEF ReadDisplay, Kept

LEMMA InFrontKeeps == ASSUME ReplayInv, InFront PROVE ReplayInv'
<1>1. /\ eReplay.pc \in {"front", "cycleFront"} /\ Kept /\ eReplay \in ReplayRecords /\ eScreen \in Layouts
      /\ UNCHANGED <<eScreen, eReceipts, eInput, eDone>>
  BY DEF InFront, Here, Kept, ReplayInv, ReplayTypeOK
<1>2. CASE eReplay.pc = "front"
  <2>1. eReplay' = [eReplay EXCEPT !.pc = "locate", !.front = "target"]
    BY <1>2 DEF InFront, Here
  <2>2. eReplay' \in ReplayRecords
    BY <1>1, <2>1 DEF ReplayRecords, ReplayPlaces, StepPlaces
  <2>3. /\ SameProgress /\ eReplay'.pc = "locate"
        /\ eReplay'.reason = eReplay.reason /\ eReplay'.verdict = eReplay.verdict
        /\ eReplay'.page = eReplay.page /\ eReplay'.front = "target"
    BY <1>1, <2>1 DEF ReplayRecords, SameProgress
  <2>4. PlaceOfReplay'
    BY <1>2, <2>3 DEF ReplayInv, PlaceOfReplay, SameProgress, StepPlaces
  <2>5. TapsFindTheirControl'
    BY <2>3 DEF TapsFindTheirControl, Here
  <2>6. LooksMatch' /\ InputsAreMeant'
    BY <1>1 DEF ReplayInv, LooksMatch, InputsAreMeant
  <2> QED
    BY <1>1, <1>2, <2>2, <2>3, <2>4, <2>5, <2>6, ReplayQuiet DEF StepPlaces
<1>3. CASE eReplay.pc = "cycleFront"
  BY <1>1, <1>3, BeginCycleKeeps DEF InFront, Here
<1> QED
  BY <1>1, <1>2, <1>3

\* Text and class alone do not score enough for a target with an id.
LEMMA TextIsNotEnough ==
  ASSUME NEW m \in {0, 100}, NEW n \in {0, 40}, NEW o \in {0, 10}, m + n + o >= 100
  PROVE  m # 0
<1>1. m \in Int /\ n \in Int /\ o \in Int /\ n <= 40 /\ o <= 10 /\ (m = 0 \/ m = 100)
  OBVIOUS
<1> QED
  BY <1>1

\* A node that scores enough for a target with an id has that id.
LEMMA RelocatedHasTheId ==
  ASSUME NEW page, NEW target, target.id # "", NEW node \in Relocated(page, target)
  PROVE  node \in page /\ node.id = target.id
<1>1. node \in page /\ Score(node, target) >= 100
  BY DEF Relocated, LeastScore
<1> DEFINE m == IF target.id # "" /\ node.id = target.id THEN 100 ELSE 0
<1> DEFINE n == IF target.text # "" /\ node.text = target.text THEN 40 ELSE 0
<1> DEFINE o == IF target.class # "" /\ node.class = target.class THEN 10 ELSE 0
<1>2. m + n + o >= 100
  BY <1>1 DEF Score
<1>3. m \in {0, 100} /\ n \in {0, 40} /\ o \in {0, 10}
  OBVIOUS
<1>4. node.id # target.id => m = 0
  OBVIOUS
<1> HIDE DEF m, n, o
<1>5. m # 0
  BY <1>2, <1>3, TextIsNotEnough
<1> QED
  BY <1>1, <1>4, <1>5

LEMMA LocateKeeps == ASSUME ReplayInv, Locate PROVE ReplayInv'
<1>1. /\ eReplay.pc = "locate" /\ eReplay \in ReplayRecords /\ eScreen \in Layouts
      /\ UNCHANGED <<eScreen, eReceipts, eInput, eDone>>
  BY DEF Locate, Here, Kept, ReplayInv, ReplayTypeOK
<1>2. Index \in 1 .. Total /\ eReplay.page = {}
  BY <1>1, IndexIsAction DEF ReplayInv, PlaceOfReplay, StepPlaces
<1>3. PICK page \in {{}} \cup {l.nodes : l \in Layouts},
           at \in {0} \cup {n.at : n \in UNION {l.nodes : l \in Layouts}}
                  \cup {Recorded[i].target.at : i \in 1 .. Total} :
        /\ eReplay' = [eReplay EXCEPT !.pc = "input", !.page = page, !.at = at]
        /\ page # {} /\ Doing.target.id # "" => \E n \in page : n.at = at /\ n.id = Doing.target.id
  <2>1. CASE \E node \in Relocated(eScreen.nodes, Doing.target) :
               eReplay' = [eReplay EXCEPT !.pc = "input", !.page = eScreen.nodes, !.at = node.at]
    <3>1. PICK node \in Relocated(eScreen.nodes, Doing.target) :
            eReplay' = [eReplay EXCEPT !.pc = "input", !.page = eScreen.nodes, !.at = node.at]
      BY <2>1
    <3>2. node \in eScreen.nodes
      BY DEF Relocated
    <3>3. eScreen.nodes \in {l.nodes : l \in Layouts}
      BY <1>1
    <3>4. node.at \in {n.at : n \in UNION {l.nodes : l \in Layouts}}
      BY <3>2, <3>3
    <3>5. ASSUME Doing.target.id # "" PROVE node.id = Doing.target.id
      <4> DEFINE page == eScreen.nodes
      <4> DEFINE target == Doing.target
      <4>1. target.id # "" /\ node \in Relocated(page, target)
        BY <3>5
      <4> HIDE DEF page, target
      <4>2. node.id = target.id
        BY <4>1, RelocatedHasTheId
      <4> QED
        BY <4>2 DEF target
    <3> QED
      BY <3>1, <3>2, <3>3, <3>4, <3>5
  <2>2. CASE eReplay' = [eReplay EXCEPT !.pc = "input", !.at = Doing.target.at]
    <3>1. Doing.target.at \in {Recorded[i].target.at : i \in 1 .. Total}
      BY <1>2 DEF Doing
    <3>2. eReplay' = [eReplay EXCEPT !.pc = "input", !.page = {}, !.at = Doing.target.at]
      BY <1>1, <1>2, <2>2 DEF ReplayRecords
    <3> QED
      BY <3>1, <3>2
  <2> QED
    BY <2>1, <2>2 DEF Locate
<1>4. eReplay' \in ReplayRecords
  BY <1>1, <1>3 DEF ReplayRecords, ReplayPlaces, StepPlaces
<1>5. /\ SameProgress /\ eReplay'.pc = "input" /\ eReplay'.page = page /\ eReplay'.at = at
      /\ eReplay'.reason = eReplay.reason /\ eReplay'.verdict = eReplay.verdict
      /\ eReplay'.front = eReplay.front
  BY <1>1, <1>3 DEF ReplayRecords, SameProgress
<1>6. PlaceOfReplay'
  BY <1>1, <1>5 DEF ReplayInv, PlaceOfReplay, SameProgress, StepPlaces
<1>7. TapsFindTheirControl'
  BY <1>3, <1>5, ProgressStays DEF TapsFindTheirControl
<1>8. LooksMatch' /\ InputsAreMeant'
  BY <1>1 DEF ReplayInv, LooksMatch, InputsAreMeant
<1> QED
  BY <1>1, <1>4, <1>5, <1>6, <1>7, <1>8, ReplayQuiet DEF StepPlaces

\* No action of a case sends what allows a permission.
LEMMA InputsAreOfTheCase ==
  ASSUME NEW action, action.type \in ReplayTypes, NEW i \in 1 .. Len(Inputs(action))
  PROVE  Inputs(action)[i] # "allow"
<1>1. CASE action.type = "text"
  <2> DEFINE focus == IF action.focus THEN <<"tap">> ELSE <<>>
  <2> DEFINE paste == IF action.empty THEN <<>> ELSE <<"paste">>
  <2>1. Inputs(action) = (focus \o <<"select", "delete">>) \o paste
    BY <1>1 DEF Inputs
  <2> DEFINE sent == {"tap", "select", "delete", "paste"}
  <2>2. focus \in Seq(sent) /\ paste \in Seq(sent) /\ <<"select", "delete">> \in Seq(sent)
    <3>1. <<"tap">> \in Seq(sent) /\ <<"paste">> \in Seq(sent) /\ <<"select", "delete">> \in Seq(sent)
      OBVIOUS
    <3>2. <<>> \in Seq(sent)
      OBVIOUS
    <3> HIDE DEF sent
    <3> QED
      BY <3>1, <3>2
  <2>3. "allow" \notin sent
    OBVIOUS
  <2> HIDE DEF focus, paste, sent
  <2>4. (focus \o <<"select", "delete">>) \o paste \in Seq(sent)
    BY <2>2, ConcatProperties
  <2>5. Inputs(action) \in Seq(sent)
    BY <2>1, <2>4
  <2>6. Inputs(action)[i] \in sent
    BY <2>5, ElementOfSeq
  <2> QED
    BY <2>3, <2>6
<1>2. CASE action.type = "double_tap"
  BY <1>2 DEF Inputs
<1>3. CASE action.type = "assert_screenshot"
  BY <1>3 DEF Inputs
<1>4. CASE action.type \notin {"text", "double_tap", "assert_screenshot"}
  BY <1>4 DEF Inputs, ReplayTypes
<1> QED
  BY <1>1, <1>2, <1>3, <1>4

\* An action has finitely many inputs.
LEMMA InputsAreMany == ASSUME NEW action, action.type \in ReplayTypes PROVE Len(Inputs(action)) \in Nat
<1> DEFINE focus == IF action.focus THEN <<"tap">> ELSE <<>>
<1> DEFINE paste == IF action.empty THEN <<>> ELSE <<"paste">>
<1> DEFINE sent == {"tap", "select", "delete", "paste"}
<1>1. CASE action.type = "text"
  <2>1. Inputs(action) = (focus \o <<"select", "delete">>) \o paste
    BY <1>1 DEF Inputs
  <2>2. focus \in Seq(sent) /\ paste \in Seq(sent) /\ <<"select", "delete">> \in Seq(sent)
    <3>1. <<"tap">> \in Seq(sent) /\ <<"paste">> \in Seq(sent) /\ <<"select", "delete">> \in Seq(sent)
      OBVIOUS
    <3>2. <<>> \in Seq(sent)
      OBVIOUS
    <3> HIDE DEF sent
    <3> QED
      BY <3>1, <3>2
  <2> HIDE DEF focus, paste, sent
  <2>3. (focus \o <<"select", "delete">>) \o paste \in Seq(sent)
    BY <2>2, ConcatProperties
  <2>4. Inputs(action) \in Seq(sent)
    BY <2>1, <2>3
  <2> QED
    BY <2>4, LenProperties
<1>2. CASE action.type = "double_tap"
  BY <1>2 DEF Inputs
<1>3. CASE action.type = "assert_screenshot"
  BY <1>3 DEF Inputs
<1>4. CASE action.type \notin {"text", "double_tap", "assert_screenshot"}
  BY <1>4 DEF Inputs, ReplayTypes
<1> QED
  BY <1>1, <1>2, <1>3, <1>4

\* One more part of the action is sent.
LEMMA PartSentKeeps ==
  ASSUME ReplayInv, eReplay.pc = "input", UNCHANGED <<eScreen, eReceipts, eDone>>,
         eReplay' = [eReplay EXCEPT !.part = @ + 1], LooksMatch', InputsAreMeant'
  PROVE  ReplayInv'
<1>1. eReplay \in ReplayRecords /\ eScreen \in Layouts
  BY DEF ReplayInv, ReplayTypeOK
<1>2. eReplay' \in ReplayRecords
  BY <1>1 DEF ReplayRecords
<1>3. /\ SameProgress /\ eReplay'.pc = "input" /\ eReplay'.page = eReplay.page /\ eReplay'.at = eReplay.at
      /\ eReplay'.reason = eReplay.reason /\ eReplay'.verdict = eReplay.verdict
      /\ eReplay'.front = eReplay.front
  BY <1>1 DEF ReplayRecords, SameProgress
<1>4. PlaceOfReplay'
  BY <1>3 DEF ReplayInv, PlaceOfReplay, SameProgress, StepPlaces
<1>5. TapsFindTheirControl'
  BY <1>3, ProgressStays DEF ReplayInv, TapsFindTheirControl, Here
<1> QED
  BY <1>1, <1>2, <1>3, <1>4, <1>5, ReplayQuiet

LEMMA SendInputKeeps == ASSUME ReplayInv, SendInput PROVE ReplayInv'
<1>1. /\ eReplay.pc = "input" /\ eReplay' = [eReplay EXCEPT !.part = @ + 1]
      /\ UNCHANGED <<eScreen, eReceipts, eDone>> /\ Inputs(Doing)[eReplay.part] # "look"
      /\ eInput' = [kind |-> Inputs(Doing)[eReplay.part], at |-> eReplay.at,
                    front |-> eReplay.front, page |-> eReplay.page]
  BY DEF SendInput, Here
<1>2. eReplay.front = "target"
  BY <1>1 DEF ReplayInv, PlaceOfReplay
<1>3. eInput'.kind # "allow"
  <2>1. Index \in 1 .. Total
    BY <1>1, IndexIsAction DEF ReplayInv, PlaceOfReplay, StepPlaces
  <2>2. Doing.type \in ReplayTypes
    BY <2>1, ReplayConstants DEF Doing
  <2>3. eReplay.part \in Nat
    BY DEF ReplayInv, ReplayTypeOK, ReplayRecords
  <2>4. eReplay.part <= Len(Inputs(Doing))
    BY DEF SendInput
  <2>5. Len(Inputs(Doing)) \in Nat
    BY <2>2, InputsAreMany
  <2>6. eReplay.part >= 1
    BY DEF ReplayInv, ReplayTypeOK, ReplayRecords
  <2>7. eReplay.part \in 1 .. Len(Inputs(Doing))
    BY <2>3, <2>4, <2>5, <2>6
  <2>8. Inputs(Doing)[eReplay.part] # "allow"
    BY <2>2, <2>7, InputsAreOfTheCase
  <2> QED
    BY <1>1, <2>8
<1>4. LooksMatch' /\ InputsAreMeant'
  BY <1>1, <1>2, <1>3 DEF LooksMatch, InputsAreMeant
<1> QED
  BY <1>1, <1>4, PartSentKeeps

LEMMA CompareScreenshotKeeps == ASSUME ReplayInv, CompareScreenshot PROVE ReplayInv'
<1>1. /\ eReplay.pc = "input" /\ eReplay' = [eReplay EXCEPT !.part = @ + 1]
      /\ UNCHANGED <<eScreen, eReceipts, eDone>> /\ eScreen.shot = Doing.expects
      /\ eInput' = [NoInput EXCEPT !.kind = "look", !.at = eScreen.shot]
  BY DEF CompareScreenshot, AnyScreenshot, Here
<1>2. eInput'.kind = "look" /\ eInput'.at = Recorded[Index].expects
  BY <1>1 DEF NoInput, Doing
<1>3. Index \in 1 .. Total
  BY <1>1, IndexIsAction DEF ReplayInv, PlaceOfReplay, StepPlaces
<1>4. LooksMatch' /\ InputsAreMeant'
  BY <1>2, <1>3 DEF LooksMatch, InputsAreMeant
<1> QED
  BY <1>1, <1>4, PartSentKeeps

LEMMA InputFailsKeeps == ASSUME ReplayInv, InputFails PROVE ReplayInv'
<1>1. /\ eReplay.pc = "input" /\ UNCHANGED <<eScreen, eInput, eDone>> /\ Receipt("failed")
      /\ Finish("assertion_failed") \/ Finish("input_failed")
  BY DEF InputFails, Here
<1> QED
  BY <1>1, FinishKeeps

LEMMA CycleEndsKeeps == ASSUME ReplayInv, CycleEnds PROVE ReplayInv'
<1>1. eReplay.pc = "cycled" /\ UNCHANGED <<eScreen, eReceipts, eInput, eDone>> /\ eReplay \in ReplayRecords
      /\ eScreen \in Layouts
  BY DEF CycleEnds, Here, Kept, ReplayInv, ReplayTypeOK
<1>2. CASE Finish("completed") \/ Finish("stopped")
  BY <1>1, <1>2, FinishKeeps
<1>3. CASE eReplay.cycle < MaxCycles /\ eReplay' = [eReplay EXCEPT !.pc = "cycleFront"]
  <2>1. eReplay' \in ReplayRecords
    BY <1>1, <1>3 DEF ReplayRecords, ReplayPlaces
  <2>2. /\ SameProgress /\ eReplay'.pc = "cycleFront"
        /\ eReplay'.reason = eReplay.reason /\ eReplay'.verdict = eReplay.verdict
    BY <1>1, <1>3 DEF ReplayRecords, SameProgress
  <2>3. PlaceOfReplay'
    BY <1>1, <1>3, <2>2 DEF ReplayInv, PlaceOfReplay, SameProgress, StepPlaces
  <2>4. TapsFindTheirControl'
    BY <2>2 DEF TapsFindTheirControl, Here
  <2>5. LooksMatch' /\ InputsAreMeant'
    BY <1>1 DEF ReplayInv, LooksMatch, InputsAreMeant
  <2> QED
    BY <1>1, <2>1, <2>2, <2>3, <2>4, <2>5, ReplayQuiet
<1> QED
  BY <1>2, <1>3 DEF CycleEnds, GoOn

LEMMA AcceptStepKeeps == ASSUME ReplayInv, AcceptStep PROVE ReplayInv'
<1>1. /\ eReplay.pc = "accept" /\ eReplay \in ReplayRecords /\ UNCHANGED <<eScreen, eInput, eDone>>
      /\ eReplay' = [eReplay EXCEPT !.pc = "delay", !.part = 1, !.front = "none", !.page = {}]
      /\ eReceipts' = [s \in DOMAIN eReceipts \cup {StepId} |->
                         IF s = StepId THEN "accepted" ELSE eReceipts[s]]
      /\ StepId \notin DOMAIN eReceipts
  BY DEF AcceptStep, Here, ReplayInv, ReplayTypeOK
<1>2. eReplay' \in ReplayRecords
  <2>1. "delay" \in ReplayPlaces /\ 1 \in Nat \ {0}
    BY DEF ReplayPlaces, StepPlaces
  <2> QED
    BY <1>1, <2>1 DEF ReplayRecords
<1>3. /\ SameProgress /\ eReplay'.pc = "delay" /\ eReplay'.page = {}
      /\ eReplay'.reason = eReplay.reason /\ eReplay'.verdict = eReplay.verdict
  BY <1>1 DEF ReplayRecords, SameProgress
<1>4. /\ Index \in 1 .. Total /\ eReplay.cycle \in 1 .. MaxCycles /\ Total > 0
      /\ Index = IF eReplay.completed = Total THEN 1 ELSE eReplay.completed + 1
      /\ eReplay.cycle = 1 => eReplay.completed \in eReplay.from .. Total - 1
      /\ eReplay.reason = "none" /\ eReplay.verdict = "none"
      /\ eReplay.from \in Nat /\ eReplay.completed \in Nat /\ Total \in Nat
  BY <1>1, IndexIsAction, ReplayConstants DEF ReplayInv, PlaceOfReplay, ReplayRecords
<1>5. StepId = <<eReplay.cycle, Index>> /\ StepId \in (1 .. MaxCycles) \X (1 .. Total)
  BY <1>4 DEF StepId
<1>6. ReplayTypeOK'
  BY <1>1, <1>2, <1>5 DEF ReplayInv, ReplayTypeOK
<1>7. PlaceOfReplay'
  BY <1>1, <1>3 DEF ReplayInv, PlaceOfReplay, SameProgress, StepPlaces
<1>8. StepsFilled(Index)'
  <2>1. StepsFilled(Index - 1)
    BY <1>1 DEF ReplayInv, ReceiptsFollow
  <2>2. ASSUME NEW i \in 1 .. Index, eReplay.cycle > 1 PROVE <<eReplay.cycle, i>> \in DOMAIN eReceipts'
    <3>1. CASE i = Index
      BY <3>1, <1>1, <1>5
    <3>2. CASE i # Index
      <4>1. i \in 1 .. Index - 1
        BY <3>2, <1>4
      <4> QED
        BY <4>1, <2>1, <2>2, <1>1 DEF StepsFilled
    <3> QED
      BY <3>1, <3>2
  <2>3. ASSUME eReplay.cycle = 1
        PROVE  DOMAIN eReceipts' = {<<1, i>> : i \in eReplay.from + 1 .. Index}
    <3>1. DOMAIN eReceipts' = {<<1, i>> : i \in eReplay.from + 1 .. Index - 1} \cup {<<1, Index>>}
      BY <2>1, <2>3, <1>1, <1>5 DEF StepsFilled
    <3>2. eReplay.from + 1 .. Index = (eReplay.from + 1 .. Index - 1) \cup {Index}
      BY <1>4, <2>3
    <3> HIDE DEF Index
    <3> QED
      BY <3>1, <3>2
  <2>4. Index' = Index
    BY <1>3, ProgressStays
  <2>5. \A n : n = Index => StepsFilled(n)'
    BY <2>2, <2>3, <1>3 DEF StepsFilled, SameProgress
  <2> QED
    BY <2>4, <2>5
<1>9. ReceiptsFollow'
  <2>1. \A s \in DOMAIN eReceipts : Earlier(s) /\ eReceipts[s] = "executed"
    BY <1>1 DEF ReplayInv, ReceiptsFollow
  <2>2. StepId' = StepId /\ \A s : Earlier(s)' <=> Earlier(s)
    BY <1>3, ProgressStays
  <2>3. StepId' \in DOMAIN eReceipts'
    BY <2>2, <1>1
  <2>4. \A s \in DOMAIN eReceipts' : s # StepId' => Earlier(s)' /\ eReceipts'[s] = "executed"
    BY <2>1, <2>2, <1>1
  <2> QED
    BY <1>3, <1>4, <1>8, <2>3, <2>4 DEF ReceiptsFollow, StepPlaces
<1>10. LooksMatch' /\ InputsAreMeant'
  BY <1>1 DEF ReplayInv, LooksMatch, InputsAreMeant
<1>11. ActionsInOrder'
  BY <1>1, <1>3 DEF ReplayInv, ActionsInOrder, SameProgress
<1>12. TapsFindTheirControl' /\ PassedIsEarned'
  BY <1>3, <1>4 DEF TapsFindTheirControl, PassedIsEarned, Here
<1> QED
  BY <1>6, <1>7, <1>8, <1>9, <1>10, <1>11, <1>12 DEF ReplayInv

\* The action executed is the one that is next in order.
LEMMA NextInOrder ==
  ASSUME ReplayTypeOK, ActionsInOrder, Total > 0, eDone' = Append(eDone, Index), eReplay'.completed = Index
  PROVE  ActionsInOrder' /\ eDone' \in Seq(1 .. Total)
<1>1. Index \in 1 .. Total /\ Index = IF eReplay.completed = Total THEN 1 ELSE eReplay.completed + 1
  BY IndexIsAction
<1>2. eDone \in Seq(1 .. Total) /\ Len(eDone) \in Nat /\ Total \in Nat
  BY ReplayConstants DEF ReplayTypeOK
<1> HIDE DEF Index
<1>3. /\ eDone' \in Seq(1 .. Total) /\ Len(eDone') = Len(eDone) + 1 /\ eDone'[Len(eDone) + 1] = Index
      /\ \A i \in 1 .. Len(eDone) : eDone'[i] = eDone[i]
  BY <1>1, <1>2, AppendProperties
<1>4. Index = 1 + (Len(eDone) % Total)
  <2>1. CASE Len(eDone) = 0
    <3>1. eDone = <<>> /\ eReplay.completed = 0
      BY <2>1, <1>2 DEF ActionsInOrder
    <3>2. 0 % Total = 0
      BY <1>2
    <3> QED
      BY <2>1, <3>1, <3>2, <1>1, <1>2
  <2>2. CASE Len(eDone) # 0
    <3> DEFINE m == Len(eDone) - 1
    <3>1. m \in Nat /\ Len(eDone) = m + 1 /\ Len(eDone) \in 1 .. Len(eDone) /\ eDone # <<>>
      BY <2>2, <1>2
    <3>2. eReplay.completed = 1 + (m % Total)
      BY <3>1 DEF ActionsInOrder
    <3> HIDE DEF m
    <3>3. m % Total \in 0 .. Total - 1 /\ (m + 1) % Total = IF m % Total = Total - 1 THEN 0 ELSE (m % Total) + 1
      BY <3>1, <1>2, RemainderCounts
    <3> QED
      BY <3>1, <3>2, <3>3, <1>1, <1>2
  <2> QED
    BY <2>1, <2>2
<1>5. ASSUME NEW i \in 1 .. Len(eDone') PROVE eDone'[i] = 1 + ((i - 1) % Total)
  <2>1. CASE i = Len(eDone) + 1
    <3>1. i - 1 = Len(eDone)
      BY <2>1, <1>2
    <3> QED
      BY <2>1, <3>1, <1>3, <1>4
  <2>2. CASE i # Len(eDone) + 1
    <3>1. i \in 1 .. Len(eDone)
      BY <2>2, <1>2, <1>3
    <3> QED
      BY <3>1, <1>3 DEF ActionsInOrder
  <2> QED
    BY <2>1, <2>2
<1>6. eDone' # <<>> /\ eDone'[Len(eDone')] = Index
  BY <1>2, <1>3
<1> QED
  BY <1>3, <1>5, <1>6 DEF ActionsInOrder, Total

LEMMA StepDoneKeeps == ASSUME ReplayInv, StepDone PROVE ReplayInv'
<1> DEFINE last == Index = Total
<1> DEFINE pc == IF last THEN "cycled" ELSE "accept"
<1>1. /\ eReplay.pc = "input" /\ eReplay \in ReplayRecords /\ UNCHANGED <<eScreen, eInput>>
      /\ eReplay' = [eReplay EXCEPT !.completed = Index, !.pc = pc]
      /\ eReceipts' = [eReceipts EXCEPT ![StepId] = "executed"]
      /\ eDone' = Append(eDone, Index)
  BY DEF StepDone, Receipt, Here, ReplayInv, ReplayTypeOK
<1>2. /\ Index \in 1 .. Total /\ eReplay.cycle \in 1 .. MaxCycles /\ Total > 0 /\ Total \in Nat
      /\ Index = IF eReplay.completed = Total THEN 1 ELSE eReplay.completed + 1
      /\ eReplay.cycle = 1 => eReplay.completed \in eReplay.from .. Total - 1
      /\ eReplay.reason = "none" /\ eReplay.verdict = "none"
      /\ eReplay.from \in Nat /\ eReplay.completed \in Nat
  BY <1>1, IndexIsAction, ReplayConstants DEF ReplayInv, PlaceOfReplay, ReplayRecords, StepPlaces
<1>3. pc \in ReplayPlaces
  BY DEF ReplayPlaces
<1> HIDE DEF pc
<1>4. eReplay' \in ReplayRecords
  <2>1. Index \in 0 .. Total
    BY <1>2
  <2> HIDE DEF Index
  <2> QED
    BY <1>1, <1>3, <2>1 DEF ReplayRecords
<1>5. /\ eReplay'.pc = pc /\ eReplay'.completed = Index
      /\ eReplay'.cycle = eReplay.cycle /\ eReplay'.from = eReplay.from
      /\ eReplay'.reason = eReplay.reason /\ eReplay'.verdict = eReplay.verdict
  BY <1>1 DEF ReplayRecords
<1>6. ActionsInOrder' /\ eDone' \in Seq(1 .. Total)
  BY <1>1, <1>2, <1>5, NextInOrder DEF ReplayInv
<1>7. ReplayTypeOK'
  BY <1>1, <1>4, <1>6 DEF ReplayInv, ReplayTypeOK, Total
<1>8. PlaceOfReplay'
  BY <1>2, <1>5 DEF PlaceOfReplay, StepPlaces, pc
<1>9. /\ StepsFilled(Index) /\ StepId \in DOMAIN eReceipts
      /\ \A s \in DOMAIN eReceipts : s # StepId => Earlier(s) /\ eReceipts[s] = "executed"
  BY <1>1 DEF ReplayInv, ReceiptsFollow, StepPlaces
<1>10. \A n : StepsFilled(n)' <=> StepsFilled(n)
  BY <1>1, <1>5 DEF StepsFilled
<1>11. \A s \in DOMAIN eReceipts' : eReceipts'[s] = "executed" /\ (s = StepId \/ Earlier(s))
  BY <1>1, <1>9
<1>12. \A s \in DOMAIN eReceipts' : s[1] \in Nat /\ s[2] \in Nat
  BY <1>1 DEF ReplayInv, ReplayTypeOK
<1>13. ReceiptsFollow'
  <2>1. CASE last
    <3>1. \A s \in DOMAIN eReceipts' : s[1] <= eReplay.cycle
      BY <1>2, <1>11, <1>12 DEF StepId, Earlier
    <3>2. StepsFilled(Total)'
      BY <2>1, <1>9, <1>10
    <3> QED
      BY <2>1, <3>1, <3>2, <1>2, <1>5, <1>11 DEF ReceiptsFollow, StepPlaces, pc
  <2>2. CASE ~last
    <3>1. Index' = Index + 1
      <4>1. Index' = 1 + eReplay'.completed
        BY <2>2, <1>5 DEF Index, Total
      <4> QED
        BY <4>1, <1>5, <1>2
    <3>2. StepsFilled(Index - 1)'
      <4>1. Index' - 1 = Index
        BY <3>1, <1>2
      <4> QED
        BY <4>1, <1>9, <1>10
    <3>3. \A s \in DOMAIN eReceipts' : Earlier(s)'
      <4>1. ASSUME NEW s \in DOMAIN eReceipts' PROVE s[1] < eReplay.cycle \/ (s[1] = eReplay.cycle /\ s[2] < Index + 1)
        <5>1. CASE s = StepId
          BY <5>1, <1>2 DEF StepId
        <5>2. CASE Earlier(s)
          BY <5>2, <1>2, <1>12 DEF Earlier
        <5> QED
          BY <5>1, <5>2, <1>11
      <4> HIDE DEF Index
      <4> QED
        BY <4>1, <3>1, <1>5 DEF Earlier
    <3> QED
      BY <2>2, <3>2, <3>3, <1>2, <1>5, <1>11 DEF ReceiptsFollow, StepPlaces, pc
  <2> QED
    BY <2>1, <2>2
<1>14. LooksMatch' /\ InputsAreMeant'
  BY <1>1 DEF ReplayInv, LooksMatch, InputsAreMeant
<1>15. TapsFindTheirControl' /\ PassedIsEarned'
  BY <1>2, <1>5 DEF TapsFindTheirControl, PassedIsEarned, Here, pc
<1> QED
  BY <1>6, <1>7, <1>8, <1>13, <1>14, <1>15 DEF ReplayInv

LEMMA StartExecutionKeeps ==
  ASSUME ReplayInv, NEW loops \in Loops, NEW from \in 0 .. Total, StartExecution(loops, from)
  PROVE  ReplayInv'
<1>1. /\ from \in {0, eReplay.completed} /\ eReceipts' = <<>> /\ UNCHANGED <<eScreen, eInput>>
      /\ eDone' = IF from = 0 THEN <<>> ELSE eDone
      /\ eReplay' = [NoReplay EXCEPT !.pc = "display", !.from = from, !.loops = loops, !.completed = from]
  BY DEF StartExecution
<1>2. NoReplay \in ReplayRecords
  BY ReplayConstants DEF NoReplay, ReplayRecords, ReplayPlaces
<1>3. eReplay' \in ReplayRecords
  <2>1. loops \in Int /\ from \in 0 .. Total /\ "display" \in ReplayPlaces
    BY ReplayConstants DEF ReplayPlaces
  <2>2. [NoReplay EXCEPT !.pc = "display", !.from = from] \in ReplayRecords
    BY <1>2, <2>1 DEF ReplayRecords
  <2>3. [NoReplay EXCEPT !.pc = "display", !.from = from, !.loops = loops] \in ReplayRecords
    BY <2>1, <2>2 DEF ReplayRecords
  <2> QED
    BY <1>1, <2>1, <2>3 DEF ReplayRecords
<1>4. /\ eReplay'.pc = "display" /\ eReplay'.from = from /\ eReplay'.completed = from
      /\ eReplay'.reason = "none" /\ eReplay'.verdict = "none"
  BY <1>1 DEF NoReplay
<1>5. ReplayTypeOK'
  <2>1. eDone' \in Seq(1 .. Total)
    <3>1. eDone \in Seq(1 .. Total) /\ <<>> \in Seq(1 .. Total)
      BY DEF ReplayInv, ReplayTypeOK
    <3> QED
      BY <1>1, <3>1
  <2>2. DOMAIN eReceipts' = {}
    BY <1>1
  <2> QED
    BY <1>1, <1>3, <2>1, <2>2 DEF ReplayInv, ReplayTypeOK, Total
<1>6. PlaceOfReplay'
  BY <1>1, <1>4 DEF PlaceOfReplay, StepPlaces
<1>7. ReceiptsFollow'
  BY <1>1, <1>4 DEF ReceiptsFollow, StepPlaces
<1>8. LooksMatch' /\ InputsAreMeant'
  BY <1>1 DEF ReplayInv, LooksMatch, InputsAreMeant
<1>9. ActionsInOrder'
  BY <1>1, <1>4 DEF ReplayInv, ActionsInOrder
<1>10. TapsFindTheirControl' /\ PassedIsEarned'
  BY <1>4 DEF TapsFindTheirControl, PassedIsEarned, Here
<1> QED
  BY <1>5, <1>6, <1>7, <1>8, <1>9, <1>10 DEF ReplayInv

\* As many receipts as the case has actions are those of all of its actions.
LEMMA ReceiptsAreOfAll ==
  ASSUME ReplayInv, eReplay.reason = "completed", Cardinality(DOMAIN eReceipts) = Total, NEW i \in 1 .. Total
  PROVE  \E c \in 1 .. MaxCycles : <<c, i>> \in DOMAIN eReceipts /\ eReceipts[<<c, i>>] = "executed"
<1>1. /\ StepsFilled(Total) /\ eReplay.cycle \in 1 .. MaxCycles
      /\ \A s \in DOMAIN eReceipts : eReceipts[s] = "executed"
  BY DEF ReplayInv, ReceiptsFollow
<1>2. CASE eReplay.cycle > 1
  BY <1>1, <1>2 DEF StepsFilled
<1>3. CASE eReplay.cycle = 1
  <2> DEFINE rest == eReplay.from + 1 .. Total
  <2>1. DOMAIN eReceipts = {<<1, n>> : n \in rest}
    BY <1>1, <1>3 DEF StepsFilled
  <2>2. eReplay.from \in Nat /\ eReplay.from <= Total /\ Total \in Nat
    BY ReplayConstants DEF ReplayInv, ReplayTypeOK, ReplayRecords
  <2>3. IsFiniteSet(rest) /\ Cardinality(rest) = Total - eReplay.from
    <3> DEFINE a == eReplay.from + 1
    <3> DEFINE b == Total
    <3>1. a \in Int /\ b \in Int /\ a = eReplay.from + 1 /\ b = Total /\ rest = a .. b
      BY <2>2
    <3> HIDE DEF a, b, rest
    <3>2. IsFiniteSet(a .. b) /\ Cardinality(a .. b) = IF a > b THEN 0 ELSE b - a + 1
      BY <3>1, FS_Interval
    <3> QED
      BY <2>2, <3>1, <3>2
  <2> HIDE DEF rest
  <2>4. Cardinality({<<1, n>> : n \in rest}) <= Cardinality(rest)
    <3> DEFINE f == [n \in rest |-> <<1, n>>]
    <3> DEFINE image == {<<1, n>> : n \in rest}
    <3>1. f \in Surjection(rest, image)
      BY DEF Surjection
    <3> HIDE DEF f, image
    <3>2. Cardinality(image) <= Cardinality(rest)
      BY <2>3, <3>1, FS_Surjection
    <3> QED
      BY <3>2 DEF image
  <2>5. eReplay.from = 0
    BY <2>1, <2>2, <2>3, <2>4
  <2>6. i \in rest
    BY <2>2, <2>5 DEF rest
  <2>7. <<1, i>> \in DOMAIN eReceipts
    BY <2>1, <2>6
  <2> QED
    BY <1>1, <2>7, ReplayConstants
<1> QED
  BY <1>1, <1>2, <1>3

LEMMA PersistReplayKeeps == ASSUME ReplayInv, PersistReplay PROVE ReplayInv'
<1>1. /\ eReplay.pc = "persist" /\ eReplay \in ReplayRecords
      /\ UNCHANGED <<eScreen, eReceipts, eInput, eDone>>
  BY DEF PersistReplay, Here, Kept, ReplayInv, ReplayTypeOK
<1>2. PICK verdict \in {Verdict, "not_tested"} : eReplay' = [eReplay EXCEPT !.pc = "idle", !.verdict = verdict]
  BY DEF PersistReplay
<1>3. verdict \in {"passed", "failed", "not_tested"}
  BY DEF Verdict
<1>4. eReplay' \in ReplayRecords
  BY <1>1, <1>2, <1>3 DEF ReplayRecords, ReplayPlaces
<1>5. /\ SameProgress /\ eReplay'.pc = "idle" /\ eReplay'.reason = eReplay.reason /\ eReplay'.verdict = verdict
  BY <1>1, <1>2 DEF ReplayRecords, SameProgress
<1>6. ReplayTypeOK'
  BY <1>1, <1>4 DEF ReplayInv, ReplayTypeOK
<1>7. PlaceOfReplay'
  BY <1>5 DEF PlaceOfReplay, StepPlaces
<1>8. ReceiptsFollow'
  BY <1>1, <1>5, ProgressStays DEF ReplayInv, ReceiptsFollow, SameProgress, StepPlaces
<1>9. LooksMatch' /\ InputsAreMeant'
  BY <1>1 DEF ReplayInv, LooksMatch, InputsAreMeant
<1>10. ActionsInOrder'
  BY <1>1, <1>5 DEF ReplayInv, ActionsInOrder, SameProgress
<1>11. TapsFindTheirControl'
  BY <1>5 DEF TapsFindTheirControl, Here
<1>12. PassedIsEarned'
  <2> SUFFICES ASSUME verdict = "passed"
               PROVE  /\ \A i \in 1 .. Total : \E c \in 1 .. MaxCycles :
                           <<c, i>> \in DOMAIN eReceipts /\ eReceipts[<<c, i>>] = "executed"
                      /\ eInput.kind = "look" => \E i \in 1 .. Total : Recorded[i].expects = eInput.at
    BY <1>1, <1>5 DEF PassedIsEarned
  <2>1. eReplay.reason = "completed" /\ Cardinality(DOMAIN eReceipts) = Total
    <3> DEFINE looks == \E i \in 1 .. Total : Recorded[i].type = "assert_screenshot"
    <3> DEFINE all == Cardinality(DOMAIN eReceipts) = Total
    <3> DEFINE reason == eReplay.reason
    <3>1. Verdict = "passed"
      BY <1>2
    <3>2. Verdict = IF reason = "assertion_failed" THEN "failed"
                    ELSE IF reason = "completed" /\ looks /\ all THEN "passed" ELSE "not_tested"
      BY DEF Verdict
    <3> HIDE DEF looks, all, reason
    <3>3. reason = "completed" /\ all
      BY <3>1, <3>2
    <3> QED
      BY <3>3 DEF all, reason
  <2> QED
    BY <2>1, ReceiptsAreOfAll DEF ReplayInv, LooksMatch
<1> QED
  BY <1>6, <1>7, <1>8, <1>9, <1>10, <1>11, <1>12 DEF ReplayInv

LEMMA ReplayStepsKeep == ReplayInv /\ [ReplayStepNext]_replayVars => ReplayInv'
<1> SUFFICES ASSUME ReplayInv, [ReplayStepNext]_replayVars PROVE ReplayInv'
  OBVIOUS
<1>1. CASE UNCHANGED replayVars
  <2>1. /\ UNCHANGED <<eScreen, eReplay, eReceipts, eInput, eDone>> /\ SameProgress
    BY <1>1 DEF replayVars, SameProgress
  <2>2. ReplayTypeOK' /\ PlaceOfReplay' /\ LooksMatch' /\ ActionsInOrder' /\ InputsAreMeant' /\ PassedIsEarned'
    BY <2>1 DEF ReplayInv, ReplayTypeOK, PlaceOfReplay, LooksMatch, ActionsInOrder, InputsAreMeant,
       PassedIsEarned
  <2>3. ReceiptsFollow' /\ TapsFindTheirControl'
    BY <2>1, ProgressStays DEF ReplayInv, ReceiptsFollow, TapsFindTheirControl, Here
  <2> QED
    BY <2>2, <2>3 DEF ReplayInv
<1>2. ASSUME NEW loops \in Loops, NEW from \in 0 .. Total, StartExecution(loops, from) PROVE ReplayInv'
  BY <1>2, StartExecutionKeeps
<1>3. CASE StopExecution \/ ScreenChanges \/ ReadDisplay \/ AcceptStep \/ StepDelay
  BY <1>3, StopExecutionKeeps, ScreenChangesKeeps, ReadDisplayKeeps, AcceptStepKeeps, StepDelayKeeps
<1>4. CASE InFront \/ NotInFront \/ AllowPermission \/ Locate \/ SendInput
  BY <1>4, InFrontKeeps, NotInFrontKeeps, AllowPermissionKeeps, LocateKeeps, SendInputKeeps
<1>5. CASE CompareScreenshot \/ InputFails \/ StepDone \/ CycleEnds \/ PersistReplay
  BY <1>5, CompareScreenshotKeeps, InputFailsKeeps, StepDoneKeeps, CycleEndsKeeps, PersistReplayKeeps
<1> QED
  BY <1>1, <1>2, <1>3, <1>4, <1>5 DEF ReplayStepNext

LEMMA ReplayInvIsSafe == ReplayInv => ReplaySafe
<1> SUFFICES ASSUME ReplayInv PROVE ReplaySafe
  OBVIOUS
<1>1. eReplay.pc = "accept" => StepId \notin DOMAIN eReceipts
  <2> SUFFICES ASSUME eReplay.pc = "accept", StepId \in DOMAIN eReceipts PROVE FALSE
    OBVIOUS
  <2>1. Earlier(StepId)
    BY DEF ReplayInv, ReceiptsFollow
  <2>2. Index \in 1 .. Total /\ eReplay.cycle \in Nat
    BY IndexIsAction, ReplayConstants DEF ReplayInv, PlaceOfReplay, ReplayTypeOK, ReplayRecords
  <2> QED
    BY <2>1, <2>2 DEF Earlier, StepId
<1>2. \A s \in DOMAIN eReceipts : eReceipts[s] = "accepted" => s = StepId /\ eReplay.reason # "completed"
  BY DEF ReplayInv, ReceiptsFollow
<1> QED
  BY <1>1, <1>2 DEF ReplayInv, ReplaySafe, StepsAreFresh, Here

\* The invariant of a replay holds always, for any case and any screens (replay_execute.go:
\* runReplay).
THEOREM ReplayInvariant == ReplayExecutionSpec => []ReplayInv
BY ReplayInitInv, ReplayStepsKeep, PTL DEF ReplayExecutionSpec

------------------------------------------------------------------------------
(* The traversal of pages: what may be chosen, what is seen and blocked, and the ways *)
(* back.                                                                              *)

OfPages == UNION {PageInfo[p].nodes : p \in Pages}
PlaceNames == Pages \cup Activities \cup {"none"}
GraphPlaces == PlaceNames \cup Semantics
MaybeState == Semantics \cup {"none"}
ActKeys == Keys \cup {"none", "back", "session", "special"}
BlockKeys == ActKeys \cup {"backtrack"}
GraphActs ==
  [type : {n.type : n \in OfPages} \cup {"none", "back", "replay", "tap", "swipe"}, key : ActKeys,
   back : BOOLEAN, undo : BOOLEAN]
GraphNodes == [known : BOOLEAN, tried : SUBSET ActKeys, swipes : [Keys -> Nat], taps : Nat]
GraphLoop ==
  [page : Pages \cup {"none"}, stuck : MaybeState, stuckAt : Activities \cup {"none"}, ready : BOOLEAN,
   backSent : MaybeState, still : [Semantics -> Nat], stalls : [Semantics \X Keys -> Nat],
   armed : MaybeState, cool : MaybeState, escaped : MaybeState, language : SUBSET (Activities \X Keys),
   shop : BOOLEAN]
GraphMoves == [from : GraphPlaces, to : GraphPlaces, key : BlockKeys, at : GraphPlaces]
GraphPending == [from : PlaceNames, act : GraphActs, prev : GraphActs]

GraphTypeOK ==
  /\ gPc \in {"page", "choose", "act"} /\ gPage \in Pages \cup {"none"}
  /\ gNodes \in [Pages -> GraphNodes] /\ gParents \in [Pages -> PlaceNames]
  /\ gReturned \in [Pages -> Nat] /\ gBlocked \subseteq GraphPlaces \X BlockKeys
  /\ gSeen \subseteq Activities \X Keys /\ gInputs \subseteq Activities \X Keys
  /\ gSemantics \subseteq Semantics /\ gCycle \in Seq(GraphMoves)
  /\ gPending \in GraphPending /\ gLast \in GraphActs /\ gChosen \in GraphActs
  /\ gLoop \in GraphLoop /\ gCount \in [actions : Nat, backs : Nat]
  /\ gTaken \in [Activities \X Keys -> Nat]

\* What the traversal stands on, or has left by an action, it has recorded.
PagesAreKnown ==
  /\ gPc # "page" => gPage \in Pages /\ gNodes[gPage].known
  /\ gPending.from \in Pages => gNodes[gPending.from].known

\* A tap is marked as seen when it is chosen, before it is executed for the first time.
TapsAreSeen ==
  /\ \A tap \in Activities \X Keys : gTaken[tap] > 0 => tap \in gSeen
  /\ gPc = "act" =>
       \/ gChosen \in {SystemBack, Undo}
       \/ /\ gChosen.key \in Keys /\ ~gChosen.undo
          /\ gChosen.type = "tap" /\ ~gChosen.back =>
               /\ <<Activity(gPage), gChosen.key>> \in gSeen
               /\ gTaken[<<Activity(gPage), gChosen.key>>] = 0

GraphInv ==
  /\ GraphTypeOK /\ PagesAreKnown /\ TapsAreSeen
  /\ ChoiceIsSafe /\ TapOncePerActivity /\ CyclesAreCut /\ ParentsLeadBack

LEMMA GraphConstants ==
  /\ "none" \notin Pages /\ Activities \cap Pages = {}
  /\ MaxStableScrolls \in Nat \ {0} /\ MaxNonScrolls \in Nat /\ StuckLimit \in Nat \ {0}
  /\ CycleMaxPeriod \in Nat \ {0} /\ MaxBacktracks \in Nat
BY GraphAssumption, FingerprintAssumption

\* The names of a page.
LEMMA NamesOfPages ==
  ASSUME NEW p \in Pages
  PROVE  Semantic(p) \in Semantics /\ Activity(p) \in Activities
BY DEF Semantic, Semantics, Activities

LEMMA SemanticIsPlace == ASSUME NEW x \in PlaceNames PROVE Semantic(x) \in GraphPlaces
<1>1. CASE x \in Pages
  BY <1>1, NamesOfPages DEF GraphPlaces
<1>2. CASE x \notin Pages
  BY <1>2 DEF Semantic, GraphPlaces
<1> QED
  BY <1>1, <1>2

\* An action of a control.
LEMMA ActOfControl ==
  ASSUME NEW p \in Pages, NEW n \in Controls[p]
  PROVE  /\ Act(n) \in GraphActs /\ n.key \in Keys
         /\ Act(n).key = n.key /\ Act(n).type = n.type /\ Act(n).back = IsA(n, "back") /\ Act(n).undo = FALSE
<1>1. n \in PageInfo[p].nodes
  BY DEF Controls
<1>2. n \in OfPages /\ n.key \in Keys
  BY <1>1 DEF OfPages, Keys
<1>3. IsA(n, "back") \in BOOLEAN
  BY DEF IsA
<1> QED
  BY <1>2, <1>3 DEF Act, GraphActs, ActKeys

LEMMA BacksAreActs == SystemBack \in GraphActs /\ Undo \in GraphActs /\ NoStep \in GraphActs
BY DEF SystemBack, Undo, NoStep, GraphActs, ActKeys

\* What may be chosen on a page as it is.
SafeOn(p, n) ==
  /\ n \in Options(Controls[p]) /\ Cardinality(Options(Controls[p])) >= 2 => n \in StartupControls(p)
  /\ gLoop.shop /\ Purchase(n) => IsA(n, "back") \/ n \in StartupControls(p)
Unused(p, n) == n.type = "tap" => <<Activity(p), n.key>> \notin gSeen

LEMMA FreeIsSafe ==
  ASSUME NEW p \in Pages, NEW n \in Controls[p], NEW inputs, ~Skipped(p, n, inputs)
  PROVE  SafeOn(p, n) /\ Unused(p, n)
<1>1. n \notin LanguageBlocked[p] /\ ~(gLoop.shop /\ Purchase(n))
  BY DEF Skipped, Forbidden
<1>2. Unused(p, n)
  BY DEF Skipped, Unused
<1>3. ~PickerTap(Activity(p), Controls[p], n)
  BY <1>1 DEF LanguageBlocked
<1>4. ASSUME n \in Options(Controls[p]), Cardinality(Options(Controls[p])) >= 2 PROVE n \in StartupControls(p)
  <2>1. Pressed(n) /\ IsA(n, "option")
    BY <1>4 DEF Options
  <2>2. IsPicker(Controls[p]) /\ StartupSurface(Activity(p)) /\ n \in PreferredLanguage(Controls[p])
    BY <1>3, <1>4, <2>1 DEF PickerTap
  <2> QED
    BY <2>2 DEF StartupControls
<1> QED
  BY <1>1, <1>2, <1>4 DEF SafeOn

LEMMA CandidatesAreFree ==
  ASSUME NEW p, NEW tried, NEW taps, NEW skipped, NEW n \in Candidates(p, tried, taps, skipped)
  PROVE  n \in Controls[p] \ skipped
<1> DEFINE free == {m \in Controls[p] \ skipped : m.key \notin tried /\ (m.type = "swipe" => EnableScroll)}
<1> DEFINE popups == IF RecoverPopups THEN Narrowed(free, {m \in free : Recovery(m)}) ELSE free
<1>1. Candidates(p, tried, taps, skipped) =
        IF taps >= MaxNonScrolls THEN Narrowed(popups, {m \in popups : m.type = "swipe"}) ELSE popups
  BY DEF Candidates
<1>2. free \subseteq Controls[p] \ skipped
  OBVIOUS
<1> HIDE DEF free
<1>3. popups \subseteq free
  BY DEF Narrowed
<1> HIDE DEF popups
<1>4. Candidates(p, tried, taps, skipped) \subseteq popups
  BY <1>1 DEF Narrowed
<1> QED
  BY <1>2, <1>3, <1>4

LEMMA OrdinaryIsSafe ==
  ASSUME NEW p \in Pages, NEW n \in OrdinaryChoice(p)
  PROVE  n \in Controls[p] /\ SafeOn(p, n) /\ Unused(p, n)
<1> DEFINE first == {m \in Controls[p] : Skipped(p, m, gInputs) \/ ExternalRisk(m)}
<1>1. PICK skipped \in {first, SkippedOn(p, gInputs)} :
        n \in Candidates(p, gNodes[p].tried, gNodes[p].taps, skipped)
  BY DEF OrdinaryChoice
<1>2. n \in Controls[p] /\ n \notin skipped
  BY <1>1, CandidatesAreFree
<1>3. ~Skipped(p, n, gInputs)
  BY <1>1, <1>2 DEF SkippedOn
<1> QED
  BY <1>2, <1>3, FreeIsSafe

LEMMA StartupIsSafe ==
  ASSUME NEW p \in Pages, NEW n \in StartupChoice(p)
  PROVE  n \in Controls[p] /\ SafeOn(p, n) /\ Unused(p, n)
<1>1. /\ StartupSurface(Activity(p)) /\ PreferredLanguage(Controls[p]) # {}
      /\ n \in Unseen(p, PreferredLanguage(Controls[p])) \/ n \in Unseen(p, LanguageConfirm(Controls[p]))
  BY DEF StartupChoice
<1>2. IsPicker(Controls[p]) /\ PreferredLanguage(Controls[p]) \subseteq Controls[p]
      /\ LanguageConfirm(Controls[p]) \subseteq Controls[p]
  BY <1>1 DEF PreferredLanguage, LanguageConfirm
<1>3. n \in StartupControls(p) /\ n \in Controls[p] /\ Unused(p, n)
  BY <1>1, <1>2 DEF StartupControls, Unseen, Unused
<1> QED
  BY <1>3 DEF SafeOn

LEMMA BackIsSafe ==
  ASSUME NEW n \in VisibleBack
  PROVE  n \in Controls[gPage] /\ SafeOn(gPage, n) /\ n.type = "tap" /\ IsA(n, "back")
BY DEF VisibleBack, SafeOn, Options, Pressed

\* A step that records no page: what it may touch.
LEMMA GraphQuiet ==
  ASSUME GraphInv, GraphTypeOK', gParents' = gParents, gCycle' = gCycle, gBlocked \subseteq gBlocked',
         \A p \in Pages : gNodes'[p].known = gNodes[p].known,
         gTaken' = gTaken, PagesAreKnown', TapsAreSeen', ChoiceIsSafe'
  PROVE  GraphInv'
<1>1. TapOncePerActivity'
  BY DEF GraphInv, TapOncePerActivity
<1>2. CyclesAreCut'
  BY DEF GraphInv, CyclesAreCut
<1>3. ParentsLeadBack'
  BY DEF GraphInv, ParentsLeadBack
<1> QED
  BY <1>1, <1>2, <1>3 DEF GraphInv

\* Nothing is about to be executed after the step.
LEMMA NothingChosen ==
  ASSUME GraphInv, gPc' # "act", gTaken' = gTaken, gSeen \subseteq gSeen'
  PROVE  TapsAreSeen' /\ ChoiceIsSafe'
BY DEF GraphInv, TapsAreSeen, ChoiceIsSafe

\* One of the two ways to go back is about to be executed.
LEMMA BackChosen ==
  ASSUME GraphInv, gChosen' \in {SystemBack, Undo}, gTaken' = gTaken, gSeen \subseteq gSeen'
  PROVE  TapsAreSeen' /\ ChoiceIsSafe'
BY DEF GraphInv, TapsAreSeen, ChoiceIsSafe

\* A control of the page is about to be executed.
LEMMA ControlChosen ==
  ASSUME GraphInv, gPage \in Pages, gPage' = gPage, NEW n \in Controls[gPage], gChosen' = Act(n),
         SafeOn(gPage, n), gLoop'.shop = gLoop.shop, gTaken' = gTaken, gSeen \subseteq gSeen',
         n.type = "tap" /\ ~IsA(n, "back") =>
           Unused(gPage, n) /\ <<Activity(gPage), n.key>> \in gSeen'
  PROVE  TapsAreSeen' /\ ChoiceIsSafe'
<1>1. /\ n.key \in Keys /\ gChosen'.key = n.key /\ gChosen'.type = n.type /\ gChosen'.back = IsA(n, "back")
      /\ gChosen'.undo = FALSE
  BY ActOfControl
<1>2. ChoiceIsSafe'
  BY DEF ChoiceIsSafe, SafeOn
<1>3. \A tap \in Activities \X Keys : gTaken'[tap] > 0 => tap \in gSeen'
  BY DEF GraphInv, TapsAreSeen
<1>4. ASSUME n.type = "tap", ~IsA(n, "back") PROVE gTaken'[<<Activity(gPage), n.key>>] = 0
  <2>1. Activity(gPage) \in Activities /\ <<Activity(gPage), n.key>> \notin gSeen
    BY <1>4, NamesOfPages DEF Unused
  <2>2. ~(gTaken[<<Activity(gPage), n.key>>] > 0)
    BY <1>1, <2>1 DEF GraphInv, TapsAreSeen
  <2>3. gTaken[<<Activity(gPage), n.key>>] \in Nat
    BY <1>1, <2>1 DEF GraphInv, GraphTypeOK
  <2> QED
    BY <2>2, <2>3
<1>5. (gPc = "act")' =>
         \/ gChosen' \in {SystemBack, Undo}
         \/ /\ gChosen'.key \in Keys /\ ~gChosen'.undo
            /\ gChosen'.type = "tap" /\ ~gChosen'.back =>
                 /\ <<Activity(gPage), gChosen'.key>> \in gSeen'
                 /\ gTaken'[<<Activity(gPage), gChosen'.key>>] = 0
  BY <1>1, <1>4
<1> QED
  BY <1>2, <1>3, <1>5 DEF TapsAreSeen

\* What the cycle guard answers, and that the moves it cuts are in its history.
LEMMA PeriodFits ==
  ASSUME NEW h, h \in Seq(GraphMoves), h # <<>>
  PROVE  Period(h) \in Nat /\ (Period(h) <= CycleMaxPeriod => Period(h) <= Len(h))
<1> DEFINE found == {k \in 1 .. CycleMaxPeriod : Repeats(h, k)}
<1>1. CycleMaxPeriod \in Nat \ {0} /\ CycleRepetitions \in Nat \ {0, 1} /\ Len(h) \in Nat
  BY GraphAssumption
<1>2. \A k \in found : k \in Nat /\ k >= 1 /\ Len(h) >= k * CycleRepetitions
  BY <1>1 DEF Repeats
<1>3. ASSUME NEW k \in Nat, NEW c \in Nat \ {0, 1} PROVE k * c >= k
  OBVIOUS
<1>4. \A k \in found : k <= Len(h)
  <2> SUFFICES ASSUME NEW k \in found PROVE k <= Len(h)
    OBVIOUS
  <2>1. k \in Nat /\ Len(h) >= k * CycleRepetitions
    BY <1>2
  <2>2. k * CycleRepetitions >= k
    BY <1>1, <1>3, <2>1
  <2>3. k * CycleRepetitions \in Nat
    BY <1>1, <2>1
  <2> HIDE DEF found
  <2> QED
    BY <1>1, <2>1, <2>2, <2>3
<1>5. Period(h) = IF found # {} THEN CHOOSE k \in found : \A j \in found : k <= j
                  ELSE IF Count(h) >= RepeatedTransitionLimit THEN CycleMaxPeriod + 1 ELSE 0
  BY DEF Period
<1>6. found \subseteq Nat
  BY <1>2
<1> HIDE DEF found
<1>7. CASE found # {}
  <2>1. \E k \in found : \A j \in found : k <= j
    BY <1>6, <1>7, LeastNatural
  <2>2. Period(h) \in found
    BY <1>5, <1>7, <2>1
  <2> QED
    BY <1>4, <1>6, <2>2
<1>8. CASE found = {}
  BY <1>1, <1>5, <1>8
<1> QED
  BY <1>7, <1>8

LEMMA SampleIsMove ==
  ASSUME GraphTypeOK, NEW p \in Pages
  PROVE  Sample(p) \in GraphMoves
<1>1. gPending.from \in PlaceNames /\ gPending.act.key \in ActKeys
  BY DEF GraphTypeOK, GraphPending, GraphActs
<1>2. Semantic(gPending.from) \in GraphPlaces
  BY <1>1, SemanticIsPlace
<1>3. Semantic(p) \in GraphPlaces /\ Activity(p) \in GraphPlaces
  BY NamesOfPages DEF GraphPlaces, PlaceNames
<1>4. gPending.from \in Pages => Activity(gPending.from) \in GraphPlaces
  BY NamesOfPages DEF GraphPlaces, PlaceNames
<1>5. /\ Sample(p).from \in GraphPlaces /\ Sample(p).to \in GraphPlaces
      /\ Sample(p).key \in BlockKeys /\ Sample(p).at \in GraphPlaces
  BY <1>1, <1>2, <1>3, <1>4 DEF Sample, BlockKeys
<1> QED
  BY <1>5 DEF Sample, GraphMoves

LEMMA ProgressIsLoop ==
  ASSUME GraphTypeOK, NEW p \in Pages
  PROVE  Progress(gLoop, p) \in GraphLoop /\ Progress(gLoop, p).shop = gLoop.shop
<1>1. gLoop \in GraphLoop
  BY DEF GraphTypeOK
<1>2. Semantic(p) \in Semantics /\ Activity(p) \in Activities
  BY NamesOfPages
<1> DEFINE still == UpTo(gLoop.still[Semantic(p)], StuckLimit)
<1>3. still \in Nat
  BY <1>1, <1>2, GraphConstants DEF UpTo, GraphLoop
<1>4. [gLoop EXCEPT !.stuck = "none", !.stuckAt = "none", !.backSent = "none", !.ready = FALSE] \in GraphLoop
  BY <1>1 DEF GraphLoop, MaybeState
<1>5. Progress(gLoop, p) =
        IF Semantic(gPending.from) # Semantic(p)
          THEN [gLoop EXCEPT !.stuck = "none", !.stuckAt = "none", !.backSent = "none", !.ready = FALSE]
        ELSE IF still < StuckLimit THEN [gLoop EXCEPT !.still[Semantic(p)] = still]
        ELSE [gLoop EXCEPT !.still[Semantic(p)] = still, !.stuck = Semantic(p), !.stuckAt = Activity(p), !.ready = TRUE]
  BY DEF Progress
<1> HIDE DEF still
<1>6. [gLoop.still EXCEPT ![Semantic(p)] = still] \in [Semantics -> Nat]
  BY <1>1, <1>3 DEF GraphLoop
<1>7. [gLoop EXCEPT !.still[Semantic(p)] = still] \in GraphLoop
  BY <1>1, <1>6 DEF GraphLoop
<1>8. [gLoop EXCEPT !.still[Semantic(p)] = still, !.stuck = Semantic(p), !.stuckAt = Activity(p), !.ready = TRUE]
        \in GraphLoop
  BY <1>1, <1>2, <1>6 DEF GraphLoop, MaybeState
<1>9. Progress(gLoop, p).shop = gLoop.shop
  BY <1>1, <1>5 DEF GraphLoop
<1> QED
  BY <1>4, <1>5, <1>7, <1>8, <1>9

\* The page that is recorded: what is known afterwards.
LEMMA PageIsRecorded ==
  ASSUME GraphTypeOK, NEW p \in Pages, gNodes' = [gNodes EXCEPT ![p].known = TRUE]
  PROVE  /\ gNodes' \in [Pages -> GraphNodes] /\ gNodes'[p].known
         /\ \A q \in Pages : gNodes[q].known => gNodes'[q].known
<1>1. gNodes \in [Pages -> GraphNodes]
  BY DEF GraphTypeOK
<1>2. [gNodes[p] EXCEPT !.known = TRUE] \in GraphNodes
  BY <1>1 DEF GraphNodes
<1>3. gNodes' = [gNodes EXCEPT ![p] = [gNodes[p] EXCEPT !.known = TRUE]]
  BY <1>1
<1>4. gNodes'[p].known
  BY <1>1, <1>3 DEF GraphNodes
<1> QED
  BY <1>1, <1>2, <1>3, <1>4

\* The ways back after a page is recorded.
LEMMA ParentsStayApart ==
  ASSUME GraphInv, NEW p \in Pages, gNodes' = [gNodes EXCEPT ![p].known = TRUE],
         \/ gParents' = gParents
         \/ /\ ~gNodes[p].known /\ gPending.from # p
            /\ gParents' = [gParents EXCEPT ![p] = gPending.from]
  PROVE  ParentsLeadBack'
<1>1. /\ gNodes'[p].known /\ \A q \in Pages : gNodes[q].known => gNodes'[q].known
  BY PageIsRecorded DEF GraphInv
<1>2. gParents \in [Pages -> PlaceNames] /\ gPending.from \in PlaceNames
  BY DEF GraphInv, GraphTypeOK, GraphPending
<1>3. CASE gParents' = gParents
  BY <1>1, <1>3 DEF GraphInv, ParentsLeadBack
<1>4. CASE /\ ~gNodes[p].known /\ gPending.from # p
           /\ gParents' = [gParents EXCEPT ![p] = gPending.from]
  <2>1. \A q \in Pages : gParents[q] # p
    BY <1>4, GraphConstants DEF GraphInv, ParentsLeadBack
  <2>2. ASSUME NEW loop \in (SUBSET Pages) \ {{}} PROVE \E q \in loop : gParents'[q] \notin loop
    <3>1. CASE p \notin loop
      <4>1. PICK q \in loop : gParents[q] \notin loop
        BY DEF GraphInv, ParentsLeadBack
      <4> QED
        BY <1>2, <1>4, <3>1, <4>1
    <3>2. CASE loop = {p}
      BY <1>2, <1>4, <3>2
    <3>3. CASE p \in loop /\ loop # {p}
      <4>1. loop \ {p} \in (SUBSET Pages) \ {{}}
        BY <3>3
      <4>2. PICK q \in loop \ {p} : gParents[q] \notin loop \ {p}
        BY <4>1 DEF GraphInv, ParentsLeadBack
      <4>3. gParents'[q] = gParents[q] /\ gParents[q] # p
        BY <1>2, <1>4, <2>1, <4>2
      <4> QED
        BY <4>2, <4>3
    <3> QED
      BY <3>1, <3>2, <3>3
  <2>3. ASSUME NEW q \in Pages, gParents'[q] # "none"
        PROVE  gNodes'[q].known /\ (gParents'[q] \in Pages => gNodes'[gParents'[q]].known)
    <3>1. CASE q = p
      <4>1. gParents'[q] = gPending.from
        BY <1>2, <1>4, <3>1
      <4>2. gPending.from \in Pages => gNodes[gPending.from].known
        BY DEF GraphInv, PagesAreKnown
      <4> QED
        BY <1>1, <3>1, <4>1, <4>2
    <3>2. CASE q # p
      <4>1. gParents'[q] = gParents[q]
        BY <1>2, <1>4, <3>2
      <4>2. gNodes[q].known /\ (gParents[q] \in Pages => gNodes[gParents[q]].known)
        BY <2>3, <4>1 DEF GraphInv, ParentsLeadBack
      <4> QED
        BY <1>1, <4>1, <4>2
    <3> QED
      BY <3>1, <3>2
  <2> QED
    BY <2>2, <2>3 DEF ParentsLeadBack
<1> QED
  BY <1>3, <1>4

\* The history of the cycle guard after a step has led to a page.
LEMMA WindowIsCut ==
  ASSUME GraphInv, NEW window, window \in {<<>>, gCycle}, gCycle' = window, gBlocked \subseteq gBlocked'
  PROVE  CyclesAreCut' /\ gCycle' \in Seq(GraphMoves)
<1>1. gCycle \in Seq(GraphMoves) /\ <<>> \in Seq(GraphMoves)
  BY DEF GraphInv, GraphTypeOK
<1>2. CASE gCycle' = <<>>
  BY <1>1, <1>2 DEF CyclesAreCut
<1>3. CASE gCycle' = gCycle
  <2>1. CyclesAreCut'
    BY <1>3 DEF GraphInv, CyclesAreCut
  <2> QED
    BY <1>1, <1>3, <2>1
<1> QED
  BY <1>2, <1>3

\* What is blocked for the cycle that the moves end with.
CutSteps(p, moves) ==
  IF Period(moves) = 0 THEN {}
  ELSE IF Period(moves) <= CycleMaxPeriod
    THEN {<<moves[i].at, moves[i].key>> : i \in Len(moves) - Period(moves) + 1 .. Len(moves)}
    ELSE {<<Sample(p).at, Sample(p).key>>}

LEMMA StepIsCut ==
  ASSUME GraphTypeOK, NEW p \in Pages, NEW window \in Seq(GraphMoves),
         NEW moves, moves = Append(window, Sample(p))
  PROVE  /\ moves \in Seq(GraphMoves) /\ Period(moves) \in Nat
         /\ CutSteps(p, moves) \subseteq GraphPlaces \X BlockKeys
         /\ Period(moves) > 0 => <<moves[Len(moves)].at, moves[Len(moves)].key>> \in CutSteps(p, moves)
<1> DEFINE period == Period(moves)
           cut == CutSteps(p, moves)
<1>1. Sample(p) \in GraphMoves
  BY SampleIsMove
<1>2. /\ moves \in Seq(GraphMoves) /\ moves # <<>> /\ Len(moves) \in Nat /\ Len(moves) >= 1
      /\ moves[Len(moves)] = Sample(p)
  BY <1>1
<1>3. period \in Nat /\ (period <= CycleMaxPeriod => period <= Len(moves))
  BY <1>2, PeriodFits
<1>4. CycleMaxPeriod \in Nat
  BY GraphConstants
<1>5. Sample(p).at \in GraphPlaces /\ Sample(p).key \in BlockKeys
  BY <1>1 DEF GraphMoves
<1>6. cut = IF period = 0 THEN {}
            ELSE IF period <= CycleMaxPeriod
              THEN {<<moves[i].at, moves[i].key>> : i \in Len(moves) - period + 1 .. Len(moves)}
              ELSE {<<Sample(p).at, Sample(p).key>>}
  BY DEF CutSteps
<1> HIDE DEF cut, period
<1>7. period \in Nat /\ cut \subseteq GraphPlaces \X BlockKeys
       /\ (period > 0 => <<moves[Len(moves)].at, moves[Len(moves)].key>> \in cut)
  <2>1. CASE period = 0
    BY <1>2, <1>3, <1>6, <2>1
  <2>2. CASE period # 0 /\ period <= CycleMaxPeriod
    <3>1. cut = {<<moves[i].at, moves[i].key>> : i \in Len(moves) - period + 1 .. Len(moves)}
      BY <1>6, <2>2
    <3>2. \A i \in Len(moves) - period + 1 .. Len(moves) : i \in 1 .. Len(moves)
      BY <1>2, <1>3, <2>2
    <3>3. \A i \in 1 .. Len(moves) : moves[i] \in GraphMoves
      BY <1>2
    <3>4. \A i \in 1 .. Len(moves) : moves[i].at \in GraphPlaces /\ moves[i].key \in BlockKeys
      BY <3>3 DEF GraphMoves
    <3>5. Len(moves) \in Len(moves) - period + 1 .. Len(moves)
      BY <1>2, <1>3, <2>2
    <3>6. cut \subseteq GraphPlaces \X BlockKeys
      BY <3>1, <3>2, <3>4
    <3>7. <<moves[Len(moves)].at, moves[Len(moves)].key>> \in cut
      BY <3>1, <3>5
    <3> QED
      BY <1>2, <1>3, <3>6, <3>7
  <2>3. CASE period # 0 /\ ~(period <= CycleMaxPeriod)
    BY <1>2, <1>3, <1>5, <1>6, <2>3
  <2> QED
    BY <2>1, <2>2, <2>3
<1> QED
  BY <1>2, <1>7 DEF cut, period

\* The counts of the steps are numbers.
LEMMA StepsAreCounted ==
  ASSUME NEW c \in [actions : Nat, backs : Nat]
  PROVE  /\ [c EXCEPT !.actions = c.actions + 1] \in [actions : Nat, backs : Nat]
         /\ [c EXCEPT !.backs = c.backs + 1] \in [actions : Nat, backs : Nat]
OBVIOUS

LEMMA SettledLoop ==
  ASSUME GraphTypeOK, NEW p \in Pages, NEW stalls \in Nat, NEW scrolled \in BOOLEAN, NEW armed \in BOOLEAN,
         scrolled => gPending.act.key \in Keys,
         gLoop' = [Progress(gLoop, p) EXCEPT
                     !.stalls = IF scrolled THEN [@ EXCEPT ![<<Semantic(p), gPending.act.key>>] = stalls] ELSE @,
                     !.armed = IF armed THEN Semantic(p) ELSE @]
  PROVE  gLoop' \in GraphLoop
<1> DEFINE base == Progress(gLoop, p)
<1>1. base \in GraphLoop
  BY ProgressIsLoop
<1> DEFINE counts == IF scrolled THEN [base.stalls EXCEPT ![<<Semantic(p), gPending.act.key>>] = stalls] ELSE base.stalls
<1> DEFINE arm == IF armed THEN Semantic(p) ELSE base.armed
<1>2. gLoop' = [base EXCEPT !.stalls = counts, !.armed = arm]
  OBVIOUS
<1> HIDE DEF base
<1>3. counts \in [Semantics \X Keys -> Nat]
  BY <1>1 DEF GraphLoop
<1>4. arm \in MaybeState
  BY <1>1, NamesOfPages DEF GraphLoop, MaybeState
<1> HIDE DEF counts, arm
<1> QED
  BY <1>1, <1>2, <1>3, <1>4 DEF GraphLoop

\* A step has led to page p: what the record of it keeps.
LEMMA SettleKeeps ==
  ASSUME GraphInv, NEW p \in Pages, Settle(p), gNodes' = [gNodes EXCEPT ![p].known = TRUE]
  PROVE  /\ gBlocked' \subseteq GraphPlaces \X BlockKeys /\ gCycle' \in Seq(GraphMoves)
         /\ gLoop' \in GraphLoop /\ gParents' \in [Pages -> PlaceNames]
         /\ CyclesAreCut' /\ ParentsLeadBack'
<1> DEFINE from == gPending.from
           act == gPending.act
           here == Semantic(from) = Semantic(p)
           window == IF Semantic(p) \notin gSemantics /\ gSemantics # {} THEN <<>> ELSE gCycle
           free == Unguarded(Sample(p))
           moves == IF free THEN window ELSE Append(window, Sample(p))
           period == IF free THEN 0 ELSE Period(moves)
           backless == IF here /\ act.back /\ gPending.prev.type = "tap" /\ ~gPending.prev.back
                         THEN {<<Semantic(from), gPending.prev.key>>} ELSE {}
           scrolled == here /\ act.type = "swipe" /\ act.key \in Keys
           stalls == IF scrolled THEN UpTo(gLoop.stalls[<<Semantic(p), act.key>>], MaxStableScrolls) ELSE 0
           stalled == IF stalls = MaxStableScrolls THEN {<<Semantic(from), act.key>>} ELSE {}
           lost == IF act.undo /\ gParents[from] # p THEN {<<Semantic(from), "backtrack">>} ELSE {}
           cut == IF period = 0 THEN {}
             ELSE IF period <= CycleMaxPeriod
               THEN {<<moves[i].at, moves[i].key>> : i \in Len(moves) - period + 1 .. Len(moves)}
               ELSE {<<Sample(p).at, Sample(p).key>>}
<1>1. /\ gBlocked' = gBlocked \cup backless \cup stalled \cup lost \cup cut
      /\ gCycle' = moves
  BY DEF Settle
<1>2. PICK cooled \in BOOLEAN :
        gLoop' = [Progress(gLoop, p) EXCEPT
                    !.stalls = IF scrolled THEN [@ EXCEPT ![<<Semantic(p), act.key>>] = stalls] ELSE @,
                    !.armed = IF period > 0 /\ (Semantic(p) # gLoop.cool \/ cooled) THEN Semantic(p) ELSE @]
  BY DEF Settle
<1>3. gParents' = [gParents EXCEPT ![p] = IF ~gNodes[p].known /\ ~act.undo /\ from # p THEN from ELSE @]
  BY DEF Settle
<1>4. /\ gParents \in [Pages -> PlaceNames] /\ gLoop \in GraphLoop
      /\ from \in PlaceNames /\ act.key \in ActKeys /\ gPending.prev.key \in ActKeys
      /\ gCycle \in Seq(GraphMoves) /\ gBlocked \subseteq GraphPlaces \X BlockKeys /\ GraphTypeOK
  BY DEF GraphInv, GraphTypeOK, GraphPending, GraphActs
<1>5. Semantic(from) \in GraphPlaces /\ Semantic(p) \in Semantics
  BY <1>4, SemanticIsPlace, NamesOfPages
<1>6. backless \cup stalled \cup lost \subseteq GraphPlaces \X BlockKeys
  BY <1>4, <1>5 DEF BlockKeys
<1>7. scrolled \in BOOLEAN /\ stalls \in Nat /\ (scrolled => act.key \in Keys)
  <2>1. CASE scrolled
    <3>1. gLoop.stalls[<<Semantic(p), act.key>>] \in Nat
      BY <1>4, <1>5, <2>1 DEF GraphLoop
    <3> QED
      BY <2>1, <3>1, GraphConstants DEF UpTo
  <2>2. CASE ~scrolled
    BY <2>2
  <2> QED
    BY <2>1, <2>2
<1>8. window \in Seq(GraphMoves) /\ window \in {<<>>, gCycle}
  BY <1>4
<1> HIDE DEF window, free
<1>9. /\ cut \subseteq GraphPlaces \X BlockKeys /\ gCycle' \in Seq(GraphMoves) /\ CyclesAreCut'
  <2>1. CASE free
    <3>1. cut = {} /\ gCycle' = window
      BY <1>1, <2>1
    <3> QED
      BY <1>1, <1>8, <3>1, WindowIsCut
  <2>2. CASE ~free
    <3>1. moves = Append(window, Sample(p)) /\ period = Period(moves)
      BY <2>2
    <3>6. cut = CutSteps(p, moves)
      BY <2>2 DEF CutSteps, moves, period
    <3> HIDE DEF moves, period, cut
    <3>2. /\ moves \in Seq(GraphMoves) /\ cut \subseteq GraphPlaces \X BlockKeys
          /\ period > 0 => <<moves[Len(moves)].at, moves[Len(moves)].key>> \in cut
      BY <1>4, <1>8, <3>1, <3>6, StepIsCut
    <3>3. cut \subseteq gBlocked'
      BY <1>1
    <3>4. Period(moves) > 0 => <<moves[Len(moves)].at, moves[Len(moves)].key>> \in gBlocked'
      BY <3>1, <3>2, <3>3
    <3>5. CyclesAreCut'
      BY <1>1, <3>4 DEF CyclesAreCut
    <3> QED
      BY <1>1, <3>2, <3>5
  <2> QED
    BY <2>1, <2>2
<1> HIDE DEF moves, period, cut
<1>10. gBlocked' \subseteq GraphPlaces \X BlockKeys
  BY <1>1, <1>4, <1>6, <1>9
<1> DEFINE armed == period > 0 /\ (Semantic(p) # gLoop.cool \/ cooled)
<1>11. gLoop' \in GraphLoop
  <2>1. armed \in BOOLEAN
    OBVIOUS
  <2>2. gLoop' = [Progress(gLoop, p) EXCEPT
                    !.stalls = IF scrolled THEN [@ EXCEPT ![<<Semantic(p), gPending.act.key>>] = stalls] ELSE @,
                    !.armed = IF armed THEN Semantic(p) ELSE @]
    BY <1>2
  <2>3. scrolled => gPending.act.key \in Keys
    BY <1>7
  <2>4. GraphTypeOK /\ p \in Pages /\ scrolled \in BOOLEAN /\ stalls \in Nat
    BY <1>4, <1>7
  <2> HIDE DEF armed, scrolled, stalls
  <2> QED
    BY <2>1, <2>2, <2>3, <2>4, SettledLoop
<1>12. gParents' \in [Pages -> PlaceNames]
  BY <1>3, <1>4
<1>13. ParentsLeadBack'
  <2>1. CASE ~gNodes[p].known /\ ~act.undo /\ from # p
    BY <1>3, <2>1, ParentsStayApart
  <2>2. CASE ~(~gNodes[p].known /\ ~act.undo /\ from # p)
    <3>1. gParents' = gParents
      BY <1>3, <1>4, <2>2
    <3> QED
      BY <3>1, ParentsStayApart
  <2> QED
    BY <2>1, <2>2
<1> QED
  BY <1>9, <1>10, <1>11, <1>12, <1>13

LEMMA RecordPageKeeps ==
  ASSUME GraphInv, NEW p \in Pages, RecordPage(p)
  PROVE  GraphInv'
<1>1. /\ gPc' = "choose" /\ gPage' = p /\ gNodes' = [gNodes EXCEPT ![p].known = TRUE]
      /\ gSemantics' = gSemantics \cup {Semantic(p)}
      /\ gPending' = [from |-> "none", act |-> NoStep, prev |-> NoStep]
      /\ gReturned' = gReturned /\ gSeen' = gSeen /\ gInputs' = gInputs /\ gLast' = gLast
      /\ gChosen' = gChosen /\ gCount' = gCount /\ gTaken' = gTaken
  BY DEF RecordPage
<1>2. /\ gBlocked' \subseteq GraphPlaces \X BlockKeys /\ gCycle' \in Seq(GraphMoves)
      /\ gLoop' \in GraphLoop /\ gParents' \in [Pages -> PlaceNames]
      /\ CyclesAreCut' /\ ParentsLeadBack'
  <2>1. CASE gPending.from # "none"
    <3>1. Settle(p)
      BY <2>1 DEF RecordPage
    <3> QED
      BY <1>1, <3>1, SettleKeeps
  <2>2. CASE gPending.from = "none"
    <3>1. /\ gCycle' \in {<<>>, gCycle} /\ gBlocked' = gBlocked /\ gLoop' = gLoop /\ gParents' = gParents
      BY <2>2 DEF RecordPage
    <3>2. CyclesAreCut' /\ gCycle' \in Seq(GraphMoves)
      BY <3>1, WindowIsCut
    <3>3. ParentsLeadBack'
      BY <1>1, <3>1, ParentsStayApart
    <3> QED
      BY <3>1, <3>2, <3>3 DEF GraphInv, GraphTypeOK
  <2> QED
    BY <2>1, <2>2
<1>3. gNodes' \in [Pages -> GraphNodes] /\ gNodes'[p].known
  BY <1>1, PageIsRecorded DEF GraphInv
<1>4. GraphTypeOK'
  <2>1. gPending' \in GraphPending
    BY <1>1, BacksAreActs DEF GraphPending, PlaceNames
  <2>2. gSemantics' \subseteq Semantics
    BY <1>1, NamesOfPages DEF GraphInv, GraphTypeOK
  <2> QED
    BY <1>1, <1>2, <1>3, <2>1, <2>2 DEF GraphInv, GraphTypeOK
<1>5. PagesAreKnown'
  BY <1>1, <1>3, GraphConstants DEF PagesAreKnown
<1>6. TapsAreSeen' /\ ChoiceIsSafe'
  BY <1>1, NothingChosen
<1>7. TapOncePerActivity'
  BY <1>1 DEF GraphInv, TapOncePerActivity
<1> QED
  BY <1>2, <1>4, <1>5, <1>6, <1>7 DEF GraphInv

\* The session's own action: its step is taken from an activity.
LEMMA SessionActionKeeps ==
  ASSUME GraphInv, NEW p \in Pages, NEW type \in {"replay", "tap", "swipe"}, SessionAction(p, type)
  PROVE  GraphInv'
<1> DEFINE a == [type |-> type, key |-> "session", back |-> FALSE, undo |-> FALSE]
<1>1. /\ gPc = "page" /\ gCount' = [gCount EXCEPT !.actions = @ + 1]
      /\ gPending' = [from |-> Activity(p), act |-> a, prev |-> gLast] /\ gLast' = a
      /\ gPc' = gPc /\ gPage' = gPage /\ gParents' = gParents /\ gBlocked' = gBlocked
      /\ gSemantics' = gSemantics /\ gCycle' = gCycle /\ gNodes' = gNodes /\ gInputs' = gInputs
      /\ gReturned' = gReturned /\ gSeen' = gSeen /\ gLoop' = gLoop /\ gChosen' = gChosen
      /\ gTaken' = gTaken
  BY DEF SessionAction, nodeVars, choiceVars
<1>2. a \in GraphActs
  BY DEF GraphActs, ActKeys
<1> HIDE DEF a
<1>3. gPending' \in GraphPending
  BY <1>1, <1>2, NamesOfPages DEF GraphInv, GraphTypeOK, GraphPending, PlaceNames
<1>4. GraphTypeOK'
  <2>1. gCount' \in [actions : Nat, backs : Nat]
    BY <1>1, StepsAreCounted DEF GraphInv, GraphTypeOK
  <2> QED
    BY <1>1, <1>2, <1>3, <2>1 DEF GraphInv, GraphTypeOK
<1>5. PagesAreKnown'
  BY <1>1, NamesOfPages, GraphConstants DEF GraphInv, PagesAreKnown
<1>6. TapsAreSeen' /\ ChoiceIsSafe'
  BY <1>1, NothingChosen
<1> QED
  BY <1>1, <1>4, <1>5, <1>6, GraphQuiet

LEMMA OnboardingStaysKeeps ==
  ASSUME GraphInv, NEW p \in Pages, OnboardingStays(p)
  PROVE  GraphInv'
<1>1. /\ gPc = "page" /\ gLoop' = [gLoop EXCEPT !.ready = TRUE, !.stuckAt = Activity(p)]
      /\ gPc' = gPc /\ gPage' = gPage /\ gParents' = gParents /\ gBlocked' = gBlocked
      /\ gSemantics' = gSemantics /\ gCycle' = gCycle /\ gNodes' = gNodes /\ gInputs' = gInputs
      /\ gReturned' = gReturned /\ gSeen' = gSeen /\ gChosen' = gChosen
      /\ gTaken' = gTaken /\ gPending' = gPending /\ gLast' = gLast /\ gCount' = gCount
  BY DEF OnboardingStays, recordVars, nodeVars
<1>2. gLoop' \in GraphLoop
  BY <1>1, NamesOfPages DEF GraphInv, GraphTypeOK, GraphLoop
<1>3. GraphTypeOK'
  BY <1>1, <1>2 DEF GraphInv, GraphTypeOK
<1>4. PagesAreKnown'
  BY <1>1 DEF GraphInv, PagesAreKnown
<1>5. TapsAreSeen' /\ ChoiceIsSafe'
  BY <1>1, NothingChosen
<1> QED
  BY <1>1, <1>3, <1>4, <1>5, GraphQuiet

\* Before a choice the traversal stands on a page it knows.
LEMMA PlaceOfChoice ==
  ASSUME GraphInv, gPc \in {"choose", "act"}
  PROVE  /\ gPage \in Pages /\ gNodes[gPage].known /\ Semantic(gPage) \in Semantics
         /\ Activity(gPage) \in Activities /\ gLoop \in GraphLoop
BY NamesOfPages DEF GraphInv, GraphTypeOK, PagesAreKnown

\* The escalation cools down: the rest of the loop stays.
LEMMA CooledIsLoop ==
  ASSUME GraphInv, gPc = "choose"
  PROVE  Cooled \in GraphLoop /\ Cooled.shop = gLoop.shop
<1>1. gLoop \in GraphLoop /\ Semantic(gPage) \in Semantics
  BY PlaceOfChoice
<1>2. [gLoop EXCEPT !.armed = "none", !.cool = Semantic(gPage)] \in GraphLoop
  BY <1>1 DEF GraphLoop, MaybeState
<1>3. [gLoop EXCEPT !.armed = "none", !.cool = Semantic(gPage)].shop = gLoop.shop
  BY <1>1 DEF GraphLoop
<1> QED
  BY <1>1, <1>2, <1>3 DEF Cooled

LEMMA MarkedTaps ==
  ASSUME GraphInv, gPage \in Pages, NEW n \in Controls[gPage], Mark(n)
  PROVE  /\ gSeen \subseteq gSeen' /\ gSeen' \subseteq Activities \X Keys
         /\ n.type = "tap" => <<Activity(gPage), n.key>> \in gSeen'
<1>1. n.key \in Keys /\ Activity(gPage) \in Activities
  BY ActOfControl, NamesOfPages
<1> QED
  BY <1>1 DEF GraphInv, GraphTypeOK, Mark

\* A choice: the shape of the steps that end in the execution of an action.
LEMMA ChoiceKeeps ==
  ASSUME GraphInv, gPc = "choose",
         gPc' = "act", gPage' = gPage, gParents' = gParents, gBlocked' = gBlocked,
         gSemantics' = gSemantics, gCycle' = gCycle, gPending' = gPending,
         gNodes' \in [Pages -> GraphNodes], \A p \in Pages : gNodes'[p].known = gNodes[p].known,
         gInputs' \subseteq Activities \X Keys, gReturned' \in [Pages -> Nat],
         gCount' = [gCount EXCEPT !.actions = @ + 1],
         gLast' = gLast, gTaken' = gTaken, gLoop' \in GraphLoop, gLoop'.shop = gLoop.shop,
         gSeen \subseteq gSeen', gSeen' \subseteq Activities \X Keys,
         \/ gChosen' \in {SystemBack, Undo}
         \/ \E n \in Controls[gPage] :
              /\ gChosen' = Act(n) /\ SafeOn(gPage, n)
              /\ n.type = "tap" /\ ~IsA(n, "back") =>
                   Unused(gPage, n) /\ <<Activity(gPage), n.key>> \in gSeen'
  PROVE  GraphInv'
<1>1. gPage \in Pages /\ gNodes[gPage].known
  BY PlaceOfChoice
<1>2. gChosen' \in GraphActs /\ TapsAreSeen' /\ ChoiceIsSafe'
  <2>1. CASE gChosen' \in {SystemBack, Undo}
    BY <2>1, BackChosen, BacksAreActs
  <2>2. ASSUME NEW n \in Controls[gPage], gChosen' = Act(n), SafeOn(gPage, n),
               n.type = "tap" /\ ~IsA(n, "back") =>
                 Unused(gPage, n) /\ <<Activity(gPage), n.key>> \in gSeen'
        PROVE  gChosen' \in GraphActs /\ TapsAreSeen' /\ ChoiceIsSafe'
    <3>1. TapsAreSeen' /\ ChoiceIsSafe'
      BY <1>1, <2>2, ControlChosen
    <3> QED
      BY <1>1, <2>2, <3>1, ActOfControl
  <2> QED
    BY <2>1, <2>2
<1>3. gCount' \in [actions : Nat, backs : Nat]
  BY StepsAreCounted DEF GraphInv, GraphTypeOK
<1>4. GraphTypeOK'
  BY <1>2, <1>3 DEF GraphInv, GraphTypeOK
<1>5. PagesAreKnown'
  BY <1>1 DEF GraphInv, PagesAreKnown
<1> QED
  BY <1>2, <1>4, <1>5, GraphQuiet

LEMMA ChooseControlKeeps ==
  ASSUME GraphInv, gPc = "choose", NEW n \in Controls[gPage], ChooseControl(n)
  PROVE  GraphInv'
<1>1. /\ n \in IF StartupChoice(gPage) # {} THEN StartupChoice(gPage) ELSE OrdinaryChoice(gPage)
      /\ Mark(n) /\ gChosen' = Act(n) /\ gLoop' = [gLoop EXCEPT !.page = "none"]
      /\ gPc' = "act" /\ gCount' = [gCount EXCEPT !.actions = @ + 1]
      /\ gPage' = gPage /\ gParents' = gParents /\ gBlocked' = gBlocked
      /\ gSemantics' = gSemantics /\ gCycle' = gCycle /\ gPending' = gPending
      /\ gNodes' = gNodes /\ gInputs' = gInputs /\ gReturned' = gReturned /\ gLast' = gLast
      /\ gTaken' = gTaken
  BY DEF ChooseControl, Goes, recordVars, nodeVars
<1>2. gPage \in Pages /\ gLoop \in GraphLoop
  BY PlaceOfChoice
<1>3. n \in StartupChoice(gPage) \/ n \in OrdinaryChoice(gPage)
  BY <1>1
<1>4. SafeOn(gPage, n) /\ Unused(gPage, n)
  BY <1>2, <1>3, StartupIsSafe, OrdinaryIsSafe
<1>5. gLoop' \in GraphLoop /\ gLoop'.shop = gLoop.shop
  BY <1>1, <1>2 DEF GraphLoop
<1>6. /\ gSeen \subseteq gSeen' /\ gSeen' \subseteq Activities \X Keys
      /\ n.type = "tap" => <<Activity(gPage), n.key>> \in gSeen'
  BY <1>1, <1>2, MarkedTaps
<1>7. gNodes' \in [Pages -> GraphNodes] /\ gInputs' \subseteq Activities \X Keys /\ gReturned' \in [Pages -> Nat]
  BY <1>1 DEF GraphInv, GraphTypeOK
<1> QED
  BY <1>1, <1>4, <1>5, <1>6, <1>7, ChoiceKeeps

LEMMA ChooseReturnKeeps ==
  ASSUME GraphInv, ChooseReturn
  PROVE  GraphInv'
<1>1. /\ gPc = "choose" /\ gReturned' = [gReturned EXCEPT ![gPage] = 1]
      /\ gChosen' = Undo /\ gLoop' = [Cooled EXCEPT !.page = "none"]
      /\ gPc' = "act" /\ gCount' = [gCount EXCEPT !.actions = @ + 1]
      /\ gPage' = gPage /\ gParents' = gParents /\ gBlocked' = gBlocked
      /\ gSemantics' = gSemantics /\ gCycle' = gCycle /\ gPending' = gPending
      /\ gNodes' = gNodes /\ gInputs' = gInputs /\ gSeen' = gSeen /\ gLast' = gLast
      /\ gTaken' = gTaken
  BY DEF ChooseReturn, NothingLeft, Goes, recordVars, nodeVars
<1>2. Cooled \in GraphLoop /\ Cooled.shop = gLoop.shop
  BY <1>1, CooledIsLoop
<1>3. gLoop' \in GraphLoop /\ gLoop'.shop = gLoop.shop
  BY <1>1, <1>2 DEF GraphLoop
<1>4. /\ gNodes' \in [Pages -> GraphNodes] /\ gInputs' \subseteq Activities \X Keys
      /\ gReturned' \in [Pages -> Nat] /\ gSeen' \subseteq Activities \X Keys
  BY <1>1 DEF GraphInv, GraphTypeOK
<1> QED
  BY <1>1, <1>3, <1>4, ChoiceKeeps

LEMMA StuckBackKeeps ==
  ASSUME GraphInv, StuckBack
  PROVE  GraphInv'
<1>1. /\ gPc = "choose" /\ gLoop' = [Cooled EXCEPT !.backSent = Semantic(gPage), !.page = "none"]
      /\ gChosen' \in IF VisibleBack = {} THEN {SystemBack} ELSE {Act(n) : n \in VisibleBack}
      /\ gPc' = "act" /\ gCount' = [gCount EXCEPT !.actions = @ + 1]
      /\ gPage' = gPage /\ gParents' = gParents /\ gBlocked' = gBlocked
      /\ gSemantics' = gSemantics /\ gCycle' = gCycle /\ gPending' = gPending
      /\ gNodes' = gNodes /\ gInputs' = gInputs /\ gSeen' = gSeen /\ gLast' = gLast
      /\ gTaken' = gTaken /\ gReturned' = gReturned
  BY DEF StuckBack, NothingLeft, Goes, recordVars, nodeVars
<1>2. Cooled \in GraphLoop /\ Cooled.shop = gLoop.shop /\ Semantic(gPage) \in Semantics
  BY <1>1, CooledIsLoop, PlaceOfChoice
<1>3. gLoop' \in GraphLoop /\ gLoop'.shop = gLoop.shop
  BY <1>1, <1>2 DEF GraphLoop, MaybeState
<1>4. /\ gNodes' \in [Pages -> GraphNodes] /\ gInputs' \subseteq Activities \X Keys
      /\ gReturned' \in [Pages -> Nat] /\ gSeen' \subseteq Activities \X Keys
  BY <1>1 DEF GraphInv, GraphTypeOK
<1>5. \/ gChosen' \in {SystemBack, Undo}
      \/ \E n \in Controls[gPage] :
           /\ gChosen' = Act(n) /\ SafeOn(gPage, n)
           /\ n.type = "tap" /\ ~IsA(n, "back") =>
                Unused(gPage, n) /\ <<Activity(gPage), n.key>> \in gSeen'
  BY <1>1, BackIsSafe
<1> QED
  BY <1>1, <1>3, <1>4, <1>5, ChoiceKeeps

\* The page is looked at again, or the target is started anew: nothing is chosen.
LEMMA NoChoiceKeeps ==
  ASSUME GraphInv, gPc = "choose", gPc' = "page", gLoop' \in GraphLoop,
         gPage' = gPage, gParents' = gParents, gBlocked' = gBlocked,
         gSemantics' = gSemantics, gCycle' = gCycle, gPending' = gPending,
         gNodes' \in [Pages -> GraphNodes], \A p \in Pages : gNodes'[p].known = gNodes[p].known,
         gInputs' \subseteq Activities \X Keys, gReturned' \in [Pages -> Nat],
         gSeen' = gSeen, gChosen' = gChosen, gLast' = gLast, gCount' = gCount, gTaken' = gTaken
  PROVE  GraphInv'
<1>1. GraphTypeOK'
  BY DEF GraphInv, GraphTypeOK
<1>2. PagesAreKnown'
  BY DEF GraphInv, PagesAreKnown, GraphTypeOK
<1>3. TapsAreSeen' /\ ChoiceIsSafe'
  BY NothingChosen
<1> QED
  BY <1>1, <1>2, <1>3, GraphQuiet

LEMMA StuckRelaunchKeeps ==
  ASSUME GraphInv, StuckRelaunch
  PROVE  GraphInv'
<1>1. /\ gPc = "choose" /\ gPc' = "page"
      /\ gLoop' \in {[Cooled EXCEPT !.page = gPage], [Cooled EXCEPT !.cool = Semantic(gPage), !.page = "none"]}
      /\ gPage' = gPage /\ gParents' = gParents /\ gBlocked' = gBlocked
      /\ gSemantics' = gSemantics /\ gCycle' = gCycle /\ gPending' = gPending
      /\ gNodes' = gNodes /\ gInputs' = gInputs /\ gReturned' = gReturned /\ gSeen' = gSeen
      /\ gChosen' = gChosen /\ gLast' = gLast /\ gCount' = gCount /\ gTaken' = gTaken
  BY DEF StuckRelaunch, NothingLeft, Counted, recordVars, nodeVars
<1>2. Cooled \in GraphLoop /\ gPage \in Pages /\ Semantic(gPage) \in Semantics
  BY <1>1, CooledIsLoop, PlaceOfChoice
<1>3. gLoop' \in GraphLoop
  <2>1. [Cooled EXCEPT !.page = gPage] \in GraphLoop
    BY <1>2 DEF GraphLoop
  <2>2. [Cooled EXCEPT !.cool = Semantic(gPage), !.page = "none"] \in GraphLoop
    BY <1>2 DEF GraphLoop, MaybeState
  <2> QED
    BY <1>1, <2>1, <2>2
<1>4. gNodes' \in [Pages -> GraphNodes] /\ gInputs' \subseteq Activities \X Keys /\ gReturned' \in [Pages -> Nat]
  BY <1>1 DEF GraphInv, GraphTypeOK
<1> QED
  BY <1>1, <1>3, <1>4, NoChoiceKeeps

LEMMA FirstLookKeeps ==
  ASSUME GraphInv, FirstLook
  PROVE  GraphInv'
<1>1. /\ gPc = "choose" /\ gPc' = "page" /\ gLoop' = [Cooled EXCEPT !.page = gPage]
      /\ gPage' = gPage /\ gParents' = gParents /\ gBlocked' = gBlocked
      /\ gSemantics' = gSemantics /\ gCycle' = gCycle /\ gPending' = gPending
      /\ gNodes' = gNodes /\ gInputs' = gInputs /\ gReturned' = gReturned /\ gSeen' = gSeen
      /\ gChosen' = gChosen /\ gLast' = gLast /\ gCount' = gCount /\ gTaken' = gTaken
  BY DEF FirstLook, NothingLeft, Counted, recordVars, nodeVars
<1>2. Cooled \in GraphLoop /\ gPage \in Pages
  BY <1>1, CooledIsLoop, PlaceOfChoice
<1>3. gLoop' \in GraphLoop
  BY <1>1, <1>2 DEF GraphLoop
<1>4. gNodes' \in [Pages -> GraphNodes] /\ gInputs' \subseteq Activities \X Keys /\ gReturned' \in [Pages -> Nat]
  BY <1>1 DEF GraphInv, GraphTypeOK
<1> QED
  BY <1>1, <1>3, <1>4, NoChoiceKeeps

\* A new round forgets what a page has tried, and not that it is known.
LEMMA RoundIsNew ==
  ASSUME GraphTypeOK, NewRound
  PROVE  /\ gNodes' \in [Pages -> GraphNodes] /\ \A p \in Pages : gNodes'[p].known = gNodes[p].known
         /\ gReturned' \in [Pages -> Nat] /\ gInputs' \subseteq Activities \X Keys
<1>1. gNodes' = [p \in Pages |-> [Fresh EXCEPT !.known = gNodes[p].known]]
  BY DEF NewRound
<1>2. \A p \in Pages : gNodes[p].known \in BOOLEAN
  BY DEF GraphTypeOK, GraphNodes
<1>3. Fresh \in GraphNodes
  BY DEF Fresh, GraphNodes
<1>4. ASSUME NEW known \in BOOLEAN PROVE [Fresh EXCEPT !.known = known] \in GraphNodes
  BY <1>3 DEF GraphNodes
<1>5. ASSUME NEW p \in Pages PROVE gNodes'[p].known = gNodes[p].known
  BY <1>1, <1>2, <1>3 DEF GraphNodes
<1>6. gReturned' \in [Pages -> Nat] /\ gInputs' \subseteq Activities \X Keys
  BY DEF NewRound
<1> QED
  BY <1>1, <1>2, <1>4, <1>5, <1>6

LEMMA RoundStartsKeeps ==
  ASSUME GraphInv, RoundStarts
  PROVE  GraphInv'
<1> DEFINE free == Candidates(gPage, {}, 0, SkippedOn(gPage, {}))
           back == IF gLoop.escaped # Semantic(gPage) THEN VisibleBack ELSE {}
<1>1. /\ gPc = "choose" /\ NewRound
      /\ gPage' = gPage /\ gParents' = gParents /\ gBlocked' = gBlocked
      /\ gSemantics' = gSemantics /\ gCycle' = gCycle /\ gPending' = gPending
      /\ gLast' = gLast /\ gTaken' = gTaken
  BY DEF RoundStarts, NothingLeft, recordVars
<1>2. \/ \E n \in free :
            /\ Mark(n) /\ gChosen' = Act(n)
            /\ gLoop' = [Cooled EXCEPT !.page = "none"]
            /\ gPc' = "act" /\ gCount' = [gCount EXCEPT !.actions = @ + 1]
      \/ /\ gChosen' \in {Act(n) : n \in back}
         /\ gLoop' = [Cooled EXCEPT !.page = "none", !.escaped = Semantic(gPage)]
         /\ gPc' = "act" /\ gCount' = [gCount EXCEPT !.actions = @ + 1]
         /\ gSeen' = gSeen
      \/ /\ gLoop' = [Cooled EXCEPT !.page = "none"] /\ gPc' = "page"
         /\ gSeen' = gSeen /\ gChosen' = gChosen /\ gCount' = gCount
  BY DEF RoundStarts, Goes
<1>3. /\ Cooled \in GraphLoop /\ Cooled.shop = gLoop.shop /\ gPage \in Pages
      /\ Semantic(gPage) \in Semantics
  BY <1>1, CooledIsLoop, PlaceOfChoice
<1>4. /\ gNodes' \in [Pages -> GraphNodes] /\ \A p \in Pages : gNodes'[p].known = gNodes[p].known
      /\ gReturned' \in [Pages -> Nat] /\ gInputs' \subseteq Activities \X Keys
  BY <1>1, RoundIsNew DEF GraphInv
<1>5. [Cooled EXCEPT !.page = "none"] \in GraphLoop /\ [Cooled EXCEPT !.page = "none"].shop = gLoop.shop
  BY <1>3 DEF GraphLoop
<1>6. ASSUME NEW n \in free, Mark(n), gChosen' = Act(n), gLoop' = [Cooled EXCEPT !.page = "none"],
             gPc' = "act", gCount' = [gCount EXCEPT !.actions = @ + 1]
      PROVE  GraphInv'
  <2>1. n \in Controls[gPage] /\ n \notin SkippedOn(gPage, {})
    BY CandidatesAreFree
  <2>2. ~Skipped(gPage, n, {})
    BY <2>1 DEF SkippedOn
  <2>3. SafeOn(gPage, n) /\ Unused(gPage, n)
    BY <1>3, <2>1, <2>2, FreeIsSafe
  <2>4. /\ gSeen \subseteq gSeen' /\ gSeen' \subseteq Activities \X Keys
        /\ n.type = "tap" => <<Activity(gPage), n.key>> \in gSeen'
    BY <1>3, <1>6, <2>1, MarkedTaps
  <2> HIDE DEF free
  <2> QED
    BY <1>1, <1>4, <1>5, <1>6, <2>1, <2>3, <2>4, ChoiceKeeps
<1>7. CASE /\ gChosen' \in {Act(n) : n \in back}
           /\ gLoop' = [Cooled EXCEPT !.page = "none", !.escaped = Semantic(gPage)]
           /\ gPc' = "act" /\ gCount' = [gCount EXCEPT !.actions = @ + 1]
           /\ gSeen' = gSeen
  <2>1. PICK n \in VisibleBack : gChosen' = Act(n)
    BY <1>7
  <2>2. n \in Controls[gPage] /\ SafeOn(gPage, n) /\ IsA(n, "back")
    BY BackIsSafe
  <2>3. gLoop' \in GraphLoop /\ gLoop'.shop = gLoop.shop
    BY <1>3, <1>7 DEF GraphLoop, MaybeState
  <2>4. gSeen' \subseteq Activities \X Keys
    BY <1>7 DEF GraphInv, GraphTypeOK
  <2> QED
    BY <1>1, <1>4, <1>7, <2>1, <2>2, <2>3, <2>4, ChoiceKeeps
<1>8. CASE /\ gLoop' = [Cooled EXCEPT !.page = "none"] /\ gPc' = "page"
           /\ gSeen' = gSeen /\ gChosen' = gChosen /\ gCount' = gCount
  BY <1>1, <1>4, <1>5, <1>8, NoChoiceKeeps
<1> HIDE DEF free, back
<1> QED
  BY <1>2, <1>6, <1>7, <1>8

LEMMA ActionDroppedKeeps ==
  ASSUME GraphInv, ActionDropped
  PROVE  GraphInv'
<1>1. /\ gPc = "act" /\ gPc' = "page" /\ gChosen' = NoStep
      /\ gPage' = gPage /\ gParents' = gParents /\ gBlocked' = gBlocked
      /\ gSemantics' = gSemantics /\ gCycle' = gCycle /\ gPending' = gPending
      /\ gNodes' = gNodes /\ gInputs' = gInputs /\ gReturned' = gReturned /\ gSeen' = gSeen
      /\ gLoop' = gLoop /\ gLast' = gLast /\ gCount' = gCount /\ gTaken' = gTaken
  BY DEF ActionDropped, recordVars, nodeVars
<1>2. GraphTypeOK'
  BY <1>1, BacksAreActs DEF GraphInv, GraphTypeOK
<1>3. PagesAreKnown'
  BY <1>1 DEF GraphInv, PagesAreKnown
<1>4. TapsAreSeen' /\ ChoiceIsSafe'
  BY <1>1, NothingChosen
<1> QED
  BY <1>1, <1>2, <1>3, <1>4, GraphQuiet

\* What is executed is a control of the page, or one of the two ways back.
LEMMA ExecutedAction ==
  ASSUME GraphInv, gPc = "act"
  PROVE  /\ gChosen \in GraphActs
         /\ gChosen.key \in Keys \/ (gChosen.type = "back" /\ gChosen.key = "back")
         /\ gChosen.type = "tap" /\ ~gChosen.back =>
              /\ <<Activity(gPage), gChosen.key>> \in gSeen
              /\ gTaken[<<Activity(gPage), gChosen.key>>] = 0
BY DEF GraphInv, GraphTypeOK, TapsAreSeen, SystemBack, Undo

LEMMA ExecutedNode ==
  ASSUME NEW node \in GraphNodes, NEW a \in GraphActs, a.type = "swipe" => a.key \in Keys
  PROVE  Tried(node, a) \in {m \in GraphNodes : m.known = node.known}
<1> DEFINE swipes == IF a.type = "swipe" THEN node.swipes[a.key] + 1 ELSE 0
           tried == IF a.type # "swipe" \/ swipes >= MaxStableScrolls THEN node.tried \cup {a.key} ELSE node.tried
           counts == IF swipes \in 1 .. MaxStableScrolls - 1 THEN [node.swipes EXCEPT ![a.key] = swipes] ELSE node.swipes
           taps == IF a.type = "swipe" THEN 0 ELSE IF node.taps < MaxNonScrolls THEN node.taps + 1 ELSE node.taps
<1>1. a.key \in ActKeys
  BY DEF GraphActs
<1>2. tried \in SUBSET ActKeys
  BY <1>1 DEF GraphNodes
<1>3. swipes \in Nat /\ (swipes > 0 => a.key \in Keys)
  BY DEF GraphNodes
<1>4. Tried(node, a) = [node EXCEPT !.tried = tried, !.swipes = counts, !.taps = taps]
  BY DEF Tried
<1> HIDE DEF swipes
<1>5. counts \in [Keys -> Nat]
  BY <1>3, GraphConstants DEF GraphNodes
<1>6. taps \in Nat
  BY GraphConstants DEF GraphNodes
<1> HIDE DEF tried, counts, taps
<1> QED
  BY <1>2, <1>4, <1>5, <1>6 DEF GraphNodes

LEMMA ActionExecutedKeeps ==
  ASSUME GraphInv, ActionExecuted
  PROVE  GraphInv'
<1> DEFINE a == gChosen
           node == Tried(gNodes[gPage], a)
<1>1. /\ gPc = "act" /\ gPc' = "page"
      /\ gNodes' = IF a.undo THEN gNodes ELSE [gNodes EXCEPT ![gPage] = node]
      /\ gInputs' = IF a.type = "input" THEN gInputs \cup {<<Activity(gPage), a.key>>} ELSE gInputs
  BY DEF ActionExecuted
<1>2. gCount' = [gCount EXCEPT !.backs = IF a.undo THEN @ + 1 ELSE @]
  BY DEF ActionExecuted
<1>3. gTaken' = IF a.type = "tap" /\ ~a.back
                   THEN [gTaken EXCEPT ![<<Activity(gPage), a.key>>] = @ + 1] ELSE gTaken
  BY DEF ActionExecuted
<1>4. /\ gPending' = [from |-> gPage, act |-> a, prev |-> gLast] /\ gLast' = a
      /\ gCount' = [gCount EXCEPT !.backs = IF a.undo THEN gCount.backs + 1 ELSE gCount.backs]
      /\ gTaken' = IF a.type = "tap" /\ ~a.back
                     THEN [gTaken EXCEPT ![<<Activity(gPage), a.key>>] = gTaken[<<Activity(gPage), a.key>>] + 1]
                     ELSE gTaken
      /\ gChosen' = NoStep /\ gPage' = gPage /\ gParents' = gParents /\ gBlocked' = gBlocked
      /\ gSemantics' = gSemantics /\ gCycle' = gCycle /\ gReturned' = gReturned /\ gSeen' = gSeen
  BY <1>2, <1>3 DEF ActionExecuted
<1>5. gLoop' = [gLoop EXCEPT !.language =
         IF \E n \in PreferredLanguage(Controls[gPage]) : n.key = a.key /\ StartupSurface(Activity(gPage))
           THEN gLoop.language \cup {<<Activity(gPage), a.key>>} ELSE gLoop.language]
  BY DEF ActionExecuted
<1>6. /\ gPage \in Pages /\ gNodes[gPage].known /\ Activity(gPage) \in Activities /\ gLoop \in GraphLoop
  BY <1>1, PlaceOfChoice
<1>7. /\ a \in GraphActs
      /\ a.key \in Keys \/ (a.type = "back" /\ a.key = "back")
      /\ a.type = "tap" /\ ~a.back =>
           <<Activity(gPage), a.key>> \in gSeen /\ gTaken[<<Activity(gPage), a.key>>] = 0
  BY <1>1, ExecutedAction
<1>8. gNodes \in [Pages -> GraphNodes] /\ a.key \in ActKeys
  BY <1>7 DEF GraphInv, GraphTypeOK, GraphActs
<1>9. node \in {m \in GraphNodes : m.known = gNodes[gPage].known}
  BY <1>6, <1>7, <1>8, ExecutedNode
<1> HIDE DEF node
<1>10. gNodes' \in [Pages -> GraphNodes] /\ \A p \in Pages : gNodes'[p].known = gNodes[p].known
  BY <1>1, <1>6, <1>8, <1>9
<1>11. gInputs' \subseteq Activities \X Keys
  BY <1>1, <1>6, <1>7 DEF GraphInv, GraphTypeOK
<1>12. gLoop' \in GraphLoop
  <2> DEFINE language ==
        IF \E n \in PreferredLanguage(Controls[gPage]) : n.key = a.key /\ StartupSurface(Activity(gPage))
          THEN gLoop.language \cup {<<Activity(gPage), a.key>>} ELSE gLoop.language
  <2>1. language \subseteq Activities \X Keys
    <3>1. \A n \in PreferredLanguage(Controls[gPage]) : n.key \in Keys
      BY <1>6, ActOfControl DEF PreferredLanguage
    <3>2. gLoop.language \subseteq Activities \X Keys
      BY <1>6 DEF GraphLoop
    <3> QED
      BY <1>6, <3>1, <3>2
  <2>2. gLoop' = [gLoop EXCEPT !.language = language]
    BY <1>5
  <2> HIDE DEF language
  <2> QED
    BY <1>6, <2>1, <2>2 DEF GraphLoop
<1>13. gTaken' \in [Activities \X Keys -> Nat] /\ gTaken \in [Activities \X Keys -> Nat]
  <2>1. gTaken \in [Activities \X Keys -> Nat]
    BY DEF GraphInv, GraphTypeOK
  <2>2. CASE a.type = "tap" /\ ~a.back
    <3> DEFINE tap == <<Activity(gPage), a.key>>
    <3>1. tap \in Activities \X Keys
      BY <1>6, <1>7, <2>2
    <3>2. gTaken' = [gTaken EXCEPT ![tap] = gTaken[tap] + 1]
      BY <1>4, <2>2
    <3> HIDE DEF tap
    <3> QED
      BY <2>1, <3>1, <3>2
  <2>3. CASE ~(a.type = "tap" /\ ~a.back)
    BY <1>4, <2>1, <2>3
  <2> QED
    BY <2>1, <2>2, <2>3
<1>14. gCount' \in [actions : Nat, backs : Nat]
  <2>1. gCount \in [actions : Nat, backs : Nat]
    BY DEF GraphInv, GraphTypeOK
  <2>2. CASE a.undo
    BY <1>4, <2>1, <2>2, StepsAreCounted
  <2>3. CASE ~a.undo
    <3>1. gCount' = gCount
      BY <1>4, <2>1, <2>3
    <3> QED
      BY <2>1, <3>1
  <2> QED
    BY <2>2, <2>3
<1>15. gPending' \in GraphPending
  BY <1>4, <1>6, <1>7 DEF GraphInv, GraphTypeOK, GraphPending, PlaceNames
<1>16. GraphTypeOK'
  BY <1>1, <1>4, <1>7, <1>10, <1>11, <1>12, <1>13, <1>14, <1>15, BacksAreActs DEF GraphInv, GraphTypeOK
<1>17. PagesAreKnown'
  BY <1>1, <1>4, <1>6, <1>10 DEF PagesAreKnown
<1>18. \A tap \in Activities \X Keys :
         \/ gTaken'[tap] = gTaken[tap]
         \/ tap = <<Activity(gPage), a.key>> /\ tap \in gSeen /\ gTaken'[tap] = 1
  BY <1>4, <1>7, <1>13
<1>19. TapsAreSeen' /\ ChoiceIsSafe'
  <2>1. \A tap \in Activities \X Keys : gTaken[tap] > 0 => tap \in gSeen
    BY DEF GraphInv, TapsAreSeen
  <2>2. \A tap \in Activities \X Keys : gTaken'[tap] > 0 => tap \in gSeen'
    BY <1>4, <1>18, <2>1
  <2> QED
    BY <1>1, <2>2 DEF TapsAreSeen, ChoiceIsSafe
<1>20. TapOncePerActivity'
  <2>1. \A tap \in Activities \X Keys : gTaken[tap] <= 1
    BY DEF GraphInv, TapOncePerActivity
  <2>2. \A tap \in Activities \X Keys : gTaken'[tap] <= 1
    BY <1>18, <2>1
  <2> QED
    BY <2>2 DEF TapOncePerActivity
<1>21. CyclesAreCut' /\ ParentsLeadBack'
  <2>1. CyclesAreCut'
    BY <1>4 DEF GraphInv, CyclesAreCut
  <2>2. ParentsLeadBack'
    BY <1>4, <1>10 DEF GraphInv, ParentsLeadBack
  <2> QED
    BY <2>1, <2>2
<1> QED
  BY <1>16, <1>17, <1>19, <1>20, <1>21 DEF GraphInv

\* The names of a pending step can be blocked.
LEMMA PendingIsStep ==
  ASSUME GraphInv
  PROVE  <<Semantic(gPending.from), gPending.act.key>> \in GraphPlaces \X BlockKeys
<1>1. gPending.from \in PlaceNames /\ gPending.act.key \in BlockKeys
  BY DEF GraphInv, GraphTypeOK, GraphPending, GraphActs, BlockKeys
<1> QED
  BY <1>1, SemanticIsPlace

LEMMA PendingGivenUpKeeps ==
  ASSUME GraphInv, PendingGivenUp
  PROVE  GraphInv'
<1>1. /\ gPc = "page" /\ gPending' = [from |-> "none", act |-> NoStep, prev |-> NoStep]
      /\ gBlocked' \in {gBlocked, gBlocked \cup {<<Semantic(gPending.from), gPending.act.key>>}}
      /\ gPc' = gPc /\ gPage' = gPage /\ gParents' = gParents
      /\ gSemantics' = gSemantics /\ gCycle' = gCycle
      /\ gNodes' = gNodes /\ gInputs' = gInputs /\ gReturned' = gReturned /\ gSeen' = gSeen
      /\ gLoop' = gLoop /\ gChosen' = gChosen /\ gLast' = gLast /\ gCount' = gCount /\ gTaken' = gTaken
  BY DEF PendingGivenUp, Block, nodeVars, choiceVars
<1>2. gBlocked' \subseteq GraphPlaces \X BlockKeys /\ gBlocked \subseteq gBlocked'
  BY <1>1, PendingIsStep DEF GraphInv, GraphTypeOK
<1>3. gPending' \in GraphPending
  BY <1>1, BacksAreActs DEF GraphPending, PlaceNames
<1>4. GraphTypeOK'
  BY <1>1, <1>2, <1>3 DEF GraphInv, GraphTypeOK
<1>5. PagesAreKnown'
  BY <1>1, GraphConstants DEF GraphInv, PagesAreKnown
<1>6. TapsAreSeen' /\ ChoiceIsSafe'
  BY <1>1, NothingChosen
<1> QED
  BY <1>1, <1>2, <1>4, <1>5, <1>6, GraphQuiet

LEMMA PendingTapBlockedKeeps ==
  ASSUME GraphInv, PendingTapBlocked
  PROVE  GraphInv'
<1>1. PICK paid \in BOOLEAN : gLoop' = [gLoop EXCEPT !.shop = gLoop.shop \/ paid]
  BY DEF PendingTapBlocked
<1>2. /\ gPc = "page"
      /\ gBlocked' = gBlocked \cup {<<Semantic(gPending.from), gPending.act.key>>}
      /\ gPc' = gPc /\ gPage' = gPage /\ gParents' = gParents
      /\ gSemantics' = gSemantics /\ gCycle' = gCycle /\ gPending' = gPending
      /\ gNodes' = gNodes /\ gInputs' = gInputs /\ gReturned' = gReturned /\ gSeen' = gSeen
      /\ gChosen' = gChosen /\ gLast' = gLast /\ gCount' = gCount /\ gTaken' = gTaken
  BY DEF PendingTapBlocked, Block, nodeVars
<1>3. gBlocked' \subseteq GraphPlaces \X BlockKeys /\ gBlocked \subseteq gBlocked'
  BY <1>2, PendingIsStep DEF GraphInv, GraphTypeOK
<1> DEFINE shop == gLoop.shop \/ paid
<1>4. gLoop' \in GraphLoop
  <2>1. shop \in BOOLEAN /\ gLoop \in GraphLoop
    BY DEF GraphInv, GraphTypeOK, GraphLoop
  <2> HIDE DEF shop
  <2>2. [gLoop EXCEPT !.shop = shop] \in GraphLoop
    BY <2>1 DEF GraphLoop
  <2> QED
    BY <1>1, <2>2 DEF shop
<1>5. GraphTypeOK'
  BY <1>2, <1>3, <1>4 DEF GraphInv, GraphTypeOK
<1>6. PagesAreKnown'
  BY <1>2 DEF GraphInv, PagesAreKnown
<1>7. TapsAreSeen' /\ ChoiceIsSafe'
  BY <1>2, NothingChosen
<1> QED
  BY <1>2, <1>3, <1>5, <1>6, <1>7, GraphQuiet

LEMMA SpecialStepKeeps ==
  ASSUME GraphInv, SpecialStep
  PROVE  GraphInv'
<1>1. /\ gPc = "page" /\ gCount' = [gCount EXCEPT !.actions = @ + 1]
      /\ gLast' = [type |-> "tap", key |-> "special", back |-> FALSE, undo |-> FALSE]
      /\ gPc' = gPc /\ gPage' = gPage /\ gParents' = gParents /\ gBlocked' = gBlocked
      /\ gSemantics' = gSemantics /\ gCycle' = gCycle /\ gPending' = gPending
      /\ gNodes' = gNodes /\ gInputs' = gInputs /\ gReturned' = gReturned /\ gSeen' = gSeen
      /\ gLoop' = gLoop /\ gChosen' = gChosen /\ gTaken' = gTaken
  BY DEF SpecialStep, recordVars, nodeVars, choiceVars
<1>2. gLast' \in GraphActs /\ gCount' \in [actions : Nat, backs : Nat]
  <2>1. gLast' \in GraphActs
    BY <1>1 DEF GraphActs, ActKeys
  <2> QED
    BY <1>1, <2>1, StepsAreCounted DEF GraphInv, GraphTypeOK
<1>3. GraphTypeOK'
  BY <1>1, <1>2 DEF GraphInv, GraphTypeOK
<1>4. PagesAreKnown'
  BY <1>1 DEF GraphInv, PagesAreKnown
<1>5. TapsAreSeen' /\ ChoiceIsSafe'
  BY <1>1, NothingChosen
<1> QED
  BY <1>1, <1>3, <1>4, <1>5, GraphQuiet

LEMMA GraphInitInv == GraphInit => GraphInv
<1> SUFFICES ASSUME GraphInit PROVE GraphInv
  OBVIOUS
<1>1. Fresh \in GraphNodes
  BY DEF Fresh, GraphNodes
<1>2. gLoop \in GraphLoop
  BY DEF GraphInit, GraphLoop, MaybeState
<1>3. gPending \in GraphPending
  BY BacksAreActs DEF GraphInit, GraphPending, PlaceNames
<1>4. GraphTypeOK
  BY <1>1, <1>2, <1>3, BacksAreActs DEF GraphInit, GraphTypeOK, PlaceNames
<1>5. PagesAreKnown
  BY GraphConstants DEF GraphInit, PagesAreKnown
<1>6. TapsAreSeen /\ ChoiceIsSafe /\ TapOncePerActivity /\ CyclesAreCut
  BY DEF GraphInit, TapsAreSeen, ChoiceIsSafe, TapOncePerActivity, CyclesAreCut
<1>7. ParentsLeadBack
  BY GraphConstants DEF GraphInit, ParentsLeadBack
<1> QED
  BY <1>4, <1>5, <1>6, <1>7 DEF GraphInv

LEMMA GraphStepsKeep == GraphInv /\ [GraphNext]_graphVars => GraphInv'
<1> SUFFICES ASSUME GraphInv, [GraphNext]_graphVars PROVE GraphInv'
  OBVIOUS
<1>1. ASSUME NEW p \in Pages, RecordPage(p) PROVE GraphInv'
  BY <1>1, RecordPageKeeps
<1>2. ASSUME NEW p \in Pages, ReplayTarget(p) PROVE GraphInv'
  BY <1>2, SessionActionKeeps DEF ReplayTarget
<1>3. ASSUME NEW p \in Pages, CoordinateGesture(p) PROVE GraphInv'
  BY <1>3, SessionActionKeeps DEF CoordinateGesture
<1>4. ASSUME NEW p \in Pages, OnboardingStays(p) PROVE GraphInv'
  BY <1>4, OnboardingStaysKeeps
<1>5. ASSUME gPc = "choose", NEW n \in Controls[gPage], ChooseControl(n) PROVE GraphInv'
  BY <1>5, ChooseControlKeeps
<1>6. CASE ChooseReturn \/ StuckBack \/ StuckRelaunch \/ FirstLook \/ RoundStarts
  BY <1>6, ChooseReturnKeeps, StuckBackKeeps, StuckRelaunchKeeps, FirstLookKeeps, RoundStartsKeeps
<1>7. CASE ActionDropped \/ ActionExecuted \/ PendingGivenUp \/ PendingTapBlocked \/ SpecialStep
  BY <1>7, ActionDroppedKeeps, ActionExecutedKeeps, PendingGivenUpKeeps, PendingTapBlockedKeeps,
     SpecialStepKeeps
<1>8. CASE UNCHANGED graphVars
  <2>1. GraphTypeOK' /\ PagesAreKnown' /\ TapsAreSeen'
    BY <1>8 DEF GraphInv, GraphTypeOK, PagesAreKnown, TapsAreSeen, graphVars
  <2>2. ChoiceIsSafe'
    BY <1>8 DEF GraphInv, ChoiceIsSafe, graphVars
  <2>3. /\ gParents' = gParents /\ gCycle' = gCycle /\ gBlocked' = gBlocked
        /\ gNodes' = gNodes /\ gTaken' = gTaken
    BY <1>8 DEF graphVars
  <2> QED
    BY <2>1, <2>2, <2>3, GraphQuiet
<1> QED
  BY <1>1, <1>2, <1>3, <1>4, <1>5, <1>6, <1>7, <1>8 DEF GraphNext

\* The invariant of the traversal holds always, whatever pages the application shows
\* (transition.go, action_choice.go, action_execution.go: recordPageLocked to executeChosen).
THEOREM GraphInvariant == GraphSpec => []GraphInv
<1> QED
  BY GraphInitInv, GraphStepsKeep, PTL DEF GraphSpec

LEMMA GraphInvIsSafe == GraphInv => GraphSafe
BY DEF GraphInv, GraphSafe

------------------------------------------------------------------------------
(* The services side by side. *)

\* A step of the agent is a step of one service and leaves the others alone.
LEMMA StepsOfEach ==
  ASSUME [Next]_vars
  PROVE  /\ [AutomationNext]_automationVars
         /\ [ScrcpyNext]_scrcpyVars
         /\ [ControlNext]_controlVars
         /\ [DownloadNext]_downloadVars
         /\ [BootstrapNext]_bootstrapVars
         /\ [SessionsNext]_sessionVars
         /\ [RecoveryNext]_recoveryVars
         /\ [TouchNext]_touchVars
         /\ [ReplayStepNext]_replayVars
         /\ [GraphNext]_graphVars
         /\ [CaseStoreNext]_caseStoreVars
<1>1. CASE UNCHANGED vars
  BY <1>1 DEF vars
<1>2. CASE Next
  <2>1. [AutomationNext]_automationVars
    BY <1>2 DEF Next, Turn
  <2>2. [ScrcpyNext]_scrcpyVars
    BY <1>2 DEF Next, Turn
  <2>3. [ControlNext]_controlVars
    BY <1>2 DEF Next, Turn
  <2>4. [DownloadNext]_downloadVars
    BY <1>2 DEF Next, Turn
  <2>5. [BootstrapNext]_bootstrapVars
    BY <1>2 DEF Next, Turn
  <2>6. [SessionsNext]_sessionVars
    BY <1>2 DEF Next, Turn
  <2>7. [RecoveryNext]_recoveryVars
    BY <1>2 DEF Next, Turn
  <2>8. [TouchNext]_touchVars
    BY <1>2 DEF Next, Turn
  <2>9. [ReplayStepNext]_replayVars
    BY <1>2 DEF Next, Turn
  <2>10. [GraphNext]_graphVars
    BY <1>2 DEF Next, Turn
  <2>11. [CaseStoreNext]_caseStoreVars
    BY <1>2 DEF Next, Turn
  <2> QED
    BY <2>1, <2>2, <2>3, <2>4, <2>5, <2>6, <2>7, <2>8, <2>9, <2>10, <2>11
<1> QED
  BY <1>1, <1>2

\* Every behaviour of the composition is one of each service.
THEOREM EachServiceRuns == Spec => /\ AutomationSpec /\ ScrcpySpec /\ ControlSpec
                                   /\ DownloadSpec /\ BootstrapSpec /\ SessionsSpec
                                   /\ RecoverySpec /\ TouchSpec /\ ReplayExecutionSpec
                                   /\ GraphSpec /\ CaseStoreSpec
<1>1. Init => /\ AutomationInit /\ ScrcpyInit /\ ControlInit /\ DownloadInit
              /\ BootstrapInit /\ SessionsInit /\ RecoveryInit /\ TouchInit
              /\ ReplayInit /\ GraphInit /\ CaseStoreInit
  BY DEF Init
<1> QED
  BY <1>1, StepsOfEach, PTL
     DEF Spec, AutomationSpec, ScrcpySpec, ControlSpec, DownloadSpec, BootstrapSpec,
         SessionsSpec, RecoverySpec, TouchSpec, ReplayExecutionSpec, GraphSpec,
         CaseStoreSpec

\* AutomationSafe in the agent: what the companion's run and its timer promise.
THEOREM AgentAutomationIsSafe == Spec => []AutomationSafe
BY EachServiceRuns, AutomationIsSafe, PTL

\* ScrcpyChannels: one screen at a time, sessions that end with their callers, and requests
\* that are woken by their acknowledgements (manager.go: start, serveScreen, waitClipboardAck).
THEOREM ScrcpyChannelsAreSafe == Spec => []ScrcpyChannels
<1>1. ScrcpyInv /\ ControlInv => ScrcpyChannels
  BY ScrcpyInvIsSafe, ControlInvIsSafe DEF ScrcpyChannels
<1> QED
  BY <1>1, EachServiceRuns, ScrcpySessionInvariant, ScrcpyControlInvariant, PTL

\* DeviceFilesSafe in the agent: the slots of the download tasks and whose file they install
\* (tasks/manager.go: Start, finish, CancelAll), a bootstrap that fails, is ready or is killed
\* (runtimebootstrap/bootstrap.go: Ensure), and the directories of the sessions (artifacts/paths.go).
THEOREM DeviceFilesAreSafe == Spec => []DeviceFilesSafe
<1>1. DownloadInv /\ BootstrapInv /\ DirectoriesInv => DeviceFilesSafe
  BY DownloadInvIsSafe, BootstrapInvIsSafe, DirectoriesInvIsSafe DEF DeviceFilesSafe
<1> QED
  BY <1>1, EachServiceRuns, DownloadsInvariant, BootstrapInvariant, SessionDirectoriesInvariant, PTL

\* RecoverySafe in the agent: answers to special scenes are counted and bounded, and the ladder
\* back to the target is climbed in order.
THEOREM RecoveryIsSafe == Spec => []RecoverySafe
<1>1. RecoveryInv => RecoverySafe
  BY DEF RecoveryInv
<1> QED
  BY <1>1, EachServiceRuns, RecoveryInvariant, PTL

\* CasesAndReplays: a case is made of the touches of its recording (recording_capture.go), is whole on
\* disk (recording_store.go), and is replayed in order on the app it is for (replay_execute.go).
THEOREM CasesAndReplaysAreSafe == Spec => []CasesAndReplays
<1>1. TouchInv /\ CaseStoreInv /\ ReplayInv => CasesAndReplays
  BY TouchInvIsSafe, CaseStoreInvIsSafe, ReplayInvIsSafe DEF CasesAndReplays
<1> QED
  BY <1>1, EachServiceRuns, TouchInvariant, CaseStoreInvariant, ReplayInvariant, PTL

\* GraphSafe in the agent: what is tapped, and how often, cycles that are cut, and ways back that
\* do not go round (action_choice.go, cycle_guard.go, transition.go).
THEOREM GraphIsSafe == Spec => []GraphSafe
BY GraphInvIsSafe, EachServiceRuns, GraphInvariant, PTL
====
