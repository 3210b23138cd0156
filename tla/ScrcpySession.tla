---- MODULE ScrcpySession ----
(* The sessions of scrcpy: streams of the screen (serveScreen, start), of which *)
(* a later one replaces the earlier one, and batches of injected events in a    *)
(* session of their own (InjectEvents, startControlOnly).  A session is an      *)
(* app_process and its sockets; close() kills the one and closes the others.    *)
EXTENDS Naturals, FiniteSets

CONSTANTS
  Viewers,   \* handlers of the screen channel
  Injectors, \* callers of InjectEvents
  MaxScrcpy  \* bound: sessions

ASSUME ScrcpyAssumption ==
  /\ Viewers \cap Injectors = {}
  /\ MaxScrcpy \in Nat

VARIABLES
  scCaller,  \* each viewer and injector: where it is and its session
  scLock,    \* who holds startMu
  scCurrent, \* Manager.current, 0 for nil
  scSession, \* the sessions
  scClosing  \* Manager.Close: the session it took, or its stage

scrcpyVars == <<scCaller, scLock, scCurrent, scSession, scClosing>>

ScrcpySessions == 1 .. MaxScrcpy
Callers == Viewers \cup Injectors
Idle == [pc |-> "idle", session |-> 0, previous |-> 0]

ScrcpyInit ==
  /\ scCaller = [c \in Callers |-> Idle]
  /\ scLock = {}
  /\ scCurrent = 0
  /\ scSession = [s \in ScrcpySessions |->
                    [kind |-> "none", closed |-> FALSE]]
  /\ scClosing = [stage |-> "open", session |-> 0]

Started == {s \in ScrcpySessions : scSession[s].kind # "none"}
Open == {s \in Started : ~scSession[s].closed}

\* session.close(): once; it kills the process, which exits some time later.
Closed(s) == [scSession EXCEPT ![s].closed = TRUE]

Go(c, from, to) ==
  /\ scCaller[c].pc = from
  /\ scCaller' = [scCaller EXCEPT ![c] = to]
At(c, pc) == [scCaller[c] EXCEPT !.pc = pc]

\* start: the lock, and the current session is taken out of the manager.
TakeCurrent(v) ==
  /\ v \in Viewers
  /\ scLock = {}
  /\ scLock' = {v}
  /\ Go(v, "idle", [Idle EXCEPT !.pc = IF scCurrent = 0 THEN "launch" ELSE "kill",
                                !.previous = scCurrent])
  /\ scCurrent' = 0
  /\ UNCHANGED <<scSession, scClosing>>

KillPrevious(v) ==
  /\ Go(v, "kill", At(v, "await"))
  /\ scSession' = Closed(scCaller[v].previous)
  /\ UNCHANGED <<scLock, scCurrent, scClosing>>

\* The killed process has exited, or two seconds are over.
AwaitPrevious(v) ==
  /\ Go(v, "await", At(v, "launch"))
  /\ UNCHANGED <<scLock, scCurrent, scSession, scClosing>>

LockInjector(i) ==
  /\ i \in Injectors
  /\ scLock = {}
  /\ scLock' = {i}
  /\ Go(i, "idle", [Idle EXCEPT !.pc = "launch"])
  /\ UNCHANGED <<scCurrent, scSession, scClosing>>

\* The client has gone, the server file cannot be installed or the process not
\* be started.
LaunchFails(c) ==
  /\ \/ Go(c, "await", Idle)
     \/ Go(c, "launch", Idle)
  /\ scLock' = {}
  /\ UNCHANGED <<scCurrent, scSession, scClosing>>

Launch(c) ==
  LET s == Cardinality(Started) + 1 IN
  /\ s \in ScrcpySessions
  /\ Go(c, "launch", [scCaller[c] EXCEPT !.pc = "dial", !.session = s])
  /\ scSession' = [scSession EXCEPT ![s].kind = IF c \in Viewers THEN "screen" ELSE "control"]
  /\ UNCHANGED <<scLock, scCurrent, scClosing>>

\* No socket in time: abandonSession, or close and Wait.
DialFails(c) ==
  /\ Go(c, "dial", Idle)
  /\ scSession' = Closed(scCaller[c].session)
  /\ scLock' = {}
  /\ UNCHANGED <<scCurrent, scClosing>>

\* Both sockets are connected: a screen session becomes the current one.
Publish(c) ==
  /\ Go(c, "dial", At(c, "serve"))
  /\ scCurrent' = IF c \in Viewers THEN scCaller[c].session ELSE scCurrent
  /\ scLock' = {}
  /\ UNCHANGED <<scSession, scClosing>>

\* The stream or the batch ends: by its client, an error, or because its session
\* has been closed.
EndServe(c) ==
  /\ Go(c, "serve", IF c \in Viewers THEN At(c, "drop") ELSE Idle)
  /\ scSession' = Closed(scCaller[c].session)
  /\ UNCHANGED <<scLock, scCurrent, scClosing>>

\* Mutant: it clears whatever is current.
DropAny(v) ==
  /\ Go(v, "drop", Idle)
  /\ scCurrent' = 0
  /\ UNCHANGED <<scLock, scSession, scClosing>>

\* The handler's deferred call clears only its own session.
DropCurrent(v) ==
  /\ Go(v, "drop", Idle)
  /\ scCurrent' = IF scCurrent = scCaller[v].session THEN 0 ELSE scCurrent
  /\ UNCHANGED <<scLock, scSession, scClosing>>

\* The process ends by itself: its waiter closes the session.
ProcessExits(s) ==
  /\ s \in Open
  /\ scSession' = Closed(s)
  /\ UNCHANGED <<scCaller, scLock, scCurrent, scClosing>>

\* Manager.Close, once, by the shutdown.
CloseManager ==
  \/ /\ scClosing.stage = "open"
     /\ scClosing' = [stage |-> "closing", session |-> scCurrent]
     /\ scCurrent' = 0
     /\ UNCHANGED <<scCaller, scLock, scSession>>
  \/ /\ scClosing.stage = "closing"
     /\ scClosing' = [stage |-> "closed", session |-> 0]
     /\ scSession' = IF scClosing.session = 0 THEN scSession ELSE Closed(scClosing.session)
     /\ UNCHANGED <<scCaller, scLock, scCurrent>>

ScrcpyNext ==
  \/ \E c \in Callers :
       \/ TakeCurrent(c) \/ KillPrevious(c) \/ AwaitPrevious(c) \/ LockInjector(c)
       \/ LaunchFails(c) \/ Launch(c) \/ DialFails(c) \/ Publish(c)
       \/ EndServe(c) \/ DropCurrent(c)
  \/ \E s \in ScrcpySessions : ProcessExits(s)
  \/ CloseManager

ScrcpySpec == ScrcpyInit /\ [][ScrcpyNext]_scrcpyVars

------------------------------------------------------------------------------
\* Sessions that a call has taken out of the manager and is about to close.
Doomed ==
  {scCaller[v].previous : v \in {w \in Viewers : scCaller[w].pc = "kill"}}
    \cup {scClosing.session}

\* The screen is encoded once: an open screen session is the current one, the
\* one that is being started, or about to be closed.  A control channel so finds
\* the open stream, and the end of an old stream never takes it away.
OneScreen ==
  LET screens == {s \in Open : scSession[s].kind = "screen"} \ Doomed
      starting == {scCaller[v].session : v \in {w \in Viewers : scCaller[w].pc = "dial"}}
  IN /\ screens \subseteq starting \cup {scCurrent}
     /\ Cardinality(screens) <= 1

\* Injected events have a session to themselves: it never becomes the current
\* one, and no screen session is closed for it.
InjectionIsIsolated ==
  /\ scCurrent # 0 => scSession[scCurrent].kind = "screen"
  /\ \A s \in Doomed \ {0} : scSession[s].kind = "screen"
  /\ \A i \in Injectors : scCaller[i].pc \in {"dial", "serve"} =>
       scSession[scCaller[i].session].kind = "control"

\* A session is open only while a handler serves it: none outlives its client.
SessionIsServed ==
  \A s \in Open \ Doomed :
    \E c \in Callers : scCaller[c].session = s /\ scCaller[c].pc \in {"dial", "serve"}

ScrcpySafe == OneScreen /\ InjectionIsIsolated /\ SessionIsServed
====
