---- MODULE AutomationProofs ----
(* Proofs about AutomationLifecycle: what automation.Manager promises of its       *)
(* instrumentations, its idle timer, the fallback of a page tree and the shadow's   *)
(* slot, for any callers, any bound on the generations and any number of retries.   *)
(* For every action one lemma says what it does to its caller (XMoves) and one that *)
(* it keeps the invariant (XKeeps).                                                 *)
EXTENDS AutomationLifecycle, TLAPS

-----------------------------------------------------------------------------
(* The inductive invariant. *)

\* Where a start and a stop can be, and where else a page tree takes a reader.
Starting == {"packages", "arm", "poll", "select"}
Stopping == {"stop", "cancel", "force"}
Asking == {"ensure", "shadow", "slot", "providers", "nova", "dump", "promote", "retry", "again",
            "compare", "return"}

CallerPlaces == {"idle"} \cup Starting \cup Stopping \cup Asking
Callbacks == {"idle", "shadow", "retry", "return", "dump"}
Caller == [pc : CallerPlaces,
           back : Callbacks,
           run : 0 .. MaxInstrumentations, used : 0 .. MaxInstrumentations,
           tries : Nat, waited : BOOLEAN]

AutomationTypeOK ==
  /\ aMode \in {"system", "shadow", "nova"}
  /\ aBadDump \in BOOLEAN /\ aRunning \in BOOLEAN /\ aTimer \in BOOLEAN
  /\ aShadow \in BOOLEAN /\ aSlot \in BOOLEAN
  /\ aGen \in 0 .. MaxInstrumentations
  /\ aCancel \in 0 .. MaxInstrumentations
  /\ aProviders \in 0 .. MaxInstrumentations
  /\ aProc \in [Runs -> [pc : {"none", "alive", "over", "reset", "reported"}, cancelled : BOOLEAN]]
  /\ aCapture \subseteq Readers
  /\ aUser \in [UserSet -> Caller]

\* A start or a stop of a user or of the timer comes back to where it was called; that of
\* a reader to its page tree, and captureMu lets one reader at a time ask for one.
CallersComeBack ==
  /\ \A u \in UserSet \ Readers :
       /\ aUser[u].pc \in {"idle"} \cup Starting \cup Stopping
       /\ aUser[u].back = "idle" /\ ~aUser[u].waited
  /\ \A u \in Readers :
       /\ aUser[u].pc = "idle" <=> u \notin aCapture
       /\ aUser[u].pc = "idle" => ~aUser[u].waited
       /\ aUser[u].pc \in Starting => aUser[u].back \in {"shadow", "retry"}
       /\ aUser[u].pc \in Stopping => aUser[u].back \in {"shadow", "return", "dump"}
  /\ \A u, v \in aCapture : u = v

\* Nobody knows of a generation that has not begun.
GenerationsAreBegun ==
  /\ \A g \in Runs : g > aGen => aProc[g].pc = "none"
  /\ aCancel <= aGen /\ aProviders <= aGen
  /\ aRunning => aGen # 0
  /\ \A u \in UserSet :
       /\ aUser[u].run <= aGen /\ aUser[u].used <= aGen
       /\ aUser[u].pc \in {"arm", "poll"} => aUser[u].run # 0

\* An instrumentation is started for Nova alone, and a killed dump makes Nova primary.
NovaIsPromoted ==
  /\ aMode # "nova" => \A g \in Runs : aProc[g].pc = "none"
  /\ aBadDump => aMode = "nova" \/ \E u \in Readers : aUser[u].pc = "promote"
  /\ \A u \in UserSet :
       aUser[u].tries # 0 \/ aUser[u].pc \in {"retry", "again"} \/ aUser[u].back = "retry" => aMode = "nova"
  /\ \A u \in UserSet : aUser[u].pc = "packages" => aMode # "system"

\* Who has waited for the slot finds it free, since only a reader takes it.
SlotIsFree == \A u \in UserSet : aUser[u].waited => aUser[u].pc = "slot" \/ ~aSlot

AutomationInv ==
  /\ AutomationTypeOK
  /\ CallersComeBack
  /\ GenerationsAreBegun
  /\ NovaIsPromoted
  /\ NoForgottenRun
  /\ RunningIsCurrent
  /\ IdleRunIsTimed
  /\ FallbackReleasesNova
  /\ SlotIsFree

-----------------------------------------------------------------------------
(* What one step of a caller leaves in its record. *)

LEMMA NobodyIsCaller == Nobody \in Caller /\ Nobody.pc = "idle"
  BY AutomationAssumption, 0 \in 0 .. MaxInstrumentations DEF Nobody, Caller, CallerPlaces, Callbacks

\* The caller u has become what it keeps of its next record, and no other has changed.
Moved(u, to) ==
  /\ aUser' \in [UserSet -> Caller]
  /\ \A v \in UserSet : v # u => aUser'[v] = aUser[v]
  /\ aUser'[u].pc = to.pc /\ aUser'[u].back = to.back /\ aUser'[u].tries = to.tries
  /\ aUser'[u].run = IF to.pc \in {"arm", "poll", "select", "cancel"} THEN to.run ELSE 0
  /\ aUser'[u].used = IF to.pc \in {"nova", "stop", "cancel", "force", "dump"} THEN to.used ELSE 0
  /\ aUser'[u].waited = (to.waited /\ to.pc \notin {"compare", "return", "ensure"})

LEMMA StepMoves ==
  ASSUME aUser \in [UserSet -> Caller], NEW u \in UserSet, NEW from, NEW to \in Caller,
         Step(u, from, to)
  PROVE  aUser[u].pc = from /\ Moved(u, to)
<1> DEFINE r == IF to.pc \in {"arm", "poll", "select", "cancel"} THEN to.run ELSE 0
           x == IF to.pc \in {"nova", "stop", "cancel", "force", "dump"} THEN to.used ELSE 0
           w == to.waited /\ to.pc \notin {"compare", "return", "ensure"}
<1>1. Forget(to) = [to EXCEPT !.run = r, !.used = x, !.waited = w]
  BY DEF Forget, Caller
<1>2. r \in 0 .. MaxInstrumentations /\ x \in 0 .. MaxInstrumentations /\ w \in BOOLEAN
  BY AutomationAssumption DEF Caller
<1> HIDE DEF r, x, w
<1>3. Forget(to) \in Caller
  BY <1>1, <1>2 DEF Caller
<1>4. aUser[u].pc = from /\ aUser' = [aUser EXCEPT ![u] = Forget(to)]
  BY DEF Step
<1>5. /\ aUser' \in [UserSet -> Caller] /\ aUser'[u] = Forget(to)
      /\ \A v \in UserSet : v # u => aUser'[v] = aUser[v]
  BY <1>3, <1>4
<1>6. /\ Forget(to).pc = to.pc /\ Forget(to).back = to.back /\ Forget(to).tries = to.tries
      /\ Forget(to).run = r /\ Forget(to).used = x /\ Forget(to).waited = w
  BY <1>1 DEF Caller
<1> QED
  BY <1>4, <1>5, <1>6 DEF Moved, r, x, w

\* A caller that learns of no new generation.
LEMMA CallerKeepsGenerations ==
  ASSUME AutomationInv, NEW u \in UserSet,
         aUser' \in [UserSet -> Caller],
         \A v \in UserSet : v # u => aUser'[v] = aUser[v],
         aUser'[u].run \in {0, aUser[u].run}, aUser'[u].used \in {0, aUser[u].used, aProviders},
         aUser'[u].pc \in {"arm", "poll"} => aUser'[u].run # 0,
         UNCHANGED <<aRunning, aGen, aCancel, aProc, aProviders>>
  PROVE  GenerationsAreBegun'
<1>1. aGen \in Nat /\ 0 <= aGen
  BY DEF AutomationInv, AutomationTypeOK
<1> QED
  BY <1>1 DEF AutomationInv, GenerationsAreBegun

-----------------------------------------------------------------------------
(* Start: startNova and startNovaShadow. *)

LEMMA CallStartMoves ==
  ASSUME AutomationInv, NEW u \in UserSet, CallStart(u)
  PROVE
  /\ aUser' \in [UserSet -> Caller]
  /\ \A v \in UserSet : v # u => aUser'[v] = aUser[v]
  /\ u \in Users /\ aUser[u].pc = "idle" /\ aUser'[u].pc \in {"idle", "packages"}
  /\ aUser'[u].back = "idle"
  /\ aUser'[u].tries = aUser[u].tries
  /\ aUser'[u].run = 0 /\ aUser'[u].used = 0
  /\ aUser'[u].waited = aUser[u].waited
<1> DEFINE pc == IF aRunning THEN "idle" ELSE "packages"
           to == [aUser[u] EXCEPT !.pc = pc, !.back = "idle"]
<1>1. aUser \in [UserSet -> Caller] /\ aUser[u] \in Caller
  BY NobodyIsCaller DEF AutomationInv, AutomationTypeOK
<1>2. aUser[u].pc = "idle" /\ Step(u, "idle", to)
  BY <1>1 DEF CallStart, Step, EnterStart, To
<1>3. pc \in CallerPlaces /\ "idle" \in Callbacks
  BY <1>1, <1>2, AutomationAssumption
     DEF CallStart, AutomationInv, AutomationTypeOK, CallersComeBack, Caller, Starting,
          Stopping, Asking, CallerPlaces, Callbacks, Runs
<1>4. to \in Caller
  <2> HIDE DEF pc
  <2> QED
    BY <1>1, <1>3 DEF Caller
<1>5. Moved(u, to)
  <2> HIDE DEF to
  <2> QED
    BY <1>1, <1>2, <1>4, StepMoves
<1> QED
  BY <1>1, <1>2, <1>5 DEF Moved, CallStart, AutomationInv, CallersComeBack, NovaIsPromoted,
       Caller, Nobody, Starting, Stopping

LEMMA CallStartKeeps ==
  ASSUME AutomationInv, NEW u \in UserSet, CallStart(u)
  PROVE  AutomationInv'
<1>1. AutomationTypeOK' /\ CallersComeBack'
  BY CallStartMoves, AutomationAssumption DEF AutomationInv, CallStart, managerVars,
       selectionVars, AutomationTypeOK, CallersComeBack, Starting, Stopping, UserSet
<1>2. GenerationsAreBegun'
    BY CallStartMoves, CallerKeepsGenerations DEF CallStart, managerVars, selectionVars
<1>3. NovaIsPromoted'
  BY CallStartMoves DEF AutomationInv, CallStart, managerVars, selectionVars, NovaIsPromoted,
       UserSet
<1>4. NoForgottenRun' /\ RunningIsCurrent' /\ IdleRunIsTimed'
  BY CallStartMoves DEF AutomationInv, CallStart, managerVars, selectionVars, NoForgottenRun,
       RunningIsCurrent, IdleRunIsTimed, UserSet
<1>5. FallbackReleasesNova' /\ SlotIsFree'
  BY CallStartMoves, AutomationAssumption DEF AutomationInv, CallStart, managerVars,
       selectionVars, FallbackReleasesNova, NoForgottenRun, UserSet, SlotIsFree,
    CallersComeBack, AutomationTypeOK
<1> QED
  BY <1>1, <1>2, <1>3, <1>4, <1>5 DEF AutomationInv

LEMMA StartFailsMoves ==
  ASSUME AutomationInv, NEW u \in UserSet, StartFails(u)
  PROVE
  /\ aUser' \in [UserSet -> Caller]
  /\ \A v \in UserSet : v # u => aUser'[v] = aUser[v]
  /\ aUser[u].pc = "packages"
  /\ aUser'[u].pc \in {"return", "shadow", "idle"}
  /\ aUser[u].back = "retry" => aUser'[u].pc = "return"
  /\ aUser[u].back = "shadow" => aUser'[u].pc \in {"return", "shadow"}
  /\ aUser[u].back = "idle" => aUser'[u].pc = "idle"
  /\ aUser'[u].tries = aUser[u].tries /\ aUser'[u].back = aUser[u].back
  /\ aUser'[u].run = 0 /\ aUser'[u].used = 0
  /\ aUser'[u].waited => aUser[u].waited
<1> DEFINE pc == IF aUser[u].back = "shadow" THEN (IF aBadDump THEN "return" ELSE "shadow") ELSE IF aUser[u].back = "retry" THEN "return" ELSE aUser[u].back
           to == [aUser[u] EXCEPT !.pc = pc]
<1>1. aUser \in [UserSet -> Caller] /\ aUser[u] \in Caller
  BY NobodyIsCaller DEF AutomationInv, AutomationTypeOK
<1>2. aUser[u].pc = "packages" /\ Step(u, "packages", to)
  BY <1>1 DEF StartFails, Step, EnterStart, To
<1>3. pc \in CallerPlaces
  BY <1>1, <1>2, AutomationAssumption
     DEF StartFails, AutomationInv, AutomationTypeOK, CallersComeBack, Caller, Starting,
          Stopping, Asking, CallerPlaces, Callbacks, Runs
<1>4. to \in Caller
  <2> HIDE DEF pc
  <2> QED
    BY <1>1, <1>3 DEF Caller
<1>5. Moved(u, to)
  <2> HIDE DEF to
  <2> QED
    BY <1>1, <1>2, <1>4, StepMoves
<1> QED
  BY <1>1, <1>2, <1>5 DEF Moved, StartFails, AutomationInv, CallersComeBack, NovaIsPromoted,
       Caller, Nobody, Starting, Stopping

LEMMA StartFailsKeeps ==
  ASSUME AutomationInv, NEW u \in UserSet, StartFails(u)
  PROVE  AutomationInv'
<1>1. AutomationTypeOK' /\ CallersComeBack'
  BY StartFailsMoves, AutomationAssumption DEF AutomationInv, StartFails, managerVars,
       selectionVars, AutomationTypeOK, CallersComeBack, Starting, Stopping, UserSet
<1>2. GenerationsAreBegun'
    BY StartFailsMoves, CallerKeepsGenerations DEF StartFails, managerVars, selectionVars
<1>3. NovaIsPromoted'
  BY StartFailsMoves DEF AutomationInv, StartFails, managerVars, selectionVars, NovaIsPromoted,
       UserSet
<1>4. NoForgottenRun' /\ RunningIsCurrent' /\ IdleRunIsTimed'
  BY StartFailsMoves DEF AutomationInv, StartFails, managerVars, selectionVars, NoForgottenRun,
       RunningIsCurrent, IdleRunIsTimed, UserSet
<1>5. FallbackReleasesNova' /\ SlotIsFree'
  BY StartFailsMoves, AutomationAssumption DEF AutomationInv, StartFails, managerVars,
       selectionVars, FallbackReleasesNova, NoForgottenRun, UserSet, SlotIsFree,
    CallersComeBack, AutomationTypeOK
<1> QED
  BY <1>1, <1>2, <1>3, <1>4, <1>5 DEF AutomationInv

LEMMA ClaimRunMoves ==
  ASSUME AutomationInv, NEW u \in UserSet, ClaimRun(u)
  PROVE
  /\ aUser' \in [UserSet -> Caller]
  /\ \A v \in UserSet : v # u => aUser'[v] = aUser[v]
  /\ aUser[u].pc = "packages"
  /\ aRunning => aUser'[u].pc = aUser[u].back /\ aUser'[u].run = 0
  /\ ~aRunning => aUser'[u].pc = "arm" /\ aUser'[u].run = aGen + 1 /\ aGen + 1 \in Runs
  /\ aUser'[u].tries = aUser[u].tries /\ aUser'[u].back = aUser[u].back
  /\ aUser'[u].used = 0
  /\ aUser'[u].waited => aUser[u].waited
<1>1. CASE aRunning
  <2> DEFINE to == [aUser[u] EXCEPT !.pc = aUser[u].back]
  <2>1. aUser \in [UserSet -> Caller] /\ aUser[u] \in Caller
    BY NobodyIsCaller DEF AutomationInv, AutomationTypeOK
  <2>2. aUser[u].pc = "packages" /\ Step(u, "packages", to)
    BY <1>1, <2>1 DEF ClaimRun, Step, EnterStart, To
  <2>3. aUser[u].back \in CallerPlaces
    BY <1>1, <2>1, <2>2, AutomationAssumption
       DEF ClaimRun, AutomationInv, AutomationTypeOK, CallersComeBack, Caller, Starting,
            Stopping, Asking, CallerPlaces, Callbacks, Runs
  <2>4. to \in Caller
    BY <2>1, <2>3 DEF Caller
  <2>5. Moved(u, to)
    <3> HIDE DEF to
    <3> QED
      BY <2>1, <2>2, <2>4, StepMoves
  <2> QED
    BY <1>1, <2>1, <2>2, <2>5 DEF Moved, ClaimRun, AutomationInv, CallersComeBack,
         NovaIsPromoted, Caller, Nobody, Starting, Stopping
<1>2. CASE ~aRunning
  <2> DEFINE run == aGen + 1
             to == [aUser[u] EXCEPT !.pc = "arm", !.run = run]
  <2>1. aUser \in [UserSet -> Caller] /\ aUser[u] \in Caller
    BY NobodyIsCaller DEF AutomationInv, AutomationTypeOK
  <2>2. aUser[u].pc = "packages" /\ Step(u, "packages", to)
    BY <1>2, <2>1 DEF ClaimRun, Step, EnterStart, To
  <2>3. "arm" \in CallerPlaces /\ run \in 0 .. MaxInstrumentations
    BY <1>2, <2>1, <2>2, AutomationAssumption
       DEF ClaimRun, AutomationInv, AutomationTypeOK, CallersComeBack, Caller, Starting,
            Stopping, Asking, CallerPlaces, Callbacks, Runs
  <2>4. to \in Caller
    <3> HIDE DEF run
    <3> QED
      BY <2>1, <2>3 DEF Caller
  <2>5. Moved(u, to)
    <3> HIDE DEF to
    <3> QED
      BY <2>1, <2>2, <2>4, StepMoves
  <2> QED
    BY <1>2, <2>1, <2>2, <2>5 DEF Moved, ClaimRun, AutomationInv, CallersComeBack,
         NovaIsPromoted, Caller, Nobody, Starting, Stopping
<1> QED
  BY <1>1, <1>2 DEF ClaimRun, EnterStart, To

LEMMA ClaimRunKeeps ==
  ASSUME AutomationInv, NEW u \in UserSet, ClaimRun(u)
  PROVE  AutomationInv'
<1>0.
  /\ aUser' \in [UserSet -> Caller]
  /\ \A v \in UserSet : v # u => aUser'[v] = aUser[v]
  /\ aUser[u].pc = "packages"
  /\ aRunning => aUser'[u].pc = aUser[u].back /\ aUser'[u].run = 0
  /\ ~aRunning => aUser'[u].pc = "arm" /\ aUser'[u].run = aGen + 1 /\ aGen + 1 \in Runs
  /\ aUser'[u].tries = aUser[u].tries /\ aUser'[u].back = aUser[u].back
  /\ aUser'[u].used = 0
  /\ aUser'[u].waited => aUser[u].waited
  BY ClaimRunMoves
<1>x. /\ aUser[u].run \in Nat /\ aGen \in Nat
      /\ UNCHANGED <<aMode, aBadDump, aTimer, aProviders, aShadow, aSlot, aCapture>>
      /\ ~aRunning => aGen + 1 \in Runs /\ aGen' = aGen + 1 /\ aRunning' = TRUE
      /\ aRunning => UNCHANGED <<aRunning, aGen, aCancel, aProc>>
      /\ \/ UNCHANGED <<aProc, aCancel>>
         \/ /\ ~aRunning /\ aMode # "shadow" /\ aCancel' = aGen + 1
            /\ aProc' = [aProc EXCEPT ![aGen + 1].pc = "alive"]
  BY DEF ClaimRun, managerVars, selectionVars, AutomationInv, AutomationTypeOK, Caller
<1>1. AutomationTypeOK'
  <2>3. aProc' \in [Runs -> [pc : {"none", "alive", "over", "reset", "reported"},
    cancelled : BOOLEAN]]
    BY <1>x DEF AutomationInv, AutomationTypeOK
  <2>4. CASE aRunning
    BY <1>0, <1>x, <2>3, <2>4 DEF AutomationInv, AutomationTypeOK, managerVars, selectionVars
  <2>5. CASE ~aRunning
    <3>1. aGen' \in 0 .. MaxInstrumentations /\ aRunning' \in BOOLEAN /\ aCancel' \in 0 .. MaxInstrumentations
      BY <1>x, <2>5, AutomationAssumption DEF AutomationInv, AutomationTypeOK, Runs
    <3> QED
      BY <1>0, <1>x, <2>3, <3>1 DEF AutomationInv, AutomationTypeOK, selectionVars
  <2> QED
    BY <2>4, <2>5
<1>2. CallersComeBack'
  BY <1>0 DEF AutomationInv, ClaimRun, managerVars, selectionVars, CallersComeBack, Starting,
       Stopping, UserSet
<1>3. GenerationsAreBegun'
  <2>3. \A v \in UserSet : aUser[v].run \in Nat /\ aUser[v].used \in Nat
    BY DEF AutomationInv, AutomationTypeOK, Caller
  <2>4. aGen <= aGen' /\ aGen' \in Nat /\ \A g \in Runs : g > aGen' => g > aGen
    BY <1>x DEF managerVars, Runs
  <2>5. /\ aUser'[u].run <= aGen' /\ aUser'[u].used <= aGen'
        /\ aUser'[u].pc \in {"arm", "poll"} => aUser'[u].run # 0
    BY <1>0, <1>x, <2>4 DEF AutomationInv, CallersComeBack, Starting, UserSet
  <2>6. \A v \in UserSet : /\ aUser'[v].run <= aGen' /\ aUser'[v].used <= aGen'
                           /\ aUser'[v].pc \in {"arm", "poll"} => aUser'[v].run # 0
    BY <1>0, <1>x, <2>3, <2>4, <2>5 DEF AutomationInv, GenerationsAreBegun
  <2>7. \A g \in Runs : g > aGen' => aProc'[g].pc = "none"
    BY <1>x, <2>4 DEF AutomationInv, AutomationTypeOK, GenerationsAreBegun
  <2>8. QED
    BY <1>x, <2>4, <2>6, <2>7, AutomationAssumption
       DEF AutomationInv, AutomationTypeOK, GenerationsAreBegun, managerVars, selectionVars, Runs
<1>4. NovaIsPromoted'
  <2>3. /\ aUser'[u].pc \notin {"promote", "again"} /\ aUser[u].pc = "packages"
        /\ aUser'[u].pc = "retry" => aUser[u].back = "retry"
        /\ aUser'[u].pc # "packages"
    BY <1>0 DEF AutomationInv, CallersComeBack, Starting, UserSet
  <2>4. aMode # "nova" => UNCHANGED aProc
    BY <1>x, <2>3 DEF AutomationInv, AutomationTypeOK, NovaIsPromoted
  <2>5. QED
    BY <1>0, <1>x, <2>3, <2>4 DEF AutomationInv, NovaIsPromoted, UserSet
<1>5. NoForgottenRun'
  BY <1>0, AutomationAssumption DEF AutomationInv, ClaimRun, managerVars, selectionVars,
       NoForgottenRun, AutomationTypeOK, GenerationsAreBegun, Runs
<1>6. RunningIsCurrent'
  <2>3. aRunning => aGen \in Runs
    BY AutomationAssumption DEF AutomationInv, AutomationTypeOK, GenerationsAreBegun, Runs
  <2>4. ~aRunning => aGen + 1 \in Runs /\ aProc[aGen + 1].pc = "none"
    BY <1>x DEF AutomationInv, GenerationsAreBegun
  <2>5. CASE aRunning
    BY <1>x, <2>5 DEF AutomationInv, RunningIsCurrent, managerVars
  <2>6. CASE ~aRunning
    <3>1. aProc'[aGen + 1].pc \in {"none", "alive"}
      BY <1>x, <2>4, <2>6 DEF AutomationInv, AutomationTypeOK
    <3> QED
      BY <1>x, <2>6, <3>1 DEF RunningIsCurrent
  <2> QED
    BY <2>5, <2>6
<1>7. IdleRunIsTimed'
  BY <1>0 DEF AutomationInv, ClaimRun, managerVars, selectionVars, IdleRunIsTimed, UserSet
<1>8. FallbackReleasesNova'
  <2>3. \A v \in Readers : aUser'[v].pc = "dump" => v # u /\ aUser'[v] = aUser[v]
    BY <1>0 DEF AutomationInv, CallersComeBack, Starting, UserSet
  <2>4. \A v \in Readers : /\ aUser[v].used # 0 => aUser[v].used \in Runs
                           /\ aUser[v].used # aGen + 1
    BY <1>x, AutomationAssumption DEF AutomationInv, AutomationTypeOK, GenerationsAreBegun,
         Caller, UserSet, Runs
  <2>5. \A g \in Runs : g # aGen + 1 => aProc'[g] = aProc[g]
    BY <1>x DEF AutomationInv, AutomationTypeOK
  <2>6. QED
    BY <1>0, <2>3, <2>4, <2>5 DEF AutomationInv, FallbackReleasesNova
<1>9. SlotIsFree'
  BY <1>0 DEF AutomationInv, ClaimRun, managerVars, selectionVars, SlotIsFree, CallersComeBack,
       AutomationTypeOK, UserSet
<1> QED
  BY <1>1, <1>2, <1>3, <1>4, <1>5, <1>6, <1>7, <1>8, <1>9 DEF AutomationInv

LEMMA ArmTimerMoves ==
  ASSUME AutomationInv, NEW u \in UserSet, ArmTimer(u)
  PROVE
  /\ aUser' \in [UserSet -> Caller]
  /\ \A v \in UserSet : v # u => aUser'[v] = aUser[v]
  /\ aUser[u].pc = "arm"
  /\ aUser'[u].pc # "poll" => aUser'[u].pc = aUser[u].back /\ aUser'[u].run = 0
  /\ aUser'[u].pc = "poll" => aUser'[u].run = aUser[u].run
  /\ aUser'[u].tries = aUser[u].tries /\ aUser'[u].back = aUser[u].back
  /\ aUser'[u].used = 0
  /\ aUser'[u].waited => aUser[u].waited
<1> DEFINE pc == IF aProc[aUser[u].run].pc = "none" THEN aUser[u].back ELSE "poll"
           to == [aUser[u] EXCEPT !.pc = pc]
<1>1. aUser \in [UserSet -> Caller] /\ aUser[u] \in Caller
  BY NobodyIsCaller DEF AutomationInv, AutomationTypeOK
<1>2. aUser[u].pc = "arm" /\ Step(u, "arm", to)
  BY <1>1 DEF ArmTimer, Step, EnterStart, To
<1>3. pc \in CallerPlaces
  BY <1>1, <1>2, AutomationAssumption
     DEF ArmTimer, AutomationInv, AutomationTypeOK, CallersComeBack, Caller, Starting, Stopping,
          Asking, CallerPlaces, Callbacks, Runs
<1>4. to \in Caller
  <2> HIDE DEF pc
  <2> QED
    BY <1>1, <1>3 DEF Caller
<1>5. Moved(u, to)
  <2> HIDE DEF to
  <2> QED
    BY <1>1, <1>2, <1>4, StepMoves
<1> QED
  BY <1>1, <1>2, <1>5 DEF Moved, ArmTimer, AutomationInv, CallersComeBack, NovaIsPromoted,
       Caller, Nobody, Starting, Stopping

LEMMA ArmTimerKeeps ==
  ASSUME AutomationInv, NEW u \in UserSet, ArmTimer(u)
  PROVE  AutomationInv'
<1>0.
  /\ aUser' \in [UserSet -> Caller]
  /\ \A v \in UserSet : v # u => aUser'[v] = aUser[v]
  /\ aUser[u].pc = "arm"
  /\ aUser'[u].pc # "poll" => aUser'[u].pc = aUser[u].back /\ aUser'[u].run = 0
  /\ aUser'[u].pc = "poll" => aUser'[u].run = aUser[u].run
  /\ aUser'[u].tries = aUser[u].tries /\ aUser'[u].back = aUser[u].back
  /\ aUser'[u].used = 0
  /\ aUser'[u].waited => aUser[u].waited
  BY ArmTimerMoves
<1>1. AutomationTypeOK' /\ CallersComeBack'
  BY <1>0, AutomationAssumption DEF AutomationInv, ArmTimer, AutomationTypeOK, CallersComeBack,
       Starting, Stopping, UserSet
<1>2. GenerationsAreBegun'
  <2>1. \A v \in UserSet : aUser[v].run \in Nat /\ aUser[v].used \in Nat /\ aUser'[v].run \in Nat
    BY <1>0 DEF AutomationInv, AutomationTypeOK, Caller
  <2>2. /\ aUser'[u].run \in {0, aUser[u].run} /\ aUser'[u].used = 0
        /\ aUser'[u].pc \in {"arm", "poll"} => aUser'[u].run = aUser[u].run /\ aUser[u].pc = "arm"
    BY <1>0 DEF AutomationInv, CallersComeBack, Starting, UserSet
  <2>3. aGen \in Nat
    BY DEF AutomationInv, AutomationTypeOK
  <2>4. QED
    BY <1>0, <2>1, <2>2, <2>3 DEF AutomationInv, GenerationsAreBegun, ArmTimer
<1>3. NovaIsPromoted'
  BY <1>0, AutomationAssumption DEF AutomationInv, ArmTimer, NovaIsPromoted, UserSet,
       AutomationTypeOK, CallersComeBack, Starting, Stopping, Runs
<1>4. NoForgottenRun'
  BY <1>0 DEF AutomationInv, ArmTimer, NoForgottenRun
<1>5. RunningIsCurrent'
  BY <1>0 DEF AutomationInv, ArmTimer, RunningIsCurrent
<1>6. IdleRunIsTimed'
  BY <1>0 DEF AutomationInv, ArmTimer, IdleRunIsTimed, UserSet
<1>7. FallbackReleasesNova' /\ SlotIsFree'
  BY <1>0, AutomationAssumption DEF AutomationInv, ArmTimer, FallbackReleasesNova,
       NoForgottenRun, UserSet, SlotIsFree, CallersComeBack, AutomationTypeOK
<1> QED
  BY <1>1, <1>2, <1>3, <1>4, <1>5, <1>6, <1>7 DEF AutomationInv

LEMMA NovaReadyMoves ==
  ASSUME AutomationInv, NEW u \in UserSet, NovaReady(u)
  PROVE
  /\ aUser' \in [UserSet -> Caller]
  /\ \A v \in UserSet : v # u => aUser'[v] = aUser[v]
  /\ aUser[u].pc = "poll" /\ aUser'[u].pc = "select" /\ aUser'[u].run = aUser[u].run
  /\ aUser'[u].used = 0
  /\ aUser'[u].tries = aUser[u].tries /\ aUser'[u].back = aUser[u].back
  /\ aUser'[u].waited = aUser[u].waited
<1> DEFINE to == [aUser[u] EXCEPT !.pc = "select"]
<1>1. aUser \in [UserSet -> Caller] /\ aUser[u] \in Caller
  BY NobodyIsCaller DEF AutomationInv, AutomationTypeOK
<1>2. aUser[u].pc = "poll" /\ Step(u, "poll", to)
  BY <1>1 DEF NovaReady, Step, EnterStart, To
<1>3. "select" \in CallerPlaces
  BY <1>1, <1>2, AutomationAssumption
     DEF NovaReady, AutomationInv, AutomationTypeOK, CallersComeBack, Caller, Starting,
          Stopping, Asking, CallerPlaces, Callbacks, Runs
<1>4. to \in Caller
  BY <1>1, <1>3 DEF Caller
<1>5. Moved(u, to)
  <2> HIDE DEF to
  <2> QED
    BY <1>1, <1>2, <1>4, StepMoves
<1> QED
  BY <1>1, <1>2, <1>5 DEF Moved, NovaReady, AutomationInv, CallersComeBack, NovaIsPromoted,
       Caller, Nobody, Starting, Stopping

LEMMA NovaReadyKeeps ==
  ASSUME AutomationInv, NEW u \in UserSet, NovaReady(u)
  PROVE  AutomationInv'
<1>1. AutomationTypeOK' /\ CallersComeBack'
  BY NovaReadyMoves, AutomationAssumption DEF AutomationInv, NovaReady, managerVars,
       selectionVars, AutomationTypeOK, CallersComeBack, Starting, Stopping, UserSet
<1>2. GenerationsAreBegun'
    BY NovaReadyMoves, CallerKeepsGenerations DEF NovaReady, managerVars, selectionVars
<1>3. NovaIsPromoted'
  BY NovaReadyMoves DEF AutomationInv, NovaReady, managerVars, selectionVars, NovaIsPromoted,
       UserSet
<1>4. NoForgottenRun' /\ RunningIsCurrent' /\ IdleRunIsTimed'
  BY NovaReadyMoves DEF AutomationInv, NovaReady, managerVars, selectionVars, NoForgottenRun,
       RunningIsCurrent, IdleRunIsTimed, UserSet
<1>5. FallbackReleasesNova' /\ SlotIsFree'
  BY NovaReadyMoves, AutomationAssumption DEF AutomationInv, NovaReady, managerVars,
       selectionVars, FallbackReleasesNova, NoForgottenRun, UserSet, SlotIsFree,
    CallersComeBack, AutomationTypeOK
<1> QED
  BY <1>1, <1>2, <1>3, <1>4, <1>5 DEF AutomationInv

LEMMA SelectNovaMoves ==
  ASSUME AutomationInv, NEW u \in UserSet, SelectNova(u)
  PROVE
  /\ aUser' \in [UserSet -> Caller]
  /\ \A v \in UserSet : v # u => aUser'[v] = aUser[v]
  /\ aUser[u].pc = "select" /\ aUser'[u].pc = aUser[u].back
  /\ aUser'[u].tries = aUser[u].tries /\ aUser'[u].back = aUser[u].back
  /\ aUser'[u].run = 0 /\ aUser'[u].used = 0
  /\ aUser'[u].waited => aUser[u].waited
<1> DEFINE to == [aUser[u] EXCEPT !.pc = aUser[u].back]
<1>1. aUser \in [UserSet -> Caller] /\ aUser[u] \in Caller
  BY NobodyIsCaller DEF AutomationInv, AutomationTypeOK
<1>2. aUser[u].pc = "select" /\ Step(u, "select", to)
  BY <1>1 DEF SelectNova, Step, EnterStart, To
<1>3. aUser[u].back \in CallerPlaces
  BY <1>1, <1>2, AutomationAssumption
     DEF SelectNova, AutomationInv, AutomationTypeOK, CallersComeBack, Caller, Starting,
          Stopping, Asking, CallerPlaces, Callbacks, Runs
<1>4. to \in Caller
  BY <1>1, <1>3 DEF Caller
<1>5. Moved(u, to)
  <2> HIDE DEF to
  <2> QED
    BY <1>1, <1>2, <1>4, StepMoves
<1> QED
  BY <1>1, <1>2, <1>5 DEF Moved, SelectNova, AutomationInv, CallersComeBack, NovaIsPromoted,
       Caller, Nobody, Starting, Stopping

LEMMA SelectNovaKeeps ==
  ASSUME AutomationInv, NEW u \in UserSet, SelectNova(u)
  PROVE  AutomationInv'
<1>1. AutomationTypeOK'
  <2>1. aUser[u].run \in 0 .. MaxInstrumentations
    BY DEF AutomationInv, AutomationTypeOK, Caller
  <2>2. QED
    BY SelectNovaMoves, <2>1 DEF AutomationInv, AutomationTypeOK, SelectNova, managerVars
<1>2. CallersComeBack'
  BY SelectNovaMoves DEF AutomationInv, SelectNova, managerVars, CallersComeBack, Starting,
       Stopping, UserSet
<1>3. GenerationsAreBegun'
  <2>1. \A v \in UserSet : aUser[v].run \in Nat /\ aUser[v].used \in Nat /\ aUser'[v].run \in Nat
    BY SelectNovaMoves DEF AutomationInv, AutomationTypeOK, Caller
  <2>2. /\ aUser'[u].run \in {0, aUser[u].run} /\ aUser'[u].used = 0
        /\ aUser'[u].pc \in {"arm", "poll"} => aUser'[u].run = aUser[u].run /\ aUser[u].pc = "arm"
    BY SelectNovaMoves DEF AutomationInv, CallersComeBack, Starting, UserSet
  <2>3. aGen \in Nat
    BY DEF AutomationInv, AutomationTypeOK
  <2>4. QED
    BY SelectNovaMoves, <2>1, <2>2, <2>3 DEF AutomationInv, GenerationsAreBegun, SelectNova,
         managerVars
<1>4. NovaIsPromoted'
  BY SelectNovaMoves, AutomationAssumption DEF AutomationInv, SelectNova, managerVars,
       NovaIsPromoted, UserSet, AutomationTypeOK, CallersComeBack, Starting, Stopping, Runs
<1>5. NoForgottenRun' /\ RunningIsCurrent' /\ IdleRunIsTimed'
  BY SelectNovaMoves DEF AutomationInv, SelectNova, managerVars, NoForgottenRun,
       RunningIsCurrent, IdleRunIsTimed, UserSet
<1>6. FallbackReleasesNova' /\ SlotIsFree'
  BY SelectNovaMoves, AutomationAssumption DEF AutomationInv, SelectNova, managerVars,
       FallbackReleasesNova, NoForgottenRun, UserSet, SlotIsFree, CallersComeBack,
    AutomationTypeOK
<1> QED
  BY <1>1, <1>2, <1>3, <1>4, <1>5, <1>6 DEF AutomationInv

LEMMA NovaNotReadyMoves ==
  ASSUME AutomationInv, NEW u \in UserSet, NovaNotReady(u)
  PROVE
  /\ aUser' \in [UserSet -> Caller]
  /\ \A v \in UserSet : v # u => aUser'[v] = aUser[v]
  /\ aUser[u].pc = "poll" /\ aUser'[u].pc = "stop"
  /\ aUser'[u].tries = aUser[u].tries
  /\ aUser[u].back = "idle" => aUser'[u].back = "idle"
  /\ aUser[u].back # "idle" => aUser'[u].back \in {"shadow", "return"}
  /\ aUser'[u].run = 0 /\ aUser'[u].used = aUser[u].used
  /\ aUser'[u].waited = aUser[u].waited
<1> DEFINE back == CASE aUser[u].back = "shadow" -> IF aBadDump THEN "return" ELSE "shadow" [] aUser[u].back = "retry" -> "return" [] OTHER -> aUser[u].back
           to == [aUser[u] EXCEPT !.pc = "stop", !.back = back]
<1>1. aUser \in [UserSet -> Caller] /\ aUser[u] \in Caller
  BY NobodyIsCaller DEF AutomationInv, AutomationTypeOK
<1>2. aUser[u].pc = "poll" /\ Step(u, "poll", to)
  BY <1>1 DEF NovaNotReady, Step, EnterStart, To
<1>3. "stop" \in CallerPlaces /\ back \in Callbacks
  BY <1>1, <1>2, AutomationAssumption
     DEF NovaNotReady, AutomationInv, AutomationTypeOK, CallersComeBack, Caller, Starting,
          Stopping, Asking, CallerPlaces, Callbacks, Runs
<1>4. to \in Caller
  <2> HIDE DEF back
  <2> QED
    BY <1>1, <1>3 DEF Caller
<1>5. Moved(u, to)
  <2> HIDE DEF to
  <2> QED
    BY <1>1, <1>2, <1>4, StepMoves
<1> QED
  BY <1>1, <1>2, <1>5 DEF Moved, NovaNotReady, AutomationInv, CallersComeBack, NovaIsPromoted,
       Caller, Nobody, Starting, Stopping

LEMMA NovaNotReadyKeeps ==
  ASSUME AutomationInv, NEW u \in UserSet, NovaNotReady(u)
  PROVE  AutomationInv'
<1>0.
  /\ aUser' \in [UserSet -> Caller]
  /\ \A v \in UserSet : v # u => aUser'[v] = aUser[v]
  /\ aUser[u].pc = "poll" /\ aUser'[u].pc = "stop"
  /\ aUser'[u].tries = aUser[u].tries
  /\ aUser[u].back = "idle" => aUser'[u].back = "idle"
  /\ aUser[u].back # "idle" => aUser'[u].back \in {"shadow", "return"}
  /\ aUser'[u].run = 0 /\ aUser'[u].used = aUser[u].used
  /\ aUser'[u].waited = aUser[u].waited
  BY NovaNotReadyMoves
<1>1. AutomationTypeOK' /\ CallersComeBack'
  BY <1>0, AutomationAssumption DEF AutomationInv, NovaNotReady, managerVars, selectionVars,
       AutomationTypeOK, CallersComeBack, Starting, Stopping, UserSet
<1>2. GenerationsAreBegun'
    BY <1>0, CallerKeepsGenerations DEF NovaNotReady, managerVars, selectionVars
<1>3. NovaIsPromoted'
  BY <1>0 DEF AutomationInv, NovaNotReady, managerVars, selectionVars, NovaIsPromoted, UserSet
<1>4. NoForgottenRun' /\ RunningIsCurrent' /\ IdleRunIsTimed'
  BY <1>0 DEF AutomationInv, NovaNotReady, managerVars, selectionVars, NoForgottenRun,
       RunningIsCurrent, IdleRunIsTimed, UserSet
<1>5. FallbackReleasesNova' /\ SlotIsFree'
  BY <1>0, AutomationAssumption DEF AutomationInv, NovaNotReady, managerVars, selectionVars,
       FallbackReleasesNova, NoForgottenRun, UserSet, SlotIsFree, CallersComeBack,
    AutomationTypeOK
<1> QED
  BY <1>1, <1>2, <1>3, <1>4, <1>5 DEF AutomationInv

-----------------------------------------------------------------------------
(* Stop, and the timer that calls it. *)

LEMMA CallStopMoves ==
  ASSUME AutomationInv, NEW u \in UserSet, CallStop(u)
  PROVE
  /\ aUser' \in [UserSet -> Caller]
  /\ \A v \in UserSet : v # u => aUser'[v] = aUser[v]
  /\ u \in Users /\ aUser[u].pc = "idle" /\ aUser'[u].pc = "stop" /\ aUser'[u].back = "idle"
  /\ aUser'[u].tries = 0 /\ ~aUser'[u].waited
  /\ aUser'[u].run = 0 /\ aUser'[u].used = 0
<1> DEFINE to == [Nobody EXCEPT !.pc = "stop"]
<1>1. aUser \in [UserSet -> Caller] /\ Nobody \in Caller
  BY NobodyIsCaller DEF AutomationInv, AutomationTypeOK
<1>2. aUser[u].pc = "idle" /\ Step(u, "idle", to)
  BY <1>1 DEF CallStop, Step, EnterStart, To
<1>3. "stop" \in CallerPlaces
  BY <1>1, <1>2, AutomationAssumption
     DEF CallStop, AutomationInv, AutomationTypeOK, CallersComeBack, Caller, Starting, Stopping,
          Asking, CallerPlaces, Callbacks, Runs
<1>4. to \in Caller
  BY <1>1, <1>3 DEF Caller
<1>5. Moved(u, to)
  <2> HIDE DEF to
  <2> QED
    BY <1>1, <1>2, <1>4, StepMoves
<1> QED
  BY <1>1, <1>2, <1>5 DEF Moved, CallStop, AutomationInv, CallersComeBack, NovaIsPromoted,
       Caller, Nobody, Starting, Stopping

LEMMA CallStopKeeps ==
  ASSUME AutomationInv, NEW u \in UserSet, CallStop(u)
  PROVE  AutomationInv'
<1>0.
  /\ aUser' \in [UserSet -> Caller]
  /\ \A v \in UserSet : v # u => aUser'[v] = aUser[v]
  /\ u \in Users /\ aUser[u].pc = "idle" /\ aUser'[u].pc = "stop" /\ aUser'[u].back = "idle"
  /\ aUser'[u].tries = 0 /\ ~aUser'[u].waited
  /\ aUser'[u].run = 0 /\ aUser'[u].used = 0
  BY CallStopMoves
<1>1. AutomationTypeOK' /\ CallersComeBack'
  BY <1>0, AutomationAssumption DEF AutomationInv, CallStop, managerVars, selectionVars,
       AutomationTypeOK, CallersComeBack, Starting, Stopping, UserSet
<1>2. GenerationsAreBegun'
    BY <1>0, CallerKeepsGenerations DEF CallStop, managerVars, selectionVars
<1>3. NovaIsPromoted'
  BY <1>0 DEF AutomationInv, CallStop, managerVars, selectionVars, NovaIsPromoted, UserSet
<1>4. NoForgottenRun' /\ RunningIsCurrent' /\ IdleRunIsTimed'
  BY <1>0 DEF AutomationInv, CallStop, managerVars, selectionVars, NoForgottenRun,
       RunningIsCurrent, IdleRunIsTimed, UserSet
<1>5. FallbackReleasesNova' /\ SlotIsFree'
  BY <1>0, AutomationAssumption DEF AutomationInv, CallStop, managerVars, selectionVars,
       FallbackReleasesNova, NoForgottenRun, UserSet, SlotIsFree, CallersComeBack,
    AutomationTypeOK
<1> QED
  BY <1>1, <1>2, <1>3, <1>4, <1>5 DEF AutomationInv

LEMMA TimerFiresMoves ==
  ASSUME AutomationInv, TimerFires
  PROVE
  /\ aUser' \in [UserSet -> Caller]
  /\ \A v \in UserSet : v # Timer => aUser'[v] = aUser[v]
  /\ aUser[Timer].pc = "idle" /\ aUser'[Timer].pc = "stop" /\ aUser'[Timer].back = "idle"
  /\ aUser'[Timer].tries = 0 /\ ~aUser'[Timer].waited /\ aUser'[Timer].run = 0
  /\ aUser'[Timer].used = 0
<1>0. Timer \in UserSet
  BY DEF UserSet
<1> DEFINE to == [Nobody EXCEPT !.pc = "stop"]
<1>1. aUser \in [UserSet -> Caller] /\ Nobody \in Caller
  BY NobodyIsCaller DEF AutomationInv, AutomationTypeOK
<1>2. aUser[Timer].pc = "idle" /\ Step(Timer, "idle", to)
  BY <1>0, <1>1 DEF TimerFires, Step, EnterStart, To
<1>3. "stop" \in CallerPlaces
  BY <1>0, <1>1, <1>2, AutomationAssumption
     DEF TimerFires, AutomationInv, AutomationTypeOK, CallersComeBack, Caller, Starting,
          Stopping, Asking, CallerPlaces, Callbacks, Runs
<1>4. to \in Caller
  BY <1>1, <1>3 DEF Caller
<1>5. Moved(Timer, to)
  <2> HIDE DEF to
  <2> QED
    BY <1>0, <1>1, <1>2, <1>4, StepMoves
<1> QED
  BY <1>0, <1>1, <1>2, <1>5 DEF Moved, TimerFires, AutomationInv, CallersComeBack,
       NovaIsPromoted, Caller, Nobody, Starting, Stopping

LEMMA TimerFiresKeeps ==
  ASSUME AutomationInv, TimerFires
  PROVE  AutomationInv'
<1>0.
  /\ aUser' \in [UserSet -> Caller]
  /\ \A v \in UserSet : v # Timer => aUser'[v] = aUser[v]
  /\ aUser[Timer].pc = "idle" /\ aUser'[Timer].pc = "stop" /\ aUser'[Timer].back = "idle"
  /\ aUser'[Timer].tries = 0 /\ ~aUser'[Timer].waited /\ aUser'[Timer].run = 0
  /\ aUser'[Timer].used = 0
  BY TimerFiresMoves
<1>1. AutomationTypeOK'
  BY <1>0, AutomationAssumption DEF AutomationInv, TimerFires, selectionVars, AutomationTypeOK
<1>2. CallersComeBack'
  BY <1>0, AutomationAssumption DEF AutomationInv, TimerFires, selectionVars, CallersComeBack,
       Starting, Stopping, UserSet, AutomationTypeOK
<1>3. GenerationsAreBegun'
    BY <1>0, CallerKeepsGenerations DEF TimerFires, selectionVars, UserSet
<1>4. NovaIsPromoted'
  BY <1>0 DEF AutomationInv, TimerFires, selectionVars, NovaIsPromoted, UserSet
<1>5. NoForgottenRun' /\ RunningIsCurrent' /\ IdleRunIsTimed'
  BY <1>0 DEF AutomationInv, TimerFires, selectionVars, NoForgottenRun, RunningIsCurrent,
       IdleRunIsTimed, UserSet
<1>6. FallbackReleasesNova' /\ SlotIsFree'
  BY <1>0, AutomationAssumption DEF AutomationInv, TimerFires, selectionVars,
       FallbackReleasesNova, NoForgottenRun, UserSet, SlotIsFree, CallersComeBack,
    AutomationTypeOK
<1> QED
  BY <1>1, <1>2, <1>3, <1>4, <1>5, <1>6 DEF AutomationInv

LEMMA StopRunMoves ==
  ASSUME AutomationInv, NEW u \in UserSet, StopRun(u)
  PROVE
  /\ aUser' \in [UserSet -> Caller]
  /\ \A v \in UserSet : v # u => aUser'[v] = aUser[v]
  /\ aUser[u].pc = "stop"
  /\ aRunning =>
         aUser'[u].pc = "cancel" /\ aUser'[u].run = aCancel /\ aUser'[u].used = aUser[u].used
  /\ ~aRunning =>
         aUser'[u].pc = aUser[u].back /\ aUser'[u].run = 0 /\ aUser'[u].used \in {0,
    aUser[u].used}
  /\ aUser'[u].tries = aUser[u].tries /\ aUser'[u].back = aUser[u].back
  /\ aUser'[u].waited => aUser[u].waited
<1>1. CASE aRunning
  <2> DEFINE to == [aUser[u] EXCEPT !.pc = "cancel", !.run = aCancel]
  <2>1. aUser \in [UserSet -> Caller] /\ aUser[u] \in Caller
    BY NobodyIsCaller DEF AutomationInv, AutomationTypeOK
  <2>2. aUser[u].pc = "stop" /\ Step(u, "stop", to)
    BY <1>1, <2>1 DEF StopRun, Step, EnterStart, To
  <2>3. "cancel" \in CallerPlaces /\ aCancel \in 0 .. MaxInstrumentations
    BY <1>1, <2>1, <2>2, AutomationAssumption
       DEF StopRun, AutomationInv, AutomationTypeOK, CallersComeBack, Caller, Starting,
            Stopping, Asking, CallerPlaces, Callbacks, Runs
  <2>4. to \in Caller
    BY <2>1, <2>3 DEF Caller
  <2>5. Moved(u, to)
    <3> HIDE DEF to
    <3> QED
      BY <2>1, <2>2, <2>4, StepMoves
  <2> QED
    BY <1>1, <2>1, <2>2, <2>5 DEF Moved, StopRun, AutomationInv, CallersComeBack,
         NovaIsPromoted, Caller, Nobody, Starting, Stopping
<1>2. CASE ~aRunning
  <2> DEFINE to == [aUser[u] EXCEPT !.pc = aUser[u].back]
  <2>1. aUser \in [UserSet -> Caller] /\ aUser[u] \in Caller
    BY NobodyIsCaller DEF AutomationInv, AutomationTypeOK
  <2>2. aUser[u].pc = "stop" /\ Step(u, "stop", to)
    BY <1>2, <2>1 DEF StopRun, Step, EnterStart, To
  <2>3. aUser[u].back \in CallerPlaces
    BY <1>2, <2>1, <2>2, AutomationAssumption
       DEF StopRun, AutomationInv, AutomationTypeOK, CallersComeBack, Caller, Starting,
            Stopping, Asking, CallerPlaces, Callbacks, Runs
  <2>4. to \in Caller
    BY <2>1, <2>3 DEF Caller
  <2>5. Moved(u, to)
    <3> HIDE DEF to
    <3> QED
      BY <2>1, <2>2, <2>4, StepMoves
  <2> QED
    BY <1>2, <2>1, <2>2, <2>5 DEF Moved, StopRun, AutomationInv, CallersComeBack,
         NovaIsPromoted, Caller, Nobody, Starting, Stopping
<1> QED
  BY <1>1, <1>2 DEF StopRun, EnterStart, To

LEMMA StopRunKeeps ==
  ASSUME AutomationInv, NEW u \in UserSet, StopRun(u)
  PROVE  AutomationInv'
<1>0.
  /\ aUser' \in [UserSet -> Caller]
  /\ \A v \in UserSet : v # u => aUser'[v] = aUser[v]
  /\ aUser[u].pc = "stop"
  /\ aRunning =>
         aUser'[u].pc = "cancel" /\ aUser'[u].run = aCancel /\ aUser'[u].used = aUser[u].used
  /\ ~aRunning =>
         aUser'[u].pc = aUser[u].back /\ aUser'[u].run = 0 /\ aUser'[u].used \in {0,
    aUser[u].used}
  /\ aUser'[u].tries = aUser[u].tries /\ aUser'[u].back = aUser[u].back
  /\ aUser'[u].waited => aUser[u].waited
  BY StopRunMoves
<1>1. AutomationTypeOK'
  <2>1. aGen' \in 0 .. MaxInstrumentations
    BY AutomationAssumption DEF AutomationInv, AutomationTypeOK, StopRun, Runs
  <2>2. QED
    BY <1>0, <2>1, AutomationAssumption, 0 \in 0 .. MaxInstrumentations
       DEF AutomationInv, AutomationTypeOK, StopRun, selectionVars
<1>2. CallersComeBack'
  BY <1>0 DEF AutomationInv, StopRun, selectionVars, CallersComeBack, Starting, Stopping, UserSet
<1>3. GenerationsAreBegun'
  <2>1. aGen <= aGen' /\ aGen \in Nat /\ aGen' \in Nat
    BY AutomationAssumption DEF AutomationInv, AutomationTypeOK, StopRun, Runs
  <2>2. \A v \in UserSet : aUser[v].run \in Nat /\ aUser[v].used \in Nat
    BY DEF AutomationInv, AutomationTypeOK, Caller
  <2>3. /\ aUser'[u].run <= aGen /\ aUser'[u].used <= aGen
        /\ aUser'[u].pc \notin {"arm", "poll"}
    BY <1>0, <2>1, <2>2 DEF AutomationInv, GenerationsAreBegun, CallersComeBack, Stopping
  <2>4. \A v \in UserSet : /\ aUser'[v].run <= aGen' /\ aUser'[v].used <= aGen'
                           /\ aUser'[v].pc \in {"arm", "poll"} => aUser'[v].run # 0
    BY <1>0, <2>1, <2>2, <2>3 DEF AutomationInv, AutomationTypeOK, GenerationsAreBegun, Caller
  <2>5. QED
    BY <2>1, <2>4, AutomationAssumption DEF AutomationInv, AutomationTypeOK,
         GenerationsAreBegun, StopRun, selectionVars, Runs
<1>4. NovaIsPromoted'
  <2>1. aUser[u].pc = "stop" /\ aUser'[u].pc \notin {"promote", "retry", "again", "packages"}
    BY <1>0 DEF AutomationInv, CallersComeBack, Stopping, UserSet
  <2>2. aUser'[u].tries = aUser[u].tries /\ aUser'[u].back = aUser[u].back
    BY <1>0
  <2>3. \A v \in UserSet : v # u => aUser'[v] = aUser[v]
    BY <1>0
  <2> QED
    BY <2>1, <2>2, <2>3 DEF AutomationInv, NovaIsPromoted, StopRun, UserSet
<1>5. NoForgottenRun' /\ RunningIsCurrent' /\ IdleRunIsTimed'
  BY <1>0 DEF AutomationInv, StopRun, selectionVars, NoForgottenRun, RunningIsCurrent,
       IdleRunIsTimed, UserSet
<1>6. FallbackReleasesNova'
  <2> SUFFICES ASSUME NEW v \in Readers, aUser'[v].pc = "dump", aUser'[v].used # 0
      PROVE  LET g == aUser'[v].used IN
             \/ aProc[g].pc # "alive" \/ aProc[g].cancelled
             \/ \E w \in UserSet : aUser'[w].pc = "cancel" /\ aUser'[w].run = g
    BY DEF FallbackReleasesNova, StopRun
  <2> DEFINE g == aUser'[v].used
  <2>1. g \in Runs
    BY <1>0, AutomationAssumption DEF Caller, Runs, UserSet
  <2>2. CASE v = u
    <3>1. ~aRunning /\ g = aUser[u].used
      BY <1>0, <2>2
    <3>2. aProc[g].pc = "alive" /\ ~aProc[g].cancelled =>
            \E w \in UserSet : w # u /\ aUser[w].pc = "cancel" /\ aUser[w].run = g
      BY <1>0, <2>1, <3>1 DEF AutomationInv, NoForgottenRun
    <3>3. QED
      BY <1>0, <3>2
  <2>3. CASE v # u
    <3>1. aUser'[v] = aUser[v]
      BY <1>0, <2>3 DEF UserSet
    <3>2. \/ aProc[g].pc # "alive" \/ aProc[g].cancelled
          \/ \E w \in UserSet : w # u /\ aUser[w].pc = "cancel" /\ aUser[w].run = g
      BY <1>0, <3>1 DEF AutomationInv, FallbackReleasesNova
    <3>3. QED
      BY <1>0, <3>2
  <2>4. QED
    BY <2>2, <2>3
<1>7. SlotIsFree'
  BY <1>0 DEF AutomationInv, StopRun, selectionVars, SlotIsFree, CallersComeBack,
       AutomationTypeOK, UserSet
<1> QED
  BY <1>1, <1>2, <1>3, <1>4, <1>5, <1>6, <1>7 DEF AutomationInv

LEMMA CancelRunMoves ==
  ASSUME AutomationInv, NEW u \in UserSet, CancelRun(u)
  PROVE
  /\ aUser' \in [UserSet -> Caller]
  /\ \A v \in UserSet : v # u => aUser'[v] = aUser[v]
  /\ aUser[u].pc = "cancel" /\ aUser'[u].pc = "force"
  /\ aUser'[u].tries = aUser[u].tries /\ aUser'[u].back = aUser[u].back
  /\ aUser'[u].waited = aUser[u].waited
  /\ aUser'[u].run = 0 /\ aUser'[u].used = aUser[u].used
<1> DEFINE to == [aUser[u] EXCEPT !.pc = "force"]
<1>1. aUser \in [UserSet -> Caller] /\ aUser[u] \in Caller
  BY NobodyIsCaller DEF AutomationInv, AutomationTypeOK
<1>2. aUser[u].pc = "cancel" /\ Step(u, "cancel", to)
  BY <1>1 DEF CancelRun, Step, EnterStart, To
<1>3. "force" \in CallerPlaces
  BY <1>1, <1>2, AutomationAssumption
     DEF CancelRun, AutomationInv, AutomationTypeOK, CallersComeBack, Caller, Starting,
          Stopping, Asking, CallerPlaces, Callbacks, Runs
<1>4. to \in Caller
  BY <1>1, <1>3 DEF Caller
<1>5. Moved(u, to)
  <2> HIDE DEF to
  <2> QED
    BY <1>1, <1>2, <1>4, StepMoves
<1> QED
  BY <1>1, <1>2, <1>5 DEF Moved, CancelRun, AutomationInv, CallersComeBack, NovaIsPromoted,
       Caller, Nobody, Starting, Stopping

LEMMA CancelRunKeeps ==
  ASSUME AutomationInv, NEW u \in UserSet, CancelRun(u)
  PROVE  AutomationInv'
<1>0.
  /\ aUser' \in [UserSet -> Caller]
  /\ \A v \in UserSet : v # u => aUser'[v] = aUser[v]
  /\ aUser[u].pc = "cancel" /\ aUser'[u].pc = "force"
  /\ aUser'[u].tries = aUser[u].tries /\ aUser'[u].back = aUser[u].back
  /\ aUser'[u].waited = aUser[u].waited
  /\ aUser'[u].run = 0 /\ aUser'[u].used = aUser[u].used
  BY CancelRunMoves
<1>x. /\ aUser[u].pc = "cancel" /\ aUser[u].run \in 0 .. MaxInstrumentations
      /\ \A g \in Runs :
           /\ aProc'[g].pc = aProc[g].pc /\ aProc'[g].cancelled \in BOOLEAN
           /\ aProc[g].pc = "alive" =>
                (~aProc'[g].cancelled <=> (~aProc[g].cancelled /\ aUser[u].run # g))
  <2>1. aUser[u].pc = "cancel" /\ aUser[u].run \in 0 .. MaxInstrumentations
    BY <1>0 DEF AutomationInv, AutomationTypeOK, Caller
  <2>2. CASE aUser[u].run = 0
    BY <2>1, <2>2, AutomationAssumption DEF CancelRun, AutomationInv, AutomationTypeOK, Runs
  <2>3. CASE aUser[u].run # 0
    <3>1. aUser[u].run \in Runs
      BY <2>1, <2>3, AutomationAssumption DEF Runs
    <3>2. aProc' = [aProc EXCEPT ![aUser[u].run].cancelled = @ \/ aProc[aUser[u].run].pc = "alive"]
      BY <2>3 DEF CancelRun
    <3> QED
      BY <2>1, <3>1, <3>2 DEF AutomationInv, AutomationTypeOK
  <2> QED
    BY <2>2, <2>3
<1>1. AutomationTypeOK'
  <2>1. aUser[u].run \in 0 .. MaxInstrumentations
    BY <1>0 DEF AutomationInv, AutomationTypeOK, Caller
  <2>2. aProc' \in [Runs -> [pc : {"none", "alive", "over", "reset", "reported"},
    cancelled : BOOLEAN]]
    <3>1. CASE aUser[u].run = 0
      BY <3>1 DEF CancelRun, AutomationInv, AutomationTypeOK
    <3>2. CASE aUser[u].run # 0
      <4> DEFINE r == aUser[u].run
                 c == aProc[r].cancelled \/ aProc[r].pc = "alive"
      <4>1. r \in Runs /\ c \in BOOLEAN
        BY <2>1, <3>2, AutomationAssumption DEF Runs
      <4>2. aProc' = [aProc EXCEPT ![r].cancelled = c]
        BY <3>2 DEF CancelRun
      <4> HIDE DEF r, c
      <4> QED
        BY <4>1, <4>2 DEF AutomationInv, AutomationTypeOK
    <3> QED
      BY <3>1, <3>2
  <2>3. 0 \in 0 .. MaxInstrumentations
    BY AutomationAssumption
  <2> QED
    BY <1>0, <2>2, <2>3 DEF AutomationInv, AutomationTypeOK, CancelRun, managerVars
<1>2. CallersComeBack'
  BY <1>0 DEF AutomationInv, CancelRun, managerVars, CallersComeBack, Starting, Stopping, UserSet
<1>3. GenerationsAreBegun'
  <2>3. \A v \in UserSet : v # u => aUser'[v] = aUser[v]
    BY <1>0
  <2>4. aUser'[u].run = 0 /\ aUser'[u].used = aUser[u].used /\ aUser'[u].pc \notin {"arm",
    "poll"} /\ aGen \in Nat
    BY <1>0 DEF AutomationInv, AutomationTypeOK
  <2> QED
    BY <1>x, <2>3, <2>4 DEF AutomationInv, GenerationsAreBegun, CancelRun, managerVars
<1>4. NovaIsPromoted'
  BY <1>0 DEF AutomationInv, CancelRun, managerVars, NovaIsPromoted, UserSet
<1>5. NoForgottenRun'
  <2> QED
    BY <1>0, <1>x DEF AutomationInv, NoForgottenRun, CancelRun, managerVars
<1>6. RunningIsCurrent' /\ IdleRunIsTimed'
  BY <1>0 DEF AutomationInv, CancelRun, managerVars, RunningIsCurrent, IdleRunIsTimed, UserSet
<1>7. FallbackReleasesNova'
  <2>3. \A v \in Readers : aUser'[v].pc = "dump" => aUser[v].pc = "dump" /\ aUser'[v].used = aUser[v].used
    BY <1>0 DEF UserSet
  <2>4. \A v \in Readers : aUser[v].pc = "dump" /\ aUser[v].used # 0 => aUser[v].used \in Runs
    BY AutomationAssumption DEF AutomationInv, AutomationTypeOK, UserSet, Caller, Runs
  <2> QED
    BY <1>0, <1>x, <2>3, <2>4 DEF AutomationInv, FallbackReleasesNova
<1>8. SlotIsFree'
  BY <1>0 DEF AutomationInv, CancelRun, managerVars, SlotIsFree, CallersComeBack,
       AutomationTypeOK, UserSet
<1> QED
  BY <1>1, <1>2, <1>3, <1>4, <1>5, <1>6, <1>7, <1>8 DEF AutomationInv

LEMMA ForceStopMoves ==
  ASSUME AutomationInv, NEW u \in UserSet, ForceStop(u)
  PROVE
  /\ aUser' \in [UserSet -> Caller]
  /\ \A v \in UserSet : v # u => aUser'[v] = aUser[v]
  /\ aUser[u].pc = "force"
  /\ aUser[u].back # "dump" => aUser'[u].pc = aUser[u].back
  /\ aUser[u].back = "dump" => aUser'[u].pc \in {"dump", "return"}
  /\ aUser'[u].tries = aUser[u].tries /\ aUser'[u].back = aUser[u].back
  /\ aUser'[u].run = 0
  /\ aUser'[u].pc = "dump" =>
         aUser'[u].used = aUser[u].used /\ aProc' = [g \in Runs |-> IF aProc[g].pc = "alive" THEN OverProcess ELSE aProc[g]]
  /\ aUser'[u].used \in {0, aUser[u].used}
  /\ aUser'[u].waited => aUser[u].waited
<1>1. CASE Step(u, "force", To(u,
  aUser[u].back)) /\ aProc' = [g \in Runs |-> IF aProc[g].pc = "alive" THEN OverProcess ELSE aProc[g]]
  <2> DEFINE to == [aUser[u] EXCEPT !.pc = aUser[u].back]
  <2>1. aUser \in [UserSet -> Caller] /\ aUser[u] \in Caller
    BY NobodyIsCaller DEF AutomationInv, AutomationTypeOK
  <2>2. aUser[u].pc = "force" /\ Step(u, "force", to)
    BY <1>1, <2>1 DEF ForceStop, Step, EnterStart, To
  <2>3. aUser[u].back \in CallerPlaces
    BY <1>1, <2>1, <2>2, AutomationAssumption
       DEF ForceStop, AutomationInv, AutomationTypeOK, CallersComeBack, Caller, Starting,
            Stopping, Asking, CallerPlaces, Callbacks, Runs
  <2>4. to \in Caller
    BY <2>1, <2>3 DEF Caller
  <2>5. Moved(u, to)
    <3> HIDE DEF to
    <3> QED
      BY <2>1, <2>2, <2>4, StepMoves
  <2> QED
    BY <1>1, <2>1, <2>2, <2>5 DEF Moved, ForceStop, AutomationInv, CallersComeBack,
         NovaIsPromoted, Caller, Nobody, Starting, Stopping
<1>2. CASE Step(u, "force", To(u, IF aUser[u].back = "dump" THEN "return" ELSE aUser[u].back))
  <2> DEFINE pc == IF aUser[u].back = "dump" THEN "return" ELSE aUser[u].back
             to == [aUser[u] EXCEPT !.pc = pc]
  <2>1. aUser \in [UserSet -> Caller] /\ aUser[u] \in Caller
    BY NobodyIsCaller DEF AutomationInv, AutomationTypeOK
  <2>2. aUser[u].pc = "force" /\ Step(u, "force", to)
    BY <1>2, <2>1 DEF ForceStop, Step, EnterStart, To
  <2>3. pc \in CallerPlaces
    BY <1>2, <2>1, <2>2, AutomationAssumption
       DEF ForceStop, AutomationInv, AutomationTypeOK, CallersComeBack, Caller, Starting,
            Stopping, Asking, CallerPlaces, Callbacks, Runs
  <2>4. to \in Caller
    <3> HIDE DEF pc
    <3> QED
      BY <2>1, <2>3 DEF Caller
  <2>5. Moved(u, to)
    <3> HIDE DEF to
    <3> QED
      BY <2>1, <2>2, <2>4, StepMoves
  <2> QED
    BY <1>2, <2>1, <2>2, <2>5 DEF Moved, ForceStop, AutomationInv, CallersComeBack,
         NovaIsPromoted, Caller, Nobody, Starting, Stopping
<1> QED
  BY <1>1, <1>2 DEF ForceStop, EnterStart, To

LEMMA ForceStopKeeps ==
  ASSUME AutomationInv, NEW u \in UserSet, ForceStop(u)
  PROVE  AutomationInv'
<1>0.
  /\ aUser' \in [UserSet -> Caller]
  /\ \A v \in UserSet : v # u => aUser'[v] = aUser[v]
  /\ aUser[u].pc = "force"
  /\ aUser[u].back # "dump" => aUser'[u].pc = aUser[u].back
  /\ aUser[u].back = "dump" => aUser'[u].pc \in {"dump", "return"}
  /\ aUser'[u].tries = aUser[u].tries /\ aUser'[u].back = aUser[u].back
  /\ aUser'[u].run = 0
  /\ aUser'[u].pc = "dump" =>
         aUser'[u].used = aUser[u].used /\ aProc' = [g \in Runs |-> IF aProc[g].pc = "alive" THEN OverProcess ELSE aProc[g]]
  /\ aUser'[u].used \in {0, aUser[u].used}
  /\ aUser'[u].waited => aUser[u].waited
  BY ForceStopMoves
<1>x. /\ UNCHANGED <<aMode, aBadDump, aRunning, aGen, aCancel, aTimer>>
      /\ UNCHANGED <<aProviders, aShadow, aSlot, aCapture>>
      /\ OverProcess.pc = "over"
      /\ OverProcess \in [pc : {"none", "alive", "over", "reset", "reported"}, cancelled : BOOLEAN]
      /\ \A g \in Runs : \/ aProc'[g] = aProc[g]
                         \/ aProc[g].pc = "alive" /\ aProc'[g] = OverProcess
  <2>1. CASE aProc' = [g \in Runs |-> IF aProc[g].pc = "alive" THEN OverProcess ELSE aProc[g]]
    BY <2>1 DEF ForceStop, OverProcess, managerVars, selectionVars
  <2>2. CASE aProc' = aProc
    BY <2>2 DEF ForceStop, OverProcess, managerVars, selectionVars
  <2> QED
    BY <2>1, <2>2 DEF ForceStop
<1>1. AutomationTypeOK'
  <2>4. aProc \in [Runs -> [pc : {"none", "alive", "over", "reset", "reported"},
    cancelled : BOOLEAN]]
    BY DEF AutomationInv, AutomationTypeOK
  <2>40. aProc' = [g \in Runs |-> aProc'[g]]
    BY <2>4 DEF ForceStop
  <2>41. aProc' \in [Runs -> [pc : {"none", "alive", "over", "reset", "reported"},
    cancelled : BOOLEAN]]
    BY <1>x, <2>4, <2>40
  <2>5. QED
    BY <1>0, <1>x, <2>41 DEF AutomationInv, AutomationTypeOK, managerVars, selectionVars
<1>2. CallersComeBack'
  BY <1>0 DEF AutomationInv, ForceStop, managerVars, selectionVars, CallersComeBack, Starting,
       Stopping, UserSet
<1>3. GenerationsAreBegun'
  <2>4. \A v \in UserSet : aUser[v].run \in Nat /\ aUser[v].used \in Nat /\ aUser'[v].run \in Nat
    BY <1>0 DEF AutomationInv, AutomationTypeOK, Caller
  <2>5. aGen \in Nat /\ aUser'[u].pc \notin {"arm", "poll"}
    BY <1>0 DEF AutomationInv, AutomationTypeOK, CallersComeBack, Stopping, UserSet
  <2>6. QED
    BY <1>0, <1>x, <2>4, <2>5 DEF AutomationInv, GenerationsAreBegun, managerVars, selectionVars
<1>4. NovaIsPromoted'
  <2>4. aUser[u].pc = "force" /\ aUser'[u].pc \notin {"promote", "retry", "again", "packages"}
    BY <1>0 DEF AutomationInv, CallersComeBack, Stopping, UserSet
  <2>5. aUser'[u].tries = aUser[u].tries /\ aUser'[u].back = aUser[u].back
    BY <1>0
  <2>6. \A v \in UserSet : v # u => aUser'[v] = aUser[v]
    BY <1>0
  <2> QED
    BY <1>x, <2>4, <2>5, <2>6 DEF AutomationInv, NovaIsPromoted, UserSet
<1>5. NoForgottenRun'
  <2>4. QED
    BY <1>0, <1>x DEF AutomationInv, NoForgottenRun, managerVars
<1>6. RunningIsCurrent'
  <2>4. aRunning => aGen \in Runs
    BY AutomationAssumption DEF AutomationInv, AutomationTypeOK, Runs, GenerationsAreBegun
  <2>5. aRunning' = aRunning /\ aGen' = aGen
    BY <1>x DEF managerVars
  <2> QED
    BY <1>x, <2>4, <2>5 DEF AutomationInv, RunningIsCurrent
<1>7. IdleRunIsTimed'
  BY <1>0 DEF AutomationInv, ForceStop, managerVars, selectionVars, IdleRunIsTimed, UserSet
<1>8. FallbackReleasesNova'
  <2>4. aUser'[u].pc = "dump" => \A g \in Runs : aProc'[g].pc # "alive"
    BY <1>0, <1>x
  <2>5. \A v \in Readers : v # u => aUser'[v] = aUser[v]
    BY <1>0 DEF UserSet
  <2>6. aUser'[u].used # 0 => aUser'[u].used \in Runs
    BY <1>0, AutomationAssumption DEF Caller, Runs
  <2>7. \A v \in Readers : aUser[v].pc = "dump" /\ aUser[v].used # 0 => aUser[v].used \in Runs
    BY AutomationAssumption DEF AutomationInv, AutomationTypeOK, UserSet, Caller, Runs
  <2>8. QED
    BY <1>0, <1>x, <2>4, <2>5, <2>6, <2>7 DEF AutomationInv, FallbackReleasesNova
<1>9. SlotIsFree'
  BY <1>0 DEF AutomationInv, ForceStop, managerVars, selectionVars, SlotIsFree, CallersComeBack,
       AutomationTypeOK, UserSet
<1> QED
  BY <1>1, <1>2, <1>3, <1>4, <1>5, <1>6, <1>7, <1>8, <1>9 DEF AutomationInv

-----------------------------------------------------------------------------
(* Hierarchy and collectHierarchy, under captureMu. *)

LEMMA CallHierarchyMoves ==
  ASSUME AutomationInv, NEW u \in UserSet, CallHierarchy(u)
  PROVE
  /\ aUser' \in [UserSet -> Caller]
  /\ \A v \in UserSet : v # u => aUser'[v] = aUser[v]
  /\ u \in Readers /\ aUser[u].pc = "idle" /\ aUser'[u].pc = "ensure"
  /\ aUser'[u].back = "idle" /\ aUser'[u].tries = 0 /\ ~aUser'[u].waited
  /\ aUser'[u].run = 0 /\ aUser'[u].used = 0
<1> DEFINE to == [Nobody EXCEPT !.pc = "ensure"]
<1>1. aUser \in [UserSet -> Caller] /\ Nobody \in Caller
  BY NobodyIsCaller DEF AutomationInv, AutomationTypeOK
<1>2. aUser[u].pc = "idle" /\ Step(u, "idle", to)
  BY <1>1 DEF CallHierarchy, Step, EnterStart, To
<1>3. "ensure" \in CallerPlaces
  BY <1>1, <1>2, AutomationAssumption
     DEF CallHierarchy, AutomationInv, AutomationTypeOK, CallersComeBack, Caller, Starting,
          Stopping, Asking, CallerPlaces, Callbacks, Runs
<1>4. to \in Caller
  BY <1>1, <1>3 DEF Caller
<1>5. Moved(u, to)
  <2> HIDE DEF to
  <2> QED
    BY <1>1, <1>2, <1>4, StepMoves
<1> QED
  BY <1>1, <1>2, <1>5 DEF Moved, CallHierarchy, AutomationInv, CallersComeBack, NovaIsPromoted,
       Caller, Nobody, Starting, Stopping

LEMMA CallHierarchyKeeps ==
  ASSUME AutomationInv, NEW u \in UserSet, CallHierarchy(u)
  PROVE  AutomationInv'
<1>1. AutomationTypeOK' /\ CallersComeBack'
  BY CallHierarchyMoves, AutomationAssumption DEF AutomationInv, CallHierarchy, managerVars,
       selectionVars, AutomationTypeOK, CallersComeBack, Starting, Stopping, UserSet
<1>2. GenerationsAreBegun'
    BY CallHierarchyMoves, CallerKeepsGenerations DEF CallHierarchy, managerVars, selectionVars
<1>3. NovaIsPromoted'
  BY CallHierarchyMoves DEF AutomationInv, CallHierarchy, managerVars, selectionVars,
       NovaIsPromoted, UserSet
<1>4. NoForgottenRun' /\ RunningIsCurrent' /\ IdleRunIsTimed'
  BY CallHierarchyMoves DEF AutomationInv, CallHierarchy, managerVars, selectionVars,
       NoForgottenRun, RunningIsCurrent, IdleRunIsTimed, UserSet
<1>5. FallbackReleasesNova' /\ SlotIsFree'
  BY CallHierarchyMoves, AutomationAssumption DEF AutomationInv, CallHierarchy, managerVars,
       selectionVars, FallbackReleasesNova, NoForgottenRun, UserSet, SlotIsFree,
    CallersComeBack, AutomationTypeOK
<1> QED
  BY <1>1, <1>2, <1>3, <1>4, <1>5 DEF AutomationInv

LEMMA EnsureNovaMoves ==
  ASSUME AutomationInv, NEW u \in UserSet, EnsureNova(u)
  PROVE
  /\ aUser' \in [UserSet -> Caller]
  /\ \A v \in UserSet : v # u => aUser'[v] = aUser[v]
  /\ aUser[u].pc = "ensure" /\ aUser'[u].pc \in {"shadow", "packages"}
  /\ aUser'[u].tries = aUser[u].tries
  /\ aUser'[u].pc = "packages" => aUser'[u].back = "shadow" /\ (aMode = "nova" \/ aBadDump)
  /\ aUser'[u].back \in {aUser[u].back, "shadow"}
  /\ aUser'[u].waited = aUser[u].waited
  /\ aUser'[u].run = 0 /\ aUser'[u].used = 0
<1>1. CASE Step(u, "ensure", [aUser[u] EXCEPT !.pc = IF aRunning THEN "shadow" ELSE "packages",
  !.back = "shadow"]) /\ (aMode = "nova" \/ aBadDump)
  <2> DEFINE pc == IF aRunning THEN "shadow" ELSE "packages"
             to == [aUser[u] EXCEPT !.pc = pc, !.back = "shadow"]
  <2>1. aUser \in [UserSet -> Caller] /\ aUser[u] \in Caller
    BY NobodyIsCaller DEF AutomationInv, AutomationTypeOK
  <2>2. aUser[u].pc = "ensure" /\ Step(u, "ensure", to)
    BY <1>1, <2>1 DEF EnsureNova, Step, EnterStart, To
  <2>3. pc \in CallerPlaces /\ "shadow" \in Callbacks
    BY <1>1, <2>1, <2>2, AutomationAssumption
       DEF EnsureNova, AutomationInv, AutomationTypeOK, CallersComeBack, Caller, Starting,
            Stopping, Asking, CallerPlaces, Callbacks, Runs
  <2>4. to \in Caller
    <3> HIDE DEF pc
    <3> QED
      BY <2>1, <2>3 DEF Caller
  <2>5. Moved(u, to)
    <3> HIDE DEF to
    <3> QED
      BY <2>1, <2>2, <2>4, StepMoves
  <2> QED
    BY <1>1, <2>1, <2>2, <2>5 DEF Moved, EnsureNova, AutomationInv, CallersComeBack,
         NovaIsPromoted, Caller, Nobody, Starting, Stopping
<1>2. CASE Step(u, "ensure", To(u, "shadow"))
  <2> DEFINE to == [aUser[u] EXCEPT !.pc = "shadow"]
  <2>1. aUser \in [UserSet -> Caller] /\ aUser[u] \in Caller
    BY NobodyIsCaller DEF AutomationInv, AutomationTypeOK
  <2>2. aUser[u].pc = "ensure" /\ Step(u, "ensure", to)
    BY <1>2, <2>1 DEF EnsureNova, Step, EnterStart, To
  <2>3. "shadow" \in CallerPlaces
    BY <1>2, <2>1, <2>2, AutomationAssumption
       DEF EnsureNova, AutomationInv, AutomationTypeOK, CallersComeBack, Caller, Starting,
            Stopping, Asking, CallerPlaces, Callbacks, Runs
  <2>4. to \in Caller
    BY <2>1, <2>3 DEF Caller
  <2>5. Moved(u, to)
    <3> HIDE DEF to
    <3> QED
      BY <2>1, <2>2, <2>4, StepMoves
  <2> QED
    BY <1>2, <2>1, <2>2, <2>5 DEF Moved, EnsureNova, AutomationInv, CallersComeBack,
         NovaIsPromoted, Caller, Nobody, Starting, Stopping
<1> QED
  BY <1>1, <1>2 DEF EnsureNova, EnterStart, To

LEMMA EnsureNovaKeeps ==
  ASSUME AutomationInv, NEW u \in UserSet, EnsureNova(u)
  PROVE  AutomationInv'
<1>1. AutomationTypeOK' /\ CallersComeBack'
  BY EnsureNovaMoves, AutomationAssumption DEF AutomationInv, EnsureNova, managerVars,
       selectionVars, AutomationTypeOK, CallersComeBack, Starting, Stopping, UserSet
<1>2. GenerationsAreBegun'
    BY EnsureNovaMoves, CallerKeepsGenerations DEF EnsureNova, managerVars, selectionVars
<1>3. NovaIsPromoted'
  <2>1. /\ aUser'[u].tries = aUser[u].tries /\ aUser'[u].back \in {aUser[u].back, "shadow"}
        /\ aUser[u].pc = "ensure" /\ aUser'[u].pc \in {"shadow", "packages"}
    BY EnsureNovaMoves
  <2>2. \A v \in UserSet : v # u => aUser'[v] = aUser[v]
    BY EnsureNovaMoves
  <2>3. \A v \in Readers : aUser[v].pc # "promote"
    BY <2>1 DEF AutomationInv, CallersComeBack, Starting, Stopping, UserSet, AutomationTypeOK
  <2>4. aUser'[u].pc = "packages" => aMode = "nova"
    BY EnsureNovaMoves, <2>1, <2>3 DEF AutomationInv, NovaIsPromoted
  <2> QED
    BY <2>1, <2>2, <2>3, <2>4 DEF AutomationInv, NovaIsPromoted, EnsureNova, UserSet
<1>4. NoForgottenRun' /\ RunningIsCurrent' /\ IdleRunIsTimed'
  BY EnsureNovaMoves DEF AutomationInv, EnsureNova, managerVars, selectionVars, NoForgottenRun,
       RunningIsCurrent, IdleRunIsTimed, UserSet
<1>5. FallbackReleasesNova' /\ SlotIsFree'
  BY EnsureNovaMoves, AutomationAssumption DEF AutomationInv, EnsureNova, managerVars,
       selectionVars, FallbackReleasesNova, NoForgottenRun, UserSet, SlotIsFree,
    CallersComeBack, AutomationTypeOK
<1> QED
  BY <1>1, <1>2, <1>3, <1>4, <1>5 DEF AutomationInv

LEMMA WaitShadowMoves ==
  ASSUME AutomationInv, NEW u \in UserSet, WaitShadow(u)
  PROVE
  /\ aUser' \in [UserSet -> Caller]
  /\ \A v \in UserSet : v # u => aUser'[v] = aUser[v]
  /\ aUser[u].pc \in {"shadow", "slot"} /\ aUser'[u].pc \in {"slot", "providers", "return"}
  /\ aUser[u].pc = "shadow" => aUser'[u].pc # "return"
  /\ aUser'[u].pc = "slot" => aUser[u].pc = "shadow"
  /\ aUser'[u].pc = "providers" /\ aUser'[u].waited => ~aSlot
  /\ aUser'[u].pc = "return" => ~aUser'[u].waited
  /\ aUser'[u].tries = aUser[u].tries /\ aUser'[u].back = aUser[u].back
  /\ aUser'[u].run = 0 /\ aUser'[u].used = 0
<1>1. CASE Step(u, "shadow",
  [aUser[u] EXCEPT !.pc = IF aMode = "shadow" /\ aRunning THEN "slot" ELSE "providers",
  !.waited = aMode = "shadow" /\ aRunning])
  <2> DEFINE pc == IF aMode = "shadow" /\ aRunning THEN "slot" ELSE "providers"
             waited == aMode = "shadow" /\ aRunning
             to == [aUser[u] EXCEPT !.pc = pc, !.waited = waited]
  <2>1. aUser \in [UserSet -> Caller] /\ aUser[u] \in Caller
    BY NobodyIsCaller DEF AutomationInv, AutomationTypeOK
  <2>2. aUser[u].pc = "shadow" /\ Step(u, "shadow", to)
    BY <1>1, <2>1 DEF WaitShadow, Step, EnterStart, To
  <2>3. pc \in CallerPlaces /\ waited \in BOOLEAN
    BY <1>1, <2>1, <2>2, AutomationAssumption
       DEF WaitShadow, AutomationInv, AutomationTypeOK, CallersComeBack, Caller, Starting,
            Stopping, Asking, CallerPlaces, Callbacks, Runs
  <2>4. to \in Caller
    <3> HIDE DEF pc, waited
    <3> QED
      BY <2>1, <2>3 DEF Caller
  <2>5. Moved(u, to)
    <3> HIDE DEF to
    <3> QED
      BY <2>1, <2>2, <2>4, StepMoves
  <2> QED
    BY <1>1, <2>1, <2>2, <2>5 DEF Moved, WaitShadow, AutomationInv, CallersComeBack,
         NovaIsPromoted, Caller, Nobody, Starting, Stopping
<1>2. CASE Step(u, "slot", To(u, "providers")) /\ ~aSlot
  <2> DEFINE to == [aUser[u] EXCEPT !.pc = "providers"]
  <2>1. aUser \in [UserSet -> Caller] /\ aUser[u] \in Caller
    BY NobodyIsCaller DEF AutomationInv, AutomationTypeOK
  <2>2. aUser[u].pc = "slot" /\ Step(u, "slot", to)
    BY <1>2, <2>1 DEF WaitShadow, Step, EnterStart, To
  <2>3. "providers" \in CallerPlaces
    BY <1>2, <2>1, <2>2, AutomationAssumption
       DEF WaitShadow, AutomationInv, AutomationTypeOK, CallersComeBack, Caller, Starting,
            Stopping, Asking, CallerPlaces, Callbacks, Runs
  <2>4. to \in Caller
    BY <2>1, <2>3 DEF Caller
  <2>5. Moved(u, to)
    <3> HIDE DEF to
    <3> QED
      BY <2>1, <2>2, <2>4, StepMoves
  <2> QED
    BY <1>2, <2>1, <2>2, <2>5 DEF Moved, WaitShadow, AutomationInv, CallersComeBack,
         NovaIsPromoted, Caller, Nobody, Starting, Stopping
<1>3. CASE Step(u, "slot", To(u, "return"))
  <2> DEFINE to == [aUser[u] EXCEPT !.pc = "return"]
  <2>1. aUser \in [UserSet -> Caller] /\ aUser[u] \in Caller
    BY NobodyIsCaller DEF AutomationInv, AutomationTypeOK
  <2>2. aUser[u].pc = "slot" /\ Step(u, "slot", to)
    BY <1>3, <2>1 DEF WaitShadow, Step, EnterStart, To
  <2>3. "return" \in CallerPlaces
    BY <1>3, <2>1, <2>2, AutomationAssumption
       DEF WaitShadow, AutomationInv, AutomationTypeOK, CallersComeBack, Caller, Starting,
            Stopping, Asking, CallerPlaces, Callbacks, Runs
  <2>4. to \in Caller
    BY <2>1, <2>3 DEF Caller
  <2>5. Moved(u, to)
    <3> HIDE DEF to
    <3> QED
      BY <2>1, <2>2, <2>4, StepMoves
  <2> QED
    BY <1>3, <2>1, <2>2, <2>5 DEF Moved, WaitShadow, AutomationInv, CallersComeBack,
         NovaIsPromoted, Caller, Nobody, Starting, Stopping
<1> QED
  BY <1>1, <1>2, <1>3 DEF WaitShadow, EnterStart, To

LEMMA WaitShadowKeeps ==
  ASSUME AutomationInv, NEW u \in UserSet, WaitShadow(u)
  PROVE  AutomationInv'
<1>0.
  /\ aUser' \in [UserSet -> Caller]
  /\ \A v \in UserSet : v # u => aUser'[v] = aUser[v]
  /\ aUser[u].pc \in {"shadow", "slot"} /\ aUser'[u].pc \in {"slot", "providers", "return"}
  /\ aUser[u].pc = "shadow" => aUser'[u].pc # "return"
  /\ aUser'[u].pc = "slot" => aUser[u].pc = "shadow"
  /\ aUser'[u].pc = "providers" /\ aUser'[u].waited => ~aSlot
  /\ aUser'[u].pc = "return" => ~aUser'[u].waited
  /\ aUser'[u].tries = aUser[u].tries /\ aUser'[u].back = aUser[u].back
  /\ aUser'[u].run = 0 /\ aUser'[u].used = 0
  BY WaitShadowMoves
<1>1. AutomationTypeOK' /\ CallersComeBack'
  BY <1>0, AutomationAssumption DEF AutomationInv, WaitShadow, managerVars, selectionVars,
       AutomationTypeOK, CallersComeBack, Starting, Stopping, UserSet
<1>2. GenerationsAreBegun'
    BY <1>0, CallerKeepsGenerations DEF WaitShadow, managerVars, selectionVars
<1>3. NovaIsPromoted'
  BY <1>0 DEF AutomationInv, WaitShadow, managerVars, selectionVars, NovaIsPromoted, UserSet
<1>4. NoForgottenRun' /\ RunningIsCurrent' /\ IdleRunIsTimed'
  BY <1>0 DEF AutomationInv, WaitShadow, managerVars, selectionVars, NoForgottenRun,
       RunningIsCurrent, IdleRunIsTimed, UserSet
<1>5. FallbackReleasesNova' /\ SlotIsFree'
  BY <1>0, AutomationAssumption DEF AutomationInv, WaitShadow, managerVars, selectionVars,
       FallbackReleasesNova, NoForgottenRun, UserSet, SlotIsFree, CallersComeBack,
    AutomationTypeOK
<1> QED
  BY <1>1, <1>2, <1>3, <1>4, <1>5 DEF AutomationInv

LEMMA TakeProvidersMoves ==
  ASSUME AutomationInv, NEW u \in UserSet, TakeProviders(u)
  PROVE
  /\ aUser' \in [UserSet -> Caller]
  /\ \A v \in UserSet : v # u => aUser'[v] = aUser[v]
  /\ aUser[u].pc = "providers" /\ aUser'[u].pc \in {"nova", "dump", "return"}
  /\ aUser'[u].tries = aUser[u].tries /\ aUser'[u].back = aUser[u].back
  /\ aUser'[u].run = 0 /\ aUser'[u].used \in {0, aProviders}
  /\ aUser'[u].pc = "nova" => aUser'[u].used # 0
  /\ aUser'[u].pc = "dump" => aUser'[u].used = 0
  /\ aUser'[u].waited => aUser[u].waited
<1> DEFINE pc == IF aProviders # 0 THEN "nova" ELSE IF aBadDump THEN "return" ELSE "dump"
           to == [aUser[u] EXCEPT !.pc = pc, !.used = aProviders]
<1>1. aUser \in [UserSet -> Caller] /\ aUser[u] \in Caller
  BY NobodyIsCaller DEF AutomationInv, AutomationTypeOK
<1>2. aUser[u].pc = "providers" /\ Step(u, "providers", to)
  BY <1>1 DEF TakeProviders, Step, EnterStart, To
<1>3. pc \in CallerPlaces /\ aProviders \in 0 .. MaxInstrumentations
  BY <1>1, <1>2, AutomationAssumption
     DEF TakeProviders, AutomationInv, AutomationTypeOK, CallersComeBack, Caller, Starting,
          Stopping, Asking, CallerPlaces, Callbacks, Runs
<1>4. to \in Caller
  <2> HIDE DEF pc
  <2> QED
    BY <1>1, <1>3 DEF Caller
<1>5. Moved(u, to)
  <2> HIDE DEF to
  <2> QED
    BY <1>1, <1>2, <1>4, StepMoves
<1> QED
  BY <1>1, <1>2, <1>5 DEF Moved, TakeProviders, AutomationInv, CallersComeBack, NovaIsPromoted,
       Caller, Nobody, Starting, Stopping

LEMMA TakeProvidersKeeps ==
  ASSUME AutomationInv, NEW u \in UserSet, TakeProviders(u)
  PROVE  AutomationInv'
<1>0.
  /\ aUser' \in [UserSet -> Caller]
  /\ \A v \in UserSet : v # u => aUser'[v] = aUser[v]
  /\ aUser[u].pc = "providers" /\ aUser'[u].pc \in {"nova", "dump", "return"}
  /\ aUser'[u].tries = aUser[u].tries /\ aUser'[u].back = aUser[u].back
  /\ aUser'[u].run = 0 /\ aUser'[u].used \in {0, aProviders}
  /\ aUser'[u].pc = "nova" => aUser'[u].used # 0
  /\ aUser'[u].pc = "dump" => aUser'[u].used = 0
  /\ aUser'[u].waited => aUser[u].waited
  BY TakeProvidersMoves
<1>1. AutomationTypeOK' /\ CallersComeBack'
  BY <1>0, AutomationAssumption DEF AutomationInv, TakeProviders, selectionVars,
       AutomationTypeOK, CallersComeBack, Starting, Stopping, UserSet
<1>2. GenerationsAreBegun'
    BY <1>0, CallerKeepsGenerations DEF TakeProviders, selectionVars
<1>3. NovaIsPromoted'
  BY <1>0 DEF AutomationInv, TakeProviders, selectionVars, NovaIsPromoted, UserSet
<1>4. NoForgottenRun'
  BY <1>0 DEF AutomationInv, TakeProviders, selectionVars, NoForgottenRun
<1>5. RunningIsCurrent'
  BY <1>0 DEF AutomationInv, TakeProviders, selectionVars, RunningIsCurrent
<1>6. IdleRunIsTimed'
  BY <1>0 DEF AutomationInv, TakeProviders, selectionVars, IdleRunIsTimed, UserSet
<1>7. FallbackReleasesNova' /\ SlotIsFree'
  BY <1>0, AutomationAssumption DEF AutomationInv, TakeProviders, selectionVars,
       FallbackReleasesNova, NoForgottenRun, UserSet, SlotIsFree, CallersComeBack,
    AutomationTypeOK
<1> QED
  BY <1>1, <1>2, <1>3, <1>4, <1>5, <1>6, <1>7 DEF AutomationInv

LEMMA AskNovaMoves ==
  ASSUME AutomationInv, NEW u \in UserSet, AskNova(u)
  PROVE
  /\ aUser' \in [UserSet -> Caller]
  /\ \A v \in UserSet : v # u => aUser'[v] = aUser[v]
  /\ aUser[u].pc = "nova" /\ aUser'[u].pc \in {"compare", "return", "again", "stop", "dump"}
  /\ aUser'[u].tries = aUser[u].tries
  /\ aUser'[u].run = 0 /\ aUser'[u].used \in {0, aUser[u].used}
  /\ aUser'[u].pc \in {"stop", "dump"} => aUser'[u].back = "dump"
  /\ aUser'[u].back \in {aUser[u].back, "dump"}
  /\ aUser'[u].pc = "dump" => ~(aMode = "nova" /\ aRunning) /\ aUser'[u].used = aUser[u].used
  /\ aUser'[u].waited => aUser[u].waited
  /\ aUser'[u].pc = "again" => aUser[u].tries # 0
<1>1. CASE Step(u, "nova", To(u, "compare"))
  <2> DEFINE to == [aUser[u] EXCEPT !.pc = "compare"]
  <2>1. aUser \in [UserSet -> Caller] /\ aUser[u] \in Caller
    BY NobodyIsCaller DEF AutomationInv, AutomationTypeOK
  <2>2. aUser[u].pc = "nova" /\ Step(u, "nova", to)
    BY <1>1, <2>1 DEF AskNova, Step, EnterStart, To
  <2>3. "compare" \in CallerPlaces
    BY <1>1, <2>1, <2>2, AutomationAssumption
       DEF AskNova, AutomationInv, AutomationTypeOK, CallersComeBack, Caller, Starting,
            Stopping, Asking, CallerPlaces, Callbacks, Runs
  <2>4. to \in Caller
    BY <2>1, <2>3 DEF Caller
  <2>5. Moved(u, to)
    <3> HIDE DEF to
    <3> QED
      BY <2>1, <2>2, <2>4, StepMoves
  <2> QED
    BY <1>1, <2>1, <2>2, <2>5 DEF Moved, AskNova, AutomationInv, CallersComeBack,
         NovaIsPromoted, Caller, Nobody, Starting, Stopping
<1>2. CASE Step(u, "nova", To(u, IF aUser[u].tries = 0 THEN "return" ELSE "again")) /\ aBadDump
  <2> DEFINE pc == IF aUser[u].tries = 0 THEN "return" ELSE "again"
             to == [aUser[u] EXCEPT !.pc = pc]
  <2>1. aUser \in [UserSet -> Caller] /\ aUser[u] \in Caller
    BY NobodyIsCaller DEF AutomationInv, AutomationTypeOK
  <2>2. aUser[u].pc = "nova" /\ Step(u, "nova", to)
    BY <1>2, <2>1 DEF AskNova, Step, EnterStart, To
  <2>3. pc \in CallerPlaces
    BY <1>2, <2>1, <2>2, AutomationAssumption
       DEF AskNova, AutomationInv, AutomationTypeOK, CallersComeBack, Caller, Starting,
            Stopping, Asking, CallerPlaces, Callbacks, Runs
  <2>4. to \in Caller
    <3> HIDE DEF pc
    <3> QED
      BY <2>1, <2>3 DEF Caller
  <2>5. Moved(u, to)
    <3> HIDE DEF to
    <3> QED
      BY <2>1, <2>2, <2>4, StepMoves
  <2> QED
    BY <1>2, <2>1, <2>2, <2>5 DEF Moved, AskNova, AutomationInv, CallersComeBack,
         NovaIsPromoted, Caller, Nobody, Starting, Stopping
<1>3. CASE Step(u, "nova",
  [aUser[u] EXCEPT !.pc = IF aMode = "nova" /\ aRunning THEN "stop" ELSE "dump", !.back = "dump"])
  <2> DEFINE pc == IF aMode = "nova" /\ aRunning THEN "stop" ELSE "dump"
             to == [aUser[u] EXCEPT !.pc = pc, !.back = "dump"]
  <2>1. aUser \in [UserSet -> Caller] /\ aUser[u] \in Caller
    BY NobodyIsCaller DEF AutomationInv, AutomationTypeOK
  <2>2. aUser[u].pc = "nova" /\ Step(u, "nova", to)
    BY <1>3, <2>1 DEF AskNova, Step, EnterStart, To
  <2>3. pc \in CallerPlaces /\ "dump" \in Callbacks
    BY <1>3, <2>1, <2>2, AutomationAssumption
       DEF AskNova, AutomationInv, AutomationTypeOK, CallersComeBack, Caller, Starting,
            Stopping, Asking, CallerPlaces, Callbacks, Runs
  <2>4. to \in Caller
    <3> HIDE DEF pc
    <3> QED
      BY <2>1, <2>3 DEF Caller
  <2>5. Moved(u, to)
    <3> HIDE DEF to
    <3> QED
      BY <2>1, <2>2, <2>4, StepMoves
  <2> QED
    BY <1>3, <2>1, <2>2, <2>5 DEF Moved, AskNova, AutomationInv, CallersComeBack,
         NovaIsPromoted, Caller, Nobody, Starting, Stopping
<1> QED
  BY <1>1, <1>2, <1>3 DEF AskNova, EnterStart, To

LEMMA AskNovaKeeps ==
  ASSUME AutomationInv, NEW u \in UserSet, AskNova(u)
  PROVE  AutomationInv'
<1>0.
  /\ aUser' \in [UserSet -> Caller]
  /\ \A v \in UserSet : v # u => aUser'[v] = aUser[v]
  /\ aUser[u].pc = "nova" /\ aUser'[u].pc \in {"compare", "return", "again", "stop", "dump"}
  /\ aUser'[u].tries = aUser[u].tries
  /\ aUser'[u].run = 0 /\ aUser'[u].used \in {0, aUser[u].used}
  /\ aUser'[u].pc \in {"stop", "dump"} => aUser'[u].back = "dump"
  /\ aUser'[u].back \in {aUser[u].back, "dump"}
  /\ aUser'[u].pc = "dump" => ~(aMode = "nova" /\ aRunning) /\ aUser'[u].used = aUser[u].used
  /\ aUser'[u].waited => aUser[u].waited
  /\ aUser'[u].pc = "again" => aUser[u].tries # 0
  BY AskNovaMoves
<1>1. AutomationTypeOK' /\ CallersComeBack'
  BY <1>0, AutomationAssumption DEF AutomationInv, AskNova, managerVars, selectionVars,
       AutomationTypeOK, CallersComeBack, Starting, Stopping, UserSet
<1>2. GenerationsAreBegun'
    BY <1>0, CallerKeepsGenerations DEF AskNova, managerVars, selectionVars
<1>3. NovaIsPromoted'
  <2>1. /\ aUser'[u].tries = aUser[u].tries /\ aUser'[u].back \in {aUser[u].back, "dump"}
        /\ aUser[u].pc = "nova" /\ aUser'[u].pc \in {"compare", "return", "again", "stop", "dump"}
        /\ aUser'[u].pc = "again" => aUser[u].tries # 0
    BY <1>0
  <2>2. \A v \in UserSet : v # u => aUser'[v] = aUser[v]
    BY <1>0
  <2> QED
    BY <2>1, <2>2 DEF AutomationInv, NovaIsPromoted, AskNova, UserSet
<1>4. NoForgottenRun' /\ RunningIsCurrent' /\ IdleRunIsTimed'
  BY <1>0 DEF AutomationInv, AskNova, managerVars, selectionVars, NoForgottenRun,
       RunningIsCurrent, IdleRunIsTimed, UserSet
<1>5. FallbackReleasesNova'
  <2> SUFFICES ASSUME NEW v \in Readers, aUser'[v].pc = "dump", aUser'[v].used # 0
      PROVE  LET g == aUser'[v].used IN
             \/ aProc[g].pc # "alive" \/ aProc[g].cancelled
             \/ \E w \in UserSet : aUser'[w].pc = "cancel" /\ aUser'[w].run = g
    BY DEF FallbackReleasesNova, AskNova
  <2> DEFINE g == aUser'[v].used
  <2>1. g \in Runs
    BY <1>0, AutomationAssumption DEF Caller, Runs, UserSet
  <2>2. \/ aProc[g].pc # "alive" \/ aProc[g].cancelled
        \/ \E w \in UserSet : aUser[w].pc = "cancel" /\ aUser[w].run = g
    <3>1. CASE v = u
      BY <1>0, <2>1, <3>1 DEF AutomationInv, NoForgottenRun, NovaIsPromoted
    <3>2. CASE v # u
      BY <1>0, <3>2 DEF AutomationInv, FallbackReleasesNova, UserSet
    <3>3. QED
      BY <3>1, <3>2
  <2>3. QED
    BY <1>0, <2>2
<1>6. SlotIsFree'
  BY <1>0 DEF AutomationInv, AskNova, managerVars, selectionVars, SlotIsFree, CallersComeBack,
       AutomationTypeOK, UserSet
<1> QED
  BY <1>1, <1>2, <1>3, <1>4, <1>5, <1>6 DEF AutomationInv

LEMMA DumpSystemMoves ==
  ASSUME AutomationInv, NEW u \in UserSet, DumpSystem(u)
  PROVE
  /\ aUser' \in [UserSet -> Caller]
  /\ \A v \in UserSet : v # u => aUser'[v] = aUser[v]
  /\ aUser[u].pc = "dump" /\ aUser'[u].pc \in {"compare", "return", "again", "promote"}
  /\ aUser'[u].tries = aUser[u].tries /\ aUser'[u].back = aUser[u].back
  /\ aUser'[u].run = 0 /\ aUser'[u].used = 0
  /\ aUser'[u].waited => aUser[u].waited
  /\ aUser'[u].pc = "again" => aUser[u].tries # 0
  /\ aBadDump' # aBadDump =>
         aBadDump' = TRUE /\ (aMode = "nova" \/ aUser'[u].pc = "promote" \/ aUser[u].tries # 0)
<1>1. CASE Step(u, "dump", To(u, "compare")) /\ aBadDump' = aBadDump
  <2> DEFINE to == [aUser[u] EXCEPT !.pc = "compare"]
  <2>1. aUser \in [UserSet -> Caller] /\ aUser[u] \in Caller
    BY NobodyIsCaller DEF AutomationInv, AutomationTypeOK
  <2>2. aUser[u].pc = "dump" /\ Step(u, "dump", to)
    BY <1>1, <2>1 DEF DumpSystem, Step, EnterStart, To
  <2>3. "compare" \in CallerPlaces
    BY <1>1, <2>1, <2>2, AutomationAssumption
       DEF DumpSystem, AutomationInv, AutomationTypeOK, CallersComeBack, Caller, Starting,
            Stopping, Asking, CallerPlaces, Callbacks, Runs
  <2>4. to \in Caller
    BY <2>1, <2>3 DEF Caller
  <2>5. Moved(u, to)
    <3> HIDE DEF to
    <3> QED
      BY <2>1, <2>2, <2>4, StepMoves
  <2> QED
    BY <1>1, <2>1, <2>2, <2>5 DEF Moved, DumpSystem, AutomationInv, CallersComeBack,
         NovaIsPromoted, Caller, Nobody, Starting, Stopping
<1>2. CASE Step(u, "dump", To(u,
  IF aUser[u].tries = 0 THEN (IF aMode = "nova" /\ aRunning THEN "return" ELSE "promote") ELSE "again")) /\ aBadDump' = TRUE
  <2> DEFINE pc == IF aUser[u].tries = 0 THEN (IF aMode = "nova" /\ aRunning THEN "return" ELSE "promote") ELSE "again"
             to == [aUser[u] EXCEPT !.pc = pc]
  <2>1. aUser \in [UserSet -> Caller] /\ aUser[u] \in Caller
    BY NobodyIsCaller DEF AutomationInv, AutomationTypeOK
  <2>2. aUser[u].pc = "dump" /\ Step(u, "dump", to)
    BY <1>2, <2>1 DEF DumpSystem, Step, EnterStart, To
  <2>3. pc \in CallerPlaces
    BY <1>2, <2>1, <2>2, AutomationAssumption
       DEF DumpSystem, AutomationInv, AutomationTypeOK, CallersComeBack, Caller, Starting,
            Stopping, Asking, CallerPlaces, Callbacks, Runs
  <2>4. to \in Caller
    <3> HIDE DEF pc
    <3> QED
      BY <2>1, <2>3 DEF Caller
  <2>5. Moved(u, to)
    <3> HIDE DEF to
    <3> QED
      BY <2>1, <2>2, <2>4, StepMoves
  <2> QED
    BY <1>2, <2>1, <2>2, <2>5 DEF Moved, DumpSystem, AutomationInv, CallersComeBack,
         NovaIsPromoted, Caller, Nobody, Starting, Stopping
<1>3. CASE Step(u, "dump", To(u,
  IF aUser[u].tries = 0 THEN "return" ELSE "again")) /\ aBadDump' = aBadDump
  <2> DEFINE pc == IF aUser[u].tries = 0 THEN "return" ELSE "again"
             to == [aUser[u] EXCEPT !.pc = pc]
  <2>1. aUser \in [UserSet -> Caller] /\ aUser[u] \in Caller
    BY NobodyIsCaller DEF AutomationInv, AutomationTypeOK
  <2>2. aUser[u].pc = "dump" /\ Step(u, "dump", to)
    BY <1>3, <2>1 DEF DumpSystem, Step, EnterStart, To
  <2>3. pc \in CallerPlaces
    BY <1>3, <2>1, <2>2, AutomationAssumption
       DEF DumpSystem, AutomationInv, AutomationTypeOK, CallersComeBack, Caller, Starting,
            Stopping, Asking, CallerPlaces, Callbacks, Runs
  <2>4. to \in Caller
    <3> HIDE DEF pc
    <3> QED
      BY <2>1, <2>3 DEF Caller
  <2>5. Moved(u, to)
    <3> HIDE DEF to
    <3> QED
      BY <2>1, <2>2, <2>4, StepMoves
  <2> QED
    BY <1>3, <2>1, <2>2, <2>5 DEF Moved, DumpSystem, AutomationInv, CallersComeBack,
         NovaIsPromoted, Caller, Nobody, Starting, Stopping
<1> QED
  BY <1>1, <1>2, <1>3 DEF DumpSystem, EnterStart, To

LEMMA DumpSystemKeeps ==
  ASSUME AutomationInv, NEW u \in UserSet, DumpSystem(u)
  PROVE  AutomationInv'
<1>0.
  /\ aUser' \in [UserSet -> Caller]
  /\ \A v \in UserSet : v # u => aUser'[v] = aUser[v]
  /\ aUser[u].pc = "dump" /\ aUser'[u].pc \in {"compare", "return", "again", "promote"}
  /\ aUser'[u].tries = aUser[u].tries /\ aUser'[u].back = aUser[u].back
  /\ aUser'[u].run = 0 /\ aUser'[u].used = 0
  /\ aUser'[u].waited => aUser[u].waited
  /\ aUser'[u].pc = "again" => aUser[u].tries # 0
  /\ aBadDump' # aBadDump =>
         aBadDump' = TRUE /\ (aMode = "nova" \/ aUser'[u].pc = "promote" \/ aUser[u].tries # 0)
  BY DumpSystemMoves
<1>1. AutomationTypeOK'
  BY <1>0, AutomationAssumption DEF AutomationInv, DumpSystem, managerVars, selectionVars,
       AutomationTypeOK
<1>2. CallersComeBack'
  BY <1>0 DEF AutomationInv, DumpSystem, managerVars, selectionVars, CallersComeBack, Starting,
       Stopping, UserSet
<1>3. GenerationsAreBegun'
    BY <1>0, CallerKeepsGenerations DEF DumpSystem, managerVars, selectionVars
<1>4. NovaIsPromoted'
  BY <1>0, AutomationAssumption DEF AutomationInv, DumpSystem, managerVars, selectionVars,
       NovaIsPromoted, UserSet, AutomationTypeOK, CallersComeBack, Starting, Stopping, Runs
<1>5. NoForgottenRun' /\ RunningIsCurrent' /\ IdleRunIsTimed'
  BY <1>0 DEF AutomationInv, DumpSystem, managerVars, selectionVars, NoForgottenRun,
       RunningIsCurrent, IdleRunIsTimed, UserSet
<1>6. FallbackReleasesNova' /\ SlotIsFree'
  BY <1>0, AutomationAssumption DEF AutomationInv, DumpSystem, managerVars, selectionVars,
       FallbackReleasesNova, NoForgottenRun, UserSet, SlotIsFree, CallersComeBack,
    AutomationTypeOK
<1> QED
  BY <1>1, <1>2, <1>3, <1>4, <1>5, <1>6 DEF AutomationInv

LEMMA PromoteMoves ==
  ASSUME AutomationInv, NEW u \in UserSet, Promote(u)
  PROVE
  /\ aUser' \in [UserSet -> Caller]
  /\ \A v \in UserSet : v # u => aUser'[v] = aUser[v]
  /\ aUser[u].pc = "promote"
  /\ aUser'[u].pc \in {"retry", "packages"} /\ aUser'[u].back = "retry"
  /\ aUser'[u].tries = aUser[u].tries
  /\ aUser'[u].run = 0 /\ aUser'[u].used = 0
  /\ aUser'[u].waited = aUser[u].waited
<1> DEFINE pc == IF aRunning THEN "retry" ELSE "packages"
           to == [aUser[u] EXCEPT !.pc = pc, !.back = "retry"]
<1>1. aUser \in [UserSet -> Caller] /\ aUser[u] \in Caller
  BY NobodyIsCaller DEF AutomationInv, AutomationTypeOK
<1>2. aUser[u].pc = "promote" /\ Step(u, "promote", to)
  BY <1>1 DEF Promote, Step, EnterStart, To
<1>3. pc \in CallerPlaces /\ "retry" \in Callbacks
  BY <1>1, <1>2, AutomationAssumption
     DEF Promote, AutomationInv, AutomationTypeOK, CallersComeBack, Caller, Starting, Stopping,
          Asking, CallerPlaces, Callbacks, Runs
<1>4. to \in Caller
  <2> HIDE DEF pc
  <2> QED
    BY <1>1, <1>3 DEF Caller
<1>5. Moved(u, to)
  <2> HIDE DEF to
  <2> QED
    BY <1>1, <1>2, <1>4, StepMoves
<1> QED
  BY <1>1, <1>2, <1>5 DEF Moved, Promote, AutomationInv, CallersComeBack, NovaIsPromoted,
       Caller, Nobody, Starting, Stopping

LEMMA PromoteKeeps ==
  ASSUME AutomationInv, NEW u \in UserSet, Promote(u)
  PROVE  AutomationInv'
<1>1. AutomationTypeOK' /\ CallersComeBack'
  BY PromoteMoves, AutomationAssumption DEF AutomationInv, Promote, managerVars, selectionVars,
       AutomationTypeOK, CallersComeBack, Starting, Stopping, UserSet
<1>2. GenerationsAreBegun'
    BY PromoteMoves, CallerKeepsGenerations DEF Promote, managerVars, selectionVars
<1>3. NovaIsPromoted'
  BY PromoteMoves DEF AutomationInv, Promote, managerVars, selectionVars, NovaIsPromoted, UserSet
<1>4. NoForgottenRun' /\ RunningIsCurrent' /\ IdleRunIsTimed'
  BY PromoteMoves DEF AutomationInv, Promote, managerVars, selectionVars, NoForgottenRun,
       RunningIsCurrent, IdleRunIsTimed, UserSet
<1>5. FallbackReleasesNova' /\ SlotIsFree'
  BY PromoteMoves, AutomationAssumption DEF AutomationInv, Promote, managerVars, selectionVars,
       FallbackReleasesNova, NoForgottenRun, UserSet, SlotIsFree, CallersComeBack,
    AutomationTypeOK
<1> QED
  BY <1>1, <1>2, <1>3, <1>4, <1>5 DEF AutomationInv

LEMMA RetryMoves ==
  ASSUME AutomationInv, NEW u \in UserSet, Retry(u)
  PROVE
  /\ aUser' \in [UserSet -> Caller]
  /\ \A v \in UserSet : v # u => aUser'[v] = aUser[v]
  /\ aUser[u].pc \in {"retry", "again"} /\ aUser'[u].pc \in {"ensure", "return"}
  /\ aUser'[u].back = aUser[u].back
  /\ aUser'[u].run = 0 /\ aUser'[u].used = 0
  /\ ~aUser'[u].waited
<1>1. CASE Step(u, "retry", [aUser[u] EXCEPT !.pc = "ensure", !.tries = 1])
  <2> DEFINE to == [aUser[u] EXCEPT !.pc = "ensure", !.tries = 1]
  <2>1. aUser \in [UserSet -> Caller] /\ aUser[u] \in Caller
    BY NobodyIsCaller DEF AutomationInv, AutomationTypeOK
  <2>2. aUser[u].pc = "retry" /\ Step(u, "retry", to)
    BY <1>1, <2>1 DEF Retry, Step, EnterStart, To
  <2>3. "ensure" \in CallerPlaces /\ 1 \in Nat
    BY <1>1, <2>1, <2>2, AutomationAssumption
       DEF Retry, AutomationInv, AutomationTypeOK, CallersComeBack, Caller, Starting, Stopping,
            Asking, CallerPlaces, Callbacks, Runs
  <2>4. to \in Caller
    BY <2>1, <2>3 DEF Caller
  <2>5. Moved(u, to)
    <3> HIDE DEF to
    <3> QED
      BY <2>1, <2>2, <2>4, StepMoves
  <2> QED
    BY <1>1, <2>1, <2>2, <2>5 DEF Moved, Retry, AutomationInv, CallersComeBack, NovaIsPromoted,
         Caller, Nobody, Starting, Stopping
<1>2. CASE Step(u, "again", [aUser[u] EXCEPT !.pc = "ensure", !.tries = @ + 1])
  <2> DEFINE tries == aUser[u].tries + 1
             to == [aUser[u] EXCEPT !.pc = "ensure", !.tries = tries]
  <2>1. aUser \in [UserSet -> Caller] /\ aUser[u] \in Caller
    BY NobodyIsCaller DEF AutomationInv, AutomationTypeOK
  <2>2. aUser[u].pc = "again" /\ Step(u, "again", to)
    BY <1>2, <2>1 DEF Retry, Step, EnterStart, To
  <2>3. "ensure" \in CallerPlaces /\ tries \in Nat
    BY <1>2, <2>1, <2>2, AutomationAssumption
       DEF Retry, AutomationInv, AutomationTypeOK, CallersComeBack, Caller, Starting, Stopping,
            Asking, CallerPlaces, Callbacks, Runs
  <2>4. to \in Caller
    <3> HIDE DEF tries
    <3> QED
      BY <2>1, <2>3 DEF Caller
  <2>5. Moved(u, to)
    <3> HIDE DEF to
    <3> QED
      BY <2>1, <2>2, <2>4, StepMoves
  <2> QED
    BY <1>2, <2>1, <2>2, <2>5 DEF Moved, Retry, AutomationInv, CallersComeBack, NovaIsPromoted,
         Caller, Nobody, Starting, Stopping
<1>3. CASE Step(u, "again", To(u, "return"))
  <2> DEFINE to == [aUser[u] EXCEPT !.pc = "return"]
  <2>1. aUser \in [UserSet -> Caller] /\ aUser[u] \in Caller
    BY NobodyIsCaller DEF AutomationInv, AutomationTypeOK
  <2>2. aUser[u].pc = "again" /\ Step(u, "again", to)
    BY <1>3, <2>1 DEF Retry, Step, EnterStart, To
  <2>3. "return" \in CallerPlaces
    BY <1>3, <2>1, <2>2, AutomationAssumption
       DEF Retry, AutomationInv, AutomationTypeOK, CallersComeBack, Caller, Starting, Stopping,
            Asking, CallerPlaces, Callbacks, Runs
  <2>4. to \in Caller
    BY <2>1, <2>3 DEF Caller
  <2>5. Moved(u, to)
    <3> HIDE DEF to
    <3> QED
      BY <2>1, <2>2, <2>4, StepMoves
  <2> QED
    BY <1>3, <2>1, <2>2, <2>5 DEF Moved, Retry, AutomationInv, CallersComeBack, NovaIsPromoted,
         Caller, Nobody, Starting, Stopping
<1> QED
  BY <1>1, <1>2, <1>3 DEF Retry, EnterStart, To

LEMMA RetryKeeps ==
  ASSUME AutomationInv, NEW u \in UserSet, Retry(u)
  PROVE  AutomationInv'
<1>0.
  /\ aUser' \in [UserSet -> Caller]
  /\ \A v \in UserSet : v # u => aUser'[v] = aUser[v]
  /\ aUser[u].pc \in {"retry", "again"} /\ aUser'[u].pc \in {"ensure", "return"}
  /\ aUser'[u].back = aUser[u].back
  /\ aUser'[u].run = 0 /\ aUser'[u].used = 0
  /\ ~aUser'[u].waited
  BY RetryMoves
<1>1. AutomationTypeOK' /\ CallersComeBack'
  BY <1>0, AutomationAssumption DEF AutomationInv, Retry, managerVars, selectionVars,
       AutomationTypeOK, CallersComeBack, Starting, Stopping, UserSet
<1>2. GenerationsAreBegun'
    BY <1>0, CallerKeepsGenerations DEF Retry, managerVars, selectionVars
<1>3. NovaIsPromoted'
  BY <1>0 DEF AutomationInv, Retry, managerVars, selectionVars, NovaIsPromoted, UserSet
<1>4. NoForgottenRun' /\ RunningIsCurrent' /\ IdleRunIsTimed'
  BY <1>0 DEF AutomationInv, Retry, managerVars, selectionVars, NoForgottenRun,
       RunningIsCurrent, IdleRunIsTimed, UserSet
<1>5. FallbackReleasesNova' /\ SlotIsFree'
  BY <1>0, AutomationAssumption DEF AutomationInv, Retry, managerVars, selectionVars,
       FallbackReleasesNova, NoForgottenRun, UserSet, SlotIsFree, CallersComeBack,
    AutomationTypeOK
<1> QED
  BY <1>1, <1>2, <1>3, <1>4, <1>5 DEF AutomationInv

LEMMA StartShadowMoves ==
  ASSUME AutomationInv, NEW u \in UserSet, StartShadow(u)
  PROVE
  /\ aUser' \in [UserSet -> Caller]
  /\ \A v \in UserSet : v # u => aUser'[v] = aUser[v]
  /\ aUser[u].pc = "compare" /\ aUser'[u].pc = "return"
  /\ aUser'[u].tries = aUser[u].tries /\ aUser'[u].back = aUser[u].back
  /\ aUser'[u].run = 0 /\ aUser'[u].used = 0
  /\ ~aUser'[u].waited
<1> DEFINE to == [aUser[u] EXCEPT !.pc = "return"]
<1>1. aUser \in [UserSet -> Caller] /\ aUser[u] \in Caller
  BY NobodyIsCaller DEF AutomationInv, AutomationTypeOK
<1>2. aUser[u].pc = "compare" /\ Step(u, "compare", to)
  BY <1>1 DEF StartShadow, Step, EnterStart, To
<1>3. "return" \in CallerPlaces
  BY <1>1, <1>2, AutomationAssumption
     DEF StartShadow, AutomationInv, AutomationTypeOK, CallersComeBack, Caller, Starting,
          Stopping, Asking, CallerPlaces, Callbacks, Runs
<1>4. to \in Caller
  BY <1>1, <1>3 DEF Caller
<1>5. Moved(u, to)
  <2> HIDE DEF to
  <2> QED
    BY <1>1, <1>2, <1>4, StepMoves
<1> QED
  BY <1>1, <1>2, <1>5 DEF Moved, StartShadow, AutomationInv, CallersComeBack, NovaIsPromoted,
       Caller, Nobody, Starting, Stopping

LEMMA StartShadowKeeps ==
  ASSUME AutomationInv, NEW u \in UserSet, StartShadow(u)
  PROVE  AutomationInv'
<1>1. AutomationTypeOK' /\ CallersComeBack'
  BY StartShadowMoves, AutomationAssumption DEF AutomationInv, StartShadow, managerVars,
       selectionVars, AutomationTypeOK, CallersComeBack, Starting, Stopping, UserSet
<1>2. GenerationsAreBegun'
    BY StartShadowMoves, CallerKeepsGenerations DEF StartShadow, managerVars, selectionVars
<1>3. NovaIsPromoted'
  BY StartShadowMoves DEF AutomationInv, StartShadow, managerVars, selectionVars,
       NovaIsPromoted, UserSet
<1>4. NoForgottenRun' /\ RunningIsCurrent' /\ IdleRunIsTimed'
  BY StartShadowMoves DEF AutomationInv, StartShadow, managerVars, selectionVars,
       NoForgottenRun, RunningIsCurrent, IdleRunIsTimed, UserSet
<1>5. FallbackReleasesNova' /\ SlotIsFree'
  BY StartShadowMoves, AutomationAssumption DEF AutomationInv, StartShadow, managerVars,
       selectionVars, FallbackReleasesNova, NoForgottenRun, UserSet, SlotIsFree,
    CallersComeBack, AutomationTypeOK, Starting, Stopping, Runs
<1> QED
  BY <1>1, <1>2, <1>3, <1>4, <1>5 DEF AutomationInv

LEMMA ReturnHierarchyMoves ==
  ASSUME AutomationInv, NEW u \in UserSet, ReturnHierarchy(u)
  PROVE
  /\ aUser' \in [UserSet -> Caller]
  /\ \A v \in UserSet : v # u => aUser'[v] = aUser[v]
  /\ aUser[u].pc = "return" /\ aUser'[u].pc = "idle" /\ aUser'[u].back = "idle"
  /\ aUser'[u].tries = 0 /\ ~aUser'[u].waited
  /\ aUser'[u].run = 0 /\ aUser'[u].used = 0
<1>1. aUser \in [UserSet -> Caller] /\ Nobody \in Caller /\ Step(u, "return", Nobody)
  BY NobodyIsCaller DEF ReturnHierarchy, AutomationInv, AutomationTypeOK
<1>2. aUser[u].pc = "return" /\ Moved(u, Nobody)
  BY <1>1, StepMoves
<1> QED
  BY <1>2 DEF Moved, Nobody

LEMMA ReturnHierarchyKeeps ==
  ASSUME AutomationInv, NEW u \in UserSet, ReturnHierarchy(u)
  PROVE  AutomationInv'
<1>1. AutomationTypeOK' /\ CallersComeBack'
  BY ReturnHierarchyMoves, AutomationAssumption DEF AutomationInv, ReturnHierarchy, managerVars,
       selectionVars, AutomationTypeOK, CallersComeBack, Starting, Stopping, UserSet
<1>2. GenerationsAreBegun'
    BY ReturnHierarchyMoves, CallerKeepsGenerations DEF ReturnHierarchy, managerVars,
         selectionVars
<1>3. NovaIsPromoted'
  BY ReturnHierarchyMoves DEF AutomationInv, ReturnHierarchy, managerVars, selectionVars,
       NovaIsPromoted, UserSet
<1>4. NoForgottenRun' /\ RunningIsCurrent' /\ IdleRunIsTimed'
  BY ReturnHierarchyMoves DEF AutomationInv, ReturnHierarchy, managerVars, selectionVars,
       NoForgottenRun, RunningIsCurrent, IdleRunIsTimed, UserSet
<1>5. FallbackReleasesNova' /\ SlotIsFree'
  BY ReturnHierarchyMoves, AutomationAssumption DEF AutomationInv, ReturnHierarchy, managerVars,
       selectionVars, FallbackReleasesNova, NoForgottenRun, UserSet, SlotIsFree,
    CallersComeBack, AutomationTypeOK
<1> QED
  BY <1>1, <1>2, <1>3, <1>4, <1>5 DEF AutomationInv

-----------------------------------------------------------------------------
(* What no caller does: the end of a shadow comparison and of an instrumentation. *)

LEMMA ShadowEndsKeeps ==
  ASSUME AutomationInv, ShadowEnds
  PROVE  AutomationInv'
<1> USE DEF ShadowEnds, managerVars, selectionVars
<1>1. AutomationTypeOK' /\ CallersComeBack' /\ GenerationsAreBegun'
  BY DEF AutomationInv, AutomationTypeOK, CallersComeBack, GenerationsAreBegun
<1>2. NovaIsPromoted' /\ NoForgottenRun' /\ RunningIsCurrent' /\ IdleRunIsTimed'
  BY DEF AutomationInv, NovaIsPromoted, NoForgottenRun, RunningIsCurrent, IdleRunIsTimed
<1>3. FallbackReleasesNova' /\ SlotIsFree'
  BY DEF AutomationInv, FallbackReleasesNova, SlotIsFree
<1> QED
  BY <1>1, <1>2, <1>3 DEF AutomationInv

LEMMA InstrumentationEndsKeeps ==
  ASSUME AutomationInv, NEW g \in Runs, InstrumentationEnds(g)
  PROVE  AutomationInv'
<1>1. /\ aProc[g].pc = "alive" /\ aProc'[g].pc = "over"
      /\ \A h \in Runs : h # g => aProc'[h] = aProc[h]
      /\ UNCHANGED <<aMode, aBadDump, aRunning, aGen, aCancel, aTimer, aProviders, aShadow, aSlot,
                     aCapture, aUser>>
  BY DEF InstrumentationEnds, AutomationInv, AutomationTypeOK, OverProcess, managerVars, selectionVars
<1>2. AutomationTypeOK'
  BY <1>1 DEF InstrumentationEnds, AutomationInv, AutomationTypeOK, OverProcess
<1>3. CallersComeBack' /\ IdleRunIsTimed' /\ SlotIsFree'
  BY <1>1 DEF AutomationInv, CallersComeBack, IdleRunIsTimed, SlotIsFree
<1>4. GenerationsAreBegun' /\ NovaIsPromoted'
  BY <1>1 DEF AutomationInv, GenerationsAreBegun, NovaIsPromoted
<1>5. NoForgottenRun' /\ RunningIsCurrent'
  BY <1>1, AutomationAssumption
     DEF AutomationInv, AutomationTypeOK, GenerationsAreBegun, NoForgottenRun, RunningIsCurrent, Runs
<1>6. FallbackReleasesNova'
  BY <1>1, AutomationAssumption
     DEF AutomationInv, AutomationTypeOK, FallbackReleasesNova, UserSet, Caller, Runs
<1> QED
  BY <1>2, <1>3, <1>4, <1>5, <1>6 DEF AutomationInv

LEMMA InstrumentationExitedKeeps ==
  ASSUME AutomationInv, NEW g \in Runs, InstrumentationExited(g)
  PROVE  AutomationInv'
<1>1. /\ aProc[g].pc \in {"over", "reset"} /\ aProc'[g].pc \in {"reset", "reported"}
      /\ \A h \in Runs : h # g => aProc'[h] = aProc[h]
      /\ UNCHANGED <<aMode, aBadDump, aGen, aSlot, aCapture, aUser>>
      /\ aProviders' \in {0, aProviders} /\ aShadow' \in {FALSE, aShadow} /\ aCancel' \in {0, aCancel}
      /\ aProc[g].pc = "over" /\ aGen = g => aRunning' = FALSE /\ aTimer' = FALSE
      /\ aProc[g].pc = "reset" \/ aGen # g => UNCHANGED <<aRunning, aCancel, aTimer>>
  BY DEF InstrumentationExited, AutomationInv, AutomationTypeOK, managerVars, selectionVars
<1>2. aProc' \in [Runs -> [pc : {"none", "alive", "over", "reset", "reported"}, cancelled : BOOLEAN]]
  BY DEF InstrumentationExited, AutomationInv, AutomationTypeOK
<1>3. aGen \in Nat /\ 0 <= aGen /\ (aRunning => aGen \in Runs)
  BY AutomationAssumption DEF AutomationInv, AutomationTypeOK, GenerationsAreBegun, Runs
<1>4. AutomationTypeOK'
  <2>1. aRunning' \in BOOLEAN /\ aTimer' \in BOOLEAN /\ aShadow' \in BOOLEAN
    BY <1>1 DEF AutomationInv, AutomationTypeOK
  <2>2. aCancel' \in 0 .. MaxInstrumentations /\ aProviders' \in 0 .. MaxInstrumentations
    BY <1>1, AutomationAssumption DEF AutomationInv, AutomationTypeOK
  <2> QED
    BY <1>1, <1>2, <2>1, <2>2 DEF AutomationInv, AutomationTypeOK
<1>5. CallersComeBack' /\ SlotIsFree'
  BY <1>1 DEF AutomationInv, CallersComeBack, SlotIsFree
<1>6. GenerationsAreBegun'
  BY <1>1, <1>3 DEF AutomationInv, AutomationTypeOK, GenerationsAreBegun
<1>7. NovaIsPromoted'
  BY <1>1 DEF AutomationInv, NovaIsPromoted
<1>8. NoForgottenRun'
  BY <1>1, <1>3 DEF AutomationInv, NoForgottenRun
<1>9. RunningIsCurrent'
  BY <1>1, <1>3 DEF AutomationInv, AutomationTypeOK, RunningIsCurrent
<1>10. IdleRunIsTimed'
  <2>1. aRunning' => aRunning /\ aTimer' = aTimer
    BY <1>1
  <2> QED
    BY <1>1, <2>1 DEF AutomationInv, IdleRunIsTimed
<1>11. FallbackReleasesNova'
  <2>1. \A u \in Readers : aUser[u].used # 0 => aUser[u].used \in Runs
    BY AutomationAssumption DEF AutomationInv, AutomationTypeOK, UserSet, Caller, Runs
  <2> QED
    BY <1>1, <2>1 DEF AutomationInv, FallbackReleasesNova
<1> QED
  BY <1>4, <1>5, <1>6, <1>7, <1>8, <1>9, <1>10, <1>11 DEF AutomationInv

-----------------------------------------------------------------------------

LEMMA AutomationStarts == AutomationInit => AutomationInv
<1> SUFFICES ASSUME AutomationInit PROVE AutomationInv
  OBVIOUS
<1>1. \A u \in UserSet : aUser[u] = Nobody
  BY DEF AutomationInit
<1>2. AutomationTypeOK
  BY <1>1, NobodyIsCaller, AutomationAssumption, 0 \in 0 .. MaxInstrumentations
     DEF AutomationInit, AutomationTypeOK
<1>3. CallersComeBack
  BY <1>1 DEF AutomationInit, CallersComeBack, Nobody, UserSet, Starting, Stopping
<1>4. GenerationsAreBegun
  BY <1>1 DEF AutomationInit, GenerationsAreBegun, Nobody
<1>7. NovaIsPromoted
  BY <1>1 DEF AutomationInit, NovaIsPromoted, Nobody, UserSet
<1>5. NoForgottenRun /\ RunningIsCurrent /\ IdleRunIsTimed
  BY DEF AutomationInit, NoForgottenRun, RunningIsCurrent, IdleRunIsTimed
<1>6. FallbackReleasesNova /\ SlotIsFree
  BY <1>1 DEF AutomationInit, FallbackReleasesNova, SlotIsFree, Nobody, UserSet
<1> QED
  BY <1>2, <1>3, <1>4, <1>7, <1>5, <1>6 DEF AutomationInv

LEMMA AutomationKeeps == AutomationInv /\ [AutomationNext]_automationVars => AutomationInv'
<1> SUFFICES ASSUME AutomationInv, [AutomationNext]_automationVars PROVE AutomationInv'
  OBVIOUS
<1>1. CASE \E u \in UserSet : CallStart(u) \/ CallStop(u) \/ CallHierarchy(u)
  BY <1>1, CallStartKeeps, CallStopKeeps, CallHierarchyKeeps
<1>2. CASE \E u \in UserSet : UserStep(u)
  <2>1. PICK u \in UserSet : UserStep(u)
    BY <1>2
  <2>2. CASE StartFails(u) \/ ClaimRun(u) \/ ArmTimer(u) \/ NovaReady(u) \/ SelectNova(u) \/ NovaNotReady(u)
    BY <2>2, StartFailsKeeps, ClaimRunKeeps, ArmTimerKeeps, NovaReadyKeeps, SelectNovaKeeps, NovaNotReadyKeeps
  <2>3. CASE StopRun(u) \/ CancelRun(u) \/ ForceStop(u)
    BY <2>3, StopRunKeeps, CancelRunKeeps, ForceStopKeeps
  <2>4. CASE EnsureNova(u) \/ WaitShadow(u) \/ TakeProviders(u) \/ AskNova(u) \/ DumpSystem(u)
    BY <2>4, EnsureNovaKeeps, WaitShadowKeeps, TakeProvidersKeeps, AskNovaKeeps, DumpSystemKeeps
  <2>5. CASE Promote(u) \/ Retry(u) \/ StartShadow(u) \/ ReturnHierarchy(u)
    BY <2>5, PromoteKeeps, RetryKeeps, StartShadowKeeps, ReturnHierarchyKeeps
  <2> QED
    BY <2>1, <2>2, <2>3, <2>4, <2>5 DEF UserStep
<1>3. CASE TimerFires \/ ShadowEnds
  BY <1>3, TimerFiresKeeps, ShadowEndsKeeps
<1>4. CASE \E g \in Runs : InstrumentationEnds(g) \/ InstrumentationExited(g)
  BY <1>4, InstrumentationEndsKeeps, InstrumentationExitedKeeps
<1>5. CASE UNCHANGED automationVars
  <2> USE <1>5 DEF automationVars
  <2>1. AutomationTypeOK' /\ CallersComeBack' /\ GenerationsAreBegun'
    BY DEF AutomationInv, AutomationTypeOK, CallersComeBack, GenerationsAreBegun
  <2>2. NovaIsPromoted' /\ NoForgottenRun' /\ RunningIsCurrent' /\ IdleRunIsTimed'
    BY DEF AutomationInv, NovaIsPromoted, NoForgottenRun, RunningIsCurrent, IdleRunIsTimed
  <2>3. FallbackReleasesNova' /\ SlotIsFree'
    BY DEF AutomationInv, FallbackReleasesNova, SlotIsFree
  <2> QED
    BY <2>1, <2>2, <2>3 DEF AutomationInv
<1> QED
  BY <1>1, <1>2, <1>3, <1>4, <1>5 DEF AutomationNext

\* The strengthening holds in every state the manager of the companion can reach.
THEOREM AutomationInvariant == AutomationSpec => []AutomationInv
<1>1. AutomationInit => AutomationInv
  BY AutomationStarts
<1>2. AutomationInv /\ [AutomationNext]_automationVars => AutomationInv'
  BY AutomationKeeps
<1> QED
  BY <1>1, <1>2, PTL DEF AutomationSpec

\* For any number of callers and readers, any bound on the generations and any number of
\* retries: no instrumentation is forgotten by Start, Stop and instrumentationExited, "running"
\* is only said of a run whose end is not reported, an idle run is timed, the system's dump is
\* a fallback of a Nova that has been released, and a dump that has waited for the shadow's
\* slot has the device to itself.
THEOREM AutomationIsSafe == AutomationSpec => []AutomationSafe
<1>1. AutomationInv => DumpWithoutShadow
  BY DEF AutomationInv, SlotIsFree, DumpWithoutShadow, UserSet
<1>2. AutomationInv => AutomationSafe
  BY <1>1 DEF AutomationInv, AutomationSafe
<1> QED
  BY <1>2, AutomationInvariant, PTL
====
