---- MODULE ArtifactSessions ----
(* The session directories of one package and kind (artifacts/paths.go): named by *)
(* the second they begin in, with a number when the name is taken.  A replay, an  *)
(* exploration or a startup measurement writes beside the place, under a reserved *)
(* name, and renames when all is there; a runner or a performance session makes   *)
(* its directory first and fills it while it runs.  Each kind has one writer at a *)
(* time.  The device's clock may be set back, and the agent may die at any point. *)
EXTENDS Integers, FiniteSets, FiniteSetsExt

CONSTANTS
  Seconds,       \* the times the clock may show, integers
  MaxSessions,   \* directories kept: 200
  MaxBegun,      \* bound on the sessions of a behaviour
  MaxDeaths      \* bound on the crashes of a behaviour

ASSUME SessionsAssumption ==
  Seconds \subseteq Int /\ MaxSessions \in Nat \ {0} /\ MaxBegun \in Nat /\ MaxDeaths \in Nat

VARIABLES
  nStaged,     \* the kind writes beside the place and renames
  nClock,      \* the civil time of the device
  nSessions,   \* the directories in place: the session each belongs to, whether it is whole
  nReserved,   \* the names with a .reserve file
  nWriter,     \* the writer: where it is, its session and its name
  nCount       \* sessions and crashes so far

sessionVars == <<nStaged, nClock, nSessions, nReserved, nWriter, nCount>>

NoWriter == [pc |-> "idle", session |-> 0, name |-> <<0, 0>>]

SessionsInit ==
  /\ nStaged \in BOOLEAN
  /\ nClock \in Seconds
  /\ nSessions = <<>>
  /\ nReserved = {}
  /\ nWriter = NoWriter
  /\ nCount = [begun |-> 0, deaths |-> 0]

\* The first free of S, S_2, S_3, ... for the second S the clock shows.
FreeName ==
  <<nClock, Min({i \in 1 .. MaxBegun + 1 : <<nClock, i>> \notin DOMAIN nSessions \cup nReserved})>>

Older(a, b) == a[1] < b[1] \/ (a[1] = b[1] /\ a[2] < b[2])

\* Mutant: the oldest names go, whoever's they are.
PrunedOldest(names, keep) ==
  {n \in names : Cardinality({m \in names : Older(n, m)}) >= MaxSessions}

\* PruneSessions: in the order of their names, until few enough are left, but not keep.
Pruned(names, keep) ==
  LET others == names \ {keep}
  IN {n \in others : Cardinality({m \in others : Older(n, m)}) >= MaxSessions - 1}

Placed(name, whole) ==
  [n \in DOMAIN nSessions \cup {name} |->
     IF n = name THEN [session |-> nWriter'.session, whole |-> whole] ELSE nSessions[n]]

Drop(names) == nSessions' = [n \in DOMAIN nSessions \ names |-> nSessions[n]]

-----------------------------------------------------------------------------

ClockMoves ==
  /\ \E second \in Seconds \ {nClock} : nClock' = second
  /\ UNCHANGED <<nStaged, nSessions, nReserved, nWriter, nCount>>

Begin(pc) ==
  /\ nWriter.pc = "idle"
  /\ nCount.begun < MaxBegun
  /\ nCount' = [nCount EXCEPT !.begun = @ + 1]
  /\ nWriter' = [pc |-> pc, session |-> nCount.begun + 1, name |-> FreeName]

\* Mutant: the directory is made in its place.
BeginUnstaged ==
  /\ nStaged
  /\ Begin("fill")
  /\ nSessions' = Placed(nWriter'.name, FALSE)
  /\ UNCHANGED <<nStaged, nClock, nReserved>>

\* The name is reserved and a directory made beside it.
BeginStaged ==
  /\ nStaged
  /\ Begin("fill")
  /\ nReserved' = nReserved \cup {nWriter'.name}
  /\ UNCHANGED <<nStaged, nClock, nSessions>>

\* The directory is made in its place, and old ones go at once.
BeginInPlace ==
  /\ ~nStaged
  /\ Begin("prune")
  /\ nSessions' = Placed(nWriter'.name, FALSE)
  /\ UNCHANGED <<nStaged, nClock, nReserved>>

PruneOld ==
  /\ nWriter.pc = "prune"
  /\ Drop(Pruned(DOMAIN nSessions, nWriter.name))
  /\ nWriter' = [nWriter EXCEPT !.pc = IF nStaged THEN "pruned" ELSE "fill"]
  /\ UNCHANGED <<nStaged, nClock, nReserved, nCount>>

\* Not all that should go can be removed.  A directory made in its place for a performance
\* session goes too, one for a runner stays.
PruneFails ==
  /\ nWriter.pc = "prune"
  /\ \E some \in SUBSET Pruned(DOMAIN nSessions, nWriter.name),
        own \in {{}} \cup (IF nStaged THEN {} ELSE {{nWriter.name}}) :
       Drop(some \cup own)
  /\ nWriter' = NoWriter
  /\ UNCHANGED <<nStaged, nClock, nReserved, nCount>>

\* All files are written.
Filled ==
  /\ nWriter.pc = "fill"
  /\ nWriter' = [nWriter EXCEPT !.pc = IF nStaged THEN "unreserve" ELSE "pruned"]
  /\ nSessions' = IF nStaged THEN nSessions ELSE Placed(nWriter.name, TRUE)
  /\ UNCHANGED <<nStaged, nClock, nReserved, nCount>>

\* Commit, in two steps: the reservation goes, then the directory is renamed.
Unreserve ==
  /\ nWriter.pc = "unreserve"
  /\ nReserved' = nReserved \ {nWriter.name}
  /\ nWriter' = [nWriter EXCEPT !.pc = "rename"]
  /\ UNCHANGED <<nStaged, nClock, nSessions, nCount>>

Rename ==
  /\ nWriter.pc = "rename"
  /\ nWriter' = [nWriter EXCEPT !.pc = "prune"]
  /\ nSessions' = Placed(nWriter.name, TRUE)
  /\ UNCHANGED <<nStaged, nClock, nReserved, nCount>>

\* A step fails; the deferred Abort removes what is staged and the reservation.
Abort ==
  /\ nWriter.pc \in {"fill", "unreserve", "rename"} /\ nStaged
  /\ nWriter' = NoWriter
  /\ nReserved' = nReserved \ {nWriter.name}
  /\ UNCHANGED <<nStaged, nClock, nSessions, nCount>>

Published ==
  /\ nWriter.pc = "pruned"
  /\ nWriter' = NoWriter
  /\ UNCHANGED <<nStaged, nClock, nSessions, nReserved, nCount>>

\* A reservation and what is staged stay behind; their names match no session.
AgentDies ==
  /\ nCount.deaths < MaxDeaths
  /\ nCount' = [nCount EXCEPT !.deaths = @ + 1]
  /\ nWriter' = NoWriter
  /\ UNCHANGED <<nStaged, nClock, nSessions, nReserved>>

SessionsNext ==
  \/ ClockMoves
  \/ BeginStaged \/ BeginInPlace \/ PruneOld \/ PruneFails \/ Filled
  \/ Unreserve \/ Rename \/ Abort \/ Published \/ AgentDies

SessionsSpec == SessionsInit /\ [][SessionsNext]_sessionVars

-----------------------------------------------------------------------------

\* The session just pruned for is there itself, wherever the clock puts its name, and no more
\* are kept than there should be.
NewestIsKept ==
  /\ nWriter.pc = "pruned" => /\ nWriter.name \in DOMAIN nSessions
                              /\ nSessions[nWriter.name] = [session |-> nWriter.session, whole |-> TRUE]
  /\ nWriter.pc = "pruned" /\ nStaged => Cardinality(DOMAIN nSessions) <= MaxSessions

\* A directory that was staged is whole, also after a crash.
StagedIsWhole == nStaged => \A n \in DOMAIN nSessions : nSessions[n].whole

SessionDirectoriesSafe == NewestIsKept /\ StagedIsWhole
====
