---- MODULE CaseStore ----
(* The recorded cases on disk: recording_store.go writes a case into a directory *)
(* beside its place and renames it (artifacts/atomic.go), while clients list,    *)
(* load, replay and delete whatever holds a case.json, and a crash may come      *)
(* between any two of these.  RecordReplaySession has the sessions around it; a  *)
(* recording here is one that has ended.  A handler that deletes or starts a     *)
(* replay holds API.executionMu, a finalizer does not.                           *)
(*                                                                               *)
(* os.RemoveAll opens a directory, reads its names, unlinks each in the open     *)
(* directory wherever that has been renamed to, and removes the path if it is    *)
(* empty then.                                                                   *)
EXTENDS Integers, FiniteSets

CONSTANTS
  MaxRecorded,   \* bound on the recordings of a behaviour
  MaxSaves,      \* bound on the attempts to save one
  MaxCases,      \* cases kept for a package: 200
  MaxLosses      \* bound on the crashes of a behaviour

ASSUME CaseStoreAssumption ==
  MaxRecorded \in Nat /\ MaxSaves \in Nat /\ MaxCases \in Nat \ {0} /\ MaxLosses \in Nat

VARIABLES
  csDirs,     \* the directories under <package>/Replay: what of which recording is in each
  csDrafts,   \* the recordings whose draft is on disk
  csPending,  \* the recording in Manager.current that is not saved, 0 for none
  csSave,     \* the finalizer
  csDelete,   \* the DeleteCase under way: the path it is to remove
  csHandle,   \* where the directory is that it has opened
  csNames,    \* the names it read there and has not unlinked
  csDoomed,   \* the directories that pruneCases has still to remove
  csReplay,   \* the recording whose case is replayed, 0 for none
  csGone,     \* the recordings whose draft or case a client deleted, or that were pruned: a
              \* case that is being written is listed as well
  csCount     \* recordings, saves and crashes so far

csDeleteVars == <<csDelete, csHandle, csNames>>
caseStoreVars == <<csDirs, csDrafts, csPending, csSave, csDeleteVars, csDoomed, csReplay, csGone,
                   csCount>>

NoPlace == <<"none", 0>>
NoSave == [pc |-> "none", attempt |-> 0]
Final(r) == <<"final", r>>
Staging(a) == <<"staging", a>>
AllFiles == {"case", "manifest", "evidence"}

CaseStoreInit ==
  /\ csDirs = <<>>
  /\ csDrafts = {}
  /\ csPending = 0
  /\ csSave = NoSave
  /\ csDelete = NoPlace /\ csHandle = NoPlace /\ csNames = {}
  /\ csDoomed = {}
  /\ csReplay = 0
  /\ csGone = {}
  /\ csCount = [recordings |-> 0, saves |-> 0, losses |-> 0]

Exists(place) == place \in DOMAIN csDirs
Without(places) == [p \in DOMAIN csDirs \ places |-> csDirs[p]]
\* The recordings whose saved case is in one of these places.
SavedIn(places) == {r \in 1 .. MaxRecorded : Exists(Final(r)) /\ Final(r) \in places}
Unlinked(place, file) ==
  IF Exists(place) THEN [csDirs EXCEPT ![place].files = @ \ {file}] ELSE csDirs
HasCase(place) == Exists(place) /\ "case" \in csDirs[place].files

\* executionMu is free for a handler that starts or deletes something.
GateFree == csDelete = NoPlace

-----------------------------------------------------------------------------
(* What is to be saved: a recording that ended, or a draft that is finalized. *)

RecordOne ==
  /\ GateFree /\ csPending = 0 /\ csSave = NoSave /\ csReplay = 0
  /\ csCount.recordings < MaxRecorded
  /\ csPending' = csCount.recordings + 1
  /\ csDrafts' = csDrafts \cup {csPending'}
  /\ csCount' = [csCount EXCEPT !.recordings = @ + 1]
  /\ UNCHANGED <<csDirs, csSave, csDeleteVars, csDoomed, csReplay, csGone>>

RecoverDraft(r) ==
  /\ GateFree /\ csPending = 0 /\ csSave = NoSave /\ csReplay = 0
  /\ r \in csDrafts
  /\ csPending' = r
  /\ UNCHANGED <<csDirs, csDrafts, csSave, csDeleteVars, csDoomed, csReplay, csGone, csCount>>

\* The draft of the pending recording is refused.
RemoveDraft(r) ==
  /\ GateFree
  /\ r \in csDrafts /\ r # csPending
  /\ csDrafts' = csDrafts \ {r}
  /\ csGone' = csGone \cup {r}
  /\ UNCHANGED <<csDirs, csPending, csSave, csDeleteVars, csDoomed, csReplay, csCount>>

-----------------------------------------------------------------------------
(* The finalizer.                                                          *)

SaveGoto(pc) == csSave' = [csSave EXCEPT !.pc = pc]

\* BeginDirectory: a directory of that name is an error.
BeginSave ==
  /\ csPending # 0 /\ csSave = NoSave
  /\ csCount.saves < MaxSaves
  /\ ~Exists(Final(csPending))
  /\ csCount' = [csCount EXCEPT !.saves = @ + 1]
  /\ csSave' = [pc |-> "case", attempt |-> csCount.saves + 1]
  /\ csDirs' = [p \in DOMAIN csDirs \cup {Staging(csCount.saves + 1)} |->
                  IF p = Staging(csCount.saves + 1) THEN [rec |-> csPending, files |-> {}, at |-> 0]
                                                    ELSE csDirs[p]]
  /\ UNCHANGED <<csDrafts, csPending, csDeleteVars, csDoomed, csReplay, csGone>>

\* WriteFileAtomic makes the directory when it is not there.
Written(place, file) ==
  [p \in DOMAIN csDirs \cup {place} |->
     IF p # place THEN csDirs[p]
     ELSE [rec   |-> csPending,
           files |-> (IF Exists(place) THEN csDirs[place].files ELSE {}) \cup {file},
           at    |-> csSave.attempt]]

WriteCase ==
  /\ csSave.pc = "case"
  /\ csDirs' = Written(Staging(csSave.attempt), "case")
  /\ SaveGoto("manifest")
  /\ UNCHANGED <<csDrafts, csPending, csDeleteVars, csDoomed, csReplay, csGone, csCount>>

WriteManifest ==
  /\ csSave.pc = "manifest"
  /\ csDirs' = Written(Staging(csSave.attempt), "manifest")
  /\ SaveGoto("index")
  /\ UNCHANGED <<csDrafts, csPending, csDeleteVars, csDoomed, csReplay, csGone, csCount>>

\* BuildForPublication hashes the files it is given; evidence.Write refuses an index with an
\* error, and looks at no file again.
BuildIndex ==
  /\ csSave.pc = "index"
  /\ Exists(Staging(csSave.attempt))
  /\ {"case", "manifest"} \subseteq csDirs[Staging(csSave.attempt)].files
  /\ SaveGoto("evidence")
  /\ UNCHANGED <<csDirs, csDrafts, csPending, csDeleteVars, csDoomed, csReplay, csGone, csCount>>

WriteEvidence ==
  /\ csSave.pc = "evidence"
  /\ csDirs' = Written(Staging(csSave.attempt), "evidence")
  /\ SaveGoto("commit")
  /\ UNCHANGED <<csDrafts, csPending, csDeleteVars, csDoomed, csReplay, csGone, csCount>>

CommitCase ==
  /\ csSave.pc = "commit"
  /\ Exists(Staging(csSave.attempt))
  /\ csDirs' = [p \in (DOMAIN csDirs \ {Staging(csSave.attempt)}) \cup {Final(csPending)} |->
                  IF p = Final(csPending) THEN csDirs[Staging(csSave.attempt)] ELSE csDirs[p]]
  /\ csHandle' = IF csHandle = Staging(csSave.attempt) THEN Final(csPending) ELSE csHandle
  /\ SaveGoto("prune")
  /\ UNCHANGED <<csDrafts, csPending, csDelete, csNames, csDoomed, csReplay, csGone, csCount>>

\* Every directory with a case.json counts, one that a crash has left behind too; the oldest
\* go, the one just saved is passed over.
Excess(held) ==
  {p \in held : Cardinality({q \in held : csDirs[q].at > csDirs[p].at}) >= MaxCases}

PruneCases ==
  /\ csSave.pc = "prune"
  /\ csDoomed' = Excess({p \in DOMAIN csDirs : HasCase(p)}) \ {Final(csPending)}
  /\ csGone' = csGone \cup SavedIn(csDoomed')
  /\ SaveGoto("publish")
  /\ UNCHANGED <<csDirs, csDrafts, csPending, csDeleteVars, csReplay, csCount>>

\* RemoveAll, in which nobody writes: a file goes, or at last the directory.
PruneRemove(place) ==
  /\ csSave.pc = "publish"
  /\ place \in csDoomed
  /\ \/ \E file \in AllFiles :
           /\ Exists(place) /\ file \in csDirs[place].files
           /\ csDirs' = Unlinked(place, file)
           /\ UNCHANGED csDoomed
     \/ /\ Exists(place) => csDirs[place].files = {}
        /\ csDirs' = Without({place})
        /\ csDoomed' = csDoomed \ {place}
  /\ UNCHANGED <<csDrafts, csPending, csSave, csDeleteVars, csReplay, csGone, csCount>>

\* Mutant: the draft goes when the case is staged, before it is renamed.
DraftGoesFirst ==
  /\ csSave.pc = "commit"
  /\ csDrafts' = csDrafts \ {csPending}
  /\ UNCHANGED <<csDirs, csPending, csSave, csDeleteVars, csDoomed, csReplay, csGone, csCount>>

\* The draft goes; Manager.current is saved, and the flags are cleared later.
PublishCase ==
  /\ csSave.pc = "publish" /\ csDoomed = {}
  /\ csDrafts' = csDrafts \ {csPending}
  /\ SaveGoto("clear")
  /\ UNCHANGED <<csDirs, csPending, csDeleteVars, csDoomed, csReplay, csGone, csCount>>

ClearSave ==
  /\ csSave.pc = "clear"
  /\ csSave' = NoSave
  /\ csPending' = 0
  /\ UNCHANGED <<csDirs, csDrafts, csDeleteVars, csDoomed, csReplay, csGone, csCount>>

\* A step fails; the deferred Abort removes what was staged and not renamed.  A crash inside it
\* leaves no more than one before it.
AbortSave ==
  /\ \/ csSave.pc \in {"case", "manifest", "index", "evidence", "commit", "prune"}
     \/ csSave.pc = "publish" /\ csDoomed # {}
  /\ csDirs' = Without({Staging(csSave.attempt)})
  /\ csSave' = NoSave
  /\ csDoomed' = {}
  /\ UNCHANGED <<csDrafts, csPending, csDeleteVars, csReplay, csGone, csCount>>

-----------------------------------------------------------------------------
(* The clients.                                                            *)

\* A case that is listed: any directory with a case.json, one that is being written too.
\* The recording being saved has a path, and is refused, only once it is published.
InUse(place) ==
  \/ csSave.pc = "clear" /\ place = Final(csPending)
  \/ csReplay # 0 /\ csReplay = csDirs[place].rec

\* Mutant: a case may be deleted while it is replayed.
MayDeleteReplayed(place) ==
  HasCase(place) /\ ~(csSave.pc = "clear" /\ place = Final(csPending))

MayDelete(place) == HasCase(place) /\ ~InUse(place)

\* The recording that loses files with this directory: it is its place, or is written there.
Losing(place) ==
  SavedIn({place}) \cup (IF place = Staging(csSave.attempt) THEN {csPending} ELSE {})

DeleteCaseCheck(place) ==
  /\ GateFree
  /\ MayDelete(place)
  /\ csDelete' = place
  /\ csGone' = csGone \cup Losing(place)
  /\ UNCHANGED <<csDirs, csDrafts, csPending, csSave, csHandle, csNames, csDoomed, csReplay, csCount>>

\* The directory may have been renamed since: RemoveAll of nothing succeeds.
DeleteCaseOpen ==
  /\ csDelete # NoPlace /\ csHandle = NoPlace
  /\ IF Exists(csDelete)
       THEN csHandle' = csDelete /\ csNames' = csDirs[csDelete].files /\ UNCHANGED csDelete
       ELSE csDelete' = NoPlace /\ UNCHANGED <<csHandle, csNames>>
  /\ UNCHANGED <<csDirs, csDrafts, csPending, csSave, csDoomed, csReplay, csGone, csCount>>

DeleteCaseUnlink(file) ==
  /\ file \in csNames
  /\ csNames' = csNames \ {file}
  /\ csDirs' = Unlinked(csHandle, file)
  /\ UNCHANGED <<csDrafts, csPending, csSave, csDelete, csHandle, csDoomed, csReplay, csGone, csCount>>

\* A file that came after the names were read keeps the directory, and the call fails.
DeleteCaseRmdir ==
  /\ csHandle # NoPlace /\ csNames = {}
  /\ csDirs' = IF Exists(csDelete) /\ csDirs[csDelete].files = {} THEN Without({csDelete}) ELSE csDirs
  /\ csDelete' = NoPlace /\ csHandle' = NoPlace
  /\ UNCHANGED <<csDrafts, csPending, csSave, csNames, csDoomed, csReplay, csGone, csCount>>

ReplayStored(place) ==
  /\ GateFree /\ csPending = 0 /\ csSave = NoSave /\ csReplay = 0
  /\ HasCase(place)
  /\ csReplay' = csDirs[place].rec
  /\ UNCHANGED <<csDirs, csDrafts, csPending, csSave, csDeleteVars, csDoomed, csGone, csCount>>

StoredReplayEnds ==
  /\ csReplay # 0
  /\ csReplay' = 0
  /\ UNCHANGED <<csDirs, csDrafts, csPending, csSave, csDeleteVars, csDoomed, csGone, csCount>>

\* Only the disk survives.
LoseAgent ==
  /\ csCount.losses < MaxLosses
  /\ csCount' = [csCount EXCEPT !.losses = @ + 1]
  /\ csPending' = 0 /\ csSave' = NoSave /\ csDoomed' = {} /\ csReplay' = 0
  /\ csDelete' = NoPlace /\ csHandle' = NoPlace /\ csNames' = {}
  /\ UNCHANGED <<csDirs, csDrafts, csGone>>

CaseStoreNext ==
  \/ RecordOne
  \/ \E r \in 1 .. MaxRecorded : RecoverDraft(r) \/ RemoveDraft(r)
  \/ BeginSave \/ WriteCase \/ WriteManifest \/ BuildIndex \/ WriteEvidence \/ CommitCase
  \/ PruneCases \/ PublishCase \/ ClearSave \/ AbortSave
  \/ \E place \in csDoomed : PruneRemove(place)
  \/ \E place \in DOMAIN csDirs : DeleteCaseCheck(place) \/ ReplayStored(place)
  \/ \E file \in AllFiles : DeleteCaseUnlink(file)
  \/ DeleteCaseOpen \/ DeleteCaseRmdir \/ StoredReplayEnds
  \/ LoseAgent

CaseStoreSpec == CaseStoreInit /\ [][CaseStoreNext]_caseStoreVars

-----------------------------------------------------------------------------

Whole(place) == Exists(place) /\ csDirs[place].files = AllFiles

\* What was recorded is on disk, as a draft or as a complete case, and a case in its place is
\* complete, unless a client deleted it or newer cases took its place: no failed save, no
\* crash and no deletion or pruning of another directory takes anything from it.
NothingIsLost ==
  \A r \in 1 .. csCount.recordings \ csGone :
    /\ r \in csDrafts \/ Exists(Final(r))
    /\ Exists(Final(r)) => Whole(Final(r))

\* The case that is replayed stays on disk.
ReplayedCaseIsKept == csReplay # 0 => \E p \in DOMAIN csDirs : HasCase(p) /\ csDirs[p].rec = csReplay

CasesSafe == NothingIsLost /\ ReplayedCaseIsKept

\* The directory that was renamed to the place of the case, and for which the draft goes, holds
\* a complete case, unless it is being deleted.
SavedCaseIsWhole ==
  /\ csSave.pc \in {"prune", "publish", "clear"}
  /\ csDelete = NoPlace
  /\ Exists(Final(csPending))
  => Whole(Final(csPending))
====
