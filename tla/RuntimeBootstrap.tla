---- MODULE RuntimeBootstrap ----
(* The runtime components that an agent extracts and installs before it serves:  *)
(* runtimebootstrap.Manager.Ensure with its rollback, in an agent that may be    *)
(* killed between any two steps and is then started again.  A content is "old",  *)
(* "new" (the bundle's) or "none".                                               *)
EXTENDS Naturals, Sequences, FiniteSets

CONSTANTS
  Parts,    \* the components of the bundle, in its order
  Apks,     \* those that are packages
  MaxBoots  \* bound: starts of the agent

\* The bundle is not empty, names no component twice, and its packages are among its
\* components (runtimebundle/bundle.go: Components).
ASSUME BootstrapAssumption ==
  /\ Parts \in Seq(STRING) /\ Parts # <<>>
  /\ \A i, j \in DOMAIN Parts : Parts[i] = Parts[j] => i = j
  /\ Apks \subseteq {Parts[i] : i \in DOMAIN Parts}
  /\ MaxBoots \in Nat \ {0}

VARIABLES
  bAt,      \* what Ensure does, and the index of its component
  bFile,    \* per component: the file at its target and the one at ".bundle.previous"
  bPackage, \* per package: what is installed
  bStaged,  \* fileChange: "none", "reused", "placed" or "replaced"
  bPlan,    \* packageInstallPlan: "none", "reuse", or whether it was seen installed
  bChange,  \* packageChange: "none", "added" or "upgraded"; its backup is "old"
  bAtomic,  \* the plans go into one session
  bBefore,  \* history: the files and packages when this Ensure began
  bClean,   \* history: every query was answered and every step back succeeded
  bBoots    \* starts so far

bootstrapVars == <<bAt, bFile, bPackage, bStaged, bPlan, bChange, bAtomic, bBefore, bClean, bBoots>>
deviceVars == <<bFile, bPackage>>
ensureVars == <<bStaged, bPlan, bChange, bAtomic>>
historyVars == <<bBefore, bClean, bBoots>>

PartSet == {Parts[i] : i \in DOMAIN Parts}
Part == Parts[bAt.part]
ApkIndices == {i \in DOMAIN Parts : Parts[i] \in Apks}
BootAt(pc, i) == [pc |-> pc, part |-> i]
AllNone == [p \in PartSet |-> "none"]

BootstrapInit ==
  /\ bAt = BootAt("stage", 1)
  /\ bFile \in [PartSet -> {[at |-> "none", kept |-> "none"], [at |-> "old", kept |-> "none"],
                            [at |-> "new", kept |-> "none"]}]
  /\ bPackage \in [Apks -> {"none", "old", "new"}]
  /\ bStaged = AllNone /\ bPlan = AllNone /\ bChange = AllNone
  /\ bAtomic = FALSE
  /\ bBefore = [file |-> bFile, package |-> bPackage]
  /\ bClean = TRUE
  /\ bBoots = 1

\* The first of the wanted packages at or after index i, or where to go without one.
NextApk(pc, i, after, wanted) ==
  LET rest == {j \in ApkIndices : j >= i /\ Parts[j] \in wanted} IN
  IF rest = {} THEN after ELSE BootAt(pc, CHOOSE j \in rest : \A k \in rest : j <= k)
Planned == {p \in Apks : bPlan[p] \in {"absent", "present"}}

AfterStage == IF bAt.part < Len(Parts) THEN BootAt("stage", bAt.part + 1)
              ELSE NextApk("query", 1, BootAt("grant", 1), Apks)
RollFiles == BootAt("rollFiles", Len(Parts))
RollPackages == BootAt("rollPackages", Len(Parts))

------------------------------------------------------------------------------
(* stageFile *)

StageReused ==
  /\ bAt.pc = "stage" /\ bFile[Part].at = "new"
  /\ bStaged' = [bStaged EXCEPT ![Part] = "reused"]
  /\ bAt' = AfterStage
  /\ UNCHANGED <<deviceVars, bPlan, bChange, bAtomic, historyVars>>

\* The temporary file is written; a file at the target is set aside.
StageAside ==
  /\ bAt.pc = "stage" /\ bFile[Part].at # "new"
  /\ \/ bAt' = RollFiles /\ UNCHANGED bFile
     \/ /\ bAt' = BootAt("place", bAt.part)
        /\ bFile' = IF bFile[Part].at = "none" THEN bFile
                    ELSE [bFile EXCEPT ![Part] = [at |-> "none", kept |-> bFile[Part].at]]
  /\ UNCHANGED <<bPackage, ensureVars, historyVars>>

\* The temporary file takes its place, or the rename fails and the old one returns.
\* existed is what was at the target when this Ensure began.
StagePlace ==
  LET existed == bBefore.file[Part].at # "none" IN
  /\ bAt.pc = "place"
  /\ \/ /\ bFile' = [bFile EXCEPT ![Part].at = "new"]
        /\ bStaged' = [bStaged EXCEPT ![Part] = IF existed THEN "replaced" ELSE "placed"]
        /\ bAt' = AfterStage
     \/ /\ bFile' = IF existed THEN [bFile EXCEPT ![Part] = [at |-> @.kept, kept |-> "none"]] ELSE bFile
        /\ bAt' = RollFiles
        /\ UNCHANGED bStaged
  /\ UNCHANGED <<bPackage, bPlan, bChange, bAtomic, historyVars>>

------------------------------------------------------------------------------
(* ensurePackages *)

\* packageMatch: up to four looks.  One that fails to the end takes the package for
\* absent, or for one to replace.
QueryPackage ==
  LET seen == CASE bPackage[Part] = "new" -> "reuse"
                [] bPackage[Part] = "old" -> "present"
                [] OTHER -> "absent"
  IN /\ bAt.pc = "query"
     /\ \E wrong \in BOOLEAN :
          /\ bPlan' = [bPlan EXCEPT ![Part] = IF wrong THEN "absent" ELSE seen]
          /\ bClean' = (bClean /\ ~wrong)
     /\ bAt' = NextApk("query", bAt.part + 1, BootAt("install", 1), Apks)
     /\ UNCHANGED <<deviceVars, bStaged, bChange, bAtomic, bBefore, bBoots>>

\* More than one plan goes into a session, unless that cannot be prepared: then its
\* backups are discarded and the packages are installed one by one.
ChooseInstall ==
  /\ bAt.pc = "install"
  /\ \/ /\ Cardinality(Planned) > 1
        /\ bAtomic' = TRUE
        /\ bChange' = [p \in PartSet |-> IF p \notin Planned THEN "none"
                                         ELSE IF bPlan[p] = "present" THEN "upgraded" ELSE "added"]
        /\ bAt' = BootAt("commitSession", 1)
     \/ /\ bAtomic' = FALSE
        /\ bAt' = NextApk("single", 1, BootAt("grant", 1), Planned)
        /\ UNCHANGED bChange
  /\ UNCHANGED <<deviceVars, bStaged, bPlan, historyVars>>

\* install-commit installs all or nothing, whatever it answers; then every package
\* is verified.
CommitSession ==
  /\ bAt.pc = "commitSession"
  /\ \/ bPackage' = [p \in Apks |-> IF p \in Planned THEN "new" ELSE bPackage[p]]
     \/ UNCHANGED bPackage
  /\ bAt' \in {RollPackages} \cup
       IF \A p \in Planned : bPackage'[p] = "new" THEN {BootAt("grant", 1)} ELSE {}
  /\ UNCHANGED <<bFile, ensureVars, historyVars>>

\* ensurePackage: another look, the backup, "pm install" and the verification.
InstallSingle ==
  LET next == NextApk("single", bAt.part + 1, BootAt("grant", 1), Planned) IN
  /\ bAt.pc = "single"
  /\ \/ bPackage[Part] = "new" /\ bAt' = next /\ UNCHANGED <<bPackage, bChange, bClean>>
     \/ /\ bAt' = RollPackages                        \* the backup fails
        /\ bPackage[Part] = "old"
        /\ UNCHANGED <<bPackage, bChange, bClean>>
     \/ /\ \E wrong \in BOOLEAN :
             /\ bChange' = [bChange EXCEPT ![Part] =
                              IF bPackage[Part] # "none" /\ ~wrong THEN "upgraded" ELSE "added"]
             /\ bClean' = (bClean /\ ~wrong)
        /\ \/ bPackage' = [bPackage EXCEPT ![Part] = "new"] /\ bAt' \in {next, RollPackages}
           \/ UNCHANGED bPackage /\ bAt' = RollPackages
  /\ UNCHANGED <<bFile, bStaged, bPlan, bAtomic, bBefore, bBoots>>

\* Mutant: the backups go before the permission is granted.
CommitThenGrant ==
  /\ bAt.pc = "grant"
  /\ bFile' = [p \in PartSet |-> IF bStaged[p] = "replaced" THEN [bFile[p] EXCEPT !.kept = "none"] ELSE bFile[p]]
  /\ bAt' \in {RollPackages, BootAt("ready", 1)}
  /\ UNCHANGED <<bPackage, ensureVars, historyVars>>

\* The overlay permission, and then the backups are removed.
GrantAndCommit ==
  /\ bAt.pc = "grant"
  /\ \/ bAt' = RollPackages /\ UNCHANGED bFile
     \/ /\ bAt' = BootAt("ready", 1)
        /\ bFile' = [p \in PartSet |-> IF bStaged[p] = "replaced"
                                         THEN [bFile[p] EXCEPT !.kept = "none"] ELSE bFile[p]]
  /\ UNCHANGED <<bPackage, ensureVars, historyVars>>

------------------------------------------------------------------------------
(* rollbackPackages and rollbackFiles, from the last change to the first; their  *)
(* errors are dropped.                                                           *)

Before(pc, i, after) == IF i > 1 THEN BootAt(pc, i - 1) ELSE after

RollbackPackage ==
  LET to == CASE bChange[Part] = "upgraded" -> "old"
              [] bChange[Part] = "added" -> "none"
              [] OTHER -> bPackage[Part]
  IN /\ bAt.pc = "rollPackages"
     /\ \/ /\ bPackage' = IF Part \in Apks THEN [bPackage EXCEPT ![Part] = to] ELSE bPackage
           /\ UNCHANGED bClean
        \/ bChange[Part] # "none" /\ bClean' = FALSE /\ UNCHANGED bPackage
     /\ bAt' = Before("rollPackages", bAt.part, RollFiles)
     /\ UNCHANGED <<bFile, ensureVars, bBefore, bBoots>>

RollbackFile ==
  /\ bAt.pc = "rollFiles"
  /\ bFile' = CASE bStaged[Part] = "replaced" ->
                     [bFile EXCEPT ![Part] = [at |-> @.kept, kept |-> "none"]]
                [] bStaged[Part] = "placed" -> [bFile EXCEPT ![Part].at = "none"]
                [] OTHER -> bFile
  /\ bAt' = Before("rollFiles", bAt.part, BootAt("failed", 1))
  /\ UNCHANGED <<bPackage, ensureVars, historyVars>>

\* The agent is killed, or has failed and exits, or is stopped later; it is started
\* again and Ensure begins anew.
Restart ==
  /\ bBoots < MaxBoots
  /\ bBoots' = bBoots + 1
  /\ bAt' = BootAt("stage", 1)
  /\ bStaged' = AllNone /\ bPlan' = AllNone /\ bChange' = AllNone
  /\ bAtomic' = FALSE
  /\ bBefore' = [file |-> bFile, package |-> bPackage]
  /\ bClean' = TRUE
  /\ UNCHANGED deviceVars

BootstrapNext ==
  \/ StageReused \/ StageAside \/ StagePlace \/ QueryPackage \/ ChooseInstall
  \/ CommitSession \/ InstallSingle \/ GrantAndCommit
  \/ RollbackPackage \/ RollbackFile \/ Restart

BootstrapSpec == BootstrapInit /\ [][BootstrapNext]_bootstrapVars

------------------------------------------------------------------------------
\* A failed bootstrap leaves the files and packages as it found them, whichever
\* component failed and however they were installed.
FailureRestores ==
  bAt.pc = "failed" /\ bClean =>
    /\ bPackage = bBefore.package
    /\ \A p \in PartSet : bFile[p].at = bBefore.file[p].at

\* An agent serves with nothing but the components of its own bundle, also after a
\* start that was cut short or rolled back.
ReadyIsComplete ==
  bAt.pc = "ready" =>
    /\ \A p \in PartSet : bFile[p].at = "new"
    /\ \A p \in Apks : bPackage[p] = "new"

\* A component's file that has once been on the device stays there, at its target
\* or set aside, wherever the agent is killed.
FileIsNeverLost ==
  \A p \in PartSet : bBefore.file[p] # [at |-> "none", kept |-> "none"] =>
    bFile[p] # [at |-> "none", kept |-> "none"]

BootstrapSafe == FailureRestores /\ ReadyIsComplete /\ FileIsNeverLost
====
