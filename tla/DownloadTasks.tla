---- MODULE DownloadTasks ----
(* Downloads and installations from an URL: tasks.Manager with the handlers    *)
(* that start and cancel tasks and the shutdown that cancels all of them.      *)
(* One goroutine runs each task; the map of tasks, the slots and the files are *)
(* shared.  A file's content is the task that wrote it, 0 for none.            *)
EXTENDS Naturals, FiniteSets

CONSTANTS
  MaxDownloads,       \* bound: tasks created in a run
  UserPaths,          \* destinations a client may name
  MaxConcurrentTasks, \* maxConcurrentTasks
  MaxRetainedTasks    \* maxRetainedTasks

ASSUME DownloadAssumption ==
  /\ MaxDownloads \in Nat
  /\ UserPaths \cap 1 .. MaxDownloads = {}
  /\ MaxConcurrentTasks \in Nat \ {0}
  /\ MaxRetainedTasks \in Nat /\ MaxRetainedTasks >= MaxConcurrentTasks

VARIABLES
  dItem,      \* the record and the goroutine of each task
  dTasks,     \* the tasks in Manager.tasks
  dSlots,     \* Manager.slots: how many are taken
  dFiles,     \* what is at each destination
  dInstalled, \* what the package manager was given by an installing task
  dClosing,   \* API.shuttingDown
  dSweep      \* CancelAll: the tasks it still has to see done, or its stage

downloadVars == <<dItem, dTasks, dSlots, dFiles, dInstalled, dClosing, dSweep>>

\* The tasks in the order in which they are created.
Downloads == 1 .. MaxDownloads

\* newInstallTask names the file by the clock, so no two tasks share it.
InstallPath(t) == t
DownloadPaths == UserPaths \cup {InstallPath(t) : t \in Downloads}

\* A task's status is "live" until finish sets EndedAt: pending, downloading and
\* processing are told apart by where its goroutine is.  "failure" stands for
\* "canceled" as well.
NoItem == [pc |-> "none", status |-> "live", path |-> InstallPath(1),
           install |-> FALSE, failed |-> FALSE]

Ended(item, t) == item[t].status # "live"
Created == {t \in Downloads : dItem[t].pc # "none"}

DownloadInit ==
  /\ dItem = [t \in Downloads |-> NoItem]
  /\ dTasks = {}
  /\ dSlots = 0
  /\ dFiles = [p \in DownloadPaths |-> 0]
  /\ dInstalled = [t \in Downloads |-> 0]
  /\ dClosing = FALSE
  /\ dSweep = [stage |-> "idle", items |-> {}]

\* The oldest ended tasks go, as many as there are too many of all tasks.
Prune(tasks, item) ==
  LET ended == {t \in tasks : Ended(item, t)}
      Older(t) == {u \in ended : u < t}
  IN tasks \ {t \in ended : Cardinality(Older(t)) + MaxRetainedTasks < Cardinality(tasks)}

\* A handler starts a task under executionMu; without a free slot it is refused.
StartTask(install) ==
  LET t == Cardinality(Created) + 1 IN
  /\ ~dClosing
  /\ t \in Downloads
  /\ dSlots < MaxConcurrentTasks
  /\ \E path \in IF install THEN {InstallPath(t)} ELSE UserPaths :
       dItem' = [dItem EXCEPT ![t] =
                   [NoItem EXCEPT !.pc = "transfer", !.path = path, !.install = install]]
  /\ dSlots' = dSlots + 1
  /\ dTasks' = Prune(dTasks, dItem) \cup {t}
  /\ UNCHANGED <<dFiles, dInstalled, dClosing, dSweep>>

Move(t, from, to) == dItem[t].pc = from /\ dItem' = [dItem EXCEPT ![t] = to]

\* The request or the copy of the body ends with an error; the partial file was a
\* temporary one.
TransferFails(t) ==
  /\ Move(t, "transfer", [dItem[t] EXCEPT !.pc = "cleanup", !.failed = TRUE])
  /\ UNCHANGED <<dTasks, dSlots, dFiles, dInstalled, dClosing, dSweep>>

\* The temporary file is complete and is renamed to its destination.
TransferDone(t) ==
  /\ Move(t, "transfer",
          [dItem[t] EXCEPT !.pc = IF dItem[t].install THEN "process" ELSE "cleanup"])
  /\ dFiles' = [dFiles EXCEPT ![dItem[t].path] = t]
  /\ UNCHANGED <<dTasks, dSlots, dInstalled, dClosing, dSweep>>

\* "after": the package manager reads the file, and may refuse it.
Process(t) ==
  /\ \E failed \in BOOLEAN :
       Move(t, "process", [dItem[t] EXCEPT !.pc = "cleanup", !.failed = failed])
  /\ dInstalled' = [dInstalled EXCEPT ![t] = dFiles[dItem[t].path]]
  /\ UNCHANGED <<dTasks, dSlots, dFiles, dClosing, dSweep>>

Cleanup(t) ==
  /\ Move(t, "cleanup", [dItem[t] EXCEPT !.pc = "finish"])
  /\ dFiles' = IF dItem[t].install THEN [dFiles EXCEPT ![dItem[t].path] = 0] ELSE dFiles
  /\ UNCHANGED <<dTasks, dSlots, dInstalled, dClosing, dSweep>>

\* finish changes the task only while the map has it, and prunes the map.
FinishTask(t) ==
  LET status == IF dItem[t].failed THEN "failure" ELSE "success"
      to == [dItem[t] EXCEPT !.pc = "close",
                             !.status = IF t \in dTasks THEN status ELSE @]
  IN /\ Move(t, "finish", to)
     /\ dTasks' = Prune(dTasks, [dItem EXCEPT ![t] = to])
     /\ UNCHANGED <<dSlots, dFiles, dInstalled, dClosing, dSweep>>

\* done is closed, and the slot is given back.
EndTask(t) ==
  /\ Move(t, "close", [dItem[t] EXCEPT !.pc = "done"])
  /\ dSlots' = dSlots - 1
  /\ UNCHANGED <<dTasks, dFiles, dInstalled, dClosing, dSweep>>

TaskStep(t) ==
  \/ TransferFails(t) \/ TransferDone(t) \/ Process(t)
  \/ Cleanup(t) \/ FinishTask(t) \/ EndTask(t)

\* DELETE /install/{id}: a task of the map that has not ended is cancelled.  Its
\* request or its process fails, unless that step is over already: then the
\* cancellation is without effect.
CancelTask(t) ==
  /\ t \in dTasks
  /\ ~Ended(dItem, t)
  /\ \/ Move(t, "transfer", [dItem[t] EXCEPT !.pc = "cleanup", !.failed = TRUE])
     \/ Move(t, "process", [dItem[t] EXCEPT !.pc = "cleanup", !.failed = TRUE])
  /\ UNCHANGED <<dTasks, dSlots, dFiles, dInstalled, dClosing, dSweep>>

\* BeginShutdown comes first, so that no handler starts a task afterwards.
BeginClosing ==
  /\ ~dClosing
  /\ dClosing' = TRUE
  /\ UNCHANGED <<dItem, dTasks, dSlots, dFiles, dInstalled, dSweep>>

\* CancelAll: the tasks that have not ended; their cancellations make the steps
\* of their goroutines fail, as every one of these may.
CancelAll ==
  /\ dClosing
  /\ dSweep.stage = "idle"
  /\ dSweep' = [stage |-> "wait", items |-> {t \in dTasks : ~Ended(dItem, t)}]
  /\ UNCHANGED <<dItem, dTasks, dSlots, dFiles, dInstalled, dClosing>>

\* Every done channel is closed.
SweepDone ==
  /\ dSweep.stage = "wait"
  /\ \A t \in dSweep.items : dItem[t].pc = "done"
  /\ dSweep' = [dSweep EXCEPT !.stage = "swept"]
  /\ UNCHANGED <<dItem, dTasks, dSlots, dFiles, dInstalled, dClosing>>

\* The shutdown's five seconds are over first.
SweepTimesOut ==
  /\ dSweep.stage = "wait"
  /\ \E t \in dSweep.items : dItem[t].pc # "done"
  /\ dSweep' = [dSweep EXCEPT !.stage = "timeout"]
  /\ UNCHANGED <<dItem, dTasks, dSlots, dFiles, dInstalled, dClosing>>

DownloadNext ==
  \/ \E install \in BOOLEAN : StartTask(install)
  \/ \E t \in Downloads : TaskStep(t) \/ CancelTask(t)
  \/ BeginClosing \/ CancelAll \/ SweepDone \/ SweepTimesOut

DownloadSpec == DownloadInit /\ [][DownloadNext]_downloadVars

------------------------------------------------------------------------------
\* Never more tasks at work than slots, and never more remembered than the limit
\* and the one that is being added: what cannot be pruned has not ended, and
\* that is bounded by the slots.
DownloadsBounded ==
  /\ Cardinality({t \in Created : dItem[t].pc # "done"}) = dSlots
  /\ dSlots <= MaxConcurrentTasks
  /\ Cardinality(dTasks) <= MaxRetainedTasks + 1

\* A task that has not ended can be found and cancelled, however many tasks
\* ended since it was created.
LiveTaskIsKnown == \A t \in Created : ~Ended(dItem, t) => t \in dTasks

\* The package manager reads the file its own task has downloaded, a task that
\* reports success has handed it over, and none leaves the file behind.
InstallsOwnFile ==
  \A t \in Created : dItem[t].install =>
    /\ dInstalled[t] \in {0, t}
    /\ dItem[t].status = "success" => dInstalled[t] = t
    /\ dItem[t].pc \in {"finish", "close", "done"} => dFiles[dItem[t].path] = 0

\* Once the shutdown has seen all tasks done, none touches a file or the device.
SweptMeansQuiet ==
  dSweep.stage = "swept" => \A t \in Created : dItem[t].pc \in {"close", "done"}

\* What a download promises, whatever is cancelled, pruned or swept meanwhile.
DownloadsSafe == DownloadsBounded /\ LiveTaskIsKnown /\ InstallsOwnFile /\ SweptMeansQuiet
====
