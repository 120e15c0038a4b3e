------------------------------- MODULE Workspace -------------------------------
(***************************************************************************)
(* Windows and the workspaces they show (crates/workspace/src/workspace.rs,*)
(* restore_or_create_workspace and Quit of crates/zaku/src/zaku.rs,        *)
(* Session::new of crates/session/src/session.rs): opening projects,       *)
(* closing projects and windows, quitting, the throttled serialization of  *)
(* each workspace, the restoring of stored ones, and runs of the program   *)
(* that end by quitting or by a crash.                                     *)
(*                                                                         *)
(* Everything runs on the UI thread; what takes turns are the tasks of the *)
(* user's commands and their awaits, the timers of the serialization, and  *)
(* the thread that writes to the database.  A save is put in the queue of  *)
(* writes when it is captured: the task that captures it is polled before  *)
(* whatever is spawned later, and nothing but a later save drops it.       *)
(***************************************************************************)
EXTENDS WorkspaceDb, FiniteSets

CONSTANTS
  Windows,     \* bound: windows open at a time
  MaxHandles,  \* bound: workspaces alive at a time
  Tasks,       \* bound: commands of the user in progress at a time
  Boot,        \* the task that restores or creates the windows of a start
  Budgets      \* bound: how many commands of each kind there may be

Kinds ==
  {"open", "closeProject", "closeWindow", "quit", "clear", "file", "tab", "crash", "fail"}

ASSUME WorkspaceAssumption ==
  /\ Boot \notin Tasks /\ None \notin Tasks \cup {Boot}
  /\ None \notin Paths \cup Files \cup Items
  /\ Budgets \subseteq [Kinds -> Nat]
  /\ Items \subseteq Nat /\ IsFiniteSet(Items)
  /\ MaxHandles \in Nat /\ MaxId \in Nat \ {0} /\ MaxRuns \in Nat

VARIABLES
  up,         \* whether the program runs
  run,        \* its session, numbered by its runs
  boot,       \* paths that the start has still to reopen
  shown,      \* the workspace in each window, 0 for no window
  workspace,  \* the workspaces
  task,       \* the commands in progress
  fileOf,     \* the file of each item built in this run
  budget,     \* bound: the commands left of each kind
  excuse,     \* ghost: what happened in this run that properties name
  lastClosed, \* ghost: the path of the window asked last to close
  expected    \* ghost: the paths to reopen after a calm end, or None

vars == <<dbVars, up, run, boot, shown, workspace, task, fileOf, budget, excuse, lastClosed,
          expected>>
ghostVars == <<excuse, lastClosed, expected>>
programVars == <<up, run, boot>>

AllTasks == Tasks \cup {Boot}
Handles == 1 .. MaxHandles

(* renewed: the pane is the one that restore_workspace put in place.       *)
WorkspaceState ==
  [id : Ids \cup {0}, path : Paths \cup {None}, inSession : BOOLEAN, pane : PaneState(Items),
   renewed : BOOLEAN, scheduled : BOOLEAN, closing : BOOLEAN, unsent : SUBSET Items]

NewWorkspace(id, path) ==
  [id |-> id, path |-> path, inSession |-> TRUE, pane |-> EmptyPane, renewed |-> FALSE,
   scheduled |-> path # None, closing |-> FALSE, unsent |-> {}]
NoWorkspace == [NewWorkspace(0, None) EXCEPT !.inSession = FALSE]

(* replace: the project is opened in the window that asks.  stored: what   *)
(* was read of a workspace to restore, files the files of its items.       *)
TaskState ==
  [kind : {"none", "open", "empty", "closeProject", "closeWindow", "quit", "file"},
   step : {"none", "lookup", "prepare", "flush", "unlisted", "load", "id", "restore", "loaded",
           "cleanup", "build"},
   window : Windows \cup {None}, workspace : Handles \cup {0}, path : Paths \cup {None},
   replace : BOOLEAN, preserve : BOOLEAN, id : Ids \cup {0}, stored : StoredPane,
   files : Seq(Files \cup {None}), left : SUBSET Windows, file : Files \cup {None},
   preview : BOOLEAN, renewed : BOOLEAN]

NoTask ==
  [kind |-> "none", step |-> "none", window |-> None, workspace |-> 0, path |-> None,
   replace |-> FALSE, preserve |-> FALSE, id |-> 0, stored |-> NoItems, files |-> <<>>,
   left |-> {}, file |-> None, preview |-> FALSE, renewed |-> FALSE]

-----------------------------------------------------------------------------
IsOpen(w) == shown[w] # 0
OpenWindows == {w \in Windows : IsOpen(w)}

(* Who keeps a workspace: its window and the tasks of its commands, but    *)
(* not those of Quit and of opening a file.                                *)
HeldBy(i, shown2, task2) ==
  \/ \E w \in Windows : shown2[w] = i
  \/ \E t \in AllTasks : task2[t].workspace = i /\ task2[t].kind \notin {"quit", "file"}
Alive(i) == HeldBy(i, shown, task)

(* What is dropped takes its timers along.                                 *)
Surviving(workspace2) ==
  [i \in Handles |-> IF HeldBy(i, shown', task') THEN workspace2[i] ELSE NoWorkspace]

(* A task may still know a workspace that is gone.                         *)
FreeHandles == {i \in Handles : ~Alive(i) /\ \A t \in AllTasks : task[t].workspace # i}
FreeHandle == CHOOSE i \in FreeHandles : TRUE

Spend(kind) == budget[kind] > 0 /\ budget' = [budget EXCEPT ![kind] = @ - 1]

Idle(t) == task[t].kind = "none"
Begins(t) == up /\ t \in Tasks /\ Idle(t)
Shows(p) == \E w \in OpenWindows : workspace[shown[w]].path = p

-----------------------------------------------------------------------------
(* Serialization.                                                          *)

StoredOf(pane) == [items |-> pane.items, active |-> ActiveItem(pane), preview |-> Preview(pane)]

(* serialize_workspace_internal: a workspace without a root saves no more  *)
(* than the default state of its docks.                                    *)
Saves(ws, by) ==
  IF ws.path = None THEN <<>>
  ELSE <<SaveWrite(ws.id, ws.path, StoredOf(ws.pane), IF ws.inSession THEN run ELSE 0, by)>>

(* A workspace that is replaced still has a window; the timers of one      *)
(* whose window is closed do nothing.                                      *)
HasWindow(i) ==
  \/ \E w \in Windows : shown[w] = i
  \/ \E t \in AllTasks : task[t].workspace = i /\ task[t].window \in OpenWindows

(* serialize_workspace asks for a timer; its end saves what is shown then. *)
TimerSaves(i) ==
  /\ Alive(i) /\ HasWindow(i) /\ workspace[i].scheduled
  /\ workspace' = [workspace EXCEPT ![i].scheduled = FALSE]
  /\ queue' = queue \o Saves(workspace[i], None)
  /\ UNCHANGED <<rows, files, programVars, shown, task, fileOf, budget, ghostVars>>

(* serialize_items: the items that were added are stored in chunks.        *)
ItemsSent(i) ==
  /\ Alive(i) /\ HasWindow(i) /\ workspace[i].unsent # {}
  /\ LET count == Cardinality(workspace[i].unsent)
     IN  \E order \in [1 .. count -> workspace[i].unsent] :
           /\ \A j, k \in 1 .. count : j < k => order[j] < order[k]
           /\ queue' = queue \o [k \in 1 .. count |->
                                     ItemWrite(workspace[i].id, order[k], fileOf[order[k]])]
  /\ workspace' = [workspace EXCEPT ![i].unsent = {}]
  /\ UNCHANGED <<rows, files, programVars, shown, task, fileOf, budget, ghostVars>>

(* The writing thread takes the next write.                                *)
Written ==
  /\ queue # <<>>
  /\ \/ ApplySave(Head(queue)) /\ UNCHANGED task
     \/ ApplyItem(Head(queue)) /\ UNCHANGED task
     \/ ApplyCleanup(Head(queue)) /\ UNCHANGED task
     \/ ApplyClear(Head(queue)) /\ UNCHANGED task
     \/ ApplyNew(Head(queue)) /\ task' = [task EXCEPT ![Head(queue).by].id = NewRowId]
  /\ queue' = Tail(queue)
  /\ UNCHANGED <<programVars, shown, workspace, fileOf, budget, ghostVars>>

-----------------------------------------------------------------------------
(* prepare_to_close: the state is saved; unless the program quits or the   *)
(* last window closes, the workspace leaves the session.                   *)

(* The windows that are not closing.  Variant: the one that closes counts. *)
RemainingBefore(workspace2) == {w \in OpenWindows : ~workspace[shown[w]].closing}

Remaining(workspace2) == {w \in OpenWindows : ~workspace2[shown[w]].closing}

Preserves(kind, remaining) == kind = "quit" \/ (kind = "closeWindow" /\ remaining = {})

(* An open in the window that asks goes on to this when no window shows    *)
(* the directory.                                                          *)
AsksToClose(t) ==
  \/ task[t].step = "prepare"
  \/ task[t].step = "lookup" /\ task[t].replace /\ ~Shows(task[t].path)

(* A command that closes the workspace i has it saved and gone on.         *)
Leaves(t, i) ==
  /\ task[t].workspace = i /\ task[t].kind \notin {"quit", "file"}
  /\ \/ task[t].step \in {"flush", "unlisted"}
     \/ task[t].step \in {"load", "id"} /\ (task[t].replace \/ task[t].kind = "closeProject")

(* Named for the properties: two commands close one workspace; one whose   *)
(* window shows another by now.                                            *)
Prepare(t, w, i) ==
  LET closes == task[t].kind = "closeWindow"
      flushed == [workspace EXCEPT ![i] =
                    [@ EXCEPT !.closing = workspace[i].closing \/ closes, !.scheduled = FALSE]]
  IN  /\ workspace' = flushed
      /\ queue' = queue \o Saves(workspace[i], t)
      /\ task' = [task EXCEPT ![t] =
           [@ EXCEPT !.step = "flush", !.window = w, !.workspace = i,
                     !.preserve = Preserves(task[t].kind, Remaining(flushed))]]
      /\ lastClosed' = IF closes THEN workspace[i].path ELSE lastClosed
      /\ excuse' = excuse
           \cup (IF \E u \in AllTasks \ {t} : Leaves(u, i) THEN {"asked twice"} ELSE {})
           \cup (IF shown[w] # i THEN {"overtaken"} ELSE {})
      /\ UNCHANGED <<rows, files, programVars, shown, fileOf, budget, expected>>

PrepareToClose(t) ==
  /\ AsksToClose(t) /\ task[t].kind # "quit" /\ IsOpen(task[t].window)
  /\ Prepare(t, task[t].window, task[t].workspace)

(* remove_from_session.                                                    *)
RemoveFromSession(t) ==
  /\ task[t].step = "flush" /\ ~Awaits(t) /\ ~task[t].preserve /\ IsOpen(task[t].window)
  /\ LET i == task[t].workspace
         unlisted == [workspace EXCEPT ![i].inSession = FALSE]
     IN  /\ workspace' = unlisted
         /\ queue' = queue \o Saves(unlisted[i], t)
  /\ task' = [task EXCEPT ![t].step = "unlisted"]
  /\ UNCHANGED <<rows, files, programVars, shown, fileOf, budget, ghostVars>>

Prepared(t) ==
  /\ ~Awaits(t)
  /\ task[t].step = "unlisted" \/ (task[t].step = "flush" /\ task[t].preserve)

(* The window of a command is gone: the command ends.                      *)
NeedsWindow(t) ==
  \/ /\ task[t].step \in {"lookup", "prepare", "flush", "unlisted", "build", "restore", "loaded",
                           "cleanup"}
     /\ task[t].kind # "quit"
  \/ task[t].step \in {"load", "id"} /\ (task[t].replace \/ task[t].kind = "closeProject")

GiveUp(t) ==
  /\ NeedsWindow(t) /\ ~IsOpen(task[t].window) /\ ~Awaits(t)
  /\ task' = [task EXCEPT ![t] = NoTask]
  /\ UNCHANGED <<dbVars, programVars, shown, fileOf, budget, ghostVars>>
  /\ workspace' = Surviving(workspace)

-----------------------------------------------------------------------------
(* A workspace is created in a window: in place of the one shown, or in a  *)
(* new window.  Named for the properties: a second workspace of a          *)
(* directory; one that replaces a workspace other than the one prepared    *)
(* for it; one that comes while the program quits or its last windows      *)
(* close.                                                                  *)

NewWindows ==
  {w \in Windows \ OpenWindows :
     \A t \in AllTasks : task[t].window # w /\ w \notin task[t].left}

Oddities(t, w, path) ==
  (IF \E i \in Handles : Alive(i) /\ path # None /\ workspace[i].path = path
   THEN {"twins"} ELSE {})
  \cup (IF IsOpen(w) /\ shown[w] # task[t].workspace THEN {"overtaken"} ELSE {})
  \cup (IF (\E q \in Tasks : task[q].kind = "quit") \/ (OpenWindows # {} /\ Remaining(workspace) = {})
         THEN {"while ending"} ELSE {})

Create(t, w, id, path, then) ==
  /\ FreeHandles # {}
  /\ shown' = [shown EXCEPT ![w] = FreeHandle]
  /\ task' = [task EXCEPT ![t] = then]
  /\ excuse' = excuse \cup Oddities(t, w, path)
  /\ UNCHANGED <<rows, files, programVars, fileOf, budget, lastClosed, expected>>
  /\ workspace' = Surviving([workspace EXCEPT ![FreeHandle] = NewWorkspace(id, path)])

(* Where the window of a task is: the one that asks, or a new one.         *)
Targets(t) ==
  IF task[t].replace \/ task[t].kind = "closeProject"
  THEN {task[t].window} \cap OpenWindows
  ELSE NewWindows

-----------------------------------------------------------------------------
(* open_workspace_for_path and Workspace::open.                            *)

OpenProject(t, w, p, newWindow) ==
  /\ Begins(t) /\ IsOpen(w) /\ Spend("open")
  /\ task' = [task EXCEPT ![t] =
       [NoTask EXCEPT !.kind = "open", !.step = "lookup", !.window = w, !.workspace = shown[w],
                      !.path = p, !.replace = ~newWindow \/ workspace[shown[w]].path = None]]
  /\ UNCHANGED <<dbVars, programVars, shown, workspace, fileOf, ghostVars>>

(* find_existing_workspace_window.                                         *)
FoundOpen(t) ==
  /\ task[t].step = "lookup" /\ IsOpen(task[t].window) /\ Shows(task[t].path)
  /\ task' = [task EXCEPT ![t] = NoTask]
  /\ UNCHANGED <<dbVars, programVars, shown, fileOf, budget, ghostVars>>
  /\ workspace' = Surviving(workspace)

StartLoad(t) ==
  /\ task[t].kind = "open"
  /\ \/ task[t].step = "lookup" /\ ~task[t].replace /\ ~Shows(task[t].path)
     \/ Prepared(t)
  /\ IsOpen(task[t].window)
  /\ task' = [task EXCEPT ![t].step = "load"]
  /\ UNCHANGED <<dbVars, programVars, shown, workspace, fileOf, budget, ghostVars>>

(* The project is open and its workspace is known.                         *)
LoadKnown(t) ==
  /\ task[t].step = "load"
  /\ \E i \in RowsOf(task[t].path), w \in Targets(t) :
       Create(t, w, i, task[t].path,
              [task[t] EXCEPT !.step = "restore", !.window = w, !.workspace = FreeHandle,
                              !.id = i, !.stored = rows[i].pane])
  /\ UNCHANGED queue

LoadNew(t) ==
  /\ task[t].step = "load" /\ RowsOf(task[t].path) = {}
  /\ Enqueued(NewWrite(t))
  /\ task' = [task EXCEPT ![t].step = "id"]
  /\ UNCHANGED <<rows, files, programVars, shown, workspace, fileOf, budget, ghostVars>>

IdArrived(t) ==
  /\ task[t].step = "id" /\ ~Awaits(t)
  /\ \E w \in Targets(t) : Create(t, w, task[t].id, task[t].path, NoTask)
  /\ UNCHANGED queue

(* The directory cannot be opened.  A workspace prepared for this has left *)
(* the session and stays in its window; a start without a window opens an  *)
(* empty one at its end.                                                   *)
LoadFailed(t) ==
  /\ task[t].step = "load" /\ Spend("fail")
  /\ IF t = Boot /\ boot = {} /\ OpenWindows = {}
     THEN /\ Enqueued(NewWrite(t))
          /\ task' = [task EXCEPT ![t] = [NoTask EXCEPT !.kind = "empty", !.step = "id"]]
     ELSE /\ task' = [task EXCEPT ![t] = NoTask]
          /\ UNCHANGED queue
  /\ excuse' = excuse \cup (IF task[t].replace THEN {"stranded"} ELSE {})
  /\ UNCHANGED <<rows, files, programVars, shown, fileOf, lastClosed, expected>>
  /\ workspace' = Surviving(workspace)

-----------------------------------------------------------------------------
(* restore_workspace.                                                      *)

(* The worktree is scanned: the rows of the stored items are read and      *)
(* their files are opened.                                                 *)
ReadItems(t) ==
  /\ task[t].step = "restore" /\ IsOpen(task[t].window)
  /\ LET stored == task[t].stored.items
     IN  task' = [task EXCEPT ![t] =
           [@ EXCEPT !.step = "loaded",
                     !.files = [k \in DOMAIN stored |-> files[task[t].id][stored[k]]]]]
  /\ UNCHANGED <<dbVars, programVars, shown, workspace, fileOf, budget, ghostVars>>

(* Entity ids are drawn in their order.                                    *)
FreshItems(count) ==
  {n \in Items : fileOf[n] = None
                 /\ Cardinality({m \in Items : m < n /\ fileOf[m] = None}) < count}

(* deserialize_to: the items that could be opened, ids[k] for the k-th that *)
(* is stored, are added one after the other, each active, then the stored  *)
(* indexes of the active and of the preview item apply.                    *)
Added(count, ids, fileOf2) ==
  LET added[k \in 0 .. count] ==
        IF k = 0 THEN EmptyPane
        ELSE IF k \in DOMAIN ids THEN AddItem(added[k - 1], ids[k], fileOf2, None)
        ELSE added[k - 1]
  IN  added[count]

Deserialized(stored, ids, fileOf2) ==
  LET added == Added(Len(stored.items), ids, fileOf2)
      index(item) == CHOOSE k \in 1 .. Len(stored.items) : stored.items[k] = item
      activated == IF stored.active = None THEN added
                   ELSE ActivateItem(added, index(stored.active) - 1)
      at == IF stored.preview = None THEN 0 ELSE index(stored.preview)
  IN  IF at \in 1 .. Len(added.items)
      THEN [activated EXCEPT !.preview = added.items[at]] ELSE activated

(* What could be opened becomes the pane; the stored files of other items  *)
(* are deleted.                                                            *)
RestoreItems(t) ==
  /\ task[t].step = "loaded" /\ IsOpen(task[t].window)
  /\ UNCHANGED <<rows, files, programVars, shown, ghostVars>>
  /\ \E gone \in SUBSET Files :
       /\ IF gone = {} THEN UNCHANGED budget ELSE Spend("fail")
       /\ gone \subseteq {task[t].files[k] : k \in 1 .. Len(task[t].files)}
       /\ LET loaded == {k \in 1 .. Len(task[t].files) : task[t].files[k] \notin gone \cup {None}}
              i == task[t].workspace
          IN  IF loaded = {}
              THEN /\ queue' = queue \o Saves(workspace[i], None)
                   /\ task' = [task EXCEPT ![t] = NoTask]
                   /\ workspace' = Surviving(workspace)
                   /\ UNCHANGED fileOf
              ELSE \E ids \in [loaded -> FreshItems(Cardinality(loaded))] :
                     /\ \A j, k \in loaded : ids[j] = ids[k] => j = k
                     /\ fileOf' = [n \in Items |->
                          IF \E k \in loaded : ids[k] = n
                          THEN task[t].files[CHOOSE k \in loaded : ids[k] = n] ELSE fileOf[n]]
                     /\ LET items == {ids[k] : k \in loaded}
                        IN  /\ workspace' = [workspace EXCEPT ![i] =
                                 [@ EXCEPT !.pane = Deserialized(task[t].stored, ids, fileOf'),
                                           !.renewed = TRUE, !.scheduled = TRUE,
                                           !.unsent = workspace[i].unsent \cup items]]
                            /\ Enqueued(CleanupWrite(task[t].id, items, t))
                     /\ task' = [task EXCEPT ![t].step = "cleanup"]

RestoreEnd(t) ==
  /\ task[t].step = "cleanup" /\ ~Awaits(t) /\ IsOpen(task[t].window)
  /\ queue' = queue \o Saves(workspace[task[t].workspace], None)
  /\ task' = [task EXCEPT ![t] = NoTask]
  /\ UNCHANGED <<rows, files, programVars, shown, fileOf, budget, ghostVars>>
  /\ workspace' = Surviving(workspace)

-----------------------------------------------------------------------------
(* The program starts and ends.                                            *)

(* restore_or_create_workspace, once Session::new has stored the new       *)
(* session: what the last one left is reopened, one after the other.       *)
Start ==
  /\ ~up /\ run < MaxRuns
  /\ up' = TRUE /\ run' = run + 1 /\ boot' = SessionPaths(run)
  /\ IF boot' = {}
     THEN /\ Enqueued(NewWrite(Boot))
          /\ task' = [task EXCEPT ![Boot] = [NoTask EXCEPT !.kind = "empty", !.step = "id"]]
     ELSE UNCHANGED <<queue, task>>
  /\ excuse' = {} /\ lastClosed' = None /\ expected' = None
  /\ UNCHANGED <<rows, files, shown, workspace, fileOf, budget>>

Reopen(p) ==
  /\ Idle(Boot) /\ p \in boot
  /\ boot' = boot \ {p}
  /\ task' = [task EXCEPT ![Boot] = [NoTask EXCEPT !.kind = "open", !.step = "load", !.path = p]]
  /\ UNCHANGED <<dbVars, up, run, shown, workspace, fileOf, budget, ghostVars>>

(* What is in memory is gone, and what is queued for the database.         *)
Down ==
  /\ up' = FALSE /\ boot' = {}
  /\ shown' = [w \in Windows |-> 0]
  /\ workspace' = [i \in Handles |-> NoWorkspace]
  /\ task' = [t \in AllTasks |-> NoTask]
  /\ fileOf' = NoFiles
  /\ queue' = <<>>
  /\ UNCHANGED <<rows, files, run, excuse, lastClosed>>

(* An end that nothing interferes with.                                    *)
Calm(t) == excuse = {} /\ boot = {} /\ \A other \in AllTasks \ {t} : Idle(other)
ShownPaths == {workspace[shown[w]].path : w \in OpenWindows} \ {None}

Crash ==
  /\ up /\ Spend("crash")
  /\ Down /\ expected' = None

-----------------------------------------------------------------------------
(* Commands of the user.                                                   *)

(* replace_workspace.                                                      *)
CloseProject(t, w) ==
  /\ Begins(t) /\ IsOpen(w) /\ workspace[shown[w]].path # None /\ Spend("closeProject")
  /\ task' = [task EXCEPT ![t] = [NoTask EXCEPT !.kind = "closeProject", !.step = "prepare",
                                                !.window = w, !.workspace = shown[w]]]
  /\ UNCHANGED <<dbVars, programVars, shown, workspace, fileOf, ghostVars>>

ReplaceByEmpty(t) ==
  /\ task[t].kind = "closeProject" /\ Prepared(t) /\ IsOpen(task[t].window)
  /\ Enqueued(NewWrite(t))
  /\ task' = [task EXCEPT ![t].step = "id"]
  /\ UNCHANGED <<rows, files, programVars, shown, workspace, fileOf, budget, ghostVars>>

(* Root::close_window.                                                     *)
CloseWindow(t, w) ==
  /\ Begins(t) /\ IsOpen(w) /\ Spend("closeWindow")
  /\ task' = [task EXCEPT ![t] = [NoTask EXCEPT !.kind = "closeWindow", !.step = "prepare",
                                                !.window = w, !.workspace = shown[w]]]
  /\ UNCHANGED <<dbVars, programVars, shown, workspace, fileOf, ghostVars>>

(* The last window to close ends the program.                              *)
RemoveWindow(t) ==
  /\ task[t].kind = "closeWindow" /\ Prepared(t) /\ IsOpen(task[t].window)
  /\ IF OpenWindows = {task[t].window}
     THEN /\ Down
          /\ expected' = IF Calm(t) /\ shown[task[t].window] = task[t].workspace
                         THEN {lastClosed} \ {None} ELSE None
     ELSE /\ shown' = [shown EXCEPT ![task[t].window] = 0]
          /\ task' = [task EXCEPT ![t] = NoTask]
          /\ excuse' = excuse
               \cup (IF shown[task[t].window] # task[t].workspace THEN {"overtaken"} ELSE {})
          /\ UNCHANGED <<dbVars, programVars, fileOf, lastClosed, expected>>
          /\ workspace' = Surviving(workspace)
  /\ UNCHANGED budget

(* Quit: the windows of the moment are prepared one after the other.       *)
Quit(t) ==
  /\ Begins(t) /\ OpenWindows # {} /\ Spend("quit")
  /\ task' = [task EXCEPT ![t] = [NoTask EXCEPT !.kind = "quit", !.step = "prepare",
                                                !.left = OpenWindows]]
  /\ UNCHANGED <<dbVars, programVars, shown, workspace, fileOf, ghostVars>>

QuitPrepares(t, w) ==
  /\ task[t].kind = "quit" /\ task[t].step = "prepare" /\ w \in task[t].left /\ IsOpen(w)
  /\ Prepare(t, w, shown[w])

QuitGoesOn(t) ==
  /\ task[t].kind = "quit" /\ Prepared(t)
  /\ task' = [task EXCEPT ![t] = [@ EXCEPT !.step = "prepare", !.left = task[t].left \ {task[t].window}]]
  /\ UNCHANGED <<dbVars, programVars, shown, workspace, fileOf, budget, ghostVars>>

(* A window that is gone ends it.                                          *)
QuitAborts(t, w) ==
  /\ task[t].kind = "quit" /\ task[t].step = "prepare" /\ w \in task[t].left /\ ~IsOpen(w)
  /\ task' = [task EXCEPT ![t] = NoTask]
  /\ UNCHANGED <<dbVars, programVars, shown, workspace, fileOf, budget, ghostVars>>

QuitEnds(t) ==
  /\ task[t].kind = "quit" /\ task[t].step = "prepare" /\ task[t].left = {}
  /\ Down
  /\ expected' = IF Calm(t) THEN ShownPaths ELSE None
  /\ UNCHANGED budget

(* clear_recent_projects: the rows of open workspaces go as well.          *)
ClearRecent(w) ==
  /\ IsOpen(w) /\ Spend("clear")
  /\ Enqueued(ClearWrite)
  /\ excuse' = excuse \cup {"cleared"}
  /\ UNCHANGED <<rows, files, programVars, shown, workspace, task, fileOf, lastClosed, expected>>

-----------------------------------------------------------------------------
(* Items.                                                                  *)

(* open_path_preview: the file is loaded, then the item is built in the    *)
(* pane of the moment of the command.                                      *)
OpenFile(t, w, f, preview) ==
  /\ Begins(t) /\ IsOpen(w) /\ workspace[shown[w]].path # None /\ Spend("file")
  /\ task' = [task EXCEPT ![t] =
       [NoTask EXCEPT !.kind = "file", !.step = "build", !.window = w, !.workspace = shown[w],
                      !.file = f, !.preview = preview, !.renewed = workspace[shown[w]].renewed]]
  /\ UNCHANGED <<dbVars, programVars, shown, workspace, fileOf, ghostVars>>

Showing(pane, f) == {k \in 1 .. Len(pane.items) : fileOf[pane.items[k]] = f}

(* open_item, in a pane that may have been replaced since.                 *)
FileBuilt(t) ==
  /\ task[t].step = "build" /\ IsOpen(task[t].window)
  /\ LET i == task[t].workspace
         f == task[t].file
         pane == workspace[i].pane
         current == workspace[i].renewed = task[t].renewed
         showing == IF current THEN Showing(pane, f) ELSE {}
     IN  IF ~Alive(i) THEN UNCHANGED <<workspace, fileOf>>
         ELSE IF showing # {}
         THEN /\ \E k \in showing :
                   workspace' = [workspace EXCEPT ![i] =
                     [@ EXCEPT !.scheduled = TRUE,
                               !.pane = OpenExisting(pane, pane.items[k], task[t].preview)]]
              /\ UNCHANGED fileOf
         ELSE \E n \in FreshItems(1) :
                /\ fileOf' = [fileOf EXCEPT ![n] = f]
                /\ workspace' = [workspace EXCEPT ![i] =
                     [@ EXCEPT !.scheduled = TRUE, !.unsent = workspace[i].unsent \cup {n},
                               !.pane = IF current THEN OpenNew(pane, n, fileOf', task[t].preview)
                                        ELSE pane]]
  /\ task' = [task EXCEPT ![t] = NoTask]
  /\ UNCHANGED <<dbVars, programVars, shown, budget, ghostVars>>

(* handle_pane_event asks for a timer.  Variant: it does not.              *)
PaneChangesUnheard(w, pane) ==
  /\ workspace' = [workspace EXCEPT ![shown[w]].pane = pane]
  /\ UNCHANGED <<dbVars, programVars, shown, task, fileOf, ghostVars>>

PaneChanges(w, pane) ==
  /\ workspace' = [workspace EXCEPT ![shown[w]] = [@ EXCEPT !.pane = pane, !.scheduled = TRUE]]
  /\ UNCHANGED <<dbVars, programVars, shown, task, fileOf, ghostVars>>

ItemsOf(w) == IF IsOpen(w) THEN {n \in Items : Has(workspace[shown[w]].pane, n)} ELSE {}

SelectTab(w, n) ==
  /\ n \in ItemsOf(w) /\ Spend("tab")
  /\ LET pane == workspace[shown[w]].pane
     IN  PaneChanges(w, ActivateItem(pane, IndexOf(pane, n)))

(* handle_tab_drop; index: the place asked for.  The item is enqueued      *)
(* again.                                                                  *)
DragTab(w, n, index) ==
  /\ n \in ItemsOf(w) /\ index < Len(workspace[shown[w]].pane.items) /\ Spend("tab")
  /\ LET ws == workspace[shown[w]]
     IN  workspace' = [workspace EXCEPT ![shown[w]] =
           [ws EXCEPT !.scheduled = TRUE, !.unsent = ws.unsent \cup {n},
                      !.pane = MoveTab(ws.pane, n, fileOf, index)]]
  /\ UNCHANGED <<dbVars, programVars, shown, task, fileOf, ghostVars>>

(* The preview is kept: by an edit, which makes it dirty and so changes    *)
(* its title, or by sending its request, of which nobody hears.            *)
KeepPreview(w, heard) ==
  /\ IsOpen(w) /\ Spend("tab")
  /\ LET ws == workspace[shown[w]]
     IN  /\ Preview(ws.pane) # None
         /\ workspace' = [workspace EXCEPT ![shown[w]] =
              [ws EXCEPT !.pane = [ws.pane EXCEPT !.preview = None],
                         !.scheduled = ws.scheduled \/ heard]]
  /\ UNCHANGED <<dbVars, programVars, shown, task, fileOf, ghostVars>>

(* remove_item, by closing a tab or because its file is deleted.           *)
CloseItem(w, n) ==
  /\ n \in ItemsOf(w) /\ Spend("tab")
  /\ PaneChanges(w, RemoveItem(workspace[shown[w]].pane, n))

-----------------------------------------------------------------------------
Init ==
  /\ rows = [i \in Ids |-> None] /\ files = [i \in Ids |-> NoFiles] /\ queue = <<>>
  /\ up = FALSE /\ run = 0 /\ boot = {}
  /\ shown = [w \in Windows |-> 0]
  /\ workspace = [i \in Handles |-> NoWorkspace]
  /\ task = [t \in AllTasks |-> NoTask]
  /\ fileOf = NoFiles
  /\ budget \in Budgets
  /\ excuse = {} /\ lastClosed = None /\ expected = None

CommandStep(t) ==
  \/ \E w \in Windows : CloseProject(t, w) \/ CloseWindow(t, w)
  \/ \E w \in Windows : QuitPrepares(t, w) \/ QuitAborts(t, w)
  \/ \E w \in Windows, p \in Paths, newWindow \in BOOLEAN : OpenProject(t, w, p, newWindow)
  \/ \E w \in Windows, f \in Files, preview \in BOOLEAN : OpenFile(t, w, f, preview)
  \/ Quit(t)

TaskStep(t) ==
  \/ PrepareToClose(t) \/ RemoveFromSession(t) \/ GiveUp(t)
  \/ FoundOpen(t) \/ StartLoad(t) \/ LoadKnown(t) \/ LoadNew(t) \/ IdArrived(t) \/ LoadFailed(t)
  \/ ReadItems(t) \/ RestoreItems(t) \/ RestoreEnd(t)
  \/ ReplaceByEmpty(t) \/ RemoveWindow(t) \/ QuitGoesOn(t) \/ QuitEnds(t) \/ FileBuilt(t)

TabStep(w) ==
  \/ \E n \in Items : SelectTab(w, n) \/ CloseItem(w, n)
  \/ \E n \in Items, index \in 0 .. Cardinality(Items) : DragTab(w, n, index)
  \/ \E heard \in BOOLEAN : KeepPreview(w, heard)

Next ==
  \/ Start \/ Crash \/ Written
  \/ \E p \in Paths : Reopen(p)
  \/ \E t \in Tasks : CommandStep(t)
  \/ \E t \in AllTasks : TaskStep(t)
  \/ \E i \in Handles : TimerSaves(i) \/ ItemsSent(i)
  \/ \E w \in Windows : ClearRecent(w) \/ TabStep(w)

Spec == Init /\ [][Next]_vars

-----------------------------------------------------------------------------
(* What the variables range over.                                          *)
TypeOK ==
  /\ DbTypeOK
  /\ up \in BOOLEAN /\ run \in Sessions /\ boot \subseteq Paths
  /\ shown \in [Windows -> Handles \cup {0}]
  /\ workspace \in [Handles -> WorkspaceState]
  /\ task \in [AllTasks -> TaskState]
  /\ fileOf \in [Items -> Files \cup {None}]
  /\ budget \in [Kinds -> Nat]

(* A pane that is shown is sound, however its tabs came, were restored,    *)
(* replaced and closed: one tab per file, the active index within them, the*)
(* preview among them.                                                     *)
PanesSound == \A w \in OpenWindows : PaneSound(workspace[shown[w]].pane, fileOf)

(* Nothing is in progress: every save and every item has been written.     *)
AtRest ==
  /\ up /\ boot = {} /\ queue = <<>> /\ OpenWindows # {}
  /\ \A t \in AllTasks : Idle(t)
  /\ \A i \in Handles : Alive(i) => ~workspace[i].scheduled /\ workspace[i].unsent = {}

(* An id belongs to one open workspace (next_id).                          *)
IdsDistinct ==
  excuse = {} =>
    \A i, j \in Handles :
      Alive(i) /\ Alive(j) /\ workspace[i].id = workspace[j].id => i = j

(* What a start reopens is what is shown now, and after an end that        *)
(* nothing interferes with what was shown when the program quit, or the    *)
(* window closed last (prepare_to_close, remove_from_session).             *)
SessionIsWhatIsOpen ==
  /\ AtRest /\ excuse = {} => SessionPaths(run) = ShownPaths
  /\ ~up /\ expected # None => SessionPaths(run) = expected

(* What is stored of an open directory is its pane, with a file for each   *)
(* item; only that a preview is kept may be missing (serialize_workspace,  *)
(* serialize_items, restore_workspace).                                    *)
RestorableAtRest ==
  AtRest /\ excuse = {} =>
    \A w \in OpenWindows :
      LET ws == workspace[shown[w]]
          row == rows[ws.id]
      IN  ws.path # None =>
            /\ RowsOf(ws.path) = {ws.id}
            /\ \/ row.pane = StoredOf(ws.pane)
               \/ ws.pane.preview = None /\ [row.pane EXCEPT !.preview = None] = StoredOf(ws.pane)
            /\ \A k \in 1 .. Len(ws.pane.items) :
                 files[ws.id][ws.pane.items[k]] = fileOf[ws.pane.items[k]]
=============================================================================
