--------------------------- MODULE WorktreeScanner ---------------------------
(***************************************************************************)
(* The background scanner of one worktree (crates/worktree), the Worktree  *)
(* entity on the UI thread that receives its snapshots, the tasks that ask *)
(* it for a refresh, and the file system under all of them.                *)
(*                                                                         *)
(* The scanner's main task alternates between waiting for work, applying a *)
(* batch of file-system events, updating ignore statuses and scanning      *)
(* directories; in the last two it shares the work with a pool of Workers, *)
(* which also answer refresh requests meanwhile.  Metadata is read with    *)
(* the mutex free and applied with it held, so what is applied may be old. *)
(***************************************************************************)
EXTENDS WorktreeSnapshot

CONSTANTS
  Workers,   \* the scoped tasks of scan_dirs and update_ignore_statuses_for_paths
  Main,      \* the scanner's main task
  Clients,   \* UI tasks, each of which performs one worktree operation
  Touched,   \* the paths other programs change
  MaxFsOps   \* bound: file-system changes in a behavior

ASSUME ActorAssumption == Main \notin Workers /\ Touched \subseteq Paths /\ MaxFsOps \in Nat

VARIABLES
  disk,        \* what the file system holds at each path
  diskRule,    \* whether the .gitignore on disk ignores IgnoreSet
  fsOps,       \* number of file-system changes so far, the clock of mtimes
  events,      \* the watcher's stream: sets of paths not yet received
  bg,          \* BackgroundScannerState, the record behind the mutex
  prev,        \* prev_snapshot.entries_by_path: what the last update carried
  phase,       \* where the main task is
  roots,       \* the event roots of the batch being processed
  stat,        \* metadata read by each actor, not applied yet
  todo,        \* paths each actor has still to read metadata of
  jobs,        \* the scan queue
  ignoreJobs,  \* the ignore-status queue
  ignoreSnap,  \* the clone of the snapshot the ignore jobs read
  request,     \* the refresh request each actor is serving
  job,         \* the directory each actor is scanning
  requests,    \* scan_requests channel
  updates,     \* scan_states channel to the UI thread
  ui,          \* Worktree::snapshot
  isScanning,  \* Worktree::is_scanning
  mirror,      \* what a listener that applies UpdatedEntries believes
  client       \* the client tasks

fsVars == <<disk, diskRule, fsOps, events>>
requestVars == <<request, stat, todo>>
queueVars == <<jobs, ignoreJobs, ignoreSnap>>
uiVars == <<ui, isScanning, mirror>>
vars == <<disk, diskRule, fsOps, events, bg, prev, phase, roots, stat, todo, jobs,
          ignoreJobs, ignoreSnap, request, job, requests, updates, ui, isScanning,
          mirror, client>>

Actors == Workers \cup {Main}
NoPaths == [p \in Paths |-> None]

(* What a client does; Refresh stands for load_file and expand_entry.      *)
ClientOp == {"Create", "Write", "Delete", "Rename", "Refresh"}

(* old is the entry a rename or a refresh began with, seen what the path   *)
(* has held since the request, after the number of scan states sent before *)
(* the completion that have not been received.                             *)
ClientState ==
  [op : ClientOp, path : Paths, old : Entry \cup {None}, refresh : SUBSET Paths,
   step : {"idle", "changed", "waiting", "acked", "done"},
   seen : SUBSET (FileState \cup {None}), byMain : BOOLEAN, after : Nat,
   result : Entry \cup {None}]

(* A busy worker serves a request or scans a directory. *)
Idle(a) == request[a] = None /\ job[a] = None

-----------------------------------------------------------------------------
(* The file system.                                                        *)

InUse == {disk[p].inode : p \in {q \in Paths : disk[q] # None}}

FreshFile(i) == [inode |-> i, mtime |-> fsOps + 1]

(* One change on disk.  The recursive watch on the root reports it.        *)
FsStep(disk2, changed) ==
  /\ fsOps < MaxFsOps
  /\ fsOps' = fsOps + 1
  /\ disk' = disk2
  /\ events' = Append(events, changed)

FsCreate(p) ==
  /\ disk[p] = None /\ p # Root /\ disk[Parent[p]] # None
  /\ \E i \in Inodes \ InUse : FsStep([disk EXCEPT ![p] = FreshFile(i)], {p})
  /\ diskRule' \in IF p = Gitignore THEN BOOLEAN ELSE {diskRule}

FsWrite(p) ==
  /\ disk[p] # None /\ p \notin Dirs
  /\ FsStep([disk EXCEPT ![p].mtime = fsOps + 1], {p})
  /\ diskRule' = IF p = Gitignore THEN ~diskRule ELSE diskRule

FsRemove(p) ==
  /\ disk[p] # None /\ p # Root
  /\ FsStep([q \in Paths |-> IF q \in Under(p) THEN None ELSE disk[q]], {p})
  /\ diskRule' = IF p = Gitignore THEN FALSE ELSE diskRule

(* A file moves to q, over the file there if any: also the last step of an *)
(* atomic save.                                                            *)
FsRename(p, q) ==
  /\ p # q /\ {p, q} \cap (Dirs \cup {Gitignore}) = {}
  /\ disk[p] # None /\ disk[Parent[q]] # None
  /\ FsStep([disk EXCEPT ![p] = None, ![q] = disk[p]], {p, q})
  /\ UNCHANGED diskRule

(* A waiting client remembers what its path has held since it asked.       *)
ClientsSee == [c \in Clients |->
  IF client[c].step \in {"waiting", "acked"}
  THEN [client[c] EXCEPT !.seen = @ \cup {disk'[client[c].path]}] ELSE client[c]]

(* Another program, or a client's own file operation, changes the disk.    *)
External ==
  /\ \E p \in Touched : \/ FsCreate(p) \/ FsWrite(p) \/ FsRemove(p)
                        \/ \E q \in Touched : FsRename(p, q)
  /\ client' = ClientsSee
  /\ UNCHANGED <<bg, prev, phase, roots, requestVars, queueVars, job, requests, updates, uiVars>>

-----------------------------------------------------------------------------
(* Worktree operations on the UI thread: change the disk in the            *)
(* background, then ask for a refresh, then look the entry up.             *)

StartClient(c, op, p, q, refresh) ==
  client' = [ClientsSee EXCEPT ![c] =
    [op |-> op, path |-> p, old |-> q, refresh |-> refresh, step |-> "changed",
     seen |-> {}, byMain |-> FALSE, after |-> 0, result |-> None]]

(* create_entry: the missing ancestors are refreshed with the new path.    *)
ClientCreate(c, p) ==
  /\ client[c].step = "idle"
  /\ p # Gitignore
  /\ IF disk[p] = None THEN FsCreate(p) ELSE FsWrite(p)
  /\ StartClient(c, "Create", p, None, {q \in Ancestors[p] : q = p \/ ui.paths[q] = None})

(* write_file, for the save of an open buffer. *)
ClientWrite(c, p) ==
  /\ client[c].step = "idle" /\ ui.paths[p] # None /\ p # Gitignore
  /\ FsWrite(p)
  /\ StartClient(c, "Write", p, None, {p})

ClientDelete(c, p) ==
  /\ client[c].step = "idle" /\ ui.paths[p] # None /\ p # Gitignore
  /\ FsRemove(p)
  /\ StartClient(c, "Delete", p, None, {p})

(* rename_entry of p to q, which must not exist. *)
ClientRename(c, p, q) ==
  /\ client[c].step = "idle" /\ ui.paths[p] # None /\ disk[q] = None
  /\ FsRename(p, q)
  /\ StartClient(c, "Rename", q, ui.paths[p], {p, q})

(* load_file and expand_entry: only ask for a refresh. *)
ClientRefresh(c, p) ==
  /\ client[c].step = "idle" /\ ui.paths[p] # None /\ p # Gitignore
  /\ UNCHANGED fsVars
  /\ StartClient(c, "Refresh", p, ui.paths[p], {p})

ClientStart(c) ==
  /\ \E p \in Paths : \/ ClientCreate(c, p) \/ ClientWrite(c, p) \/ ClientDelete(c, p)
                      \/ ClientRefresh(c, p) \/ \E q \in Paths : ClientRename(c, p, q)
  /\ UNCHANGED <<bg, prev, phase, roots, requestVars, queueVars, job, requests, updates, uiVars>>

(* refresh_entries_for_paths; rename_entry also refreshes the directory    *)
(* and drops that receiver.                                                *)
ClientSubmit(c) ==
  /\ client[c].step = "changed"
  /\ LET ask == [paths |-> client[c].refresh, senders |-> {c}]
         first == [paths |-> {Parent[client[c].path]}, senders |-> {}]
     IN requests' = requests \o IF client[c].op = "Rename" THEN <<first, ask>> ELSE <<ask>>
  /\ client' = [client EXCEPT ![c].step = "waiting", ![c].seen = {disk[client[c].path]}]
  /\ UNCHANGED <<fsVars, bg, prev, phase, roots, requestVars, queueVars, job, updates, uiVars>>

(* The completion was sent: the task resumes on the UI thread and looks    *)
(* the path up in the snapshot it finds there, which the scan states that  *)
(* were sent before may not have reached yet.                              *)
ClientResume(c) ==
  /\ client[c].step = "acked"
  /\ client' = [client EXCEPT ![c].step = "done", ![c].result = ui.paths[client[c].path]]
  /\ UNCHANGED <<fsVars, bg, prev, phase, roots, requestVars, queueVars, job, requests,
                 updates, uiVars>>

(* A completion: sent by the UI thread, with nothing left to receive, or   *)
(* by the scanner, while `after` scan states are on their way.             *)
Acked(cl, senders, main, after) ==
  [c \in Clients |-> IF c \in senders
     THEN [cl[c] EXCEPT !.step = "acked", !.byMain = main, !.after = after] ELSE cl[c]]

-----------------------------------------------------------------------------
(* Scanning a directory: scan_dir.                                         *)

NewJob(d, rule) ==
  [path |-> d, rule |-> rule, started |-> FALSE, read |-> NoPaths, newIgnore |-> None]

(* A directory's own .gitignore joins its ignore stack only when it is     *)
(* read: the root's job starts with no rule.                               *)
NewJobs(dirs, rule) ==
  LET order == InOrder(dirs)
  IN  [i \in 1 .. Len(order) |-> NewJob(order[i], rule /\ order[i] # Root)]

(* A worker takes a directory when no request is waiting (select_biased).  *)
TakeJob(w) ==
  /\ phase \in {"initialScan", "scan"} /\ Idle(w) /\ requests = <<>> /\ jobs # <<>>
  /\ job' = [job EXCEPT ![w] = Head(jobs)]
  /\ jobs' = Tail(jobs)
  /\ UNCHANGED <<fsVars, bg, prev, phase, roots, requestVars, ignoreJobs, ignoreSnap,
                 requests, updates, uiVars, client>>

(* Read the directory, stat its children and parse its .gitignore, all     *)
(* without the mutex; a directory that is gone ends the job.               *)
ReadDir(a) ==
  /\ job[a] # None /\ ~job[a].started
  /\ LET d == job[a].path
         ignore == IF d = Root /\ disk[Gitignore] # None
                   THEN [rule |-> diskRule, needsUpdate |-> FALSE] ELSE None
     IN job' = [job EXCEPT ![a] =
          IF disk[d] = None THEN None
          ELSE [@ EXCEPT !.started = TRUE, !.newIgnore = ignore,
                         !.rule = job[a].rule \/ (ignore # None /\ diskRule),
                         !.read = [p \in Paths |-> IF p \in Children(d) THEN disk[p] ELSE None]]]
  /\ UNCHANGED <<fsVars, bg, prev, phase, roots, requestVars, queueVars, requests, updates,
                 uiVars, client>>

(* Populate the directory with the mutex held and queue its directories:   *)
(* on the queue of the request that asked for it, or on the scan queue.    *)
Populate(a) ==
  /\ job[a] # None /\ job[a].started
  /\ LET j == job[a]
         subs == NewJobs(SubdirsToScan(bg, j.path, j.read, j.rule), j.rule)
     IN /\ bg' = PopulateDir(bg, j.path, j.read, j.rule, j.newIgnore)
        /\ IF request[a] # None
           THEN /\ request' = [request EXCEPT ![a].local = @ \o subs]
                /\ UNCHANGED jobs
           ELSE /\ jobs' = jobs \o subs
                /\ UNCHANGED request
  /\ job' = [job EXCEPT ![a] = None]
  /\ UNCHANGED <<fsVars, prev, phase, roots, stat, todo, ignoreJobs, ignoreSnap, requests,
                 updates, uiVars, client>>

-----------------------------------------------------------------------------
(* build_diff: the entries that differ at the changed paths and below.     *)
(* Variant: at the changed paths only.                                     *)
DifferingAt(old, new, under) == {q \in under : old[q] # new[q]}

Differing(old, new, under) ==
  {q \in Paths : old[q] # new[q] /\ \E p \in under : q \in Under(p)}

(* send_status_update: hand the snapshot and what changed since the last   *)
(* one to the UI thread.  Without changes and in the middle of a scan the  *)
(* completions are sent directly.                                          *)

Update(state, senders, scanning, under) ==
  [started |-> FALSE, paths |-> state.paths, scanId |-> state.scanId,
   completedId |-> state.completedId, senders |-> senders, scanning |-> scanning,
   changes |-> Differing(prev, state.paths, state.changed \cup under)]

SendStatusUpdate(state, scanning, senders, under) ==
  IF state.changed = {} /\ under = {} /\ scanning
  THEN /\ client' = Acked(client, senders, FALSE, Len(updates))
       /\ bg' = state
       /\ UNCHANGED <<prev, updates>>
  ELSE /\ updates' = Append(updates, Update(state, senders, scanning, under))
       /\ prev' = state.paths
       /\ bg' = [state EXCEPT !.changed = {}]
       /\ UNCHANGED client

Started == [started |-> TRUE]

-----------------------------------------------------------------------------
(* Serving a refresh request: process_scan_request.                        *)

(* Variant: the main task does not listen for requests. *)
WorkerMayServe(a) == a # Main /\ phase \in {"initialScan", "scan", "ignores"}

(* Requests are received by the idle main task and by the workers of a     *)
(* scan, before anything else.                                             *)
MayServe(a) ==
  IF a = Main THEN phase = "idle" ELSE phase \in {"initialScan", "scan", "ignores"}

KnownUnloaded(p) == bg.paths[p] # None /\ bg.paths[p].kind = "UnloadedDir"

(* Variant: what another request is loading is left to that request.       *)
UnloadedUnclaimed(p) ==
  {d \in Ancestors[p] : /\ KnownUnloaded(d) /\ p \notin bg.toScan
                        /\ \A e \in Ancestors[p] : KnownUnloaded(e) => e \in Ancestors[d]}

(* The nearest directory at or above p that is known but was never loaded. *)
UnloadedAbove(p) ==
  {d \in Ancestors[p] : /\ KnownUnloaded(d)
                        /\ \A e \in Ancestors[p] : KnownUnloaded(e) => e \in Ancestors[d]}

(* The scan jobs of forcibly_load_paths: one for each of the paths.        *)
LoadJobs(paths) ==
  LET order == InOrder(paths)
      above(p) == CHOOSE d \in UnloadedAbove(p) : TRUE
  IN  [i \in 1 .. Len(order) |-> NewJob(above(order[i]), Rule(bg) /\ above(order[i]) # Root)]

(* next_scan_request merges what is queued; forcibly_load_paths then       *)
(* queues the unloaded directories above the paths.                        *)
TakeRequest(a) ==
  /\ MayServe(a) /\ Idle(a) /\ requests # <<>>
  /\ LET paths == UNION {requests[i].paths : i \in DOMAIN requests}
         senders == UNION {requests[i].senders : i \in DOMAIN requests}
         unloaded == {p \in paths : UnloadedAbove(p) # {}}
     IN /\ request' = [request EXCEPT ![a] =
              [paths |-> paths, senders |-> senders, step |-> "load",
               local |-> LoadJobs(unloaded)]]
        /\ bg' = [bg EXCEPT !.toScan = @ \cup unloaded]
  /\ requests' = <<>>
  /\ UNCHANGED <<fsVars, prev, phase, roots, stat, todo, queueVars, job, updates, uiVars, client>>

LoadNext(a) ==
  /\ request[a] # None /\ request[a].step = "load" /\ job[a] = None /\ request[a].local # <<>>
  /\ job' = [job EXCEPT ![a] = Head(request[a].local)]
  /\ request' = [request EXCEPT ![a].local = Tail(@)]
  /\ UNCHANGED <<fsVars, bg, prev, phase, roots, stat, todo, queueVars, requests, updates,
                 uiVars, client>>

(* A request's scan is complete at once if the one before it was.          *)
(* Variant: a request does not complete its scan.                          *)
NextScanOpen(state) == [state EXCEPT !.scanId = @ + 1]

NextScan(state) ==
  [state EXCEPT !.scanId = @ + 1,
                !.completedId = IF @ = state.scanId THEN @ + 1 ELSE @]

(* paths_to_scan is taken, whoever filled it, and a scan id is drawn. *)
LoadDone(a) ==
  /\ request[a] # None /\ request[a].step = "load" /\ job[a] = None /\ request[a].local = <<>>
  /\ request' = [request EXCEPT ![a].step = "stat"]
  /\ todo' = [todo EXCEPT ![a] = request[a].paths]
  /\ bg' = [NextScan(bg) EXCEPT !.toScan = {}]
  /\ UNCHANGED <<fsVars, prev, phase, roots, stat, queueVars, job, requests, updates, uiVars, client>>

Stat(a) ==
  /\ \E p \in todo[a] :
       /\ stat' = [stat EXCEPT ![a][p] = disk[p]]
       /\ todo' = [todo EXCEPT ![a] = @ \ {p}]
  /\ UNCHANGED <<fsVars, bg, prev, phase, roots, request, queueVars, job, requests, updates,
                 uiVars, client>>

(* What build_gitignore reads of the .gitignore, while it is inserted.     *)
ReadRule == IF disk[Gitignore] = None THEN None ELSE diskRule

(* With the mutex held: apply what was read, then in a second critical     *)
(* section report it.                                                      *)
Reload(a) ==
  /\ request[a] # None /\ request[a].step = "stat" /\ todo[a] = {}
  /\ bg' = ReloadEntries(bg, request[a].paths, stat[a], FALSE, ReadRule)
  /\ request' = [request EXCEPT ![a].step = "report"]
  /\ stat' = [stat EXCEPT ![a] = NoPaths]
  /\ UNCHANGED <<fsVars, prev, phase, roots, todo, queueVars, job, requests, updates, uiVars, client>>

Report(a) ==
  /\ request[a] # None /\ request[a].step = "report"
  /\ SendStatusUpdate(bg, a # Main, request[a].senders, {})
  /\ request' = [request EXCEPT ![a] = None]
  /\ UNCHANGED <<fsVars, phase, roots, stat, todo, queueVars, job, requests, uiVars>>

-----------------------------------------------------------------------------
(* A batch of file-system events: process_events.                          *)

(* Events are received one or more at a time, when no request is waiting.  *)
(* An event below another one is dropped, and so is one in a directory     *)
(* that is not loaded.                                                     *)
TakeEvents ==
  /\ phase = "idle" /\ Idle(Main) /\ requests = <<>> /\ events # <<>>
  /\ \E n \in 1 .. Len(events) :
       LET batch == UNION {events[i] : i \in 1 .. n}
           tops == {p \in batch : Ancestors[p] \cap batch = {p}}
           kept == {p \in tops : p # Root =>
                      bg.paths[Parent[p]] # None /\ bg.paths[Parent[p]].kind = "Dir"}
       IN /\ events' = SubSeq(events, n + 1, Len(events))
          /\ roots' = kept
          /\ IF kept = {}
             THEN UNCHANGED <<bg, phase, todo>>
             ELSE /\ bg' = [bg EXCEPT !.scanId = @ + 1]
                  /\ phase' = "stat"
                  /\ todo' = [todo EXCEPT ![Main] = kept]
  /\ UNCHANGED <<disk, diskRule, fsOps, prev, stat, request, queueVars, job, requests, updates,
                 uiVars, client>>

(* Reload recursively; if the .gitignore was touched its directory's       *)
(* ignore statuses are to be updated against a clone of the snapshot.      *)
EventReload ==
  /\ phase = "stat" /\ todo[Main] = {}
  /\ LET loaded == ReloadEntries(bg, roots, stat[Main], TRUE, ReadRule)
         known == loaded.ignore # None
         present == loaded.paths[Gitignore] # None
         settled == [loaded EXCEPT !.ignore =
                       IF known /\ present THEN [@ EXCEPT !.needsUpdate = FALSE] ELSE None]
     IN /\ bg' = settled
        /\ ignoreJobs' = IF known /\ loaded.ignore.needsUpdate THEN <<Root>> ELSE <<>>
        /\ ignoreSnap' = [paths |-> settled.paths, rule |-> Rule(settled)]
        /\ jobs' = NewJobs({p \in roots \cap Dirs : /\ stat[Main][p] # None
                                                    /\ loaded.paths[p].kind = "PendingDir"},
                           Rule(loaded))
  /\ phase' = "ignores"
  /\ stat' = [stat EXCEPT ![Main] = NoPaths]
  /\ UNCHANGED <<fsVars, prev, roots, todo, request, job, requests, updates, uiVars, client>>

(* Ignore jobs are queued for all subdirectories.  Variant: for none.      *)
NoIgnoreJobs(children) == <<>>

IgnoreJobsIn(children) == InOrder(children \cap Dirs)

(* update_ignore_status of one directory: verdicts are recomputed for the  *)
(* entries of the clone, and those that changed replace what is indexed    *)
(* now.  An unloaded directory that is no longer ignored is to be scanned. *)
UpdateIgnoreStatus(w) ==
  /\ phase = "ignores" /\ Idle(w) /\ requests = <<>> /\ ignoreJobs # <<>>
  /\ LET children == {p \in Children(Head(ignoreJobs)) : ignoreSnap.paths[p] # None}
         updated == [p \in children |->
                      [ignoreSnap.paths[p] EXCEPT !.ignored = IsIgnored(ignoreSnap.rule, p)]]
         edits == {p \in children : updated[p] # ignoreSnap.paths[p]}
         revealed == {p \in edits : updated[p].kind = "UnloadedDir" /\ ~updated[p].ignored}
     IN /\ bg' = [bg EXCEPT !.paths = [p \in Paths |-> IF p \in edits THEN updated[p] ELSE @[p]],
                            !.changed = @ \cup edits]
        /\ ignoreJobs' = Tail(ignoreJobs) \o IgnoreJobsIn(children)
        /\ jobs' = jobs \o NewJobs(revealed, Rule(bg))
  /\ UNCHANGED <<fsVars, prev, phase, roots, requestVars, ignoreSnap, job, requests, updates,
                 uiVars, client>>

(* The ignore queue is drained and its workers have joined: scan_dirs.     *)
EndIgnores ==
  /\ phase = "ignores" /\ ignoreJobs = <<>> /\ \A w \in Workers : Idle(w)
  /\ phase' = "scan"
  /\ updates' = Append(updates, Started)
  /\ UNCHANGED <<fsVars, bg, prev, roots, requestVars, queueVars, job, requests, uiVars, client>>

(* While the initial scan runs a timer sends what was found so far.        *)
Progress ==
  /\ phase = "initialScan" /\ \E w \in Workers : Idle(w)
  /\ bg.changed # {}
  /\ SendStatusUpdate(bg, TRUE, {}, {})
  /\ UNCHANGED <<fsVars, phase, roots, requestVars, queueVars, job, requests, uiVars>>

(* The scan queue is drained and the workers have joined.  After a batch   *)
(* of events the removed entries are forgotten.                            *)
EndScan ==
  /\ phase \in {"initialScan", "scan"} /\ jobs = <<>> /\ \A w \in Workers : Idle(w)
  /\ LET removedIds == {bg.removed[i].id : i \in {k \in Inodes : bg.removed[k] # None}}
         completed == [bg EXCEPT !.completedId = bg.scanId]
         cleared == [completed EXCEPT !.removed = [i \in Inodes |-> None],
                                      !.scannedDirs = @ \ removedIds]
     IN SendStatusUpdate(IF phase = "scan" THEN cleared ELSE completed, FALSE, {}, roots)
  /\ phase' = "idle"
  /\ roots' = {}
  /\ UNCHANGED <<fsVars, requestVars, queueVars, job, requests, uiVars>>

-----------------------------------------------------------------------------
(* A scan state is received: one less that a completion may overtake.      *)
Received == [c \in Clients |->
  IF client[c].step = "acked" /\ client[c].after > 0
  THEN [client[c] EXCEPT !.after = @ - 1] ELSE client[c]]

(* The UI thread receives a scan state: set_snapshot, the UpdatedEntries   *)
(* event to the listeners, then the completions.                           *)
ReceiveScanState ==
  /\ updates # <<>>
  /\ LET update == Head(updates) IN
       IF update.started
       THEN /\ isScanning' = TRUE
            /\ client' = Received
            /\ UNCHANGED <<ui, mirror>>
       ELSE /\ isScanning' = update.scanning
            /\ ui' = [paths |-> update.paths, scanId |-> update.scanId,
                      completedId |-> update.completedId]
            /\ mirror' = [p \in Paths |-> IF p \in update.changes THEN update.paths[p] ELSE mirror[p]]
            /\ client' = Acked(Received, update.senders, ~update.scanning, 0)
  /\ updates' = Tail(updates)
  /\ UNCHANGED <<fsVars, bg, prev, phase, roots, requestVars, queueVars, job, requests>>

-----------------------------------------------------------------------------
(* Worktree::new has inserted the root; run() draws a scan id and queues   *)
(* the root directory.  The disk may hold any tree.                        *)

IdleClient == [op |-> "Refresh", path |-> Root, old |-> None, refresh |-> {}, step |-> "idle",
               seen |-> {}, byMain |-> FALSE, after |-> 0, result |-> None]

RootEntry == [id |-> 0, kind |-> "PendingDir", inode |-> disk[Root].inode,
              mtime |-> disk[Root].mtime, ignored |-> FALSE]

InitialDisks ==
  {d \in [Paths -> [inode : Inodes, mtime : {0}] \cup {None}] :
     /\ d[Root] # None
     /\ \A p \in Paths \ {Root} : d[p] # None => d[Parent[p]] # None
     /\ \A p, q \in Paths : d[p] # None /\ d[q] # None /\ d[p].inode = d[q].inode => p = q}

Init ==
  /\ disk \in InitialDisks
  /\ diskRule \in IF disk[Gitignore] # None THEN BOOLEAN ELSE {FALSE}
  /\ fsOps = 0 /\ events = <<>>
  /\ ui = [paths |-> [NoPaths EXCEPT ![Root] = RootEntry], scanId |-> 1, completedId |-> 0]
  /\ bg = [paths |-> ui.paths, ids |-> {<<0, Root>>}, removed |-> [i \in Inodes |-> None],
           scannedDirs |-> {}, toScan |-> {}, changed |-> {}, ignore |-> None,
           nextId |-> 1, scanId |-> 2, completedId |-> 0]
  /\ prev = ui.paths /\ mirror = ui.paths /\ isScanning = TRUE
  /\ phase = "initialScan" /\ roots = {}
  /\ stat = [a \in Actors |-> NoPaths] /\ todo = [a \in Actors |-> {}]
  /\ jobs = <<NewJob(Root, FALSE)>> /\ ignoreJobs = <<>>
  /\ ignoreSnap = [paths |-> NoPaths, rule |-> FALSE]
  /\ request = [a \in Actors |-> None] /\ job = [a \in Actors |-> None]
  /\ requests = <<>> /\ updates = <<Started>>
  /\ client = [c \in Clients |-> IdleClient]

Serve(a) == \/ TakeRequest(a) \/ LoadNext(a) \/ LoadDone(a)
            \/ ReadDir(a) \/ Populate(a) \/ Stat(a) \/ Reload(a) \/ Report(a)

Scan(w) == TakeJob(w) \/ UpdateIgnoreStatus(w)

MainStep == TakeEvents \/ EventReload \/ EndIgnores \/ Progress \/ EndScan

ClientStep(c) == ClientStart(c) \/ ClientSubmit(c) \/ ClientResume(c)

Next ==
  \/ External
  \/ \E c \in Clients : ClientStep(c)
  \/ \E a \in Actors : Serve(a)
  \/ \E w \in Workers : Scan(w)
  \/ MainStep
  \/ ReceiveScanState

Spec == Init /\ [][Next]_vars

(* The executor runs every ready task; users and other programs do what    *)
(* they like.                                                              *)
Fairness ==
  /\ \A a \in Actors : WF_vars(Serve(a))
  /\ \A w \in Workers : WF_vars(Scan(w))
  /\ WF_vars(TakeEvents \/ EventReload \/ EndIgnores \/ EndScan)
  /\ WF_vars(ReceiveScanState)
  /\ \A c \in Clients : WF_vars(ClientSubmit(c) \/ ClientResume(c))

FairSpec == Spec /\ Fairness

-----------------------------------------------------------------------------
(* Every variable has its type: what the code's types say, and that no     *)
(* completion overtakes a negative number of updates.                      *)
TypeOK ==
  /\ disk \in [Paths -> FileState \cup {None}] /\ diskRule \in BOOLEAN
  /\ fsOps \in 0 .. MaxFsOps /\ events \in Seq(SUBSET Paths)
  /\ bg \in ScannerState
  /\ {prev, mirror, ui.paths, ignoreSnap.paths} \subseteq [Paths -> Entry \cup {None}]
  /\ phase \in {"initialScan", "idle", "stat", "ignores", "scan"}
  /\ roots \in SUBSET Paths
  /\ stat \in [Actors -> [Paths -> FileState \cup {None}]]
  /\ todo \in [Actors -> SUBSET Paths]
  /\ client \in [Clients -> ClientState]

(* Nothing is left to do: no events, requests, jobs or undelivered updates. *)
Quiescent ==
  /\ phase = "idle" /\ Idle(Main) /\ \A w \in Workers : Idle(w)
  /\ events = <<>> /\ requests = <<>> /\ updates = <<>>

(* What the index should hold of the disk: everything but what lies in a   *)
(* directory that was left unloaded.                                       *)
Loaded(p) == p = Root \/ (ui.paths[Parent[p]] # None /\ ui.paths[Parent[p]].kind = "Dir")

Agrees(entry, file) ==
  IF file = None THEN entry = None
  ELSE entry # None /\ entry.inode = file.inode /\ entry.mtime = file.mtime

(* Once every event is handled the UI shows the disk, whatever order       *)
(* metadata was read and applied in by requests, scan jobs and ignore jobs *)
(* (scan_dir and reload_entries_for_paths apply what they read earlier),   *)
(* so that no entry is left without its directory (check_invariants).      *)
(* Up to two changes of the disk; the README tells what a third can do to  *)
(* a directory that a .gitignore hid.                                      *)
QuiescentMatchesDisk ==
  Quiescent => \A p \in Paths : Loaded(p) => Agrees(ui.paths[p], disk[p])

(* Once every event is handled each loaded entry is marked ignored exactly *)
(* when the .gitignore on disk says so (what test_dirs_no_longer_ignored   *)
(* expects).  The code does not ensure it: EventReload queues directories  *)
(* with the rule of a .gitignore whose removal is in the same batch.       *)
IgnoresMatchRule ==
  Quiescent => \A p \in Paths : Loaded(p) /\ ui.paths[p] # None =>
                  ui.paths[p].ignored = IsIgnored(diskRule, p)

(* Apart from that the marks are right, however scans, requests and        *)
(* update_ignore_status interleaved: where there is a .gitignore, and,     *)
(* where there is none any more, as long as no directory was made (the     *)
(* first ones have mtime 0) that its removal could be handled with.        *)
IgnoresSettle ==
  disk[Gitignore] # None \/ (\A d \in Dirs : disk[d] # None => disk[d].mtime = 0)
    => IgnoresMatchRule

(* entries_by_path and entries_by_id always hold the same entries: what    *)
(* check_invariants asserts after populate_dir, insert_entry and           *)
(* remove_path_from_snapshot.                                              *)
IndexesAgree == SameIndexes(bg)

(* A listener that applies the UpdatedEntries it receives knows the        *)
(* snapshot they were received with: build_diff misses nothing.            *)
MirrorInSync == mirror = ui.paths

(* When the UI is told that the scan is over (is_scanning is false) the    *)
(* snapshot it has is complete: what scan_complete waits for is enough.    *)
NotScanningMeansComplete == ~isScanning => ui.completedId = ui.scanId

(* The snapshot with which the idle scanner answers a refresh shows at the *)
(* path what the disk held there at some moment since the task asked       *)
(* (refresh_entries_for_paths).  A refresh answered in the middle of a     *)
(* scan does not promise as much: an older read of the directory may be    *)
(* applied over it.                                                        *)
AnswerIsCurrent ==
  [][\A c \in Clients :
       client[c].step = "waiting" /\ client'[c].step = "acked" /\ client'[c].byMain =>
         \E file \in client'[c].seen : Agrees(ui'.paths[client[c].path], file)]_vars

(* The entry that a task so answered finds when it goes on is not older    *)
(* than its request either, whatever was received in between.  (It may     *)
(* find none, in the middle of a recursive reload of its directory.)       *)
IdleRefreshIsCurrent ==
  \A c \in Clients :
    client[c].step = "done" /\ client[c].byMain /\ client[c].result # None =>
      \E file \in client[c].seen : Agrees(client[c].result, file)

(* No other task has asked for anything: with two, the other's request may *)
(* apply older metadata.                                                   *)
Alone(c) == \A k \in Clients \ {c} : client[k].step = "idle"

(* A file that rename_entry moves keeps its entry id, on which its open    *)
(* buffer hangs, whether the refresh, the event batch or the initial scan  *)
(* gets to it first, as long as nothing else changes or reads the disk and *)
(* the completion overtook no update.                                      *)
RenameKeepsId ==
  \A c \in Clients :
    /\ client[c].step = "done" /\ client[c].op = "Rename" /\ client[c].after = 0
    /\ fsOps = 1 /\ Alone(c)
    => client[c].result # None /\ client[c].result.id = client[c].old.id

(* A task that asks for a directory it sees unloaded (expand_entry) is not *)
(* answered before it is loaded: not even when a request of another task   *)
(* is loading it already, on another worker, and either of the two empties *)
(* paths_to_scan first.  (Where the .gitignore changed meanwhile it may be *)
(* update_ignore_status that loads it, after the answer; a completion that *)
(* overtook an update may find the directory as it was.)                   *)
ExpandLoads ==
  \A c \in Clients :
    /\ client[c].step = "done" /\ client[c].op = "Refresh" /\ client[c].after = 0
    /\ client[c].old # None /\ client[c].old.kind = "UnloadedDir"
    /\ disk[Gitignore] # None /\ disk[Gitignore].mtime = 0
    => client[c].result = None \/ client[c].result.kind # "UnloadedDir"

(* A task that asked for a refresh is answered, whatever the scanner was   *)
(* doing when it asked (next_scan_request, send_status_update).            *)
EveryRequestAnswered ==
  \A c \in Clients : client[c].step = "waiting" ~> client[c].step = "done"
=============================================================================
