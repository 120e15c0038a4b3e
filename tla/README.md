# Zaku, verified in parts

Zaku is a desktop API client in Rust on the GPUI framework.  This directory is
the verification project kept beside its code: TLA+ modules translated from
`src/crates`, TLC configurations that check them on small instances, and
theorems that TLAPS proves for every value of the constants.
`PROJECT.json` maps every definition to the lines it models and lists the runs,
the mutants that break each property, the hazards and the theorems.

## The system

Everything the user sees lives on one **UI thread**: GPUI entities change
only there, in turns that nothing interrupts.  Work that may block runs in
**background tasks**; a task resumes on the UI thread after each `await`, when
the entities it captured may have changed or gone.  The hard behaviours
of the program come from that boundary: results that arrive late, out of order
or for something that no longer exists, and from the background side itself,
where the file-system scanner runs on several threads around a mutex.

| component (crates) | state | operations | talks to |
|---|---|---|---|
| Worktree scanner (`worktree`) | snapshot indexed by path and by id, ignores, removed entries, scan ids, prev snapshot | initial scan, event batches, refresh requests, ignore updates; create, write, delete, rename, load, expand | file system and watcher; `UpdatedEntries` events to the stores |
| Worktree store (`project/worktree_store`) | worktree handles, pending open tasks, epoch, path to open, initial-scan flag | open, share, supersede, add, remove, wait for scan | worktrees; project, git store, buffer stores |
| Buffers (`language/buffer`, `project/buffer_store`) | text version, saved version, saved mtime, conflict flag; buffers by path and by entry | open, edit, save, reload, file updated, undo | worktree entries and events |
| Request buffers (`request_buffer`, `project/request_buffer_store`) | request document, dirty flag, file; buffers by path and by entry | open, edit, save, reload, file updated | worktree, request editor |
| Request editor and sending (`request_editor`, `response_panel`, `http_client`) | fields, snapshot of what was saved; the response shown, the request in flight | edit, save, reload, send | request buffers, HTTP client |
| Git store (`project/git_store`, `git`) | repositories, active one, snapshot, job queue | scan, paths changed, branch operations, repository added or gone | worktree git events, git binary |
| SQLite layer (`sql`, `db`) | a connection per thread, a write queue per database, migrations | write, read, migrate, savepoint, fall back | workspace persistence, key-value store |
| Windows and workspaces (`workspace`, `session`, `zaku`) | windows, workspaces, their ids, what is stored of each session | open, close, quit, serialize (throttled), restore, crash | database, panes |
| Panes and items (`workspace/pane`, `items`) | tabs, active tab, preview, save prompts | open, add, move, activate, close, restore | buffers, workspace |
| Project panel (`project_panel`) | visible rows, expanded directories, edit in progress, selection, marks | reveal, expand, create, rename, remove, paste | worktrees, git store |
| Updater (`updater`) | status, poll task, dismissed version | poll, download, install, dismiss | HTTP, installer, helper |
| Windows update helper (`updater_windows`, the installer's script) | staged update, backup, jobs | apply, roll back, launch | files only |
| File-system watcher (`fs/fs_watcher`, `fs`) | registrations, one shared OS watcher, pending events of each client | add, remove, report, coalesce, drop | OS, worktree scanner, readers of configuration files |
| Editor (`editor`, `multi_buffer`) | selections, display map, scroll, excerpts | edits, movements, folds of tabs and wraps | buffers |
| Settings, keymaps, migrator, themes | user settings, queue of updates, readers of the files, notification and banner | load, apply, update, migrate | watcher, fs, UI |
| Logger (`logger`) | file sink, size, filter | log, rotate | fs |
| UI (`ui`, `picker`, `command_palette`, `title_bar`, ...) | presentation | | all |

What makes each correct, in short: the scanner's snapshot converges to the
disk, keeps its two indexes equal, keeps entry ids across renames and answers
every request; the store has one root, the one asked for last, and its
initial-scan flag is right; a buffer never loses an edit silently, and its
dirty and conflict flags tell the truth; a git snapshot is at least as new as
the last change it was told of; writes of one database are serial, nested
savepoints roll back exactly what they enclose, migrations apply once; an
update that failed can be retried, one that is offered is really staged, and
some version of the program can always be started; what a request editor shows
is what it saves, and the answer it shows is that of the request sent last; a
directory is stored for one workspace, a session lists the workspaces that are
open, and what was open can be restored; a pane's active index refers to a tab
it has; a change that the watcher heard of reaches who asked for it, and the
settings in use come to be those of the file.

## Modules

| module | models | kind |
|---|---|---|
| `WorktreeSnapshot` | the record behind the scanner's mutex and the operations on it | operators |
| `WorktreeScanner` | scanner tasks, UI thread, clients, file system | state machine |
| `WorktreeStore` | opens, worktrees, the initial-scan flag | state machine |
| `ProjectRoot` | what the store promises of the project's root | abstract specification |
| `WorktreeStoreRoot` | the store mapped to `ProjectRoot` | refinement |
| `Buffer` | one text buffer and its file: edits, saves, reloads, file events | state machine |
| `BufferStore` | which buffer belongs to which file, in both buffer stores | state machine |
| `Updater` | polls, manual checks, downloads, installations | state machine |
| `Installation` | `Updater` with the staged update, the installer, the helper, and ends and starts of the program | composition |
| `GitRepository` | one repository's snapshot, its keyed jobs and their worker | state machine |
| `ProjectPanel` | `GitRepository` with the panel: rows, edits of names, selection, clipboard and the tasks that change the tree | composition |
| `Response` | the requests sent and the response shown | state machine |
| `RequestEditor` | `Response` with one request file, its buffer, its editor, their saves and reloads | composition |
| `FsWatcher` | registrations, locks, the system's watcher and its events, the streams of batches | actions |
| `ConfigFile` | `FsWatcher` with the settings file: reader, settings in use, updates, migration | composition |
| `Following` | `ConfigFile` with `Buffer` and the scanner that looks at its file | composition |
| `Pane` | the operations of a pane on its tabs | operators |
| `WorkspaceDb` | `Pane`'s stored form, the tables of workspaces and items, the queue of writes | operators and write actions |
| `Workspace` | windows, workspaces, the user's commands, serialization, restoring, ends and starts | composition |
| `..._proofs` | theorems about the module they are named after | proofs |
| `MC...` | instances | model checking |

### WorktreeSnapshot and WorktreeScanner

`WorktreeSnapshot` has one operator per method of `BackgroundScannerState` and
`WorktreeSnapshot` that changes them (`RemovePath`, `InsertEntry`,
`PopulateDir`, `ReloadEntries`, `EntryIdFor`...), from a state record to the
next.  `entries_by_path` is a function from paths to entries, `entries_by_id` a
set of pairs, so that the two can disagree as they can in the code.  Paths are
the nodes of a small fixed tree; a file on disk is an inode and a modification
time; one `.gitignore` at the root is modelled, whose contents are one bit: the
rule that ignores `IgnoreSet` is on or off.

`WorktreeScanner` gives every task of the code its program counter:

* the **main task** (`phase`): initial scan, idle, reading the metadata of an
  event batch, updating ignore statuses, scanning;
* the **workers** of `scan_dirs` and `update_ignore_statuses_for_paths`: each
  is idle, scans a directory (`job`) or serves a refresh (`request`);
* the **clients**, UI tasks that create, write, delete, rename, load or expand:
  change the disk, ask for a refresh, wait for the completion, look the path up;
* the **UI thread**, which receives scan states in order (`updates`) and hands
  `UpdatedEntries` to a listener (`mirror`);
* **other programs**, which change the disk at any time; every change is
  reported on `events`, in batches of any length.

Metadata is read in steps of its own (`ReadDir`, `Stat`), without the mutex;
`Populate`, `Reload`, `Report`, `UpdateIgnoreStatus`, `EventReload` and
`EndScan` are the critical sections.  Three simplifications are to be kept in
mind.  `ReadDir` lists a directory and reads the metadata of its children in
one step.  The watch is recursive, as on macOS and Windows.  No inode is at two
paths.

| run | what it shows | bounds |
|---|---|---|
| `scanner` | `QuiescentMatchesDisk`, `IdleRefreshIsCurrent`, `AnswerIsCurrent`, `RenameKeepsId`, `IgnoresSettle`, `MirrorInSync`, `ExpandLoads`, `NotScanningMeansComplete`: a client and another program create, write, rename and remove a directory and its two files, or the `.gitignore` appears, changes and goes and a directory that is ignored is loaded on demand, also by two clients at once | 2 workers, 1 client and 2 changes of the disk, or 2 clients and none, five worlds (`MCWorlds`) |
| `scanner_indexes` | `IndexesAgree` **fails**: see the findings | same, in the world with a `.gitignore`, the client asks about any path |
| `scanner_liveness` | `EveryRequestAnswered` under `FairSpec` | 1 worker, 1 client, 1 change |

Two changes are enough for a change between a read and its application, for one
that undoes another (create and remove, rename and back), and for an inode that
is freed and reused; two workers are enough for one to apply an older read over
another's, and for a request served while the other scans.  Each world fixes what
the other program touches and what the client asks about: the directory and a file
of it and that file; the directory alone, and itself or the other file; all three
without a client, where files are renamed into each other; the `.gitignore`, and the
directory or its file; nothing, and two clients that ask for the ignored directory
while the workers scan, so that two workers load it at once.  Requests for the root
are in the other two runs.  One search over fewer and larger worlds (2.3 million
states), and one of four worlds with two clients and one change of the disk (1.5
million), found the eight properties to hold too; they are beyond a run of every day.
`RenameKeepsId` is about a client that nobody else's request meets (`Alone`), since
another's may apply older metadata.  It and `ExpandLoads` except a completion that `send_status_update`
sends directly and that overtakes an update on its way (`after`): the task then finds
the snapshot from before, as in the code.

Fairness: the executor runs every ready task, so each actor's steps are weakly
fair; the progress timer is not needed and is not fair, nor is anything a
user or another program does.

`update_ignore_status` edits `entries_by_path` with entries of an older clone of
the snapshot: an entry removed meanwhile comes back in that index only, which
`scanner_indexes` shows, and a directory loaded meanwhile becomes unloaded again,
which is why `ExpandLoads` speaks of a `.gitignore` that did not change.

`QuiescentMatchesDisk` is bounded by its two changes in one respect.  Events in an
unloaded directory are dropped, and `scan_dir` adds what it finds but removes
nothing.  A task that creates a file in an ignored directory during the initial
scan can put it into the index although the directory stays unloaded; when the file
is removed and the `.gitignore` too, the directory is loaded with the file still
listed.  That takes three changes, two workers and a task, and TLC needs eight million
states to meet it, so no run does; `PROJECT.json` has it among the hazards.  Without
an `IgnoreSet`, random behaviours of six paths, two clients and four changes (19
million states) showed nothing of the kind, and with one `IgnoresSettle` held in
three such series.

### WorktreeStore, ProjectRoot and WorktreeStoreRoot

A worktree is named by the open that started it.  An open passes through the
two awaits of `create_worktree` (`canonicalizing`, `waiting`); between them
anything else may happen.  `slot` holds the position at which a handle was
pushed, which is what `find_worktree` and `root_worktree` depend on, and
`released` the worktrees whose last strong handle was dropped: the store's own
for a visible worktree, a pending or awaited task's, a caller's.  Each path is
opened under its own name or, if canonicalization succeeds, its resolved one.

`ProjectRoot` is the contract: the root changes only to what was asked for
last (`Arrive`), or to nothing on `Close`; an open that an older request made
void fails.  `WorktreeStoreRoot` maps the store to it, under the assumption
`PathsApart` (no file opened invisibly has the project's directory inside it),
without which a shared task can make an invisible open produce the root.

| run | what it shows | bounds |
|---|---|---|
| `store_safety` | `AtMostOneRoot`, `CompleteMeansScanned`, `ScanStateSettlesOnSuccess`, and the refinement `RootFollowsRequests` | 3 opens, two directories, a link to one and a file in it; 1 close |
| `store_superseded` | `ScanStateSettles` **fails**: see the findings | 3 opens |

Three opens are the fewest for one to join a task while another supersedes it;
one close is enough to outdate any of them, and opens before and after it.

The ghost `forsaken` has the waiting opens whose pending task the end of another
open of the directory removed, its own or not; `CompleteMeansScanned` excepts them,
and the findings say what happens to one of them.  An open that still canonicalizes
its path is not counted by the flag, in the code as in the property.

### Buffer

One text buffer and its file.  The file is known by the modification times of
its writes, and `log[m]` is what was written at `m`; contents are numbers, every
edit and every write of another program makes a new one.  Equal texts with
different histories are therefore not modelled, except those that undo and redo
bring back.  The tasks keep their program counters: the open (`opening`: load,
look the entry up, build), each save (`save[i]`: write, look the entry up,
finish), the reload (`reload`: load, diff, apply).  `Scan` is the scanner reading
the metadata, `Deliver` the event that reaches `file_updated`.

`overlapped` is a ghost: the file changed between two reads, or a write and a
read, that the code takes for one (`load_file`, `write_file` and the metadata of
their refresh), or a save was recorded in the middle of a reload that the edits
cut short.  The properties say nothing of a buffer so marked until a save or a
reload clears it; each of these windows is in the list of hazards, and TLC
finds the stale buffer when the mark is left out.

| run | what it shows | bounds |
|---|---|---|
| `buffer_saves` | `CleanMatchesDisk`, `ForeignTextIsConflict`: saves that overlap each other, edits, undo, reloads and events record the right version as saved | 2 saves, 2 contents besides the empty one, 3 writes of which one may be a deletion, 3 versions; at the last of them, and once all but one of the edits and writes are spent, one save or one reload in flight |

`BufferFollowsDisk` is checked by `following`, below.

### BufferStore

Files are named by the ids of their entries, and the disk and the worktree's
snapshot map paths to them; what a buffer holds is `Buffer`'s matter.
`UpdatedEntries` translates `build_diff` and, change by change,
`worktree_entry_changed`, then the `FileHandleChanged` events, which gpui
delivers after it; between loads and their ends anything may be delivered.
The variable `store` chooses between `buffer_store.rs` and
`request_buffer_store.rs`, which differ where `Text` is used.

The ghost `late` marks buffers that no event repairs: built without a file,
overtaken by an update while they were loaded, or met by one update that moves
several files over one another (`Mixed`).  They stay where they were, and may
leave a file with two buffers; the hazards name the lines.

`bufferstore` checks `LookupIsExact` for all buffers and `OneBufferPerFile`
where nothing is late, with three paths, two files and two opens in both stores,
and two renames in that of text buffers, one in that of requests: enough for a rename away and back, a rename onto the path of a
deleted file, and an open of either path at any point of it.

### Updater and Installation

`Updater` is the updater and the status-bar item of every window.  `poll` is the
task of `Updater::poll` and its step; `check[w]` is a window's manual check.  The
observers run in the turn that notifies them, so `Report` is part of the action
that sets the status.  An error has a text and an identity because
`PartialEq` compares the one and `is_same_status` the other.

`Installation` extends it with everything an update passes through until it
runs.  On Windows three programs share nothing but files: Zaku, the installer
it starts, which outlives it, and the helper that moves the staged executable
into place after Zaku has quit.  `exe`, `backup`, `staged` and `marker` are
those files; `installer` and `helper[h]` are the processes and where they are;
`app` is Zaku's process, which may run from the file that became the backup.  The
helper's jobs are applied from the last number to the first, and undone from
there when one fails.  On other platforms `ReplacedInPlace` is the whole
installation.  `InstallationNext` gives each step of `Updater` the effect it has
on files, so that `InstallationSpec => Spec`.

The ghost `promised` is the version the program said would run next; `excuse`
names what happened that a property excludes: `"cleaned"` (switching the
automatic setting on, or the helper of an earlier run, removed what was staged
while the button still offered it), `"early"` (the program was started before
its helper had ended), `"overlap"` (a second helper began), `"failed"` (a job
failed: the old version stays and is not relaunched), `"not undone"` (undoing
failed, and the removal of the backup that follows takes the only copy) and
`"killed"`.  Each is what the code does; a property that mentions an excuse says
that nothing else leads there.

`updater_checks` checks `NoCheckForgotten`, `ReadyMeansStaged`,
`ProgramStaysInstalled`, `UpToDateIsTrue`, `UpdateArrives` and, under
`FairInstallationSpec`, `EveryCheckAnswered`, with two releases in four worlds
(`MCBounds`): elsewhere than on Windows, two windows check and there are four
polls, enough for one to fail, a check to join another, and a third to meet
what the first two left; on Windows, one window checks, and two of these three
happen: a second poll, a second start of the program, a step that fails.  Two
helpers may run.  That is enough for an update over another that is ready, a
failure or a rollback, and a start while a helper works.  Fair is `Progress`: requests, downloads, installers and helpers
end or fail; the user, the timer, faults and ends of the program are not.

### GitRepository

The snapshot of one repository.  `git` and `head` are what git would say; a
change of a file reaches the repository as a report in a detached task
(`batches`), then as `needing` and a `RefreshStatuses` job; a change of the git
directory as a `ReloadGitState` job.  The worker skips a job whose key is queued
again, so `TakeJob` names the first that is not (`IsNext`).  A job reads the
head and then file after file while everything goes on changing, which is less
than git promises of one command.  `Reinitialize` replaces the worker and drops
its queue and its job.  The ghost `lost` marks that a command failed, until a
reload succeeds.

### ProjectPanel

`ProjectPanel` extends `GitRepository` with the panel that shows the tree and the
statuses.  The tree is at once the disk and the worktree's snapshot; an entry is
an id with a path and a kind, and a path is a sequence of names, which are
numbers in their natural order.  `VisibleEntries` is the traversal, the row of
the new entry and the statuses; `Before` is `cmp_worktree_entries`.  A handler of
the panel is one action, with the early returns of the code as guards, and a
handler that may be reached from a key, a menu or another part of the program is
not tied to where the focus is.

What is computed in the background depends only on what was captured, so
`UpdateVisibleEntries` computes the rows at once into `update` and `UpdateEnds`
shows them later; a new update replaces the one that runs, keeps its wish to
focus the editor and forgets the entry it was to select.  `task[t]` is a create,
rename, paste or removal: `ops` are its operations of the file system, each of
which succeeds, fails because it is not possible any more, or just fails, and
`got` what they ended with; `EditEnds`, `PasteEnds` and `RemoveEnds` are what the
task does at the end, whatever the user and other programs did in between.
`Draw` is a frame, in which gpui tells the editor that it was blurred.

The ghost `missed` says that something took the keyboard from the name before a
frame showed it there, so that no blur will end the edit; `unshown` that a paste
expanded directories without a new list of rows.  Known, and within the model's
behaviours: the task of an older edit clears the edit of another name begun
meanwhile; the selection stays at the row of a new entry whose creation failed;
an editor without a row takes the keyboard when an edit is cancelled before its
rows are shown; duplicating where nothing can be copied pastes what the
clipboard held; a paste of several items of which one is gone drops the tasks of
those before it, which may have begun; creating a request replaces one that
appeared meanwhile.

`git` checks `NothingForgotten`, `PanelShowsTree`, `EditHasKeyboard` and, under
`FairPanelSpec`, `PanelFollowsGit`, in twelve worlds (`MCBounds`): the repository
alone with three changes, or with two and a failure or a move, enough for a change
before, during and after a job and for a reload behind a refresh; the repository with
the panel; and the panel with the commands that meet, three or four of one user
together with a change by another program and a failed operation (of edits with the
pointer, three with a failure and two with both), and two of all commands.  The tree has a directory with a request and a request beside it, and
two more entries may come to be; there are two tasks, the fewest for one to
outlive another.  Fair are the worktree's reports, the worker, the git commands and
the end of an update; the user, frames, failures and other programs are not.

### Response and RequestEditor

`Response` is what happens to the requests that an editor sends.  A send is a
detached task; `sent[k]` is where the `k`-th is, and each of its turns tells the
response under the id it was given.  What is shown (`state`, `headers`,
`cookies`, `payload`) is known by the send it is of.

`RequestEditor` extends it with one request file.  A request buffer has neither
versions nor a reload that can be replaced, unlike a text buffer: one mark
`dirty`, set by every edit and cleared by whatever ends a save or a reload; the
editor adds a snapshot of what it last saved or loaded.  `save[i]` and
`reload[j]` are the tasks; `Scan` and `Deliver` are the worktree's part.  The
ghost `overtaken` marks that the flag was last set by a task which an edit,
another task or a foreign write had overtaken: the code then shows as saved
what is not, and the hazards name the lines.

`request_editor` checks `CleanMatchesDisk`, `DirtyMeansChanged` and
`ShowsOneAnswer` with two texts and
a file that does not parse, two saves, two reloads, and three foreign writes, or two
and a send, or one and three sends (`MCBounds`): two tasks of each kind are what
it takes for the older to end last, and three sends for a late answer to meet
both a newer send in flight and one that is done.

### FsWatcher, ConfigFile and Following

`FsWatcher` is what stands between the operating system and all that follows
files.  `watchers`, `counts` and `lastId` are the state behind the one lock;
`call[t]` is what a thread does inside `add`, `remove` or `drop`, cut where a
lock is taken or the system is asked.  The other lock is not a variable, since it
orders only calls that the system answers one at a time (`ServeWatch`,
`ServeUnwatch`).  `event` is the system's thread with the event it reports:
taken, then the registrations copied under the state lock, then called one by
one.  `pending[c]` and `tokens[c]` are the events and the channel of a client, and
`Take` its stream after the latency, which changes nothing else.  `recursive`
chooses between macOS and Windows, where a watch covers all below it, and Linux,
where it covers a directory's children and goes with what it watched.

The ghost `owed` has the changes that the system heard of under a client's
registration until a batch carries them, themselves or in a rescan.  Changes that
nobody hears of are outside it: a registration may be without a watch, as the
hazards say.

`ConfigFile` is one client: the reader of `watch_config_file`, which runs on a
thread of its own, the texts it sends, and the UI thread that applies them.
`update[u]` is a call of `update_settings_file` in the queue: it loads, truncates
and fills the file (`fs.write`, which is `std::fs::write`) and applies its own text.
The write may fail before it touches the file, or after it has emptied it, with
nothing or a part of the text written (`UpdateFail`).  A content is a record
of the last program to write it, of the updates in it and of its form: parsed
(`"ok"`), parsed in part, to be migrated (`"old"`) or not parsed.  `late` and
`unheard` mark that the file changed between an update's write and its settings,
or while nobody heard; `overwritten` has the updates that another program, a
migration or a write that failed half-way made an end of: a failed update takes the
earlier ones with it, and the property can only say that nothing else does.  A later change of the file, if there is one, clears the
first two.

`banner` is the `MigrationBanner` in the toolbar of the one workspace, or that there
is none yet when the first content is applied: an old file is then not offered for
migration before a tab shows it or it changes.  Content of the settings (`Apply`)
or of the keymap (`KeymapChanged`, whose file is not modelled) shows or resets it, and a tab made
active (`SetActivePaneItem`) resets it and starts the task that asks whether the file
in the tab is old (`ShouldMigrate`).  `ConfigFollowsFile` claims of it that it comes to
offer the migration of the settings only while they are old, and not that it is
shown whenever they are, which is not so.

`Following` adds the client that `Buffer` depends on: the scanner looks at the
buffer's file for a batch of the watcher (`ScanBatch`) or for an open, where
`Buffer` by itself lets it look at any time.

`following` checks `ChangesArrive`, `CallsReturn`, `UpdatesAreKept`,
`ConfigFollowsFile` and `BufferFollowsDisk` with two threads, two clients and two
directories with a file each, in nine worlds (`MCBounds`): two calls of add,
remove or drop with a change and a refused watch; two changes with an overflow;
the settings file with two foreign writes, with one and an update, with an update
and a migration, with a foreign write and two visits of tabs, with a migration
and a foreign write, with two updates of which one may fail; and the buffer with three writes, one of which may be a deletion.  Two calls are what it
takes for one to come between the locks of the other, two events for one to meet
what is pending, two writes for the first to be on its way when the second comes.
The worlds of the settings file, but for a migration with a foreign write, and of the
buffer are of Linux only, where watches are not recursive.  All threads, tasks and the system's thread are
fair, and none of the changes, calls and failures is.  The user leaves the buffer
alone, since one who edits may keep it dirty for ever.

### Pane, WorkspaceDb and Workspace

`Pane` has the operations of a pane on a record of tabs, the index of the active
one and the preview; items are ids, and an item edits one file.  `WorkspaceDb` is
what the database keeps: `rows[i]` a workspace with its pane and its session,
`files[i][n]` the row of an item.  Writes are queued and taken in their order by
one thread, each as one transaction; what is queued when the program ends is
lost; ids of rows are drawn as SQLite draws them.

`Workspace` is the windows and what they show.  `task[t]` is a command of the user
in progress (open in this window or in another, close the project, close a
window, quit, open a file) with the step it awaits; `Boot` is the task that
reopens the last session.  A workspace lives while a window or a command holds
it, and its timers with it: `TimerSaves` and `ItemsSent` are the throttled saves.
`Crash` ends a run at any step, quitting ends it calmly, and the next run
restores from what is stored.  `expected` is what a calm end left to be
reopened.

`workspace` checks `PanesSound` (the panes' indexes and previews), `IdsDistinct`,
`SessionIsWhatIsOpen` and `RestorableAtRest` in ten worlds (`MCBudgets`), each
of which gives the user a few commands of the kinds that meet: opens and closes
that overlap, a failing open, a crash, a quit, clearing the history, files and
tabs; two windows, two directories, two files and two runs.  Two of each are the
fewest for one to replace or outlive another, and the budgets make the kinds
meet in pairs and triples rather than all at once.

The ghost `excuse` names what else the code does, and a property that mentions
it says that nothing else leads there: `"twins"` (two opens of one directory
that are in progress at once both go on), `"asked twice"` (two commands close one
workspace at once), `"overtaken"` (an open ends, or a command prepares a workspace,
after a later command put another in its window), `"while ending"` (a command goes
on while the program quits or its last windows close), `"stranded"` (an open that fails after its window was prepared leaves the
old workspace shown but out of its session, `workspace.rs:1621`), and `"cleared"`
(clearing the history deletes rows of workspaces that are open,
`workspace.rs:2442`).  Known, and within the model's behaviours: a preview kept
by sending its request is not stored until the next save; a throttled save of
a pane that is still being restored, followed by a crash, loses its items; the
cleanup of items is written before the pane that no longer has them; items
added within the throttle's time before quitting are not stored; restoring
replaces a pane into which the user has opened something meanwhile; a crash
during a start loses the windows not reopened yet.

## Proofs

`Stores_proofs` proves `Spec => []StoreInv` for any sets of opens and
paths.  `AtMostOneRoot` and `FlagSound` are not inductive by
themselves: that the root stays unique needs that a visible worktree in the
store is never released, because `add` drops only handles that upgrade or are
visible; that the flag is never early needs that a pending task has a name, and
a worktree in the store was built.  `HandlesSound` states this; `StoreInv` is
the conjunction, `StoreInit` and one lemma per action (`FinishStep`,
`RequestStep`, `SupersedeStep`, ...) carry it.  `CompleteMeansScanned` follows with
`WaitersPending`, that an open which waits has a pending task or lost it to
another's end (`WaitersPendingNext`).  Assumptions:
`PathAssumption`, `BoundAssumption`, `NoneAssumption`.

`ScanStateSettlesOnSuccess` needs `ScanInv` beside it (`SettledScanIsComplete`):
a pending task is awaited by an open that is yet to add its worktree, a visible
worktree that was not scanned is observed, and while the flag is down one of
these is left, or an open was superseded.  What fails in `store_superseded` is
the last case.

The same module proves that every step of the store is a step of
`ProjectRoot` or leaves its variables alone (`RootImplemented`), with one lemma
per action again.  It needs `RootInv` beside `StoreInv`: what an open asked
for, and what the task it waits for was started for, bear one of the open's
names, so that `PathsApart` keeps visible and invisible ones apart.

It holds the proofs about the buffer stores too, for any number of paths, files,
loads and renames in either.  `LookupIsExact` (`LookupStaysExact`) follows from
`BuffersInv`: each map names a buffer under its own path, or its own entry, only; what
an update's events work on is `Exact` before and after each (`EntryChangedSound`,
`FileHandleChangedSound`).  `OneBufferPerFile` (`OneBufferStays`) needs, where no
buffer is late, that each buffer that is held is known under its entry and its path
and has what the snapshot has there, that an entry known to have a buffer is at that
buffer's path (`HandlesFollow`), and that a load which no update has overtaken is of a
path where no buffer is held and still has its entry (`LoadsAlone`).  An update
tells of its paths in order, and halfway neither snapshot fits the maps; so the
proof is an induction over the paths: `Between` says that each held buffer has its old
handle or its new one and is known under it, `Told` that the buffers an event
is about have moved, and `EventFollows` that an event does its part and undoes none
(`MovedApart`: two buffers meet at no path and no entry unless `Mixed` marks one).
At the end all have moved (`AllMoved`), and `FileHandleChanged` finds nothing to do.
Assumption: `StoreAssumption`.

`Installation_proofs` proves `NoCheckForgotten` and `UpToDateIsTrue` for any number
of windows, polls and releases, from `CheckInv`: the status says that an update
is under way exactly while a poll fetches, downloads or installs; a window that
waits has seen it begin, unless the poll is only spawned; an error met before
the poll in progress has another identity than the one it may end with.  Without
the last a window could take an old error for its answer, or a new one for the
old.  `UpToDateIsTrue` is an action property, proved step by step under
`CheckInv`; `UpdaterTypes` is the type invariant.  Assumption: `BoundAssumption`.

The same module proves of the composition its types, and
`InstallationSpec => Spec` (`InstallationImplementsUpdater`), from which the
updater's theorems carry over.  `ProgramIsKept` follows from `Kept`: unless an
excuse was met, the last executable is in place, or moved to the backup by the
one helper that works and can still bring it back.  `ReadyIsStaged` follows from
`Staged`: the installer and the poll agree on the version and on how far it is
placed and marked, so that a status that offers an update finds it staged;
`UpdatesArrive` from `Promise`: what is promised stays staged until a helper
delivers it.  Assumption: `BoundAssumption`.

`ProjectPanel_proofs` proves `NothingForgotten` for any files, statuses,
changes, failures and moves, from `GitInv`: whatever the job in progress has
read of a file or of the head is still so, or the change is awaited
(`FilesFresh`, `HeadFresh`), and a reload asks for every file (`JobSound`).
`TakeKeepsKeys` is the argument about skipping: every key in the queue is still
there after a job is taken, or is that job's.  There is one lemma per action;
`GitTypes` is the type invariant.  Assumption: `RepositoryAssumption`.

The same module proves `PanelShowsTree` and `EditHasKeyboard` for any tree,
names, tasks and bounds.  `PanelInv` adds to them only the shape of an edit and
of a bound (`PanelShape`); the proof has a lemma for each way of keeping it: a
handler that asks for new rows (`ShownAnewKeeps`), one that leaves everything
alone that rows depend on (`QuietKeeps`), and one that moves the keyboard
(`KeyboardMoves`), and then a lemma for each group of handlers.
`PanelLeavesGit` is `PanelSpec => Spec`, which carries the repository's theorems
over (`PanelForgetsNothing`).  Assumptions: `PanelAssumption`,
`RepositoryAssumption`.

`RequestEditor_proofs` proves the three properties of its run for any number of
texts, saves, reloads and sends, and two more: the fields of the editor are what
its buffer would save (`EditorShowsBuffer`), and fetching is shown exactly while
the task of the last send runs (`FetchingIsAwaited`).  `ShowsOneAnswer` and `FetchingIsAwaited` need
that sends begin in the order of their ids (`SendsInOrder`) and that a body is
shown only with its headers (`BodyFollowsHeaders`).
`CleanMatchesDisk` and `DirtyMeansChanged` need `EditInv`, which speaks of the last
writer of the mark: the snapshot is what is on disk unless a write is unseen, a
reload of it is under way or a recording is still to come, and a task not
overtaken carries what the editor shows.  Assumptions: `ResponseAssumption`,
`RequestEditorAssumption`.

`Buffer_proofs` proves the two properties of `buffer_saves`, for any number of
edits, saves, reloads and writes of others, from `BufferInv`.  A save that no
one else's write met finds on disk what it wrote (`SaveSound`), an open sees one
file (`OpenSound`), a reload has loaded what was written at the time it will
record (`ReloadSound`), and the file handle is the entry's or behind it only when
what is on disk is what was saved (`FileSound`); then a buffer that recorded the
time of what is on disk has saved or loaded it (`SavedSound`).  Each of these
says what a task knows at the step it is at, and ends with the write that the
task cannot see, which is where `overlapped` begins.  Assumption:
`BufferAssumption`.

`Workspace_proofs` proves that no directory is stored for two workspaces
(`DirectoryIsStoredOnce`), for any commands, crashes and clears: a save deletes
the location's other rows in its own transaction, a new row has no location, and
no other write sets one.  It also proves of `Pane` that a pane stays sound
(`PaneStaysSound`): the active index is that of a tab, no item and no file has
two tabs, and the preview is one of its items or none.  Of every pane of every
workspace the same holds at any time (`PanesStaySound`): `WorkspaceInv` follows
the panes from the workspaces into the queue of writes, the tables, the tasks
that restore and close, and back, through ends and starts of the program, and
gives the types (`WorkspaceTypes`).  What restores a pane adds its items one after
the other, and the tabs of a pane become a sequence of files in the same way; that
this keeps panes sound is an induction, which is stated about sets
(`SetInduction`: a set with 0 and the successor of each of its members has every
number) and proved from the well-foundedness of inclusion between finite sets.

Two properties of `workspace` are proved beyond that, each for any number of
windows, commands, timers, runs and crashes.  `IdsStayDistinct` (`IdsDistinct`)
needs `IdsInductive`, which reads the queue as a ledger: each id is that of an
open workspace, or was drawn for one task, or is on its way to it; what is queued
for a row is of that row's directory; a save that is of no workspace any more
stores a row once more; and a workspace that only its command still holds is
stored, or that command awaits its save.  Without the last, a workspace could be
dropped before its row has its directory, and the next open of the directory
would draw a second id.  `SessionStaysWhatIsOpen` (`SessionIsWhatIsOpen`) needs
`SessionInductive`.  What the rows and the queue will leave of a directory is
decided by the last save of it that is queued, so the invariant speaks of that
save (`Settled`, `Queued`): a workspace that is listed is stored in the session
or a save that says so is the last one queued, or its timer is set; nothing else
is stored in the session (`TouchedIsShown`); and one that left is stored outside of
it before another takes its window (`LeftIsOut`).  Which workspaces are listed
follows from who closes what (`CommandsInv`): one command closes a workspace, that
of its window, and once all windows are closing it is the one asked last that
stays in the session (`LastIsListed`, `LastIsSaved`).  Both are demanded only while
`excuse` is empty: of two commands that close one workspace, say, the second
replaces what the first has put in its place.
Assumptions: `WorkspaceAssumption`, `PaneAssumption`, `DbAssumption`.

`Following_proofs` proves that no change the system hears of is lost on its way to
a client (`NoChangeIsLost`) and no update of the settings is (`NoUpdateIsLost`),
for any clients, threads, paths, updates and bounds.  The first adds to
`ChangesArrive` that a change is owed only to a client that has a registration
above it (`OwedIsWanted`): when the system's thread copies the registrations,
the client is among them.  `OldIsCarried` and `NewIsCarried` are the argument about
coalescing: what carried a change is kept, or a rescan above it took its place,
and a new event gives way only to what carries it.  The second is about the order
of updates: at most one works on the file (`OneAtATime`), and meanwhile its text
has what the ones before it wrote (`TextHasUpdates`).  `WatcherTypes` is the type
invariant.  `FollowingImplementsBuffer` is `FollowingSpec => B!Spec`: a step of the
system with the watcher is a step of the buffer alone or none of its own, since the
scanner's looks and everybody's writes are among what `Buffer` allows at any time.
Assumptions: `FsWatcherAssumption`, `ConfigAssumption`, `FollowingAssumption`.

`WorktreeScanner_proofs` proves four properties of `scanner` for any tree, any
number of workers, tasks and changes of the disk; two tasks and more are what no
run reaches with the bounds of the others.  `Types` says what the variables range
over, the records in queues and updates included, and the first part of the module
what each operator of `WorktreeSnapshot` does to the index: which paths it may
touch, that it lists them as changed, and that an entry it puts there is of the
file that was read (`ReloadEntriesKeeps`, `PopulateKeeps`).  Above that:

* `NotScanningMeansComplete` needs that main task and workers take turns
  (`TakesTurns`), and that the numbers of a scan agree in the scanner at rest and in
  every update on its way that ends one (`ScanNumbers`).
* `MirrorInSync` needs that whatever differs from the last update lies at or
  below a path listed as changed (`ChangesCovered`), and that the updates on
  their way lead, change by change, from the UI's snapshot to the last one sent
  (`UpdatesLead`, which says so with a function that has the snapshots between).
* `AnswerIsCurrent` and `IdleRefreshIsCurrent` need `Asking`: a task that waits is
  in one place, a queued request, an actor or an update (`PlacedOnce`), where its
  path is with it (`AsksForPath`), and an actor that goes on to read metadata
  has scanned what it had to load (`LoadedFirst`).  `AnswersCurrent` then follows
  the answer: what the main task read since the request is of the file the path had
  meanwhile (`ReadCurrent`), so is the index when it reports (`ReportCurrent`),
  and at that moment nobody holds anything older (`ReportedFresh`: the main task
  serves only when the workers rest).  From then on nothing older comes about,
  in the scanner (`ScannerFresh`: the index, what actors have read, the copy for
  ignore statuses), in the updates behind (`UpdatesCurrent`), in the UI
  (`AckedFresh`) and in what the task finds (`DoneFresh`).

Assumptions: `TreeAssumption`, `IgnoreAssumption`, `RankAssumption`,
`NoneAssumption`, `ActorAssumption`.

The bounds on counters are constants too, so that each theorem holds for every
bound.  An inductive invariant that is not a run's property was checked by TLC
on the instance of the run before it was proved.

Model-checked only are:

* liveness: that calls of the watcher return, that the settings and a buffer follow
  their files, that the panel follows the repository, that checks and refreshes
  are answered;
* of the scanner `QuiescentMatchesDisk`, `IgnoresSettle`, `RenameKeepsId` and
  `ExpandLoads`: they relate the index to every event, request and read still on
  its way, path by path, and `RenameKeepsId` holds of one task alone;
* of the workspaces `RestorableAtRest`, which relates each item to its stored file;
* that `IndexesAgree` and `ScanStateSettles` fail (`IgnoresMatchRule` does too, beyond the runs).

`TypeOK` of `WorktreeScanner`, `Buffer` and `Workspace` and `BuffersTypeOK` of
`BufferStore` say what their variables range over, for the reader, and are in no run;
all of them are theorems.

## Findings

* `scanner_indexes`: `update_ignore_status` puts the entries of an older clone of
  the snapshot back into `entries_by_path`, and into that index only.  When another
  worker served a request meanwhile and removed one of them, the indexes disagree,
  which `check_invariants` asserts they never do, and a file that is gone stays
  visible until its event is handled.
* `IgnoresMatchRule`, which no run asks for: when a batch of events holds the removal
  of the `.gitignore` and a new directory, the directory is queued with the rules of
  the `.gitignore` that is gone, since those are dropped only afterwards.  The
  verdicts are recomputed before the queue is worked off, so the files then found in
  the directory stay marked ignored.  A checkout can do this.  TLC meets it within
  590 000 states with one worker, no client, `IgnoreSet = {"x", "y"}`, three changes
  and a world with the root and its `.gitignore`, where another program changes `gi`,
  `d` and `x`; the two changes of `scanner` are too few.  While the `.gitignore` is
  still there, or no directory was made, the marks are right (`IgnoresSettle`).
* `store_superseded`: a superseded open removes its pending task without
  updating the initial-scan flag.  If the newer open was added, scanned and
  observed before, `wait_for_initial_scan` never returns although nothing is
  left to do.
* The flag of the initial scan early, which no run asks for and no doc or test
  excludes: two opens share a task that fails; the first to hear of it removes the
  task, a third open of the directory starts another, and the second removes that
  one (`worktree_store.rs:486`) and recomputes the flag, which becomes true while the
  third open's worktree is being built.  `wait_for_initial_scan` returns.  The opens
  this happens to are `forsaken`.

## What the models leave out

* The properties that exclude something by a ghost (`overlapped`, `late`, `forsaken`,
  `unheard`, `overwritten`, `lost`, `overtaken`, `missed`, `unshown`, `excuse`, `after`)
  or by a condition on who else acts (`Alone`) say so above.  What a ghost excludes is
  a hazard that the property does not catch: the notes of `hazards` in `PROJECT.json`
  say where.
* After a failed check the updater has forgotten an update that was ready, and
  the next check installs it again: the code does it, and nothing says that it
  should not.  Several running instances of Zaku, a download while an installer of
  an earlier process runs, and the notification after a restart are not modelled.
* Of workspaces: the prompts and saves before closing, docks, window bounds, the
  order of activation, items of several kinds and items without a project.  The
  stored index of the active tab is not translated when an earlier tab fails to
  load (`persistence/model.rs`).  A tab that is dropped after its item was removed,
  which adds the item again (`pane.rs:1059`), and the rows of directories that are
  gone, which listing the recent workspaces deletes (`persistence.rs:350`), are not
  modelled either.
* Of the panel: the replacement of the worktree, files that are not requests,
  names of several components, the messages about names, scrolling, dragging, the
  system's clipboard, what an operation that fails half-way leaves behind, and
  the distance between the disk and the snapshot (which is the scanner's).  What
  gpui does with the focus is modelled from how the panel uses it.
* Several worktrees below the buffer stores and the git store, the registry of
  repositories and the active one, the watches that the scanner itself adds on
  Linux, symbolic links.
* The components listed as not modelled in `PROJECT.json`, each with its reason.
  The database's transactions are taken as atomic and its writes as ordered;
  that savepoints and retried migrations make them so is not shown.

## Plan

Done: the scanner, the worktree store and its abstract root, the text buffer,
both buffer stores, the request editor and what it sends, the updater and the
installation, the jobs of a git repository, the project panel, panes, the stored
workspaces and the windows, the watcher and the settings file; and the proofs about
the scanner's answers and updates, the store, the buffer, the buffer stores, the updater, the
installation, the repository, the panel, the request editor, the panes, the
stored rows, the ids and the session of the windows, the watcher and the updates of
the settings.

1. `Savepoints`, `Migrations`: nested rollback, and retries of migrations
   between processes with foreign keys off.
2. The registry of git repositories and the active one; the watches that the
   scanner adds and removes, directory by directory, on Linux; the keymap's file.
3. Algorithms over bounded inputs: `merge_event_roots`, `coalesce_repo_paths`,
   the natural order of names, the tab map, anchors of the multi buffer.
4. Proofs: `RestorableAtRest` of the workspaces, `IgnoresSettle` of the scanner, and `QuiescentMatchesDisk`
   for what no `.gitignore` hides.

Each of these is to be a question of its own, small enough to be asked after
every change; runs of one module that ask related questions share a
configuration.
