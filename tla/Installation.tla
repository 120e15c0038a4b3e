---------------------------- MODULE Installation ----------------------------
(***************************************************************************)
(* From a downloaded update to the program that runs (cleanup_windows,     *)
(* InstallerDir, install_release_windows and finalize_update_on_quit of    *)
(* crates/updater/src/updater.rs, crates/updater_windows, and the steps of *)
(* zaku/resources/windows/zaku.iss): the updater, the installer it starts, *)
(* the helper that replaces the executable, and the program's runs.        *)
(*                                                                         *)
(* On Windows an update is staged in a directory of its own beside the     *)
(* program and marked; the helper moves it into place when the program     *)
(* quits or restarts.  Elsewhere the installation replaces the program.    *)
(* The three share nothing but files.                                      *)
(***************************************************************************)
EXTENDS Updater, Sequences

CONSTANTS
  Helpers,   \* bound: helpers that may run at a time
  None,      \* no file
  Bounds     \* bounds: platform, starts of the program, failures, polls

ASSUME InstallationAssumption ==
  /\ None \notin Versions
  /\ Bounds \subseteq [windows : BOOLEAN, starts : Nat, faults : Nat, polls : Nat,
                     checking : SUBSET Windows]

VARIABLES
  bound,      \* the element of Bounds this behaviour keeps to, and what is left of it
  app,        \* the program's process
  exe,        \* Zaku.exe
  backup,     \* the directory old, and the executable in it
  staged,     \* install\Zaku.exe
  marker,     \* updates\versions.txt
  installer,  \* the installer, which outlives the program
  cleaning,   \* directories that the polling task has still to remove
  helper,     \* the processes of updater_windows.exe
  promised,   \* ghost: the version that the next start is to run, or None
  excuse      \* ghost: what happened that properties name

fileVars == <<exe, backup, staged, marker>>
processVars == <<app, installer, cleaning, helper>>
installVars == <<bound, fileVars, processVars, promised, excuse>>
allVars == <<vars, installVars>>

File == Versions \cup {None}
Directories == <<"updates", "install", "old">>

(* image: where the file is now that the process runs; restart: the user   *)
(* asked for one, and the windows are still to be closed.                  *)
AppState == [step : {"on", "quitting", "off"}, image : {"exe", "old"}, restart : BOOLEAN]
On == app.step = "on"

InstallerState == [step : {"none", "prepared", "place", "mark", "done"}, version : Versions]
NoInstaller == [step |-> "none", version |-> 0]

HelperState ==
  [step : {"none"}, job : {0}, launch : BOOLEAN]
    \cup [step : {"apply"}, job : 1 .. 6, launch : BOOLEAN]
    \cup [step : {"undo"}, job : {1, 2}, launch : BOOLEAN]
NoHelper == [step |-> "none", job |-> 0, launch |-> FALSE]
Helping == \E h \in Helpers : helper[h].step # "none"

InstallationType ==
  /\ bound \in [windows : BOOLEAN, starts : Nat, faults : Nat, polls : Nat,
                     checking : SUBSET Windows]
  /\ app \in AppState
  /\ exe \in File /\ backup \in [there : BOOLEAN, exe : File]
  /\ staged \in File /\ marker \in BOOLEAN
  /\ installer \in InstallerState
  /\ cleaning \in 0 .. Len(Directories)
  /\ helper \in [Helpers -> HelperState]
  /\ promised \in File
  /\ excuse \subseteq {"cleaned", "early", "overlap", "failed", "not undone", "killed"}

Fault == bound.faults > 0 /\ bound' = [bound EXCEPT !.faults = @ - 1]
NoFault == UNCHANGED bound
-----------------------------------------------------------------------------
(***************************************************************************)
(* The directories: old cannot be removed while its executable runs.       *)
(***************************************************************************)
OldIsRunning == app.step # "off" /\ app.image = "old"
NoBackup == [there |-> FALSE, exe |-> None]

(* Whoever removes what an update was staged in takes it from a program    *)
(* that has told its user of it or is about to.                            *)
Staging ==
  status.step = "Updated" \/ poll.previous.step = "Updated" \/ poll.step = "install"
Takes == IF app.step # "off" /\ Staging THEN {"cleaned"} ELSE {}

(* The polling task of a start, or of the setting that is switched on.     *)
Cleanup ==
  /\ On /\ cleaning # 0
  /\ LET directory == Directories[Len(Directories) + 1 - cleaning]
     IN  \/ /\ directory = "updates"
            /\ marker' = FALSE /\ UNCHANGED <<exe, backup, staged>>
            /\ excuse' = excuse \cup Takes
         \/ /\ directory = "install"
            /\ staged' = None /\ UNCHANGED <<exe, backup, marker>>
            /\ excuse' = excuse \cup Takes
         \/ /\ directory = "old" /\ ~OldIsRunning
            /\ backup' = NoBackup /\ UNCHANGED <<exe, staged, marker, excuse>>
  /\ cleaning' = cleaning - 1
  /\ NoFault
  /\ UNCHANGED <<vars, app, installer, helper, promised>>

CleanupFails ==
  /\ On /\ cleaning # 0
  /\ \/ Fault
     \/ cleaning = 1 /\ OldIsRunning /\ NoFault
  /\ cleaning' = 0
  /\ UNCHANGED <<vars, fileVars, app, installer, helper, promised, excuse>>
-----------------------------------------------------------------------------
(***************************************************************************)
(* Installing.                                                             *)
(***************************************************************************)
(* InstallerDir: the directory of an earlier update goes, with its mark.   *)
(* While an installer of an earlier run holds it, it does not: UpdateFails.*)
ClearUpdates ==
  /\ On /\ poll.step = "download" /\ installer.step = "none"
  /\ marker' = FALSE
  /\ installer' = [step |-> "prepared", version |-> poll.version]
  /\ NoFault
  /\ UNCHANGED <<vars, exe, backup, staged, app, cleaning, helper, promised, excuse>>

InstallerStarts ==
  /\ On /\ installer.step = "prepared"
  /\ Downloaded
  /\ installer' = [installer EXCEPT !.step = "place"]
  /\ UNCHANGED <<bound, fileVars, app, cleaning, helper, promised, excuse>>

(* The installer places the executable, then the mark (zaku.iss).          *)
InstallerPlaces ==
  /\ installer.step = "place"
  /\ staged' = installer.version
  /\ installer' = [installer EXCEPT !.step = "mark"]
  /\ UNCHANGED <<vars, bound, exe, backup, marker, app, cleaning, helper, promised, excuse>>

InstallerMarks ==
  /\ installer.step = "mark"
  /\ marker' = TRUE
  /\ installer' = IF On /\ poll.step = "install" THEN [installer EXCEPT !.step = "done"]
                  ELSE NoInstaller
  /\ UNCHANGED <<vars, bound, exe, backup, staged, app, cleaning, helper, promised, excuse>>

InstallerSpawned == installer.step \in {"place", "mark", "done"}  \* variant: it is not awaited
InstallerEnded == installer.step = "done"

InstallEnds ==
  /\ On /\ poll.step = "install" /\ InstallerEnded
  /\ Installed
  /\ installer' = NoInstaller
  /\ UNCHANGED <<bound, fileVars, app, cleaning, helper, promised, excuse>>

(* Any step may fail, the installer's included; rsync is not needed here.  *)
UpdateFails ==
  /\ On /\ Fail /\ status'.error.cause # "dependency"
  /\ poll.step = "install" => installer.step # "done"
  /\ installer' = IF poll.step = "install" \/ installer.step = "prepared" THEN NoInstaller
                  ELSE installer
  /\ UNCHANGED <<bound, fileVars, app, cleaning, helper, promised, excuse>>

(* What the updater does without touching a file.                          *)
UpdaterStep ==
  /\ On
  /\ \/ Release \/ Dismiss \/ Begin \/ NothingNewer \/ Newer
     \/ PollAutomatic /\ cleaning = 0 /\ polls' <= bound.polls
     \/ \E w \in bound.checking : Check(w) /\ polls' <= bound.polls
  /\ UNCHANGED installVars

SwitchSetting ==
  /\ On /\ ChangeSetting
  /\ cleaning' = IF automatic' THEN Len(Directories) ELSE 0
  /\ UNCHANGED <<bound, fileVars, app, installer, helper, promised, excuse>>
-----------------------------------------------------------------------------
(***************************************************************************)
(* Ending and starting the program.                                        *)
(***************************************************************************)
(* A helper process begins.                                                *)
Starts(h, launch) ==
  /\ helper[h].step = "none"
  /\ helper' = [helper EXCEPT ![h] = [step |-> "apply", job |-> 1, launch |-> launch]]
  /\ excuse' = excuse \cup (IF Helping THEN {"overlap"} ELSE {})

(* The updater's state goes with the process, but not the installer.       *)
Ends(step) ==
  /\ Restart(current)
  /\ app' = [app EXCEPT !.step = step, !.restart = FALSE]
  /\ installer' = IF installer.step \in {"place", "mark"} THEN installer ELSE NoInstaller
  /\ cleaning' = 0
  /\ promised' = IF status.step = "Updated" THEN status.version ELSE None
  /\ UNCHANGED <<bound, fileVars>>

(* finalize_update_on_quit: the process waits for the helper, but not for  *)
(* ever.                                                                   *)
Quit ==
  /\ On
  /\ IF marker
       THEN Ends("quitting") /\ \E h \in Helpers : Starts(h, FALSE)
       ELSE Ends("off") /\ UNCHANGED <<helper, excuse>>

ProcessEnds ==
  /\ app.step = "quitting"
  /\ app' = [app EXCEPT !.step = "off"]
  /\ UNCHANGED <<vars, bound, fileVars, installer, cleaning, helper, promised, excuse>>

(* workspace::reload, by the button of an update that is ready; the helper *)
(* is the path to restart.                                                 *)
AskRestart ==
  /\ On /\ status.step = "Updated" /\ dismissed # status /\ ~app.restart
  /\ app' = [app EXCEPT !.restart = TRUE]
  /\ UNCHANGED <<vars, bound, fileVars, installer, cleaning, helper, promised, excuse>>

RestartByHelper ==
  /\ On /\ app.restart
  /\ Ends("off")
  /\ \E h \in Helpers : Starts(h, TRUE)

(* Zaku.exe is started, by the user or by a helper.                        *)
Begins ==
  /\ app.step = "off" /\ exe # None
  /\ Restart(exe)
  /\ app' = [step |-> "on", image |-> "exe", restart |-> FALSE]
  /\ cleaning' = IF automatic THEN Len(Directories) ELSE 0
  /\ promised' = None

Start ==
  /\ bound.starts > 0 /\ bound' = [bound EXCEPT !.starts = @ - 1]
  /\ Begins
  /\ excuse' = IF Helping THEN excuse \cup {"early"} ELSE {}
  /\ UNCHANGED <<fileVars, installer, helper>>
-----------------------------------------------------------------------------
(***************************************************************************)
(* The helper (execute_jobs).                                              *)
(***************************************************************************)
(* Jobs 1 to 6: make the directory old, move Zaku.exe there, move the      *)
(* staged one in its place, remove updates, install and old.  An executable*)
(* that runs can be moved, but not replaced or removed.                    *)
ExeIsRunning == app.step # "off" /\ app.image = "exe" /\ exe # None

CanApply(k) ==
  CASE k = 2 -> exe # None /\ backup.there /\ ~OldIsRunning
    [] k = 3 -> staged # None /\ ~ExeIsRunning
    [] OTHER -> TRUE

Moved(to) == IF app.step # "off" THEN [app EXCEPT !.image = to] ELSE app

Apply(k) ==
  \/ /\ k = 1 /\ backup' = [backup EXCEPT !.there = TRUE]
     /\ UNCHANGED <<exe, staged, marker, app>>
  \/ /\ k = 2 /\ backup' = [there |-> TRUE, exe |-> exe] /\ exe' = None
     /\ app' = Moved("old") /\ UNCHANGED <<staged, marker>>
  \/ /\ k = 3 /\ exe' = staged /\ staged' = None
     /\ UNCHANGED <<backup, marker, app>>
  \/ k = 4 /\ marker' = FALSE /\ UNCHANGED <<exe, backup, staged, app>>
  \/ k = 5 /\ staged' = None /\ UNCHANGED <<exe, backup, marker, app>>

(* Jobs 3 to 5 take what was staged, whoever staged it.                    *)
Removes(k) == IF k \in {3, 4, 5} THEN Takes ELSE {}

HelperApplies(h) ==
  LET k == helper[h].job
  IN  /\ helper[h].step = "apply" /\ k < 6 /\ CanApply(k)
      /\ Apply(k)
      /\ helper' = [helper EXCEPT ![h].job = k + 1]
      /\ excuse' = excuse \cup Removes(k)
      /\ NoFault
      /\ UNCHANGED <<vars, installer, cleaning, promised>>

(* A job that fails is retried for a while; the removals never fail, and   *)
(* what is not there is not waited for.                                    *)
HelperSkips(h) ==
  /\ helper[h].step = "apply" /\ helper[h].job \in {4, 5}
  /\ Fault
  /\ helper' = [helper EXCEPT ![h].job = @ + 1]
  /\ excuse' = excuse \cup {"failed"}
  /\ UNCHANGED <<vars, fileVars, app, installer, cleaning, promised>>

(* The last job, after which the program is started again.                 *)
HelperDone(h) ==
  /\ helper[h].step = "apply" /\ helper[h].job = 6
  /\ backup' = IF OldIsRunning THEN backup ELSE NoBackup
  /\ helper' = [helper EXCEPT ![h] = NoHelper]
  /\ IF helper[h].launch /\ app.step = "off" /\ exe # None
       THEN Begins ELSE UNCHANGED <<vars, app, cleaning, promised>>
  /\ NoFault
  /\ UNCHANGED <<exe, staged, marker, installer, excuse>>

(* The jobs to roll back when the job k fails, from the last one applied.  *)
AppliedButOne(k) == k - 2  \* variant: the last one is left as it is
Applied(k) == k - 1

Undoing(h, k) ==
  helper' = [helper EXCEPT ![h] = IF k > 0 THEN [step |-> "undo", job |-> k, launch |-> @.launch]
                                  ELSE NoHelper]

HelperFails(h) ==
  /\ helper[h].step = "apply" /\ helper[h].job <= 3
  /\ Undoing(h, Applied(helper[h].job))
  /\ \/ ~CanApply(helper[h].job) /\ NoFault /\ UNCHANGED excuse
     \/ Fault /\ excuse' = excuse \cup {"failed"}
  /\ UNCHANGED <<vars, fileVars, app, installer, cleaning, promised>>

HelperUndoes(h) ==
  /\ helper[h].step = "undo"
  /\ \/ /\ helper[h].job = 2 /\ backup.exe # None /\ ~ExeIsRunning
        /\ exe' = backup.exe /\ backup' = [backup EXCEPT !.exe = None]
        /\ app' = Moved("exe")
     \/ /\ helper[h].job = 1 /\ ~OldIsRunning
        /\ backup' = NoBackup /\ UNCHANGED <<exe, app>>
  /\ Undoing(h, helper[h].job - 1)
  /\ NoFault
  /\ UNCHANGED <<vars, staged, marker, installer, cleaning, promised, excuse>>

(* The rollback goes on with the job before the one it could not undo.     *)
HelperUndoFails(h) ==
  /\ helper[h].step = "undo"
  /\ \/ Fault /\ excuse' = excuse \cup {"not undone"}
     \/ /\ NoFault /\ UNCHANGED excuse
        /\ IF helper[h].job = 2 THEN backup.exe = None \/ ExeIsRunning ELSE OldIsRunning
  /\ Undoing(h, helper[h].job - 1)
  /\ UNCHANGED <<vars, fileVars, app, installer, cleaning, promised>>

HelperKilled(h) ==
  /\ helper[h].step # "none"
  /\ Fault
  /\ helper' = [helper EXCEPT ![h] = NoHelper]
  /\ excuse' = excuse \cup {"killed"}
  /\ UNCHANGED <<vars, fileVars, app, installer, cleaning, promised>>
-----------------------------------------------------------------------------
(* Elsewhere the program is replaced by the installation itself.           *)
ReplacedInPlace ==
  /\ ~bound.windows
  /\ \/ Release \/ ChangeSetting \/ Dismiss \/ Restart(ready)
     \/ PollAutomatic /\ polls' <= bound.polls
     \/ \E w \in bound.checking : Check(w) /\ polls' <= bound.polls
     \/ UpdateStep
  /\ UNCHANGED installVars

InstallStep ==
  \/ ClearUpdates \/ InstallerStarts \/ InstallerPlaces \/ InstallerMarks \/ InstallEnds
  \/ UpdateFails

OnWindows ==
  /\ bound.windows
  /\ \/ UpdaterStep \/ SwitchSetting \/ InstallStep
     \/ Cleanup \/ CleanupFails
     \/ Quit \/ ProcessEnds \/ AskRestart \/ RestartByHelper \/ Start
     \/ \E h \in Helpers : \/ HelperApplies(h) \/ HelperSkips(h) \/ HelperDone(h) \/ HelperFails(h)
                            \/ HelperUndoes(h) \/ HelperUndoFails(h) \/ HelperKilled(h)

InstallationInit ==
  /\ Init
  /\ bound \in Bounds
  /\ app = [step |-> "on", image |-> "exe", restart |-> FALSE]
  /\ exe = current /\ backup = NoBackup /\ staged = None /\ marker = FALSE
  /\ installer = NoInstaller
  /\ cleaning = IF bound.windows /\ automatic THEN Len(Directories) ELSE 0
  /\ helper = [h \in Helpers |-> NoHelper]
  /\ promised = None /\ excuse = {}

InstallationNext == ReplacedInPlace \/ OnWindows

InstallationSpec == InstallationInit /\ [][InstallationNext]_allVars

(* A request, a download, an installation or an installer ends or fails.   *)
Progress ==
  \/ ~bound.windows /\ UpdateStep /\ UNCHANGED installVars
  \/ bound.windows /\ (InstallStep \/ (UpdaterStep /\ (Begin \/ NothingNewer \/ Newer)))
FairInstallationSpec == InstallationSpec /\ WF_allVars(Progress)
-----------------------------------------------------------------------------
(* An update that the user is told of is there to be installed, staged and *)
(* marked, unless a cleanup or a helper has taken it (install_release_     *)
(* windows, InstallerDir, cleanup_windows).                                *)
ReadyMeansStaged ==
  bound.windows /\ On /\ status.step = "Updated" /\ "cleaned" \notin excuse =>
    marker /\ staged = status.version

(* After all helpers have ended there is a program to start, whatever of   *)
(* their jobs failed, unless a rollback failed as well, one was killed, or *)
(* two ran at a time (execute_jobs).                                       *)
ProgramStaysInstalled ==
  ~Helping /\ excuse \cap {"not undone", "killed", "overlap"} = {} => exe # None

(* The version the user was told of last is the one that starts next, when *)
(* no job failed, nothing was taken, and the program was not started again *)
(* while a helper worked (finalize_update_on_quit, perform_update).        *)
UpdateArrives ==
  [][app.step = "off" /\ On' /\ promised # None /\ excuse \cup excuse' = {}
       => current' = promised]_allVars
=============================================================================
