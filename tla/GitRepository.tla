---------------------------- MODULE GitRepository ----------------------------
(***************************************************************************)
(* The snapshot of one git repository (Repository of                       *)
(* crates/project/src/git_store.rs): a queue of keyed jobs, the worker     *)
(* that runs them one at a time, and the worktree events that queue them.  *)
(*                                                                         *)
(* git[p] is what `git status` would say of the file p now, head what HEAD *)
(* and the branches are.  A changed file is reported by UpdatedEntries, a  *)
(* change of the git directory, which may change any status and the head,  *)
(* by UpdatedGitRepositories.  A git command reads one thing after the     *)
(* other while both go on changing.                                        *)
(***************************************************************************)
EXTENDS Naturals, Sequences

CONSTANTS
  Paths,        \* files of the repository
  Statuses,     \* what git may say of a file
  Clean,        \* the status of a file that git does not list
  MaxChanges,   \* bound: changes of files and of the git directory
  MaxFailures,  \* bound: git commands that fail
  MaxMoves      \* bound: moves of the work directory

ASSUME RepositoryAssumption ==
  /\ Clean \in Statuses
  /\ MaxChanges \in Nat /\ MaxFailures \in Nat /\ MaxMoves \in Nat

VARIABLES
  git, head, changes,   \* the repository; changes of it so far
  changed, gitChanged,  \* files, and whether the git directory, changed since the worktree told
  batches,              \* process_updated_entries tasks: the paths each will report
  needing,              \* paths_needing_status_update
  queue,                \* keys of the jobs sent and not taken
  worker, job,          \* the worker and the job it runs
  statuses, branch,     \* snapshot.statuses_by_path; snapshot.branch, branch_list and head_commit
  failures, moves,      \* failed commands and moves so far
  lost                  \* ghost: a failed command left the snapshot behind

repoVars == <<git, head, changes>>
eventVars == <<changed, gitChanged, batches>>
snapshotVars == <<statuses, branch>>
boundVars == <<failures, moves>>
vars == <<repoVars, eventVars, needing, queue, worker, job, snapshotVars, boundVars, lost>>

Keys == {"RefreshStatuses", "ReloadGitState"}
Heads == 0 .. MaxChanges

(* A job reads the head (ReloadGitState) and then the statuses of asked;   *)
(* read says which of them it has read, found what it found.               *)
NoJob == [key |-> "none", step |-> "none", head |-> 0, asked |-> {}, read |-> {},
          found |-> [p \in Paths |-> Clean], failed |-> FALSE]
JobState ==
  [key : Keys \cup {"none"}, step : {"none", "spawned", "head", "status"}, head : Heads,
   asked : SUBSET Paths, read : SUBSET Paths, found : [Paths -> Statuses], failed : BOOLEAN]

TypeOK ==
  /\ git \in [Paths -> Statuses] /\ head \in Heads /\ changes \in 0 .. MaxChanges
  /\ changed \subseteq Paths /\ gitChanged \in BOOLEAN /\ batches \subseteq SUBSET Paths
  /\ needing \subseteq Paths /\ queue \in Seq(Keys)
  /\ worker \in {"starting", "ready", "dead"} /\ job \in JobState
  /\ statuses \in [Paths -> Statuses] /\ branch \in Heads
  /\ failures \in 0 .. MaxFailures /\ moves \in 0 .. MaxMoves /\ lost \in BOOLEAN
  /\ job.key = "none" <=> job.step = "none"
  /\ job.key # "none" => worker = "ready"
  /\ worker = "dead" => queue = <<>>
-----------------------------------------------------------------------------
(***************************************************************************)
(* The repository, and the worktree that tells of its changes.             *)
(***************************************************************************)
ChangeFile(p) ==
  /\ changes < MaxChanges /\ changes' = changes + 1
  /\ \E s \in Statuses \ {git[p]} : git' = [git EXCEPT ![p] = s]
  /\ changed' = changed \cup {p}
  /\ UNCHANGED <<head, gitChanged, batches, needing, queue, worker, job, snapshotVars,
                 boundVars, lost>>

(* A commit, a checkout, a reset, a change of the index.                   *)
ChangeGit ==
  /\ changes < MaxChanges /\ changes' = changes + 1
  /\ git' \in [Paths -> Statuses] /\ head' \in {head, changes + 1}
  /\ gitChanged' = TRUE
  /\ UNCHANGED <<changed, batches, needing, queue, worker, job, snapshotVars, boundVars, lost>>

(* WorktreeUpdatedEntries: a detached task finds the paths' repositories.  *)
UpdatedEntries ==
  \E S \in SUBSET changed \ {{}} :
    /\ changed' = changed \ S /\ batches' = batches \cup {S}
    /\ UNCHANGED <<repoVars, gitChanged, needing, queue, worker, job, snapshotVars, boundVars,
                   lost>>

(* send_keyed_job: the channel of a dead worker takes nothing.             *)
Sent(key) == IF worker = "dead" THEN queue ELSE Append(queue, key)

(* paths_changed, for the batches in any order.                            *)
PathsChanged(S) ==
  /\ batches' = batches \ {S}
  /\ needing' = needing \cup S
  /\ queue' = Sent("RefreshStatuses")
  /\ UNCHANGED <<repoVars, changed, gitChanged, worker, job, snapshotVars, boundVars, lost>>

(* UpdatedGitRepositories of a repository that stayed where it was.        *)
ScheduleScan ==
  /\ gitChanged /\ gitChanged' = FALSE
  /\ queue' = Sent("ReloadGitState")
  /\ UNCHANGED <<repoVars, changed, batches, needing, worker, job, snapshotVars, boundVars, lost>>

(* reinitialize_backend and schedule_scan: a new worker; the old one, its  *)
(* job and its channel are dropped.                                        *)
Reinitialize ==
  /\ moves < MaxMoves /\ moves' = moves + 1
  /\ worker' = "starting" /\ job' = NoJob /\ queue' = <<"ReloadGitState">>
  /\ UNCHANGED <<repoVars, eventVars, needing, snapshotVars, failures, lost>>

(***************************************************************************)
(* The worker.                                                             *)
(***************************************************************************)
(* The repository is opened, or cannot be.                                 *)
WorkerStart ==
  /\ worker = "starting" /\ worker' = "ready"
  /\ UNCHANGED <<repoVars, eventVars, needing, queue, job, snapshotVars, boundVars, lost>>

WorkerFail ==
  /\ worker = "starting" /\ failures < MaxFailures /\ failures' = failures + 1
  /\ worker' = "dead" /\ queue' = <<>>
  /\ UNCHANGED <<repoVars, eventVars, needing, job, snapshotVars, moves, lost>>

KeysAfter(i) == {queue[j] : j \in i + 1 .. Len(queue)}

(* The next job is the first one whose key is not queued again; what is    *)
(* skipped has its key queued there or behind.  Variant: a job is skipped  *)
(* for any job behind it.                                                  *)
IsNextOfAll(i) == i = Len(queue)
IsNext(i) ==
  /\ queue[i] \notin KeysAfter(i)
  /\ \A j \in 1 .. i - 1 : queue[j] \in KeysAfter(i) \cup {queue[i]}

TakeJob ==
  /\ worker = "ready" /\ job.key = "none"
  /\ \E i \in DOMAIN queue :
       /\ IsNext(i)
       /\ job' = [NoJob EXCEPT !.key = queue[i], !.step = "spawned"]
       /\ queue' = SubSeq(queue, i + 1, Len(queue))
  /\ UNCHANGED <<repoVars, eventVars, needing, worker, snapshotVars, boundVars, lost>>

(* The job of paths_changed takes the paths, the one of schedule_scan,     *)
(* which will read all of them, forgets them.                              *)
JobBegin ==
  /\ job.step = "spawned"
  /\ needing' = {}
  /\ job' = IF job.key = "ReloadGitState" THEN [job EXCEPT !.step = "head", !.asked = Paths]
            ELSE IF needing = {} THEN NoJob
            ELSE [job EXCEPT !.step = "status", !.asked = needing]
  /\ UNCHANGED <<repoVars, eventVars, queue, worker, snapshotVars, boundVars, lost>>

(* backend.branches and backend.show.                                      *)
ReadHead ==
  /\ job.step = "head"
  /\ job' = [job EXCEPT !.step = "status", !.head = head]
  /\ UNCHANGED <<repoVars, eventVars, needing, queue, worker, snapshotVars, boundVars, lost>>

(* One file of backend.status.                                             *)
ReadStatus(p) ==
  /\ job.step = "status" /\ p \in job.asked \ job.read
  /\ job' = [job EXCEPT !.read = @ \cup {p}, !.found[p] = git[p]]
  /\ UNCHANGED <<repoVars, eventVars, needing, queue, worker, snapshotVars, boundVars, lost>>

(* A refresh edits what it asked for; a reload replaces everything.        *)
(* Variant: a refresh that finds a file clean leaves its entry.            *)
NewStatusesKept ==
  [p \in Paths |-> IF p \in job.asked /\ job.found[p] # Clean THEN job.found[p] ELSE statuses[p]]
NewStatuses == [p \in Paths |-> IF p \in job.asked THEN job.found[p] ELSE statuses[p]]

JobEnd ==
  /\ job.step = "status" /\ job.read = job.asked
  /\ statuses' = NewStatuses
  /\ branch' = IF job.key = "ReloadGitState" THEN job.head ELSE branch
  /\ lost' = IF job.key = "ReloadGitState" THEN job.failed ELSE lost
  /\ job' = NoJob
  /\ UNCHANGED <<repoVars, eventVars, needing, queue, worker, boundVars>>

(* A refresh that fails drops its paths.  A reload goes on with no branch  *)
(* or with no status.                                                      *)
JobFail ==
  /\ job.step \in {"head", "status"}
  /\ failures < MaxFailures /\ failures' = failures + 1
  /\ IF job.key = "RefreshStatuses" THEN job' = NoJob /\ lost' = TRUE
     ELSE /\ job' = IF job.step = "head"
                    THEN [job EXCEPT !.step = "status", !.head = 0, !.failed = TRUE]
                    ELSE [job EXCEPT !.read = Paths, !.found = NoJob.found, !.failed = TRUE]
          /\ lost' = lost
  /\ UNCHANGED <<repoVars, eventVars, needing, queue, worker, snapshotVars, moves>>
-----------------------------------------------------------------------------
(* A new repository is scanned.                                            *)
Init ==
  /\ git \in [Paths -> Statuses] /\ head = 0 /\ changes = 0
  /\ changed = {} /\ gitChanged = FALSE /\ batches = {}
  /\ needing = {} /\ queue = <<"ReloadGitState">>
  /\ worker = "starting" /\ job = NoJob
  /\ statuses = [p \in Paths |-> Clean] /\ branch = 0
  /\ failures = 0 /\ moves = 0 /\ lost = FALSE

JobStep == JobBegin \/ ReadHead \/ (\E p \in Paths : ReadStatus(p)) \/ JobEnd

Next ==
  \/ \E p \in Paths : ChangeFile(p)
  \/ ChangeGit
  \/ UpdatedEntries
  \/ \E S \in batches : PathsChanged(S)
  \/ ScheduleScan \/ Reinitialize
  \/ WorkerStart \/ WorkerFail
  \/ TakeJob \/ JobStep \/ JobFail

Spec == Init /\ [][Next]_vars
-----------------------------------------------------------------------------
Queued(key) == \E i \in DOMAIN queue : queue[i] = key

(* A later job will read p, or the head.                                   *)
Awaited(p) ==
  \/ p \in changed \/ gitChanged \/ \E S \in batches : p \in S
  \/ Queued("ReloadGitState")
  \/ p \in needing /\ Queued("RefreshStatuses")

HeadAwaited == gitChanged \/ Queued("ReloadGitState")

(* The job in progress has not read p yet.                                 *)
WillRead(p) ==
  \/ job.step = "spawned" /\ (job.key = "ReloadGitState" \/ p \in needing)
  \/ job.step \in {"head", "status"} /\ p \in job.asked \ job.read

(* No change is forgotten: a file whose status is behind will be read, or  *)
(* what was read of it is what it is now; the same of the head.  Jobs that *)
(* are skipped, paths that a reload forgets, a worker that is replaced and *)
(* changes in the middle of a git command lose nothing; only commands that *)
(* fail do.                                                                *)
NothingForgotten ==
  worker # "dead" /\ ~lost =>
    /\ \A p \in Paths : statuses[p] # git[p] =>
         \/ Awaited(p) \/ WillRead(p)
         \/ job.step = "status" /\ p \in job.read /\ (job.found[p] = git[p] \/ job.failed)
    /\ branch # head =>
         \/ HeadAwaited
         \/ job.key = "ReloadGitState" /\ job.step \in {"spawned", "head"}
         \/ job.key = "ReloadGitState" /\ job.step = "status" /\ (job.head = head \/ job.failed)
=============================================================================
