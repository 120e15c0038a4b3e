------------------------- MODULE ProjectPanel_proofs -------------------------
(***************************************************************************)
(* The rows of the project panel are of the present, a name that is edited *)
(* has the keyboard, and the panel leaves the repository to itself: for    *)
(* any names, trees, tasks and bounds.                                     *)
(***************************************************************************)
EXTENDS ProjectPanel, TLAPS
-----------------------------------------------------------------------------
(***************************************************************************)
(* The repository: no change of it is forgotten, for any set of files, any *)
(* statuses and any number of changes, failures and moves.                 *)
(***************************************************************************)
(* What the job in progress has read is what it is now, or will be read    *)
(* again; whatever a failed command stood for is excepted.                 *)
FilesFresh ==
  \A p \in job.read : job.step = "status" /\ ~job.failed /\ job.found[p] # git[p] => Awaited(p)

HeadFresh ==
  job.step = "status" /\ job.key = "ReloadGitState" /\ ~job.failed /\ job.head # head => HeadAwaited

(* A reload asks for every file, a refresh never fails halfway.            *)
JobSound ==
  /\ job.read \subseteq job.asked
  /\ job.step \in {"none", "spawned", "head"} => job.read = {}
  /\ job.step = "spawned" => job.asked = {}
  /\ job.step = "head" => job.key = "ReloadGitState" /\ ~job.failed
  /\ job.key = "ReloadGitState" /\ job.step \in {"head", "status"} => job.asked = Paths
  /\ job.failed => job.key = "ReloadGitState" /\ job.step = "status"

GitInv == TypeOK /\ FilesFresh /\ HeadFresh /\ JobSound /\ NothingForgotten

(* Taking a job leaves the keys of the others queued.                      *)
LEMMA TakeKeepsKeys ==
  ASSUME queue \in Seq(Keys), NEW i \in DOMAIN queue, IsNext(i),
         NEW key, Queued(key), key # queue[i]
  PROVE  \E m \in DOMAIN SubSeq(queue, i + 1, Len(queue)) :
           SubSeq(queue, i + 1, Len(queue))[m] = key
<1>1. PICK j \in DOMAIN queue : queue[j] = key
  BY DEF Queued
<1>2. key \in KeysAfter(i)
  <2>1. CASE j < i
    BY <1>1, <2>1 DEF IsNext
  <2>2. CASE j > i
    BY <1>1, <2>2 DEF KeysAfter
  <2> QED BY <1>1, <2>1, <2>2
<1>3. PICK k \in i + 1 .. Len(queue) : queue[k] = key
  BY <1>2 DEF KeysAfter
<1>4. /\ k - i \in DOMAIN SubSeq(queue, i + 1, Len(queue))
      /\ SubSeq(queue, i + 1, Len(queue))[k - i] = queue[k]
  BY <1>3
<1> QED BY <1>3, <1>4

(* Sending a job leaves what is queued there.                              *)
LEMMA SentKeepsKeys ==
  ASSUME queue \in Seq(Keys), NEW new \in Keys, worker # "dead"
  PROVE  /\ Sent(new) \in Seq(Keys)
         /\ \E i \in DOMAIN Sent(new) : Sent(new)[i] = new
         /\ \A key : Queued(key) => \E i \in DOMAIN Sent(new) : Sent(new)[i] = key
<1>1. Sent(new) = Append(queue, new)
  BY DEF Sent
<1>2. Len(Append(queue, new)) = Len(queue) + 1 /\ Append(queue, new)[Len(queue) + 1] = new
  OBVIOUS
<1>3. \A i \in DOMAIN queue : i \in DOMAIN Append(queue, new) /\ Append(queue, new)[i] = queue[i]
  OBVIOUS
<1> QED BY <1>1, <1>2, <1>3 DEF Queued

(* The initial state: everything is still to be read by the first job.     *)
LEMMA GitInit == Init => GitInv
<1> SUFFICES ASSUME Init PROVE GitInv
  OBVIOUS
<1>1. NoJob \in JobState
  BY RepositoryAssumption DEF NoJob, JobState, Heads
<1>2. queue \in Seq(Keys)
  BY DEF Init, Keys
<1>3. statuses \in [Paths -> Statuses] /\ git \in [Paths -> Statuses]
  BY RepositoryAssumption DEF Init
<1>4. head \in Heads /\ changes \in 0 .. MaxChanges /\ branch \in Heads
      /\ failures \in 0 .. MaxFailures /\ moves \in 0 .. MaxMoves
  BY RepositoryAssumption DEF Init, Heads
<1>5. TypeOK
  BY <1>1, <1>2, <1>3, <1>4 DEF Init, TypeOK, NoJob
<1>6. Queued("ReloadGitState")
  BY DEF Init, Queued
<1> QED
  BY <1>5, <1>6 DEF GitInv, FilesFresh, HeadFresh, JobSound, NothingForgotten, Awaited,
     HeadAwaited, Init, NoJob

-----------------------------------------------------------------------------
(* Changes are reported, so what was read of a changed file is awaited.    *)
LEMMA ChangeFilePreserves ==
  ASSUME GitInv, NEW path \in Paths, ChangeFile(path)
  PROVE  GitInv'
<1> USE DEF GitInv
<1>1. TypeOK'
  BY RepositoryAssumption DEF TypeOK, ChangeFile, snapshotVars, boundVars
<1>2. JobSound'
  BY DEF JobSound, ChangeFile
<1>3. \A p \in Paths : p # path => git'[p] = git[p]
  BY DEF ChangeFile, TypeOK
<1>4. \A p \in Paths : (Awaited(p) => Awaited(p)') /\ (WillRead(p) => WillRead(p)')
  BY DEF ChangeFile, Awaited, WillRead, Queued
<1>5. Awaited(path)'
  BY DEF ChangeFile, Awaited
<1>6. job.read \subseteq Paths
  BY DEF TypeOK, JobState
<1>7. FilesFresh'
  BY <1>3, <1>4, <1>5, <1>6 DEF ChangeFile, FilesFresh
<1>8. HeadFresh' /\ (HeadAwaited => HeadAwaited')
  BY DEF ChangeFile, HeadFresh, HeadAwaited, Queued
<1>9. NothingForgotten'
  BY <1>3, <1>4, <1>5, <1>8 DEF ChangeFile, NothingForgotten, snapshotVars
<1> QED BY <1>1, <1>2, <1>7, <1>8, <1>9

LEMMA ChangeGitPreserves ==
  ASSUME GitInv, ChangeGit
  PROVE  GitInv'
<1> USE DEF GitInv
<1>1. TypeOK'
  BY RepositoryAssumption DEF TypeOK, ChangeGit, snapshotVars, boundVars, Heads
<1>2. JobSound'
  BY DEF JobSound, ChangeGit
<1>3. HeadAwaited' /\ \A p \in Paths : Awaited(p)'
  BY DEF ChangeGit, HeadAwaited, Awaited
<1>4. job.read \subseteq Paths
  BY DEF TypeOK, JobState
<1> QED BY <1>1, <1>2, <1>3, <1>4 DEF ChangeGit, FilesFresh, HeadFresh, NothingForgotten

(* A report in progress still names every file it is about.                *)
LEMMA UpdatedEntriesPreserves ==
  ASSUME GitInv, UpdatedEntries
  PROVE  GitInv'
<1> USE DEF GitInv
<1>1. TypeOK'
  BY DEF TypeOK, UpdatedEntries, repoVars, snapshotVars, boundVars
<1>2. JobSound' /\ HeadFresh'
  BY DEF JobSound, HeadFresh, HeadAwaited, Queued, UpdatedEntries, repoVars
<1>3. \A p \in Paths : (Awaited(p) => Awaited(p)') /\ (WillRead(p) => WillRead(p)')
  BY DEF UpdatedEntries, Awaited, WillRead, Queued
<1>4. job.read \subseteq Paths
  BY DEF TypeOK, JobState
<1>5. FilesFresh'
  BY <1>3, <1>4 DEF UpdatedEntries, FilesFresh, repoVars
<1>6. NothingForgotten'
  BY <1>3 DEF UpdatedEntries, NothingForgotten, HeadAwaited, Queued, repoVars, snapshotVars
<1> QED BY <1>1, <1>2, <1>5, <1>6

(* The paths of the report are needed, and the job that takes them queued. *)
LEMMA PathsChangedPreserves ==
  ASSUME GitInv, NEW S \in batches, PathsChanged(S)
  PROVE  GitInv'
<1> USE DEF GitInv
<1>1. CASE worker = "dead"
  <2>1. TypeOK' /\ JobSound'
    BY <1>1 DEF TypeOK, JobSound, PathsChanged, Sent, repoVars, snapshotVars, boundVars
  <2>2. job.read = {} /\ job.step = "none"
    BY <1>1 DEF TypeOK, JobSound
  <2> QED
    BY <1>1, <2>1, <2>2 DEF PathsChanged, FilesFresh, HeadFresh, NothingForgotten, repoVars
<1>2. CASE worker # "dead"
  <2>1. queue \in Seq(Keys) /\ "RefreshStatuses" \in Keys
    BY DEF TypeOK, Keys
  <2>2. /\ queue' \in Seq(Keys) /\ Queued("RefreshStatuses")'
        /\ \A key : Queued(key) => Queued(key)'
    BY <1>2, <2>1, SentKeepsKeys DEF PathsChanged, Queued
  <2>3. TypeOK'
    BY <1>2, <2>2 DEF TypeOK, PathsChanged, repoVars, snapshotVars, boundVars
  <2>4. JobSound'
    BY DEF JobSound, PathsChanged
  <2>5. \A p \in Paths : (Awaited(p) => Awaited(p)') /\ (WillRead(p) => WillRead(p)')
    BY <2>2 DEF PathsChanged, Awaited, WillRead
  <2>6. HeadFresh' /\ (HeadAwaited => HeadAwaited')
    BY <2>2 DEF PathsChanged, HeadFresh, HeadAwaited, repoVars
  <2>7. job.read \subseteq Paths
    BY DEF TypeOK, JobState
  <2>8. FilesFresh'
    BY <2>5, <2>7 DEF PathsChanged, FilesFresh, repoVars
  <2>9. NothingForgotten'
    BY <2>5, <2>6 DEF PathsChanged, NothingForgotten, repoVars, snapshotVars
  <2> QED BY <2>3, <2>4, <2>6, <2>8, <2>9
<1> QED BY <1>1, <1>2

LEMMA ScheduleScanPreserves ==
  ASSUME GitInv, ScheduleScan
  PROVE  GitInv'
<1> USE DEF GitInv
<1>1. CASE worker = "dead"
  <2>1. TypeOK' /\ JobSound'
    BY <1>1 DEF TypeOK, JobSound, ScheduleScan, Sent, repoVars, snapshotVars, boundVars
  <2>2. job.read = {} /\ job.step = "none"
    BY <1>1 DEF TypeOK, JobSound
  <2> QED
    BY <1>1, <2>1, <2>2 DEF ScheduleScan, FilesFresh, HeadFresh, NothingForgotten, repoVars
<1>2. CASE worker # "dead"
  <2>1. queue \in Seq(Keys) /\ "ReloadGitState" \in Keys
    BY DEF TypeOK, Keys
  <2>2. queue' \in Seq(Keys) /\ Queued("ReloadGitState")'
    BY <1>2, <2>1, SentKeepsKeys DEF ScheduleScan, Queued
  <2>3. TypeOK'
    BY <1>2, <2>2 DEF TypeOK, ScheduleScan, repoVars, snapshotVars, boundVars
  <2>4. JobSound'
    BY DEF JobSound, ScheduleScan
  <2>5. HeadAwaited' /\ \A p \in Paths : Awaited(p)'
    BY <2>2 DEF HeadAwaited, Awaited
  <2>6. job.read \subseteq Paths
    BY DEF TypeOK, JobState
  <2> QED
    BY <2>3, <2>4, <2>5, <2>6 DEF ScheduleScan, FilesFresh, HeadFresh, NothingForgotten
<1> QED BY <1>1, <1>2

(* A new worker begins with a reload.                                      *)
LEMMA ReinitializePreserves ==
  ASSUME GitInv, Reinitialize
  PROVE  GitInv'
<1> USE DEF GitInv
<1>1. NoJob \in JobState
  BY RepositoryAssumption DEF NoJob, JobState, Heads
<1>2. queue' \in Seq(Keys) /\ moves' \in 0 .. MaxMoves
  BY RepositoryAssumption DEF Reinitialize, Keys, TypeOK
<1>3. TypeOK'
  BY <1>1, <1>2 DEF TypeOK, Reinitialize, NoJob, repoVars, eventVars, snapshotVars
<1>4. Queued("ReloadGitState")'
  BY DEF Reinitialize, Queued
<1> QED
  BY <1>3, <1>4 DEF Reinitialize, NoJob, JobSound, FilesFresh, HeadFresh, NothingForgotten,
     Awaited, HeadAwaited

-----------------------------------------------------------------------------
(* The worker: what it starts with, and what it gives up.                  *)
LEMMA WorkerPreserves ==
  ASSUME GitInv, WorkerStart \/ WorkerFail
  PROVE  GitInv'
<1> USE DEF GitInv
<1>1. CASE WorkerStart
  <2>1. TypeOK' /\ JobSound'
    BY <1>1 DEF TypeOK, JobSound, WorkerStart, repoVars, eventVars, snapshotVars, boundVars
  <2> QED
    BY <1>1, <2>1 DEF WorkerStart, FilesFresh, HeadFresh, NothingForgotten, Awaited, WillRead,
       HeadAwaited, Queued, repoVars, eventVars, snapshotVars
<1>2. CASE WorkerFail
  <2>1. failures' \in 0 .. MaxFailures /\ queue' \in Seq(Keys)
    BY <1>2, RepositoryAssumption DEF TypeOK, WorkerFail
  <2>2. job.key = "none" /\ job.step = "none"
    BY <1>2 DEF TypeOK, WorkerFail
  <2>3. TypeOK' /\ JobSound'
    BY <1>2, <2>1, <2>2 DEF TypeOK, JobSound, WorkerFail, repoVars, eventVars, snapshotVars
  <2> QED
    BY <1>2, <2>2, <2>3 DEF WorkerFail, FilesFresh, HeadFresh, NothingForgotten, JobSound
<1> QED BY <1>1, <1>2

(* A job that is taken or skipped has its key in progress or still queued. *)
LEMMA TakeJobPreserves ==
  ASSUME GitInv, TakeJob
  PROVE  GitInv'
<1> USE DEF GitInv
<1>1. PICK i \in DOMAIN queue :
        /\ IsNext(i)
        /\ job' = [NoJob EXCEPT !.key = queue[i], !.step = "spawned"]
        /\ queue' = SubSeq(queue, i + 1, Len(queue))
  BY DEF TakeJob
<1>2. queue \in Seq(Keys) /\ queue[i] \in Keys
  BY DEF TypeOK
<1>3. queue' \in Seq(Keys)
  BY <1>1, <1>2
<1>4. NoJob \in JobState
  BY RepositoryAssumption DEF NoJob, JobState, Heads
<1>5. job' \in JobState
  BY <1>1, <1>2, <1>4 DEF JobState
<1>6. /\ job'.key = queue[i] /\ job'.step = "spawned" /\ job'.read = {} /\ job'.asked = {}
      /\ job'.failed = FALSE
  BY <1>1 DEF NoJob
<1>7. TypeOK'
  BY <1>2, <1>3, <1>5, <1>6
     DEF TypeOK, TakeJob, Keys, repoVars, eventVars, snapshotVars, boundVars
<1>8. JobSound' /\ FilesFresh' /\ HeadFresh'
  BY <1>6 DEF JobSound, FilesFresh, HeadFresh
<1>9. \A key : Queued(key) => key = queue[i] \/ Queued(key)'
  <2> SUFFICES ASSUME NEW key, Queued(key), key # queue[i] PROVE Queued(key)'
    OBVIOUS
  <2>1. \E m \in DOMAIN SubSeq(queue, i + 1, Len(queue)) :
           SubSeq(queue, i + 1, Len(queue))[m] = key
    BY <1>1, <1>2, TakeKeepsKeys
  <2> QED BY <1>1, <2>1 DEF Queued
<1>10. job.step = "none" /\ job.read = {}
  BY DEF TakeJob, TypeOK, JobSound
<1>11. \A p \in Paths : Awaited(p) => (Awaited(p) \/ WillRead(p))'
  BY <1>6, <1>9 DEF TakeJob, Awaited, WillRead, eventVars
<1>12. HeadAwaited => HeadAwaited' \/ job'.key = "ReloadGitState"
  BY <1>6, <1>9 DEF TakeJob, HeadAwaited, eventVars
<1>13. \A p \in Paths : ~WillRead(p)
  BY <1>10 DEF WillRead
<1>14. NothingForgotten'
  BY <1>6, <1>10, <1>11, <1>12, <1>13
     DEF TakeJob, NothingForgotten, repoVars, snapshotVars, JobSound, TypeOK
<1> QED BY <1>7, <1>8, <1>14

(* The paths a job forgets are the ones it asks for.                       *)
LEMMA JobBeginPreserves ==
  ASSUME GitInv, JobBegin
  PROVE  GitInv'
<1> USE DEF GitInv
<1>1. job \in JobState /\ job.key \in Keys /\ job.read = {} /\ needing \subseteq Paths
  BY DEF JobBegin, TypeOK, JobSound, JobState
<1>2. \A p \in Paths : Awaited(p) /\ ~Awaited(p)' => p \in needing
  BY DEF JobBegin, Awaited, eventVars, Queued
<1>3. CASE job.key = "ReloadGitState"
  <2>1. job' = [job EXCEPT !.step = "head", !.asked = Paths]
    BY <1>3 DEF JobBegin
  <2>2. job' \in JobState /\ job'.step = "head" /\ job'.asked = Paths /\ job'.key = job.key
        /\ job'.read = job.read /\ job'.failed = job.failed
    BY <1>1, <2>1 DEF JobState
  <2>3. TypeOK'
    BY <1>1, <2>2 DEF TypeOK, JobBegin, Keys, repoVars, eventVars, snapshotVars, boundVars
  <2>4. JobSound'
    BY <1>1, <1>3, <2>2 DEF JobSound, JobBegin
  <2>5. \A p \in Paths : WillRead(p)'
    BY <1>1, <2>2 DEF WillRead
  <2> QED
    BY <1>1, <1>3, <2>2, <2>3, <2>4, <2>5 DEF JobBegin, FilesFresh, HeadFresh, NothingForgotten
<1>4. CASE job.key # "ReloadGitState" /\ needing = {}
  <2>1. job' = NoJob
    BY <1>4 DEF JobBegin
  <2>2. NoJob \in JobState
    BY RepositoryAssumption DEF NoJob, JobState, Heads
  <2>a. job' \in JobState /\ job'.key = "none" /\ job'.step = "none" /\ job'.read = {}
        /\ job'.asked = {} /\ ~job'.failed
    BY <2>1, <2>2 DEF NoJob
  <2>b. TypeOK'
    BY <2>a DEF TypeOK, JobBegin, repoVars, eventVars, snapshotVars, boundVars
  <2>3. TypeOK' /\ JobSound' /\ FilesFresh' /\ HeadFresh'
    BY <2>a, <2>b DEF JobSound, FilesFresh, HeadFresh
  <2>4. \A p \in Paths : ~WillRead(p) /\ (Awaited(p) => Awaited(p)')
    BY <1>2, <1>4 DEF JobBegin, WillRead
  <2>5. HeadAwaited => HeadAwaited'
    BY DEF HeadAwaited, JobBegin, eventVars, Queued
  <2> QED
    BY <1>4, <2>3, <2>4, <2>5 DEF JobBegin, NothingForgotten, repoVars, snapshotVars
<1>5. CASE job.key # "ReloadGitState" /\ needing # {}
  <2>1. job' = [job EXCEPT !.step = "status", !.asked = needing]
    BY <1>5 DEF JobBegin
  <2>2. job' \in JobState /\ job'.step = "status" /\ job'.asked = needing /\ job'.key = job.key
        /\ job'.read = job.read /\ job'.failed = job.failed
    BY <1>1, <2>1 DEF JobState
  <2>3. TypeOK'
    BY <1>1, <2>2 DEF TypeOK, JobBegin, Keys, repoVars, eventVars, snapshotVars, boundVars
  <2>4. JobSound'
    BY <1>1, <1>5, <2>2 DEF JobSound, JobBegin
  <2>5. \A p \in needing : WillRead(p)'
    BY <1>1, <2>2 DEF WillRead
  <2>6. \A p \in Paths : WillRead(p) => p \in needing
    BY <1>5 DEF WillRead, JobBegin
  <2>7. HeadAwaited => HeadAwaited'
    BY DEF HeadAwaited, JobBegin, eventVars, Queued
  <2>8. FilesFresh' /\ HeadFresh'
    BY <1>1, <1>5, <2>2 DEF FilesFresh, HeadFresh
  <2> QED
    BY <1>1, <1>2, <1>5, <2>2, <2>3, <2>4, <2>5, <2>6, <2>7, <2>8
       DEF JobBegin, NothingForgotten, repoVars, snapshotVars
<1> QED BY <1>3, <1>4, <1>5

-----------------------------------------------------------------------------
(* What is read now is what is there now.                                  *)
LEMMA ReadHeadPreserves ==
  ASSUME GitInv, ReadHead
  PROVE  GitInv'
<1> USE DEF GitInv
<1>1. job \in JobState /\ head \in Heads
  BY DEF TypeOK
<1>2. job' = [job EXCEPT !.step = "status", !.head = head]
  BY DEF ReadHead
<1>3. /\ job' \in JobState /\ job'.key = job.key /\ job'.step = "status" /\ job'.head = head
      /\ job'.asked = job.asked /\ job'.read = job.read /\ job'.failed = job.failed
  BY <1>1, <1>2 DEF JobState
<1>4. job.step = "head" /\ job.read = {} /\ job.key = "ReloadGitState" /\ job.asked = Paths
  BY DEF ReadHead, JobSound
<1>5. TypeOK'
  BY <1>3, <1>4 DEF TypeOK, ReadHead, repoVars, eventVars, snapshotVars, boundVars
<1>6. JobSound' /\ FilesFresh'
  BY <1>3, <1>4 DEF JobSound, FilesFresh
<1>7. head' = head /\ \A p \in Paths : WillRead(p)'
  BY <1>3, <1>4 DEF ReadHead, repoVars, WillRead
<1> QED
  BY <1>3, <1>4, <1>5, <1>6, <1>7 DEF HeadFresh, NothingForgotten

LEMMA ReadStatusPreserves ==
  ASSUME GitInv, NEW path \in Paths, ReadStatus(path)
  PROVE  GitInv'
<1> USE DEF GitInv
<1>1. job \in JobState /\ git \in [Paths -> Statuses]
  BY DEF TypeOK
<1>2. job' = [job EXCEPT !.read = @ \cup {path}, !.found[path] = git[path]]
  BY DEF ReadStatus
<1>3. /\ job' \in JobState /\ job'.key = job.key /\ job'.step = job.step /\ job'.head = job.head
      /\ job'.asked = job.asked /\ job'.failed = job.failed
      /\ job'.read = job.read \cup {path}
      /\ job'.found = [job.found EXCEPT ![path] = git[path]]
  BY <1>1, <1>2 DEF JobState
<1>4. job'.found[path] = git[path] /\ \A p \in Paths \ {path} : job'.found[p] = job.found[p]
  BY <1>1, <1>3 DEF JobState
<1>5. TypeOK'
  BY <1>3 DEF TypeOK, ReadStatus, repoVars, eventVars, snapshotVars, boundVars
<1>6. JobSound' /\ job.step = "status" /\ path \in job.asked
  BY <1>3 DEF JobSound, ReadStatus
<1>7. job.read \subseteq Paths /\ job'.read \subseteq Paths
  BY <1>1, <1>3 DEF JobState
<1>8. git' = git /\ head' = head /\ HeadAwaited' = HeadAwaited
      /\ \A p \in Paths : Awaited(p)' = Awaited(p)
  BY DEF ReadStatus, repoVars, eventVars, Awaited, HeadAwaited, Queued
<1>9. FilesFresh' /\ HeadFresh'
  BY <1>3, <1>4, <1>6, <1>7, <1>8 DEF FilesFresh, HeadFresh
<1>10. \A p \in Paths : p # path => (WillRead(p) => WillRead(p)')
  BY <1>3 DEF WillRead, ReadStatus
<1>11. NothingForgotten'
  BY <1>3, <1>4, <1>6, <1>7, <1>8, <1>10
     DEF NothingForgotten, ReadStatus, repoVars, snapshotVars
<1> QED BY <1>5, <1>6, <1>9, <1>11

(* What a job read becomes the snapshot; whatever is behind by then is     *)
(* awaited.                                                                *)
LEMMA JobEndPreserves ==
  ASSUME GitInv, JobEnd
  PROVE  GitInv'
<1> USE DEF GitInv
<1>1. job \in JobState /\ statuses \in [Paths -> Statuses] /\ job.read = job.asked
      /\ job.step = "status" /\ job.read \subseteq Paths
  BY DEF TypeOK, JobEnd, JobState
<1>2. statuses' = [p \in Paths |-> IF p \in job.asked THEN job.found[p] ELSE statuses[p]]
  BY DEF JobEnd, NewStatuses
<1>3. statuses' \in [Paths -> Statuses]
  BY <1>1, <1>2 DEF JobState
<1>4. branch' \in Heads /\ lost' \in BOOLEAN
  BY <1>1 DEF JobEnd, TypeOK, JobState
<1>5. NoJob \in JobState
  BY RepositoryAssumption DEF NoJob, JobState, Heads
<1>6. job' = NoJob /\ git' = git /\ head' = head /\ worker' = worker
  BY DEF JobEnd, repoVars
<1>7. job'.key = "none" /\ job'.step = "none" /\ job'.read = {} /\ job'.asked = {}
      /\ ~job'.failed
  BY <1>6 DEF NoJob
<1>8. TypeOK'
  BY <1>3, <1>4, <1>5, <1>6, <1>7
     DEF TypeOK, JobEnd, repoVars, eventVars, snapshotVars, boundVars
<1>9. JobSound' /\ FilesFresh' /\ HeadFresh'
  BY <1>7 DEF JobSound, FilesFresh, HeadFresh
<1>10. HeadAwaited' = HeadAwaited /\ \A p \in Paths : Awaited(p)' = Awaited(p)
  BY DEF JobEnd, eventVars, Awaited, HeadAwaited, Queued
<1>11. ASSUME worker' # "dead", ~lost'
       PROVE  /\ \A p \in Paths : statuses'[p] # git'[p] => Awaited(p)'
              /\ branch' # head' => HeadAwaited'
  <2>1. ~job.failed /\ (~lost \/ job.key = "ReloadGitState")
    BY <1>11 DEF JobEnd, JobSound
  <2>2. \A p \in job.asked : statuses'[p] = job.found[p]
    BY <1>1, <1>2
  <2>3. \A p \in Paths \ job.asked : statuses'[p] = statuses[p] /\ ~WillRead(p)
    BY <1>1, <1>2 DEF WillRead
  <2>4. \A p \in job.asked : statuses'[p] # git[p] => Awaited(p)
    BY <1>1, <2>1, <2>2 DEF FilesFresh
  <2>5. \A p \in Paths \ job.asked : statuses'[p] # git[p] => Awaited(p)
    <3>1. CASE job.key = "ReloadGitState"
      BY <1>1, <3>1 DEF JobSound
    <3>2. CASE job.key # "ReloadGitState"
      BY <1>1, <1>6, <1>11, <2>1, <2>3, <3>2 DEF NothingForgotten
    <3> QED BY <3>1, <3>2
  <2>6. branch' # head => HeadAwaited
    <3>1. CASE job.key = "ReloadGitState"
      BY <1>1, <2>1, <3>1 DEF JobEnd, HeadFresh
    <3>2. CASE job.key # "ReloadGitState"
      BY <1>1, <1>6, <1>11, <2>1, <3>2 DEF NothingForgotten, JobEnd
    <3> QED BY <3>1, <3>2
  <2> QED BY <1>6, <1>10, <2>4, <2>5, <2>6
<1>12. NothingForgotten'
  BY <1>11 DEF NothingForgotten
<1> QED BY <1>8, <1>9, <1>12

(* A failed refresh is lost; a failed reload is until it ends.             *)
LEMMA JobFailPreserves ==
  ASSUME GitInv, JobFail
  PROVE  GitInv'
<1> USE DEF GitInv
<1>1. job \in JobState /\ failures' \in 0 .. MaxFailures
  BY RepositoryAssumption DEF TypeOK, JobFail
<1>2. NoJob \in JobState /\ NoJob.found \in [Paths -> Statuses]
  BY RepositoryAssumption DEF NoJob, JobState, Heads
<1>3. git' = git /\ head' = head /\ HeadAwaited' = HeadAwaited
      /\ \A p \in Paths : Awaited(p)' = Awaited(p)
  BY DEF JobFail, repoVars, eventVars, Awaited, HeadAwaited, Queued
<1>4. CASE job.key = "RefreshStatuses"
  <2>1. job' = NoJob /\ lost' = TRUE
    BY <1>4 DEF JobFail
  <2>2. job' \in JobState /\ job'.key = "none" /\ job'.step = "none" /\ job'.read = {}
        /\ job'.asked = {} /\ ~job'.failed
    BY <1>2, <2>1 DEF NoJob
  <2>3. TypeOK'
    BY <1>1, <2>1, <2>2 DEF TypeOK, JobFail, repoVars, eventVars, snapshotVars
  <2> QED
    BY <2>1, <2>2, <2>3 DEF JobSound, FilesFresh, HeadFresh, NothingForgotten
<1>5. CASE job.key # "RefreshStatuses"
  <2>1. job.key = "ReloadGitState" /\ job.asked = Paths
    BY <1>1, <1>5 DEF TypeOK, JobFail, JobSound, JobState, Keys
  <2>2. /\ job' \in JobState /\ job'.key = job.key /\ job'.step = "status"
        /\ job'.asked = job.asked /\ job'.failed
        /\ job'.read = IF job.step = "head" THEN job.read ELSE Paths
    <3>1. CASE job.step = "head"
      <4>1. job' = [job EXCEPT !.step = "status", !.head = 0, !.failed = TRUE]
        BY <1>5, <3>1 DEF JobFail
      <4>2. 0 \in Heads
        BY RepositoryAssumption DEF Heads
      <4> QED BY <1>1, <3>1, <4>1, <4>2 DEF JobState
    <3>2. CASE job.step # "head"
      <4>1. job' = [job EXCEPT !.read = Paths, !.found = NoJob.found, !.failed = TRUE]
        BY <1>5, <3>2 DEF JobFail
      <4>2. job.step = "status"
        BY <3>2 DEF JobFail
      <4> QED BY <1>1, <1>2, <3>2, <4>1, <4>2 DEF JobState
    <3> QED BY <3>1, <3>2
  <2>3. lost' = lost
    BY <1>5 DEF JobFail
  <2>4. TypeOK'
    BY <1>1, <2>1, <2>2, <2>3 DEF TypeOK, JobFail, repoVars, eventVars, snapshotVars
  <2>5. JobSound' /\ FilesFresh' /\ HeadFresh'
    BY <2>1, <2>2 DEF JobSound, FilesFresh, HeadFresh
  <2>6. \A p \in Paths : WillRead(p)' \/ p \in job'.read
    BY <2>1, <2>2 DEF WillRead
  <2> QED
    BY <1>3, <2>1, <2>2, <2>4, <2>5, <2>6 DEF NothingForgotten
<1> QED BY <1>4, <1>5

-----------------------------------------------------------------------------
LEMMA GitStep == GitInv /\ [Next]_vars => GitInv'
<1> SUFFICES ASSUME GitInv, [Next]_vars PROVE GitInv'
  OBVIOUS
<1>1. CASE Next
  BY <1>1, ChangeFilePreserves, ChangeGitPreserves, UpdatedEntriesPreserves,
     PathsChangedPreserves, ScheduleScanPreserves, ReinitializePreserves, WorkerPreserves,
     TakeJobPreserves, JobBeginPreserves, ReadHeadPreserves, ReadStatusPreserves,
     JobEndPreserves, JobFailPreserves DEF Next, JobStep
<1>2. CASE UNCHANGED vars
  BY <1>2 DEF GitInv, TypeOK, FilesFresh, HeadFresh, JobSound, NothingForgotten, Awaited,
     HeadAwaited, WillRead, Queued, vars, repoVars, eventVars, snapshotVars, boundVars
<1> QED BY <1>1, <1>2

(* Whatever the repository and the worktree do, what a job has read is     *)
(* still true or awaited, and nothing is forgotten.                        *)
THEOREM GitInvariant == Spec => []GitInv
<1> QED BY GitInit, GitStep, PTL DEF Spec

(* The snapshot, the queue of jobs and the job in progress stay in the     *)
(* states listed, whatever the repository and the worktree do.             *)
THEOREM GitTypes == Spec => []TypeOK
<1>1. GitInv => TypeOK
  BY DEF GitInv
<1> QED BY <1>1, GitInvariant, PTL

(* No change of the repository is forgotten but by a command that failed.  *)
THEOREM ChangesAreNotForgotten == Spec => []NothingForgotten
<1>1. GitInv => NothingForgotten
  BY DEF GitInv
<1> QED BY <1>1, GitInvariant, PTL
-----------------------------------------------------------------------------
(* What the rows are computed from, and what is computed and shown.        *)
rowVars == <<tree, expanded, edit, statuses, rows, update, unshown>>

EditFields == {"entry", "new", "dir", "processing", "previous"}

(* A bound keeps its fields and an edit its own.                           *)
PanelShape ==
  /\ bound \in BoundType
  /\ edit = NoEdit \/ DOMAIN edit = EditFields

PanelInv == PanelShape /\ PanelShowsTree /\ EditHasKeyboard
-----------------------------------------------------------------------------
(* Confirming a name changes no row.                                       *)
LEMMA RowsOfEdit ==
  ASSUME NEW t, NEW open, NEW found, NEW a, NEW b,
         a # NoEdit, b # NoEdit, a.new = b.new, a.entry = b.entry, a.dir = b.dir
  PROVE  VisibleEntries(t, open, a, found) = VisibleEntries(t, open, b, found)
BY DEF VisibleEntries, NewRow

(* A new list of rows is of the present.                                   *)
LEMMA UpdateShows ==
  ASSUME NEW select, NEW f, UpdateVisibleEntries(select, f)
  PROVE  PanelShowsTree' /\ update'.running /\ (f \/ update.focus => update'.focus)
BY DEF UpdateVisibleEntries, PanelShowsTree, FocusWanted

LEMMA RefreshShows ==
  ASSUME Refresh
  PROVE  PanelShowsTree' /\ update'.running /\ (update.focus => update'.focus)
BY UpdateShows DEF Refresh

LEMMA UnchangedShows ==
  ASSUME PanelShowsTree, UNCHANGED rowVars, bound'.panel = bound.panel
  PROVE  PanelShowsTree'
BY DEF PanelShowsTree, rowVars

(* A step that may lower the bounds, and leaves what it does not do.       *)
Lowered(b) == b \in BoundType /\ b.panel = bound.panel

LEMMA CommandKeeps ==
  ASSUME NEW kind, bound \in BoundType, Command(kind)
  PROVE  Lowered(bound') /\ UNCHANGED <<tree, statuses, rows, drawn>>
<1>1. bound.acts \in Nat /\ bound.acts > 0 BY DEF Command, BoundType
<1>2. bound.acts - 1 \in Nat BY <1>1
<1>3. bound' = [bound EXCEPT !.acts = bound.acts - 1] BY DEF Command
<1>4. Lowered(bound') BY <1>2, <1>3 DEF BoundType, Lowered
<1>5. UNCHANGED <<vars, treeVars, rows, drawn>> BY DEF Command
<1>6. UNCHANGED <<tree, statuses, rows, drawn>> BY <1>5 DEF treeVars, vars, snapshotVars
<1> QED BY <1>4, <1>6

(* The keyboard moves, or not; rows are computed, or not.                  *)
FocusStep == UNCHANGED focusVars \/ \E which : FocusOn(which)
UpdateStep == UNCHANGED update \/ (update'.running /\ (update.focus => update'.focus))

LEMMA KeyboardMoves ==
  ASSUME EditHasKeyboard, FocusStep, UpdateStep, UNCHANGED <<edit, drawn>>
  PROVE  EditHasKeyboard'
<1>1. CASE UNCHANGED focusVars
  BY <1>1 DEF EditHasKeyboard, Editing, UpdateStep, focusVars
<1>2. ASSUME NEW which, FocusOn(which) PROVE EditHasKeyboard'
  BY <1>2 DEF EditHasKeyboard, Editing, UpdateStep, FocusOn
<1> QED BY <1>1, <1>2 DEF FocusStep

(* A command that edits no name: it shows what it changes.                 *)
LEMMA CommandWithRows ==
  ASSUME PanelInv, NEW kind, Command(kind), UNCHANGED editVars, FocusStep,
         \/ UNCHANGED <<expanded, updateVars>>
         \/ \E select : UpdateVisibleEntries(select, FALSE)
  PROVE  PanelInv'
<1>1. Lowered(bound') /\ UNCHANGED <<tree, statuses, rows, drawn>>
  BY CommandKeeps DEF PanelInv, PanelShape
<1>2. PanelShape' BY <1>1 DEF PanelInv, PanelShape, Lowered, editVars
<1>3. CASE UNCHANGED <<expanded, updateVars>>
  <2>1. PanelShowsTree'
    BY <1>1, <1>3, UnchangedShows DEF PanelInv, rowVars, updateVars, editVars, Lowered
  <2>2. EditHasKeyboard'
    BY <1>1, <1>3, KeyboardMoves DEF PanelInv, UpdateStep, updateVars, editVars
  <2> QED BY <1>2, <2>1, <2>2 DEF PanelInv
<1>4. ASSUME NEW select, UpdateVisibleEntries(select, FALSE) PROVE PanelInv'
  <2>1. PanelShowsTree' /\ UpdateStep BY <1>4, UpdateShows DEF UpdateStep
  <2>2. EditHasKeyboard' BY <1>1, <2>1, KeyboardMoves DEF PanelInv, editVars
  <2> QED BY <1>2, <2>1, <2>2 DEF PanelInv
<1> QED BY <1>3, <1>4
-----------------------------------------------------------------------------
LEMMA ChoosingKeeps ==
  ASSUME PanelInv, Choosing
  PROVE  PanelInv'
<1> DEFINE Shown == \/ UNCHANGED <<expanded, updateVars>>
                    \/ \E select : UpdateVisibleEntries(select, FALSE)
           Kept == (\E kind : Command(kind)) /\ UNCHANGED editVars /\ FocusStep /\ Shown
<1>1. Kept => PanelInv' BY CommandWithRows
<1>2. ASSUME NEW e, NEW shift, Choose(e, shift) PROVE UNCHANGED editVars /\ FocusStep /\ Shown
  BY <1>2 DEF Choose, FocusStep
<1>3. ASSUME NEW shift, SelectFirst(shift) \/ SelectNext(shift) \/ SelectPrevious(shift)
      PROVE  UNCHANGED editVars /\ FocusStep /\ Shown
  BY <1>2, <1>3 DEF SelectFirst, SelectNext, SelectPrevious
<1>4. CASE Selects BY <1>1, <1>2, <1>3, <1>4 DEF Selects, SelectLast
<1>5. CASE ExpandSelected BY <1>1, <1>3, <1>5 DEF ExpandSelected, FocusStep, Refresh
<1>6. CASE CollapseSelected BY <1>1, <1>6 DEF CollapseSelected, FocusStep, Refresh
<1>7. CASE CollapseSelectedAndChildren
  BY <1>1, <1>7 DEF CollapseSelectedAndChildren, FocusStep, Refresh
<1>8. CASE CollapseAll BY <1>1, <1>8 DEF CollapseAll, FocusStep, Refresh
<1>9. CASE Open BY <1>1, <1>9 DEF Open, FocusStep, ToggleExpanded, Opened
<1>10. CASE NoActiveEntry BY <1>1, <1>10 DEF NoActiveEntry, FocusStep
<1>11. CASE ClickBelowRows BY <1>1, <1>11 DEF ClickBelowRows, FocusStep
<1>12. ASSUME NEW e, ClickDirectory(e) PROVE PanelInv'
  BY <1>1, <1>12 DEF ClickDirectory, FocusStep, ToggleExpanded, ToggleExpandAll, Refresh
<1>13. ASSUME NEW e, ClickIndentGuide(e) PROVE PanelInv'
  BY <1>1, <1>13 DEF ClickIndentGuide, FocusStep, Refresh
<1>14. ASSUME NEW e, OpenContextMenu(e) PROVE PanelInv'
  BY <1>1, <1>14 DEF OpenContextMenu, FocusStep, focusVars
<1>15. ASSUME NEW e, RevealEntry(e) PROVE PanelInv'
  BY <1>1, <1>15 DEF RevealEntry, FocusStep
<1>16. ASSUME NEW e, NEW focusOpened, ClickRequest(e, focusOpened) PROVE PanelInv'
  BY <1>1, <1>16 DEF ClickRequest, FocusStep, Opened
<1>17. ASSUME NEW S, PaneRestored(S) PROVE PanelInv'
  BY <1>1, <1>17 DEF PaneRestored, FocusStep, Refresh
<1>18. ASSUME NEW which, TurnTo(which) PROVE PanelInv'
  BY <1>1, <1>18 DEF TurnTo, FocusStep
<1> QED
  BY <1>4, <1>5, <1>6, <1>7, <1>8, <1>9, <1>10, <1>11, <1>12, <1>13, <1>14, <1>15, <1>16, <1>17,
     <1>18 DEF Choosing
-----------------------------------------------------------------------------
(* An edit that begins asks for the keyboard, one that ends has no name.   *)
LEMMA EditBegins ==
  ASSUME NEW select, UpdateVisibleEntries(select, TRUE)
  PROVE  PanelShowsTree' /\ EditHasKeyboard'
BY UpdateShows DEF EditHasKeyboard

LEMMA EditStops ==
  ASSUME ~Editing'
  PROVE  EditHasKeyboard'
BY DEF EditHasKeyboard, Editing

LEMMA NoEditShape ==
  /\ DOMAIN NoEdit = {"entry"}
  /\ \A e : DOMAIN e = EditFields => e # NoEdit
BY DEF NoEdit, EditFields

LEMMA ConfirmKeeps ==
  ASSUME PanelInv, NEW refocus, ConfirmEdit(refocus), Lowered(bound'),
         UNCHANGED <<tree, statuses, rows, expanded>>
  PROVE  PanelInv'
<1>1. edit # NoEdit BY DEF ConfirmEdit, Accepted, Confirmable
<1>2. DOMAIN edit = EditFields BY <1>1 DEF PanelInv, PanelShape
<1>3. edit' = [edit EXCEPT !.processing = TRUE] /\ UNCHANGED updateVars BY DEF ConfirmEdit
<1>4. DOMAIN edit' = EditFields BY <1>2, <1>3
<1>5. /\ edit'.new = edit.new /\ edit'.entry = edit.entry /\ edit'.dir = edit.dir
      /\ edit'.processing
  BY <1>2, <1>3 DEF EditFields
<1>6. PanelShape' BY <1>4 DEF PanelShape, Lowered
<1>7. VisibleEntries(tree, expanded, edit', statuses) = VisibleEntries(tree, expanded, edit, statuses)
  BY <1>1, <1>4, <1>5, NoEditShape, RowsOfEdit
<1>8. PanelShowsTree' BY <1>3, <1>7 DEF PanelInv, PanelShowsTree, updateVars, Lowered
<1>9. EditHasKeyboard' BY <1>5, EditStops DEF Editing
<1> QED BY <1>6, <1>8, <1>9 DEF PanelInv

LEMMA DiscardKeeps ==
  ASSUME PanelInv, DiscardEditState, Lowered(bound'), UNCHANGED <<tree, statuses, rows, expanded>>
  PROVE  PanelInv'
<1>1. edit' = NoEdit BY DEF DiscardEditState
<1>2. PanelShape' BY <1>1 DEF PanelShape, Lowered
<1>3. EditHasKeyboard' BY <1>1, EditStops DEF Editing
<1>4. CASE edit = NoEdit
  <2>1. UNCHANGED rowVars /\ bound'.panel = bound.panel
    BY <1>1, <1>4 DEF DiscardEditState, rowVars, updateVars, Lowered
  <2> QED BY <1>2, <1>3, <2>1, UnchangedShows DEF PanelInv
<1>5. CASE edit # NoEdit
  <2>1. PanelShowsTree' BY <1>5, UpdateShows DEF DiscardEditState
  <2> QED BY <1>2, <1>3, <2>1 DEF PanelInv
<1> QED BY <1>4, <1>5

(* An edit that begins has its fields.                                     *)
LEMMA NewEditShape ==
  ASSUME NEW e, NEW n, NEW d, NEW p,
         edit' = [entry |-> e, new |-> n, dir |-> d, processing |-> FALSE, previous |-> p]
  PROVE  DOMAIN edit' = EditFields
BY DEF EditFields

LEMMA EditNameBegins ==
  ASSUME NEW e, EditName(e), Lowered(bound')
  PROVE  PanelInv'
<1>1. DOMAIN edit' = EditFields BY NewEditShape DEF EditName
<1>2. PanelShowsTree' /\ EditHasKeyboard' BY EditBegins DEF EditName
<1> QED BY <1>1, <1>2 DEF PanelInv, PanelShape, Lowered

LEMMA AddEntryBegins ==
  ASSUME NEW e, NEW dir, AddEntry(e, dir), Lowered(bound')
  PROVE  PanelInv'
<1>1. DOMAIN edit' = EditFields BY NewEditShape DEF AddEntry
<1>2. PanelShowsTree' /\ EditHasKeyboard' BY EditBegins DEF AddEntry
<1> QED BY <1>1, <1>2 DEF PanelInv, PanelShape, Lowered

LEMMA EditingKeeps ==
  ASSUME PanelInv, EditingNames
  PROVE  PanelInv'
<1> DEFINE Kept == UNCHANGED <<tree, statuses, rows, drawn>>
<1>1. ASSUME NEW kind, Command(kind) PROVE Lowered(bound') /\ Kept
  BY <1>1, CommandKeeps DEF PanelInv, PanelShape
<1>2. CASE Rename BY <1>1, <1>2, EditNameBegins DEF Rename
<1>3. CASE DoubleClickBelowRows BY <1>1, <1>3, AddEntryBegins DEF DoubleClickBelowRows
<1>4. ASSUME NEW dir, NewEntry(dir) PROVE PanelInv'
  BY <1>1, <1>4, AddEntryBegins DEF NewEntry
<1>5. CASE Confirm
  <2>1. CASE ConfirmEdit(TRUE) BY <1>1, <1>5, <2>1, ConfirmKeeps DEF Confirm
  <2>2. CASE FocusOn("panel") /\ UNCHANGED <<editVars, selection, updateVars, task>>
    BY <1>5, <2>2, CommandWithRows DEF Confirm, FocusStep
  <2> QED BY <1>5, <2>1, <2>2 DEF Confirm
<1>6. CASE Cancel BY <1>1, <1>6, DiscardKeeps DEF Cancel
<1>7. ASSUME NEW name, Type(name) PROVE PanelInv'
  <2>1. UNCHANGED <<rowVars, bound, focusVars, drawn>>
    BY <1>7 DEF Type, rowVars, treeVars, updateVars, vars, snapshotVars
  <2>2. PanelShowsTree' BY <2>1, UnchangedShows DEF PanelInv
  <2>3. EditHasKeyboard' BY <2>1, KeyboardMoves DEF PanelInv, FocusStep, UpdateStep, rowVars
  <2> QED BY <2>1, <2>2, <2>3 DEF PanelInv, PanelShape, rowVars
<1>8. ASSUME NEW t, EditEnds(t) PROVE PanelInv'
  <2>1. edit' = NoEdit /\ UNCHANGED bound /\ Refresh BY <1>8 DEF EditEnds
  <2>2. EditHasKeyboard' BY <2>1, EditStops DEF Editing
  <2> QED BY <2>1, <2>2, RefreshShows DEF PanelInv, PanelShape
<1> QED BY <1>2, <1>3, <1>4, <1>5, <1>6, <1>7, <1>8 DEF EditingNames
-----------------------------------------------------------------------------
(* A paste may expand a directory, which no list of rows shows yet.        *)
LEMMA PasteKeeps ==
  ASSUME PanelInv, NEW clip, Paste(clip), Command("paste")
  PROVE  PanelInv'
<1>1. Lowered(bound') /\ UNCHANGED <<tree, statuses, rows, drawn>>
  BY CommandKeeps DEF PanelInv, PanelShape
<1>2. /\ unshown' = (unshown \/ expanded' # expanded)
      /\ UNCHANGED <<editVars, update, focusVars>>
  BY DEF Paste
<1>3. PanelShape' BY <1>1, <1>2 DEF PanelInv, PanelShape, Lowered, editVars
<1>4. PanelShowsTree' BY <1>1, <1>2 DEF PanelInv, PanelShowsTree, Lowered, editVars
<1>5. EditHasKeyboard'
  BY <1>1, <1>2, KeyboardMoves DEF PanelInv, FocusStep, UpdateStep, editVars
<1> QED BY <1>3, <1>4, <1>5 DEF PanelInv

(* A task that goes on without a word of it in the panel.                  *)
LEMMA QuietKeeps ==
  ASSUME PanelInv, Lowered(bound'), UNCHANGED <<rowVars, focusVars, drawn>>
  PROVE  PanelInv'
<1>1. PanelShape' BY DEF PanelInv, PanelShape, Lowered, rowVars
<1>2. PanelShowsTree' BY UnchangedShows DEF PanelInv, Lowered
<1>3. EditHasKeyboard' BY KeyboardMoves DEF PanelInv, FocusStep, UpdateStep, rowVars
<1> QED BY <1>1, <1>2, <1>3 DEF PanelInv

(* The rows are computed anew and the keyboard stays with the name.        *)
LEMMA ShownAnewKeeps ==
  ASSUME PanelInv, Lowered(bound'), NEW select, UpdateVisibleEntries(select, FALSE), FocusStep,
         UNCHANGED <<edit, drawn>>
  PROVE  PanelInv'
<1>1. PanelShape' BY DEF PanelInv, PanelShape, Lowered
<1>2. PanelShowsTree' /\ UpdateStep BY UpdateShows DEF UpdateStep
<1>3. EditHasKeyboard' BY <1>2, KeyboardMoves DEF PanelInv
<1> QED BY <1>1, <1>2, <1>3 DEF PanelInv

LEMMA TreeBecomesKeeps ==
  ASSUME PanelInv, Lowered(bound'), NEW t, NEW told, TreeBecomes(t, told), told \/ t = tree
  PROVE  PanelInv'
<1>1. UNCHANGED <<vars, rows, expanded, editVars, focusVars, drawn>> /\ tree' = t
  BY DEF TreeBecomes
<1>2. CASE told
  BY <1>1, <1>2, ShownAnewKeeps DEF TreeBecomes, Refresh, FocusStep, editVars
<1>3. CASE ~told
  <2>1. UNCHANGED rowVars
    BY <1>1, <1>3 DEF TreeBecomes, rowVars, updateVars, editVars, vars, snapshotVars
  <2> QED BY <1>1, <2>1, QuietKeeps
<1> QED BY <1>2, <1>3

LEMMA BoundStays ==
  ASSUME PanelInv
  PROVE  /\ Lowered(bound)
         /\ bound.faults > 0 => Lowered([bound EXCEPT !.faults = @ - 1])
         /\ bound.others > 0 => Lowered([bound EXCEPT !.others = @ - 1])
BY DEF PanelInv, PanelShape, BoundType, Lowered

LEMMA PasteEndsKeeps ==
  ASSUME PanelInv, NEW t, PasteEnds(t)
  PROVE  PanelInv'
<1>1. UNCHANGED <<tree, statuses, rows, expanded, drawn>> /\ Lowered(bound')
  BY BoundStays DEF PasteEnds, treeVars, vars, snapshotVars
<1>2. CASE UNCHANGED <<choiceVars, focusVars, editVars, updateVars>>
  <2>1. UNCHANGED rowVars BY <1>1, <1>2 DEF rowVars, updateVars, editVars
  <2> QED BY <1>1, <1>2, <2>1, QuietKeeps
<1>3. ASSUME NEW e, EditName(e) PROVE PanelInv' BY <1>1, <1>3, EditNameBegins
<1>4. ASSUME NEW e, NEW f, Opened(e, f) \/ UNCHANGED focusVars, UNCHANGED <<editVars, updateVars>>
      PROVE  PanelInv'
  <2>1. FocusStep BY <1>4 DEF Opened, FocusStep
  <2>2. EditHasKeyboard'
    BY <1>1, <1>4, <2>1, KeyboardMoves DEF PanelInv, UpdateStep, updateVars, editVars
  <2>3. PanelShowsTree'
    BY <1>1, <1>4, UnchangedShows DEF PanelInv, rowVars, updateVars, editVars, Lowered
  <2>4. PanelShape' BY <1>1, <1>4 DEF PanelInv, PanelShape, Lowered, editVars
  <2> QED BY <2>2, <2>3, <2>4 DEF PanelInv
<1> QED BY <1>2, <1>3, <1>4 DEF PasteEnds

LEMMA ChangingKeeps ==
  ASSUME PanelInv, Changing
  PROVE  PanelInv'
<1>1. CASE PasteClipboard BY <1>1, PasteKeeps DEF PasteClipboard
<1>2. CASE Duplicate BY <1>2, PasteKeeps, CommandWithRows DEF Duplicate, FocusStep
<1>3. ASSUME NEW cut, CopyEntries(cut) PROVE PanelInv'
  BY <1>3, CommandWithRows DEF CopyEntries, FocusStep
<1>4. ASSUME NEW ask, RemoveEntries(ask) PROVE PanelInv'
  BY <1>4, CommandWithRows DEF RemoveEntries, FocusStep
<1>5. ASSUME NEW t, DropTask(t) \/ RemoveNext(t) \/ RemoveRefused(t) PROVE PanelInv'
  <2>1. UNCHANGED <<vars, bound, treeVars, rows, expanded, editVars, updateVars, focusVars, drawn>>
    BY <1>5 DEF DropTask, RemoveNext, RemoveRefused
  <2>2. UNCHANGED <<rowVars, bound, focusVars, drawn>>
    BY <2>1 DEF rowVars, treeVars, editVars, updateVars, vars, snapshotVars
  <2> QED BY <2>2, BoundStays, QuietKeeps
<1>6. ASSUME NEW t, RemoveEnds(t) PROVE PanelInv'
  <2>1. UNCHANGED <<bound, editVars, focusVars, drawn>>
        /\ UpdateVisibleEntries(task[t].select, FALSE)
    BY <1>6 DEF RemoveEnds
  <2> QED BY <2>1, BoundStays, ShownAnewKeeps DEF FocusStep, editVars
<1>7. ASSUME NEW t, NEW op, Perform(t, op) PROVE PanelInv'
  BY <1>7, BoundStays, TreeBecomesKeeps DEF Perform
<1>8. ASSUME NEW t, NEW op, Fail(t, op) PROVE PanelInv'
  <2>1. UNCHANGED <<vars, treeVars, rows, expanded, editVars, updateVars, focusVars, drawn>>
    BY <1>8 DEF Fail
  <2>2. UNCHANGED <<rowVars, focusVars, drawn>>
    BY <2>1 DEF rowVars, treeVars, editVars, updateVars, vars, snapshotVars
  <2>3. Lowered(bound') BY <1>8, BoundStays DEF Fail
  <2> QED BY <2>2, <2>3, QuietKeeps
<1>9. CASE OthersChange
  <2>1. Lowered(bound') BY <1>9, BoundStays DEF OthersChange
  <2>2. \E t : TreeBecomes(t, TRUE) BY <1>9 DEF OthersChange
  <2> QED BY <2>1, <2>2, TreeBecomesKeeps
<1>10. ASSUME NEW t, PasteEnds(t) PROVE PanelInv' BY <1>10, PasteEndsKeeps
<1> QED BY <1>1, <1>2, <1>3, <1>4, <1>5, <1>6, <1>7, <1>8, <1>9, <1>10 DEF Changing
-----------------------------------------------------------------------------
LEMMA GitKeeps ==
  ASSUME PanelInv, Git(Next)
  PROVE  PanelInv'
<1>1. UNCHANGED <<bound, tree, rows, expanded, edit, focusVars, drawn>>
  BY DEF Git, treeVars, editVars
<1>2. CASE Refresh BY <1>1, <1>2, BoundStays, ShownAnewKeeps DEF Refresh, FocusStep
<1>3. CASE UNCHANGED updateVars /\ ~(bound.panel /\ statuses' # statuses)
  <2>1. CASE bound.panel
    <3>1. UNCHANGED rowVars BY <1>1, <1>3, <2>1 DEF rowVars, updateVars
    <3> QED BY <1>1, <3>1, BoundStays, QuietKeeps
  <2>2. CASE ~bound.panel
    <3>1. PanelShowsTree' BY <1>1, <2>2 DEF PanelShowsTree
    <3>2. EditHasKeyboard'
      BY <1>1, <1>3, KeyboardMoves DEF PanelInv, FocusStep, UpdateStep, updateVars
    <3> QED BY <1>1, <3>1, <3>2 DEF PanelInv, PanelShape
  <2> QED BY <2>1, <2>2
<1> QED BY <1>2, <1>3 DEF Git, StatusesHeard

(* What is shown was computed of the present; the keyboard goes where the  *)
(* update was to take it.                                                  *)
LEMMA UpdateEndsKeeps ==
  ASSUME PanelInv, UpdateEnds
  PROVE  PanelInv'
<1>1. /\ UNCHANGED <<bound, tree, statuses, expanded, edit, unshown, drawn>>
      /\ update.running /\ rows' = update.rows /\ ~update'.running
  BY DEF UpdateEnds, treeVars, editVars, vars, snapshotVars, NoUpdate
<1>2. PanelShowsTree' BY <1>1 DEF PanelInv, PanelShowsTree
<1>3. EditHasKeyboard'
  <2>1. CASE update.focus BY <2>1 DEF UpdateEnds, FocusOn, EditHasKeyboard
  <2>2. CASE ~update.focus
    BY <1>1, <2>2 DEF UpdateEnds, PanelInv, EditHasKeyboard, Editing, focusVars
  <2> QED BY <2>1, <2>2
<1> QED BY <1>1, <1>2, <1>3 DEF PanelInv, PanelShape

(* A frame that shows the name without the keyboard ends its edit.         *)
LEMMA DrawKeeps ==
  ASSUME PanelInv, Draw
  PROVE  PanelInv'
<1>1. UNCHANGED <<bound, tree, statuses, rows, expanded>> /\ Lowered(bound')
  BY BoundStays DEF Draw, treeVars, vars, snapshotVars
<1>2. CASE drawn /\ ConfirmEdit(FALSE) BY <1>1, <1>2, ConfirmKeeps
<1>3. CASE drawn /\ DiscardEditState BY <1>1, <1>3, DiscardKeeps
<1>4. CASE drawn /\ ~Editing /\ UNCHANGED <<edit, updateVars>>
  <2>1. PanelShowsTree'
    BY <1>1, <1>4, UnchangedShows DEF PanelInv, rowVars, updateVars
  <2>2. EditHasKeyboard' BY <1>4, EditStops DEF Editing
  <2> QED BY <1>1, <1>4, <2>1, <2>2 DEF PanelInv, PanelShape
<1>5. CASE ~drawn /\ UNCHANGED <<editVars, updateVars, focusVars>>
  <2>1. PanelShowsTree'
    BY <1>1, <1>5, UnchangedShows DEF PanelInv, rowVars, updateVars, editVars
  <2>2. EditHasKeyboard'
    BY <1>5 DEF PanelInv, EditHasKeyboard, Editing, editVars, updateVars, focusVars
  <2> QED BY <1>1, <1>5, <2>1, <2>2 DEF PanelInv, PanelShape, editVars
<1> QED BY <1>2, <1>3, <1>4, <1>5 DEF Draw, Blurred

LEMMA InitKeeps == PanelInit => PanelInv
<1> SUFFICES ASSUME PanelInit PROVE PanelInv
  OBVIOUS
<1>1. PanelShape BY PanelAssumption DEF PanelInit, PanelShape
<1>2. bound.panel \in BOOLEAN BY PanelAssumption DEF PanelInit, BoundType
<1>3. /\ update.rows = VisibleEntries(tree, expanded, edit, statuses)
      /\ update.running = bound.panel
  BY DEF PanelInit, NoUpdate
<1>4. PanelShowsTree BY <1>2, <1>3 DEF PanelShowsTree
<1>5. EditHasKeyboard BY DEF PanelInit, EditHasKeyboard, Editing
<1> QED BY <1>1, <1>4, <1>5 DEF PanelInv

LEMMA NextKeeps == PanelInv /\ [PanelNext]_allVars => PanelInv'
<1> SUFFICES ASSUME PanelInv, [PanelNext]_allVars PROVE PanelInv'
  OBVIOUS
<1>1. CASE UNCHANGED allVars
  <2>1. UNCHANGED panelVars /\ UNCHANGED statuses BY <1>1 DEF allVars, vars, snapshotVars
  <2>2. UNCHANGED <<rowVars, bound, focusVars, drawn>>
    BY <2>1 DEF panelVars, rowVars, treeVars, editVars, updateVars
  <2> QED BY <2>2, BoundStays, QuietKeeps
<1>2. CASE PanelNext
  BY <1>2, GitKeeps, UpdateEndsKeeps, DrawKeeps, ChoosingKeeps, EditingKeeps, ChangingKeeps
  DEF PanelNext
<1> QED BY <1>1, <1>2

(* Every handler, task and change keeps the rows of the present and the    *)
(* keyboard with the name, a bound's and an edit's fields included.        *)
THEOREM PanelInvariant == PanelSpec => []PanelInv
BY InitKeeps, NextKeeps, PTL DEF PanelSpec

(* Whatever is expanded, edited, pasted or deleted, and whatever others do *)
(* to the tree and git to the statuses while a list of rows is computed,   *)
(* the list that update_visible_entries last began is of the present.      *)
THEOREM RowsArePresent == PanelSpec => []PanelShowsTree
BY PanelInvariant, PTL DEF PanelInv

(* The request to focus the file name editor survives every list of rows   *)
(* that replaces the one it came with; an edit that lost the keyboard is   *)
(* confirmed or discarded by the next frame.                               *)
THEOREM EditsHaveKeyboard == PanelSpec => []EditHasKeyboard
BY PanelInvariant, PTL DEF PanelInv
-----------------------------------------------------------------------------
(* The panel only listens: with it the repository of the git store does    *)
(* what it does alone, so every invariant of GitRepository holds here.     *)
LEMMA CommandLeavesGit ==
  ASSUME NEW kind, Command(kind)
  PROVE  UNCHANGED vars
BY DEF Command

LEMMA TreeLeavesGit ==
  ASSUME NEW t, NEW told, TreeBecomes(t, told)
  PROVE  UNCHANGED vars
BY DEF TreeBecomes

LEMMA ChoosingLeavesGit ==
  ASSUME Choosing
  PROVE  UNCHANGED vars
<1>1. \E kind : Command(kind)
  BY DEF Choosing, Selects, ExpandSelected, CollapseSelected, CollapseSelectedAndChildren,
    CollapseAll, Open, NoActiveEntry, ClickBelowRows, ClickDirectory, ClickIndentGuide,
    OpenContextMenu, RevealEntry, ClickRequest, PaneRestored, TurnTo
<1> QED BY <1>1, CommandLeavesGit

LEMMA EditingLeavesGit ==
  ASSUME EditingNames
  PROVE  UNCHANGED vars
<1>1. CASE \E kind : Command(kind) BY <1>1, CommandLeavesGit
<1>2. CASE \E name : Type(name) BY <1>2 DEF Type
<1>3. CASE \E t : EditEnds(t) BY <1>3 DEF EditEnds
<1> QED
  BY <1>1, <1>2, <1>3 DEF EditingNames, Rename, DoubleClickBelowRows, Confirm, Cancel, NewEntry

LEMMA ChangingLeavesGit ==
  ASSUME Changing
  PROVE  UNCHANGED vars
<1>1. CASE \E kind : Command(kind) BY <1>1, CommandLeavesGit
<1>2. CASE \E t : PasteEnds(t) \/ DropTask(t) \/ RemoveNext(t) \/ RemoveRefused(t) \/ RemoveEnds(t)
  BY <1>2 DEF PasteEnds, DropTask, RemoveNext, RemoveRefused, RemoveEnds
<1>3. CASE \E t, op : Perform(t, op) BY <1>3, TreeLeavesGit DEF Perform
<1>4. CASE \E t, op : Fail(t, op) BY <1>4 DEF Fail
<1>5. CASE OthersChange BY <1>5, TreeLeavesGit DEF OthersChange
<1> QED
  BY <1>1, <1>2, <1>3, <1>4, <1>5
  DEF Changing, PasteClipboard, Duplicate, CopyEntries, RemoveEntries

(* Every step of the panel is a step of the repository or none.            *)
THEOREM PanelLeavesGit == PanelSpec => Spec
<1>1. PanelInit => Init BY DEF PanelInit
<1>2. ASSUME [PanelNext]_allVars PROVE [Next]_vars
  <2>1. CASE UNCHANGED allVars BY <2>1 DEF allVars
  <2>2. CASE Git(Next) BY <2>2 DEF Git
  <2>3. CASE UpdateEnds \/ Draw BY <2>3 DEF UpdateEnds, Draw
  <2> QED
    BY <1>2, <2>1, <2>2, <2>3, ChoosingLeavesGit, EditingLeavesGit, ChangingLeavesGit
    DEF PanelNext
<1> QED BY <1>1, <1>2, PTL DEF PanelSpec, Spec

(* What a handler of the panel does loses no change of the repository.     *)
THEOREM PanelForgetsNothing == PanelSpec => []NothingForgotten
BY PanelLeavesGit, ChangesAreNotForgotten, PTL
=============================================================================
