------------------------------ MODULE Following ------------------------------
(***************************************************************************)
(* The clients of FsWatcher together: ConfigFile, the files of a worktree  *)
(* whose scanner refreshes them for Buffer (process_events of              *)
(* crates/worktree/src/worktree.rs), and others that only come and go.     *)
(* Buffer alone has its scanner look at the file whenever it has changed;  *)
(* here it looks for a batch of events or to serve an open.                *)
(***************************************************************************)
EXTENDS ConfigFile

CONSTANTS
  Worktree,    \* the client of the worktree's scanner, which watches Root
  Root,
  BufferPath,  \* the file of the buffer
  Saves, MaxContent, MaxWrites, MaxVersion, MaxDeletes  \* see Buffer

(* buffer: whether a buffer is opened.                                     *)
ASSUME FollowingAssumption ==
  /\ Worktree \in Clients \ {Config}
  /\ Root \in Paths /\ BufferPath \in Paths /\ IsStrictPrefix(Root, BufferPath)
  /\ \A b \in Bounds : b.buffer \in BOOLEAN

VARIABLES
  \* those of Buffer
  log, disk, deletes, stat, entry, opening, text, version, undo, redo, file, saved, savedMtime,
  conflict, reload, save, fresh, overlapped

B == INSTANCE Buffer

bufferVars ==
  <<log, disk, deletes, stat, entry, opening, text, version, undo, redo, file, saved, savedMtime,
    conflict, reload, save, fresh, overlapped>>
allVars == <<fileVars, bufferVars>>

(* Another program writes or deletes the file of the buffer.               *)
BufferFileChange ==
  /\ bound.buffer
  /\ \/ /\ B!ForeignWrite
        /\ IF disk = 0 THEN Appears(BufferPath, bound) ELSE Written(BufferPath, bound)
     \/ B!ForeignDelete /\ Vanishes(BufferPath, bound)
  /\ Rest /\ UNCHANGED configVars

(* The scanner looks at the file for a batch of events, or for an open.    *)
ScanBatch ==
  /\ bound.buffer /\ stat = entry
  /\ Done(Worktree)
  /\ IF disk # entry THEN B!Scan ELSE UNCHANGED bufferVars
  /\ UNCHANGED <<bound, call, configVars>>

ScanRequest ==
  /\ bound.buffer /\ opening.step = "loading" /\ opening.refresh = "sent"
  /\ B!Scan /\ UNCHANGED fileVars

BufferTasks ==
  /\ bound.buffer
  /\ B!Deliver \/ B!OpenStep \/ B!ReloadStep
  /\ UNCHANGED fileVars

(* Clients of which nothing more is modelled, here, than that they ask for *)
(* the next batch.                                                         *)
Others ==
  Clients \ ((IF bound.on THEN {Config} ELSE {}) \cup (IF bound.buffer THEN {Worktree} ELSE {}))

WatchStep ==
  \/ DiskChange \/ NotifyStep
  \/ \E t \in Threads : ThreadStep(t) \/ Call(t)
  \/ \E c \in Clients : Take(c)
  \/ \E c \in Others : Done(c) /\ UNCHANGED <<bound, call>>

(* The worktree's scanner watches its directory, or nothing is watched yet.*)
Watched == {[id |-> 1, client |-> Worktree, path |-> Root]}

FollowingInit ==
  /\ FileInit /\ B!Init
  /\ \E start \in {{}, Watched} :
       WatchInit(start, (IF conf = Missing THEN {Conf} ELSE {})
                          \cup (IF disk = 0 THEN {BufferPath} ELSE {}))
  /\ bound.buffer => watchers = Watched
  /\ ~bound.buffer => disk # 0
  /\ ~bound.on => conf = InitialSettings

FollowingNext ==
  \/ WatchStep /\ UNCHANGED <<configVars, bufferVars>>
  \/ FileNext /\ UNCHANGED bufferVars
  \/ BufferFileChange \/ ScanBatch \/ ScanRequest \/ BufferTasks

(* The executor and the threads run what they can; nobody has to change a  *)
(* file or to call anything.                                               *)
FollowingFairness ==
  /\ \A t \in Threads : WF_allVars(ThreadStep(t) /\ UNCHANGED <<configVars, bufferVars>>)
  /\ WF_allVars(NotifyStep /\ UNCHANGED <<configVars, bufferVars>>)
  /\ \A c \in Clients : WF_allVars(Take(c) /\ UNCHANGED <<configVars, bufferVars>>)
  /\ WF_allVars(ReaderStep /\ UNCHANGED bufferVars) /\ WF_allVars(Apply /\ UNCHANGED bufferVars)
  /\ \A u \in Updates : WF_allVars(UpdateStep(u) /\ UNCHANGED bufferVars)
  /\ WF_allVars(ScanBatch) /\ WF_allVars(ScanRequest) /\ WF_allVars(BufferTasks)

FollowingSpec == FollowingInit /\ [][FollowingNext]_allVars /\ FollowingFairness
-----------------------------------------------------------------------------
(* A buffer that is neither edited nor saved comes to hold what is on disk:*)
(* neither the watcher, nor the scanner, nor a reload that is overtaken by *)
(* later writes loses the last of them.                                    *)
BufferFollowsDisk == B!BufferFollowsDisk
===============================================================================
