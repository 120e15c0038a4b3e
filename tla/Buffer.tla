-------------------------------- MODULE Buffer --------------------------------
(***************************************************************************)
(* One text buffer and the file it edits (crates/language/src/buffer.rs,   *)
(* save_buffer_at and load_buffer of crates/project/src/buffer_store.rs,   *)
(* load_file and write_file of crates/worktree/src/worktree.rs): opening,  *)
(* editing, undoing, saving and reloading, while other programs write and  *)
(* delete the file.                                                        *)
(*                                                                         *)
(* The file is known by the modification times of its writes, 1, 2, ...,   *)
(* and log[m] is what was written at m.  A time of 0 means that there is   *)
(* no file.  A content is a number; 0 is the empty text, every edit and    *)
(* every foreign write makes a new one.  Versions of the text crate are    *)
(* the contents they show plus a count, and has_edits_since compares       *)
(* contents, as the code compares fragments, so that undo may bring the    *)
(* buffer back to what was saved.                                          *)
(***************************************************************************)
EXTENDS Naturals, Sequences

CONSTANTS
  Saves,        \* tasks of save_buffer that may be in flight together
  MaxContent,   \* bound: contents ever made
  MaxWrites,    \* bound: writes of the file
  MaxVersion,   \* bound: versions of the buffer
  MaxDeletes    \* bound: foreign deletions of the file

ASSUME BufferAssumption ==
  /\ MaxContent \in Nat \ {0} /\ MaxWrites \in Nat \ {0}
  /\ MaxVersion \in Nat /\ MaxDeletes \in Nat

VARIABLES
  \* the disk, and the worktree's view of it
  log,        \* log[m]: the content written at m
  disk,       \* the file's modification time
  deletes,    \* foreign deletions so far
  stat,       \* modification time the scanner read last
  entry,      \* modification time of the entry in the worktree's snapshot
  \* the buffer
  opening,    \* the open task
  text,       \* its content
  version,    \* number of its versions
  undo, redo, \* contents that undo and redo bring back
  file,       \* file.disk_state
  saved,      \* the content at saved_version
  savedMtime, \* saved_mtime
  conflict,   \* has_conflict
  reload,     \* reload_task
  save,       \* the save tasks
  \* ghosts
  fresh,      \* contents made so far
  overlapped  \* a foreign write came in the middle of the last open or save

diskVars == <<log, disk, deletes>>
viewVars == <<stat, entry>>
textVars == <<text, version, undo, redo>>
savedVars == <<saved, savedMtime, conflict>>
ghostVars == <<fresh, overlapped>>
vars == <<diskVars, viewVars, opening, textVars, file, savedVars, reload, save, ghostVars>>

Contents == 0 .. MaxContent
Mtimes == 0 .. MaxWrites

(* DiskState: New and Deleted are told apart from Present by their time.   *)
NewFile == [state |-> "New", mtime |-> 0]
Deleted == [state |-> "Deleted", mtime |-> 0]
Present(m) == [state |-> "Present", mtime |-> m]
DiskState == {NewFile, Deleted} \cup {Present(m) : m \in Mtimes \ {0}}

(* The load and the scanner's refresh of an open run side by side.         *)
OpenState ==
  [step : {"loading", "open", "failed"}, load : {"pending", "text", "missing"},
   refresh : {"sent", "stated", "done", "failed"}, text : Contents, file : DiskState,
   foreign : BOOLEAN]

StartOpen ==
  [step |-> "loading", load |-> "pending", refresh |-> "sent", text |-> 0, file |-> NewFile,
   foreign |-> FALSE]

NoReload == [step |-> "none", prev |-> 0, mtime |-> 0, new |-> 0, base |-> 0, baseVersion |-> 0]
ReloadState ==
  [step : {"none", "spawned", "load", "diff", "apply"}, prev : Contents, mtime : Mtimes,
   new : Contents, base : Contents, baseVersion : 0 .. MaxVersion]

Spawned ==
  [step |-> "spawned", prev |-> text, mtime |-> 0, new |-> 0, base |-> 0, baseVersion |-> 0]

NoSave ==
  [step |-> "none", text |-> 0, isNew |-> FALSE, file |-> NewFile, foreign |-> FALSE]
SaveState ==
  [step : {"none", "write", "refresh", "stated", "look", "finish"}, text : Contents,
   isNew : BOOLEAN, file : DiskState, foreign : BOOLEAN]

(* The values of the variables.                                            *)
TypeOK ==
  /\ log \in Seq(Contents) /\ disk \in 0 .. Len(log) /\ Len(log) <= MaxWrites
  /\ deletes \in 0 .. MaxDeletes
  /\ stat \in 0 .. Len(log) /\ entry \in 0 .. Len(log)
  /\ opening \in OpenState
  /\ text \in Contents /\ version \in 0 .. MaxVersion
  /\ undo \in Seq(Contents) /\ redo \in Seq(Contents)
  /\ file \in DiskState
  /\ saved \in Contents /\ savedMtime \in 0 .. Len(log) /\ conflict \in BOOLEAN
  /\ reload \in ReloadState /\ save \in [Saves -> SaveState]
  /\ fresh \in Contents /\ overlapped \in BOOLEAN
-----------------------------------------------------------------------------
HasUnsavedEdits == text # saved

IsDirty ==
  \/ conflict
  \/ HasUnsavedEdits /\ (file.state = "Present" \/ text # 0)

HasConflict ==
  \/ conflict
  \/ /\ file.state = "Present"
     /\ savedMtime = 0 \/ (file.mtime > savedMtime /\ HasUnsavedEdits)

IsOpen == opening.step = "open"

(***************************************************************************)
(* The disk.                                                               *)
(***************************************************************************)
(* What a write of another task means to the opens and saves in progress.  *)
Overtaken(s) ==
  [s EXCEPT !.foreign = @ \/ s.step \in {"refresh", "stated", "look", "finish"}]
OpenOvertaken == [opening EXCEPT !.foreign = @ \/ opening.step = "loading"]

ForeignWrite ==
  /\ Len(log) < MaxWrites /\ fresh < MaxContent
  /\ fresh' = fresh + 1
  /\ log' = Append(log, fresh + 1)
  /\ disk' = Len(log) + 1
  /\ opening' = OpenOvertaken
  /\ save' = [i \in Saves |-> Overtaken(save[i])]
  /\ UNCHANGED <<deletes, viewVars, textVars, file, savedVars, reload, overlapped>>

ForeignDelete ==
  /\ disk # 0 /\ deletes < MaxDeletes
  /\ deletes' = deletes + 1
  /\ disk' = 0
  /\ opening' = OpenOvertaken
  /\ save' = [i \in Saves |-> Overtaken(save[i])]
  /\ UNCHANGED <<log, viewVars, textVars, file, savedVars, reload, ghostVars>>

(***************************************************************************)
(* The scanner reads the file's metadata, for an event or to serve the     *)
(* refresh of an open or of a save; the entry it sends reaches the         *)
(* worktree before its answer does.                                        *)
(***************************************************************************)
Scan ==
  /\ stat = entry
  /\ \/ disk # entry
     \/ opening.step = "loading" /\ opening.refresh = "sent"
     \/ \E i \in Saves : save[i].step = "refresh"
  /\ stat' = disk
  /\ opening' = [opening EXCEPT !.refresh = IF opening.step = "loading" /\ @ = "sent"
                                             THEN "stated" ELSE @]
  /\ save' = [i \in Saves |-> IF save[i].step = "refresh"
                                THEN [save[i] EXCEPT !.step = "stated"] ELSE save[i]]
  /\ UNCHANGED <<diskVars, entry, textVars, file, savedVars, reload, ghostVars>>

(***************************************************************************)
(* The buffer's file handle.                                               *)
(***************************************************************************)
(* Variants: an event is ignored while the buffer is dirty; an event does  *)
(* not replace the reload in progress.                                     *)
FileUpdatedIfClean(new) ==
  /\ file' = IF IsDirty THEN file ELSE new
  /\ reload' = IF file # new /\ ~IsDirty /\ new.state = "Present"
                 THEN Spawned ELSE reload

FileUpdatedOnce(new) ==
  /\ file' = new
  /\ reload' = IF file # new /\ ~IsDirty /\ new.state = "Present" /\ reload.step = "none"
                 THEN Spawned ELSE reload

(* file_updated: a clean buffer whose file is there and has changed asks   *)
(* for a reload, which the project starts as soon as the update ends.      *)
FileUpdated(new) ==
  /\ file' = new
  /\ reload' = IF file # new /\ ~IsDirty /\ new.state = "Present"
                 THEN Spawned ELSE reload

(* UpdatedEntries, as worktree_entry_changed passes it to the buffer.      *)
Deliver ==
  /\ stat # entry
  /\ entry' = stat
  /\ IF IsOpen
       THEN FileUpdated(IF stat = 0 THEN Deleted ELSE Present(stat))
       ELSE UNCHANGED <<file, reload>>
  /\ UNCHANGED <<diskVars, stat, opening, textVars, savedVars, save, ghostVars>>

(***************************************************************************)
(* Opening.                                                                *)
(***************************************************************************)
OpenLoad ==
  /\ opening.step = "loading" /\ opening.load = "pending"
  /\ opening' = IF disk = 0 THEN [opening EXCEPT !.load = "missing"]
                 ELSE [opening EXCEPT !.load = "text", !.text = log[disk]]
  /\ UNCHANGED <<diskVars, viewVars, textVars, file, savedVars, reload, save, ghostVars>>

(* The refresh is answered and its task looks the entry up.                *)
OpenLook ==
  /\ opening.step = "loading" /\ opening.refresh = "stated" /\ stat = entry
  /\ opening' = IF entry = 0 THEN [opening EXCEPT !.refresh = "failed"]
                 ELSE [opening EXCEPT !.refresh = "done", !.file = Present(entry)]
  /\ UNCHANGED <<diskVars, viewVars, textVars, file, savedVars, reload, save, ghostVars>>

(* Buffer::build; a file that is not found makes a new, empty buffer.      *)
BuildBuffer(newText, newFile) ==
  /\ opening' = [StartOpen EXCEPT !.step = "open"]
  /\ text' = newText /\ saved' = newText
  /\ file' = newFile /\ savedMtime' = newFile.mtime
  /\ overlapped' = opening.foreign
  /\ UNCHANGED <<diskVars, viewVars, version, undo, redo, conflict, reload, save, fresh>>

OpenBuild ==
  /\ opening.step = "loading"
  /\ \/ opening.load = "missing" /\ BuildBuffer(0, NewFile)
     \/ /\ opening.load = "text" /\ opening.refresh = "done"
        /\ BuildBuffer(opening.text, opening.file)

OpenFail ==
  /\ opening.step = "loading" /\ opening.load = "text" /\ opening.refresh = "failed"
  /\ opening' = [StartOpen EXCEPT !.step = "failed"]
  /\ UNCHANGED <<diskVars, viewVars, textVars, file, savedVars, reload, save, ghostVars>>

(***************************************************************************)
(* Editing.                                                                *)
(***************************************************************************)
NewVersion(newText, newUndo, newRedo) ==
  /\ version < MaxVersion /\ version' = version + 1
  /\ text' = newText /\ undo' = newUndo /\ redo' = newRedo

(* The user types something new, or clears the buffer.                     *)
Edit ==
  /\ IsOpen
  /\ \/ /\ fresh < MaxContent /\ fresh' = fresh + 1
        /\ NewVersion(fresh + 1, Append(undo, text), <<>>)
     \/ /\ text # 0 /\ fresh' = fresh
        /\ NewVersion(0, Append(undo, text), <<>>)
  /\ UNCHANGED <<diskVars, viewVars, opening, file, savedVars, reload, save, overlapped>>

Undo ==
  /\ IsOpen /\ undo # <<>>
  /\ NewVersion(undo[Len(undo)], SubSeq(undo, 1, Len(undo) - 1), Append(redo, text))
  /\ UNCHANGED <<diskVars, viewVars, opening, file, savedVars, reload, save, ghostVars>>

Redo ==
  /\ IsOpen /\ redo # <<>>
  /\ NewVersion(redo[Len(redo)], Append(undo, text), SubSeq(redo, 1, Len(redo) - 1))
  /\ UNCHANGED <<diskVars, viewVars, opening, file, savedVars, reload, save, ghostVars>>

(***************************************************************************)
(* Saving.                                                                 *)
(***************************************************************************)
(* save_buffer captures the text, its version and whether the file is new. *)
SaveStart(i) ==
  /\ IsOpen /\ save[i].step = "none"
  /\ save' = [save EXCEPT ![i] =
                [step |-> "write", text |-> text, isNew |-> file.state = "New",
                 file |-> NewFile, foreign |-> FALSE]]
  /\ UNCHANGED <<diskVars, viewVars, opening, textVars, file, savedVars, reload, ghostVars>>

SaveWrite(i) ==
  /\ save[i].step = "write" /\ Len(log) < MaxWrites
  /\ log' = Append(log, save[i].text)
  /\ disk' = Len(log) + 1
  /\ opening' = OpenOvertaken
  /\ save' = [j \in Saves |-> IF j = i THEN [save[i] EXCEPT !.step = "refresh"]
                               ELSE Overtaken(save[j])]
  /\ UNCHANGED <<deletes, viewVars, textVars, file, savedVars, reload, ghostVars>>

(* The write fails, or the entry is not found: nothing is recorded.        *)
SaveFail(i) ==
  /\ \/ save[i].step = "write"
     \/ save[i].step = "stated" /\ stat = entry /\ entry = 0
  /\ save' = [save EXCEPT ![i] = NoSave]
  /\ UNCHANGED <<diskVars, viewVars, opening, textVars, file, savedVars, reload, ghostVars>>

SaveLook(i) ==
  /\ save[i].step = "stated" /\ stat = entry /\ entry # 0
  /\ save' = [save EXCEPT ![i] = [@ EXCEPT !.step = "finish", !.file = Present(entry)]]
  /\ UNCHANGED <<diskVars, viewVars, opening, textVars, file, savedVars, reload, ghostVars>>

(* did_save: what is saved is the version that was captured, not the       *)
(* buffer's version now.                                                   *)
SavedTextNow(s) == text  \* variant: the version when the save ends
SavedText(s) == s.text
SavedMtime(s) == s.file.mtime

SaveFinish(i) ==
  /\ save[i].step = "finish"
  /\ IF save[i].isNew THEN FileUpdated(save[i].file) ELSE UNCHANGED <<file, reload>>
  /\ saved' = SavedText(save[i])
  /\ savedMtime' = SavedMtime(save[i])
  /\ conflict' = FALSE
  /\ overlapped' = (save[i].foreign \/ (overlapped /\ file'.mtime # save[i].file.mtime))
  /\ save' = [save EXCEPT ![i] = NoSave]
  /\ UNCHANGED <<diskVars, viewVars, opening, textVars, fresh>>

(***************************************************************************)
(* Reloading.                                                              *)
(***************************************************************************)
(* The user discards the edits; a new reload replaces the one in progress. *)
ReloadStart ==
  /\ IsOpen
  /\ reload' = Spawned
  /\ UNCHANGED <<diskVars, viewVars, opening, textVars, file, savedVars, save, ghostVars>>

ReloadBegin ==
  /\ reload.step = "spawned"
  /\ reload' = [reload EXCEPT !.step = "load", !.mtime = file.mtime]
  /\ UNCHANGED <<diskVars, viewVars, opening, textVars, file, savedVars, save, ghostVars>>

ReloadLoad ==
  /\ reload.step = "load"
  /\ reload' = IF disk = 0 THEN NoReload
                ELSE [reload EXCEPT !.step = "diff", !.new = log[disk]]
  /\ UNCHANGED <<diskVars, viewVars, opening, textVars, file, savedVars, save, ghostVars>>

ReloadDiff ==
  /\ reload.step = "diff"
  /\ reload' = [reload EXCEPT !.step = "apply", !.base = text, !.baseVersion = version]
  /\ UNCHANGED <<diskVars, viewVars, opening, textVars, file, savedVars, save, ghostVars>>

(* The buffer is as it was when the diff was computed: the diff is applied.*)
ReloadApply ==
  /\ reload.step = "apply" /\ version = reload.baseVersion
  /\ IF reload.new = text THEN UNCHANGED textVars
     ELSE NewVersion(reload.new, Append(undo, text), <<>>)
  /\ saved' = reload.new /\ savedMtime' = reload.mtime /\ conflict' = FALSE
  /\ overlapped' = (overlapped /\ reload.mtime # disk)
  /\ reload' = NoReload
  /\ UNCHANGED <<diskVars, viewVars, opening, file, save, fresh>>

(* It was edited meanwhile: the edits stay and the buffer is in conflict.  *)
ReloadConflict ==
  /\ reload.step = "apply" /\ version # reload.baseVersion
  /\ conflict' = (conflict \/ reload.new # reload.base \/ text # reload.base)
  /\ saved' = reload.prev
  /\ overlapped' = (overlapped \/ saved # reload.prev)
  /\ reload' = NoReload
  /\ UNCHANGED <<diskVars, viewVars, opening, textVars, file, savedMtime, save, fresh>>
-----------------------------------------------------------------------------
(* The file is there, or not, and nobody has looked at it yet.             *)
Init ==
  /\ log \in {<<>>, <<1>>} /\ disk = Len(log) /\ deletes = 0
  /\ stat = disk /\ entry = disk
  /\ opening = StartOpen
  /\ text = 0 /\ version = 0 /\ undo = <<>> /\ redo = <<>>
  /\ file = NewFile /\ saved = 0 /\ savedMtime = 0 /\ conflict = FALSE
  /\ reload = NoReload /\ save = [i \in Saves |-> NoSave]
  /\ fresh = Len(log) /\ overlapped = FALSE

OpenStep == OpenLoad \/ OpenLook \/ OpenBuild \/ OpenFail
SaveStep(i) == SaveWrite(i) \/ SaveFail(i) \/ SaveLook(i) \/ SaveFinish(i)
ReloadStep == ReloadBegin \/ ReloadLoad \/ ReloadDiff \/ ReloadApply \/ ReloadConflict
UserStep == Edit \/ Undo \/ Redo \/ ReloadStart \/ \E i \in Saves : SaveStart(i)

Next ==
  \/ ForeignWrite \/ ForeignDelete
  \/ Scan \/ Deliver
  \/ OpenStep \/ ReloadStep \/ UserStep
  \/ \E i \in Saves : SaveStep(i)

Spec == Init /\ [][Next]_vars

-----------------------------------------------------------------------------
(* Nothing is in progress and the worktree has told the buffer what the    *)
(* scanner saw.                                                            *)
AtRest ==
  /\ IsOpen /\ reload.step = "none" /\ \A i \in Saves : save[i].step = "none"
  /\ disk = stat /\ stat = entry

(* A buffer at rest that shows no unsaved change, and whose file still has *)
(* the modification time it was saved or loaded with, holds what is on     *)
(* disk, whatever was edited while it was saved or reloaded.               *)
CleanMatchesDisk ==
  AtRest /\ ~IsDirty /\ ~overlapped /\ disk # 0 /\ savedMtime = disk => text = log[disk]

(* Unsaved edits on top of something else than what is on disk are flagged *)
(* as a conflict.                                                          *)
ForeignTextIsConflict ==
  AtRest /\ HasUnsavedEdits /\ ~overlapped /\ disk # 0
    /\ text # log[disk] /\ saved # log[disk]
    => HasConflict

(* A buffer that is neither edited nor saved comes to hold what is on disk:*)
(* its reloads are neither lost nor overtaken for good by later writes (see *)
(* Following, where the watcher has the scanner look at the file).         *)
BufferFollowsDisk == <>[](IsOpen /\ disk # 0 /\ ~overlapped => text = log[disk])
=============================================================================
