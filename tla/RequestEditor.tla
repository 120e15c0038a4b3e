---------------------------- MODULE RequestEditor ----------------------------
(***************************************************************************)
(* One request file and the editor of it                                   *)
(* (crates/request_buffer/src/request_buffer.rs, save_request_buffer and   *)
(* worktree_entry_changed of crates/project/src/request_buffer_store.rs,   *)
(* write_request_file of crates/worktree/src/worktree.rs, and              *)
(* crates/request_editor/src/{items,request_editor}.rs): editing, saving   *)
(* and reloading while other programs write and delete the file, and       *)
(* sending what is edited.                                                 *)
(*                                                                         *)
(* A text is what a request file says; Invalid is a file that is not one.  *)
(* Writes have the modification times 1, 2, ..., and 0 is the time of a    *)
(* file that is not there.  Unlike a text buffer, a request buffer has one *)
(* dirty flag and no versions, and its reloads are detached: nothing stops *)
(* the older of two.                                                       *)
(***************************************************************************)
EXTENDS Response, Sequences

CONSTANTS
  Texts,     \* requests that may be typed or written
  Invalid,   \* the content of a file that does not parse
  Saves,     \* save tasks that may be in flight together
  Reloads,   \* reload tasks that may be in flight together
  Bounds     \* bounds: how many writes of the file with how many sends

ASSUME RequestEditorAssumption ==
  /\ Invalid \notin Texts
  /\ Bounds \subseteq [writes : Nat, sends : Ids]

VARIABLES
  bound,        \* the element of Bounds this behaviour keeps to
  disk,         \* the file: when it was written last, and what it says
  writes,       \* writes so far
  stat,         \* modification time the scanner read last
  entry,        \* modification time of the entry in the worktree's snapshot
  \* RequestBuffer
  file,         \* file.disk_state, by its time
  requestFile,
  dirty,        \* is_dirty
  \* RequestEditor
  request,      \* the text in its fields, Invalid if it has none
  snapshot,     \* request_snapshot
  save, reload, \* the tasks
  overtaken     \* ghost: the flag was last set by a task that another one,
                \* an edit or a foreign write had overtaken

diskVars == <<disk, writes>>
viewVars == <<stat, entry>>
bufferVars == <<requestFile, dirty>>
editorVars == <<request, snapshot>>
vars == <<bound, diskVars, viewVars, file, bufferVars, editorVars, save, reload, overtaken,
          responseVars>>

Contents == Texts \cup {Invalid}

SaveSteps == {"none", "begin", "write", "refresh", "stated", "finish", "record"}
SaveState == [step : SaveSteps, snapshot : Contents, text : Contents, wasDirty : BOOLEAN,
              file : Nat, stale : BOOLEAN]
NoSave == [step |-> "none", snapshot |-> Invalid, text |-> Invalid, wasDirty |-> FALSE,
           file |-> 0, stale |-> FALSE]

ReloadState == [step : {"none", "load", "parse"}, text : Contents, stale : BOOLEAN]
NoReload == [step |-> "none", text |-> Invalid, stale |-> FALSE]

EditingType ==
  /\ bound \in Bounds
  /\ disk \in [mtime : Nat, text : Contents] /\ writes \in Nat
  /\ stat \in Nat /\ entry \in Nat /\ file \in Nat
  /\ requestFile \in Contents /\ dirty \in BOOLEAN
  /\ request \in Contents /\ snapshot \in Contents
  /\ save \in [Saves -> SaveState]
  /\ reload \in [Reloads -> ReloadState]
  /\ \A i \in Saves : save[i].step = "write" => save[i].text \in Texts
  /\ overtaken \in BOOLEAN

(* A save that writes has a request to write (save_request_buffer).        *)
TypeOK == ResponseType /\ EditingType
-----------------------------------------------------------------------------
IsReady == request # Invalid

(* The saves in progress, but for those in which, are told of a change.    *)
Overtake(which) ==
  [i \in Saves |-> IF save[i].step \notin {"none"} \cup which
                     THEN [save[i] EXCEPT !.stale = TRUE] ELSE save[i]]

(***************************************************************************)
(* The disk and the worktree's view of it.                                 *)
(***************************************************************************)
ForeignWrite ==
  /\ writes < bound.writes
  /\ \E t \in Contents : disk' = [mtime |-> writes + 1, text |-> t]
  /\ writes' = writes + 1
  /\ save' = Overtake({"begin", "write"})
  /\ UNCHANGED <<bound, viewVars, file, bufferVars, editorVars, reload, overtaken, responseVars>>

ForeignDelete ==
  /\ disk.mtime # 0 /\ writes < bound.writes
  /\ disk' = [mtime |-> 0, text |-> Invalid]
  /\ writes' = writes + 1
  /\ save' = Overtake({"begin", "write"})
  /\ UNCHANGED <<bound, viewVars, file, bufferVars, editorVars, reload, overtaken, responseVars>>

Scan ==
  /\ stat = entry
  /\ disk.mtime # entry \/ \E i \in Saves : save[i].step = "refresh"
  /\ stat' = disk.mtime
  /\ save' = [i \in Saves |-> IF save[i].step = "refresh"
                                THEN [save[i] EXCEPT !.step = "stated"] ELSE save[i]]
  /\ UNCHANGED <<bound, diskVars, entry, file, bufferVars, editorVars, reload, overtaken,
                 responseVars>>

(* A task of the reloads is free; a bound of the model, not of the code.   *)
FreeReload(j) == reload[j].step = "none"

(* Reloads that have read the file are behind it once it has changed.      *)
Outdated == [j \in Reloads |-> IF reload[j].step = "parse"
                                 THEN [reload[j] EXCEPT !.stale = TRUE] ELSE reload[j]]

(* file_updated: a clean buffer whose file is there and has changed emits  *)
(* ReloadNeeded, for which the project starts a reload at once.            *)
FileUpdated(new) ==
  /\ file' = new
  /\ IF file # new /\ ~dirty /\ new # 0
       THEN \E j \in Reloads :
              FreeReload(j) /\ reload' = [Outdated EXCEPT ![j] = [NoReload EXCEPT !.step = "load"]]
       ELSE reload' = IF file # new THEN Outdated ELSE reload

(* UpdatedEntries reaches the store, which looks the entry up.             *)
Deliver ==
  /\ stat # entry
  /\ entry' = stat
  /\ FileUpdated(stat)
  /\ overtaken' = (overtaken \/ (dirty /\ file # stat))
  /\ UNCHANGED <<bound, diskVars, stat, bufferVars, editorVars, save, responseVars>>

(***************************************************************************)
(* Editing.                                                                *)
(***************************************************************************)
(* mark_edited, for every change of a field, a parameter or the body.      *)
MarkEdited(t) ==
  /\ requestFile' = t
  /\ dirty' = (snapshot # Invalid /\ t # snapshot)

Edit ==
  /\ IsReady
  /\ \E t \in Texts \ {request} : request' = t /\ MarkEdited(t)
  /\ save' = Overtake({})
  /\ UNCHANGED <<bound, diskVars, viewVars, file, snapshot, reload, overtaken, responseVars>>

(***************************************************************************)
(* Saving.                                                                 *)
(***************************************************************************)
(* RequestEditor::save: the snapshot is taken now, the task runs later.    *)
SaveBegin(i) ==
  /\ IsReady /\ save[i].step = "none"
  /\ requestFile' = request
  /\ save' = [save EXCEPT ![i] = [NoSave EXCEPT !.step = "begin", !.snapshot = request]]
  /\ UNCHANGED <<bound, diskVars, viewVars, file, dirty, editorVars, reload, overtaken,
                 responseVars>>

(* save_request_buffer; a buffer that became invalid is not saved.         *)
CanSave == requestFile # Invalid
SaveCapture(i) ==
  /\ save[i].step = "begin"
  /\ save' = [save EXCEPT ![i] =
       IF CanSave THEN [@ EXCEPT !.step = "write", !.text = requestFile, !.wasDirty = dirty]
       ELSE NoSave]
  /\ UNCHANGED <<bound, diskVars, viewVars, file, bufferVars, editorVars, reload, overtaken,
                 responseVars>>

SaveWrite(i) ==
  /\ save[i].step = "write" /\ writes < bound.writes
  /\ disk' = [mtime |-> writes + 1, text |-> save[i].text]
  /\ writes' = writes + 1
  /\ save' = [Overtake({"begin", "write"}) EXCEPT ![i] = [save[i] EXCEPT !.step = "refresh",
                                                                       !.text = Invalid]]
  /\ UNCHANGED <<bound, viewVars, file, bufferVars, editorVars, reload, overtaken, responseVars>>

(* The write fails, or the refresh finds no entry.                         *)
SaveFail(i) ==
  /\ \/ save[i].step = "write"
     \/ save[i].step = "stated" /\ stat = entry /\ entry = 0
  /\ save' = [save EXCEPT ![i] = NoSave]
  /\ UNCHANGED <<bound, diskVars, viewVars, file, bufferVars, editorVars, reload, overtaken,
                 responseVars>>

SaveLook(i) ==
  /\ save[i].step = "stated" /\ stat = entry /\ entry # 0
  /\ save' = [save EXCEPT ![i].step = "finish", ![i].file = entry]
  /\ UNCHANGED <<bound, diskVars, viewVars, file, bufferVars, editorVars, reload, overtaken,
                 responseVars>>

(* did_save: clean, whatever was edited since the text was captured.       *)
DidSaveKeepsFlag == dirty' = dirty  \* variant: the flag is left alone
DidSave == dirty' = FALSE

SaveFinish(i) ==
  /\ save[i].step = "finish"
  /\ IF save[i].wasDirty THEN FileUpdated(save[i].file) ELSE UNCHANGED <<file, reload>>
  /\ DidSave
  /\ overtaken' = save[i].stale
  /\ save' = [save EXCEPT ![i].step = "record", ![i].file = 0, ![i].wasDirty = FALSE]
  /\ UNCHANGED <<bound, diskVars, viewVars, requestFile, editorVars, responseVars>>

(* The editor's own task goes on: what it took is what was saved.          *)
RecordNow(i) == snapshot' = snapshot  \* variant: the snapshot is left alone
Record(i) == snapshot' = save[i].snapshot
SaveRecord(i) ==
  /\ save[i].step = "record"
  /\ Record(i)
  /\ overtaken' = save[i].stale
  /\ save' = [save EXCEPT ![i] = NoSave]
  /\ UNCHANGED <<bound, diskVars, viewVars, file, bufferVars, request, reload, responseVars>>

(***************************************************************************)
(* Reloading.                                                              *)
(***************************************************************************)
(* The user discards the edits.                                            *)
ReloadStart ==
  /\ IsReady
  /\ \E j \in Reloads :
       FreeReload(j) /\ reload' = [reload EXCEPT ![j] = [NoReload EXCEPT !.step = "load"]]
  /\ UNCHANGED <<bound, diskVars, viewVars, file, bufferVars, editorVars, save, overtaken,
                 responseVars>>

ReloadLoad(j) ==
  /\ reload[j].step = "load"
  /\ reload' = [reload EXCEPT ![j] = IF disk.mtime = 0 THEN NoReload
                                     ELSE [@ EXCEPT !.step = "parse", !.text = disk.text]]
  /\ UNCHANGED <<bound, diskVars, viewVars, file, bufferVars, editorVars, save, overtaken,
                 responseVars>>

(* did_reload, and the editor's fields are made anew.                      *)
DidReload(j) ==
  /\ requestFile' = reload[j].text /\ dirty' = FALSE
  /\ request' = reload[j].text /\ snapshot' = reload[j].text

ReloadApply(j) ==
  /\ reload[j].step = "parse"
  /\ DidReload(j)
  /\ overtaken' = reload[j].stale
  /\ save' = Overtake({})
  /\ reload' = [reload EXCEPT ![j] = NoReload]
  /\ UNCHANGED <<bound, diskVars, viewVars, file, responseVars>>
-----------------------------------------------------------------------------
editingVars ==
  <<bound, diskVars, viewVars, file, bufferVars, editorVars, save, reload, overtaken>>

(* send_request: the fields are read, and what follows is the response's.  *)
Send == IsReady /\ requestId < bound.sends /\ SendRequest /\ UNCHANGED editingVars

(* The buffer has been opened and nothing has happened since.              *)
Init ==
  /\ ResponseInit
  /\ bound \in Bounds
  /\ \E t \in Contents : /\ disk = [mtime |-> 1, text |-> t]
                         /\ requestFile = t /\ request = t /\ snapshot = t
  /\ writes = 1 /\ stat = 1 /\ entry = 1 /\ file = 1 /\ dirty = FALSE
  /\ save = [i \in Saves |-> NoSave] /\ reload = [j \in Reloads |-> NoReload]
  /\ overtaken = FALSE

Next ==
  \/ ForeignWrite \/ ForeignDelete
  \/ Scan \/ Deliver
  \/ Edit \/ ReloadStart
  \/ \E i \in Saves : \/ SaveBegin(i) \/ SaveCapture(i) \/ SaveWrite(i) \/ SaveFail(i)
                      \/ SaveLook(i) \/ SaveFinish(i) \/ SaveRecord(i)
  \/ \E j \in Reloads : ReloadLoad(j) \/ ReloadApply(j)
  \/ Send
  \/ \E k \in Ids \ {0} : SendFail(k) /\ UNCHANGED editingVars
  \/ \E k \in Ids \ {0} : Progress(k) /\ UNCHANGED editingVars
  \/ \E k \in Ids \ {0} : Receive(k) /\ UNCHANGED editingVars
  \/ \E k \in Ids \ {0} : ReadEnd(k) /\ UNCHANGED editingVars
  \/ \E k \in Ids \ {0} : ReadFail(k) /\ UNCHANGED editingVars
  \/ \E k \in Ids \ {0} : Complete(k) /\ UNCHANGED editingVars

Spec == Init /\ [][Next]_vars
-----------------------------------------------------------------------------
AtRest ==
  /\ \A i \in Saves : save[i].step = "none"
  /\ \A j \in Reloads : reload[j].step = "none"
  /\ disk.mtime = stat /\ stat = entry

(* The fields of the editor are what its buffer would save: no task that   *)
(* writes the buffer leaves an editor behind that shows something else.    *)
EditorShowsBuffer == request = requestFile

(* A request shown as saved, with nothing in progress, is what is on disk, *)
(* unless an edit, a save, a reload or a foreign write came in the middle  *)
(* of the one that said so.  It also is what later edits are compared with.*)
CleanMatchesDisk ==
  AtRest /\ ~dirty /\ ~overtaken /\ disk.mtime # 0 =>
    request = disk.text /\ (request # Invalid => snapshot = request)

(* A request shown as changed differs from what it was last saved or       *)
(* loaded as, so that typing the old text back clears the mark.            *)
DirtyMeansChanged ==
  dirty /\ ~overtaken => request # snapshot
=============================================================================
