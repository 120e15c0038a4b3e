----------------------------- MODULE BufferStore -----------------------------
(***************************************************************************)
(* Which buffer is the buffer of which file                                *)
(* (crates/project/src/buffer_store.rs): opening, sharing the open in      *)
(* progress, releasing, and following the worktree's UpdatedEntries while  *)
(* files are created, renamed and deleted.  request_buffer_store.rs is the *)
(* same store for request files, but for what Text tells apart.            *)
(*                                                                         *)
(* A file is named by the id of its entry, which the scanner keeps across  *)
(* a rename.  disk maps paths to files, entries is the worktree's          *)
(* snapshot; 0 means that there is no file.  The disk may change several   *)
(* times before the worktree sees it.  RelPaths are numbers in the order   *)
(* of RelPath.  What a buffer's text is belongs to module Buffer.          *)
(***************************************************************************)
EXTENDS Naturals, Sequences

CONSTANTS
  Stores,       \* "buffers": BufferStore, "requests": RequestBufferStore
  PathCount,    \* number of paths
  MaxFiles,     \* bound: files ever made
  MaxOpens,     \* bound: loads ever started
  MaxRenames    \* bound: renames, for each store

ASSUME StoreAssumption ==
  /\ Stores \subseteq {"buffers", "requests"} /\ PathCount \in Nat \ {0, 1}
  /\ MaxFiles \in Nat \ {0, 1} /\ MaxOpens \in Nat
  /\ MaxRenames \in [Stores -> Nat]

VARIABLES
  store,                 \* which of the Stores this is; it never changes
  disk, files, renames,  \* the disk; files and renames made so far
  entries,               \* the worktree's snapshot
  loading, opens,        \* loading_buffers, per path; loads started so far
  file,                  \* the file handle of each buffer
  live,                  \* buffers somebody holds
  opened,                \* the keys of opened_buffers
  byPath, byEntry,       \* path_to_buffer_id, buffer_ids_by_entry_id
  late                   \* ghost: see Mixed

diskVars == <<disk, files, renames>>
indexVars == <<opened, byPath, byEntry>>
buffersVars == <<store, diskVars, entries, loading, opens, file, live, indexVars, late>>

RelPaths == 1 .. PathCount
Files == 1 .. MaxFiles
Buffers == 1 .. MaxOpens
NoBuffer == 0
Text == store = "buffers"

(* A handle has an entry unless its file never was.                        *)
FileHandle ==
  {h \in [path : RelPaths, entry : Files \cup {0}, state : {"New", "Present", "Deleted"}] :
     h.state = "Present" => h.entry # 0}

(* The load reads the file while the refresh of its entry is served; the   *)
(* buffer is built when both have ended, and the entry of loading_buffers  *)
(* is removed after that.                                                  *)
NotLoading == [step |-> "none", read |-> "pending", entry |-> 0, buffer |-> NoBuffer,
              overtaken |-> FALSE]
LoadState ==
  [step : {"none", "sent", "answered", "looked", "built"},
   read : {"pending", "found", "missing"}, entry : Files \cup {0},
   buffer : Buffers \cup {NoBuffer}, overtaken : BOOLEAN]  \* overtaken is a ghost

(* The values of the variables.                                            *)
BuffersTypeOK ==
  /\ store \in Stores
  /\ disk \in [RelPaths -> 0 .. files] /\ entries \in [RelPaths -> 0 .. files]
  /\ files \in 0 .. MaxFiles /\ renames \in 0 .. MaxRenames[store]
  /\ loading \in [RelPaths -> LoadState] /\ opens \in 0 .. MaxOpens
  /\ \E n \in 0 .. MaxOpens : file \in [1 .. n -> FileHandle]
  /\ live \subseteq DOMAIN file /\ opened \subseteq DOMAIN file /\ late \subseteq DOMAIN file
  /\ byPath \in [RelPaths -> DOMAIN file \cup {NoBuffer}]
  /\ byEntry \in [Files -> DOMAIN file \cup {NoBuffer}]
-----------------------------------------------------------------------------
(* The paths whose entries are not up to date.                             *)
Stale(d) == {p \in RelPaths : d[p] # entries[p]}

(* get, get_by_path: a weak handle that still upgrades.                    *)
Live(b) == b \in opened \cap live
Found(p) == byPath[p] # NoBuffer /\ Live(byPath[p])

(***************************************************************************)
(* The disk.                                                               *)
(***************************************************************************)
DiskChange(d) ==
  /\ disk' = d
  /\ UNCHANGED <<store, entries, loading, opens, file, live, indexVars, late>>

Create(p) ==
  /\ disk[p] = 0 /\ files < MaxFiles /\ files' = files + 1
  /\ DiskChange([disk EXCEPT ![p] = files + 1])
  /\ UNCHANGED renames

Delete(p) ==
  /\ disk[p] # 0
  /\ DiskChange([disk EXCEPT ![p] = 0])
  /\ UNCHANGED <<files, renames>>

Rename(p, q) ==
  /\ disk[p] # 0 /\ disk[q] = 0 /\ renames < MaxRenames[store] /\ renames' = renames + 1
  /\ DiskChange([disk EXCEPT ![p] = 0, ![q] = disk[p]])
  /\ UNCHANGED files

(***************************************************************************)
(* UpdatedEntries.                                                         *)
(***************************************************************************)
(* The entry a file handle stands for: the one with its id, else the one   *)
(* at its path.                                                            *)
EntryPathByPath(handle, snapshot) == handle.path  \* variant: the id is not looked up
EntryPath(handle, snapshot) ==
  LET moved == {p \in RelPaths : handle.entry # 0 /\ snapshot[p] = handle.entry} IN
  IF moved # {} THEN CHOOSE p \in moved : TRUE ELSE handle.path

NewHandle(handle, snapshot) ==
  LET p == EntryPath(handle, snapshot) IN
  IF snapshot[p] # 0 THEN [path |-> p, entry |-> snapshot[p], state |-> "Present"]
  ELSE [handle EXCEPT !.state = "Deleted"]

(* The maps after a buffer's handle has changed.                           *)
RepathedKept(map, b, old, new) == [map EXCEPT ![new.path] = b]  \* variant
Repathed(map, b, old, new) ==
  IF new.path = old.path THEN map
  ELSE [map EXCEPT ![old.path] = NoBuffer, ![new.path] = b]
Reentried(map, b, old, new) ==
  IF new.entry = old.entry THEN map
  ELSE [e \in Files |-> IF e = new.entry THEN b ELSE IF e = old.entry THEN NoBuffer ELSE map[e]]

(* worktree_entry_changed, told of an entry and its path; st holds what it *)
(* changes, and the buffers that emitted FileHandleChanged.                *)
EntryChanged(st, p, entry, snapshot) ==
  LET known == st.byEntry[entry]
      b == IF known # NoBuffer THEN known ELSE st.byPath[p]
      old == st.file[b]
      new == NewHandle(old, snapshot)
  IN IF b = NoBuffer THEN st
     ELSE IF b \notin st.opened \cap live
     THEN [st EXCEPT !.opened = @ \ {b}, !.byPath[p] = NoBuffer, !.byEntry[entry] = NoBuffer]
     ELSE [st EXCEPT !.file[b] = new,
                     !.byPath = Repathed(@, b, old, new),
                     !.byEntry = Reentried(@, b, old, new),
                     !.emitted = IF new.path # old.path \/ new.state # old.state
                                 THEN Append(@, b) ELSE @]

(* build_diff: the changed paths in order; where the entry at a path is    *)
(* another one the old one is removed before the new one is added.         *)
PathChanged(st, p, snapshot) ==
  LET removed == IF entries[p] = 0 THEN st ELSE EntryChanged(st, p, entries[p], snapshot)
  IN IF disk[p] = 0 THEN removed ELSE EntryChanged(removed, p, disk[p], snapshot)

EntriesChanged(S, snapshot) ==
  LET start == [file |-> file, opened |-> opened, byPath |-> byPath, byEntry |-> byEntry,
                emitted |-> <<>>]
      changed[p \in 0 .. PathCount] ==
        IF p = 0 THEN start
        ELSE IF p \in S THEN PathChanged(changed[p - 1], p, snapshot) ELSE changed[p - 1]
  IN changed[PathCount]

(* buffer_changed_file, when the events are delivered; nobody listens to   *)
(* them in the store of request buffers.                                   *)
FileHandleChanged(st, b) ==
  LET handle == st.file[b] IN
  IF ~Text \/ handle.entry = 0 \/ st.byEntry[handle.entry] # NoBuffer THEN st
  ELSE [st EXCEPT !.byEntry[handle.entry] = b, !.byPath[handle.path] = b]

HandlesChanged(st) ==
  LET delivered[n \in 0 .. Len(st.emitted)] ==
        IF n = 0 THEN st ELSE FileHandleChanged(delivered[n - 1], st.emitted[n])
  IN delivered[Len(st.emitted)]

(* The worktree's snapshot changes at the paths S.  The removal of a       *)
(* renamed file is seen before its new path or together with it: seen      *)
(* after it, the file gets a new id, which is a deletion and a creation    *)
(* here.                                                                   *)
IdsDistinct(snapshot) ==
  \A p, q \in RelPaths : snapshot[p] = snapshot[q] /\ snapshot[p] # 0 => p = q

Updated(S) == [p \in RelPaths |-> IF p \in S THEN disk[p] ELSE entries[p]]

(* The store is told of the new snapshot.                                  *)
UpdatedEntries(S) ==
  LET snapshot == Updated(S)
      done == HandlesChanged(EntriesChanged(S, snapshot))
  IN /\ entries' = snapshot
     /\ file' = done.file /\ opened' = done.opened
     /\ byPath' = done.byPath /\ byEntry' = done.byEntry

Answered(S) ==
  [p \in RelPaths |->
    [loading[p] EXCEPT
       !.step = IF @ = "sent" /\ (p \in S \/ entries[p] = disk[p]) THEN "answered" ELSE @,
       !.overtaken = @ \/ (p \in S /\ loading[p].step \notin {"none", "built"})]]

(* Ghost: buffers that no event repairs.  They were built without a file,  *)
(* or an update came while they were loaded, or one update put another     *)
(* file at their path that is another buffer's, or moved theirs as well.   *)
Mixed(S) ==
  {b \in DOMAIN file :
     LET p == file[b].path IN
     /\ p \in S /\ disk[p] \notin {0, file[b].entry}
     /\ \/ \E c \in DOMAIN file \ {b} : file[c].entry = disk[p]
        \/ \E q \in S : disk[q] = file[b].entry /\ disk[q] # 0}

Deliver ==
  \E S \in SUBSET Stale(disk) :
    /\ S # {} \/ Answered({}) # loading
    /\ IdsDistinct(Updated(S))
    /\ UpdatedEntries(S)
    /\ loading' = Answered(S)
    /\ late' = late \cup Mixed(S)
    /\ UNCHANGED <<store, diskVars, opens, live>>

(***************************************************************************)
(* Opening and releasing.                                                  *)
(***************************************************************************)
(* open_buffer: a live buffer is returned, an open in progress is joined;  *)
(* neither changes the store.                                              *)
Open(p) ==
  /\ ~Found(p) /\ loading[p].step = "none"
  /\ opens < MaxOpens /\ opens' = opens + 1
  /\ loading' = [loading EXCEPT ![p] = [NotLoading EXCEPT !.step = "sent"]]
  /\ UNCHANGED <<store, diskVars, entries, file, live, indexVars, late>>

LoadRead(p) ==
  /\ loading[p].step \in {"sent", "answered", "looked"} /\ loading[p].read = "pending"
  /\ loading' = [loading EXCEPT ![p].read = IF disk[p] = 0 THEN "missing" ELSE "found"]
  /\ UNCHANGED <<store, diskVars, entries, opens, file, live, indexVars, late>>

(* refresh_entry looks the entry up once it is answered.                   *)
LoadLook(p) ==
  /\ loading[p].step = "answered"
  /\ loading' = [loading EXCEPT ![p].step = "looked", ![p].entry = entries[p]]
  /\ UNCHANGED <<store, diskVars, entries, opens, file, live, indexVars, late>>

(* load_file fails when the entry is not there.  A request must also be    *)
(* found, and when the load has ended its entry must still be there.       *)
LoadFail(p) ==
  /\ \/ loading[p].step = "looked" /\ loading[p].read = "found" /\ loading[p].entry = 0
     \/ ~Text /\ loading[p].read = "missing"
     \/ /\ ~Text /\ loading[p].step = "looked" /\ loading[p].read = "found"
        /\ entries[p] = 0 /\ \A q \in RelPaths : entries[q] # loading[p].entry
  /\ loading' = [loading EXCEPT ![p] = NotLoading]
  /\ UNCHANGED <<store, diskVars, entries, opens, file, live, indexVars, late>>

(* add_buffer and the end of load_buffer.                                  *)
AddBuffer(p, handle) ==
  LET b == Len(file) + 1 IN
  /\ file' = Append(file, handle)
  /\ live' = live \cup {b} /\ opened' = opened \cup {b}
  /\ byPath' = [byPath EXCEPT ![handle.path] = b]
  /\ byEntry' = [e \in Files |-> IF e = handle.entry THEN b ELSE byEntry[e]]
  /\ loading' = [loading EXCEPT ![p] = [NotLoading EXCEPT !.step = "built", !.buffer = b]]
  /\ late' = IF loading[p].overtaken \/ handle.entry = 0 THEN late \cup {b} ELSE late
  /\ UNCHANGED <<store, diskVars, entries, opens>>

LoadBuild(p) ==
  \/ /\ Text /\ loading[p].step \in {"sent", "answered", "looked"}
     /\ loading[p].read = "missing"
     /\ AddBuffer(p, [path |-> p, entry |-> 0, state |-> "New"])
  \/ /\ loading[p].step = "looked" /\ loading[p].read = "found" /\ loading[p].entry # 0
     /\ AddBuffer(p, [path |-> p, entry |-> loading[p].entry, state |-> "Present"])

LoadDone(p) ==
  /\ loading[p].step = "built"
  /\ loading' = [loading EXCEPT ![p] = NotLoading]
  /\ UNCHANGED <<store, diskVars, entries, opens, file, live, indexVars, late>>

(* The last handle of a buffer is dropped; the store keeps its weak one.   *)
DropBuffer(b) ==
  /\ b \in live /\ \A p \in RelPaths : loading[p].buffer # b
  /\ live' = live \ {b}
  /\ UNCHANGED <<store, diskVars, entries, loading, opens, file, indexVars, late>>
-----------------------------------------------------------------------------
BuffersInit ==
  /\ store \in Stores
  /\ files = 1 /\ disk = [p \in RelPaths |-> IF p = 1 THEN 1 ELSE 0] /\ renames = 0
  /\ entries = disk
  /\ loading = [p \in RelPaths |-> NotLoading] /\ opens = 0
  /\ file = <<>> /\ live = {} /\ opened = {} /\ late = {}
  /\ byPath = [p \in RelPaths |-> NoBuffer] /\ byEntry = [e \in Files |-> NoBuffer]

DiskStep ==
  \E p \in RelPaths : Create(p) \/ Delete(p) \/ \E q \in RelPaths : Rename(p, q)

LoadStep(p) == LoadRead(p) \/ LoadLook(p) \/ LoadFail(p) \/ LoadBuild(p) \/ LoadDone(p)

BuffersNext ==
  \/ DiskStep
  \/ Deliver
  \/ \E p \in RelPaths : Open(p) \/ LoadStep(p)
  \/ \E b \in DOMAIN file : DropBuffer(b)

BuffersSpec == BuffersInit /\ [][BuffersNext]_buffersVars
-----------------------------------------------------------------------------
AtRest == Stale(disk) = {} /\ \A p \in RelPaths : loading[p].step = "none"

(* A path is never answered with the buffer of another path.               *)
LookupIsExact == \A p \in RelPaths : Found(p) => file[byPath[p]].path = p

(* At rest the buffer of a file that is there is the only one, is at the   *)
(* file's path and is found there.                                         *)
OneBufferPerFile ==
  AtRest /\ late = {} => \A b \in live :
    /\ file[b].state = "Present" => entries[file[b].path] = file[b].entry
    /\ \A p \in RelPaths : entries[p] # 0 /\ entries[p] = file[b].entry =>
         file[b].path = p /\ file[b].state = "Present" /\ byPath[p] = b
=============================================================================
