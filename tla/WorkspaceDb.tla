------------------------------ MODULE WorkspaceDb ------------------------------
(***************************************************************************)
(* What is stored of the workspaces (crates/workspace/src/persistence.rs,  *)
(* persistence.rs of crates/editor and crates/request_editor) and the      *)
(* queue of writes in front of it (sql/src/thread_safe_connection.rs): one *)
(* thread takes the writes in their order, each is one transaction, and    *)
(* what is queued is lost when the program ends.  Readers have connections *)
(* of their own and see what is written.                                   *)
(*                                                                         *)
(* rows[i] is the workspace i with its pane, files[i][n] the file stored   *)
(* for its item n: the tables editor and request_editor.                   *)
(***************************************************************************)
EXTENDS Pane

CONSTANTS
  Paths,    \* directories that can be opened
  Files,    \* files in each
  Items,    \* entity ids of items; a later run may draw the same again
  MaxId,    \* bound: ids of workspaces
  MaxRuns   \* bound: sessions, which are numbered; each start begins one

VARIABLES rows, files, queue

dbVars == <<rows, files, queue>>

Ids == 1 .. MaxId
Sessions == 0 .. MaxRuns  \* 0: in no session

StoredPane ==
  [items : Seq(Items), active : Items \cup {None}, preview : Items \cup {None}]
Row == [location : Paths \cup {None}, pane : StoredPane, session : Sessions]

ASSUME DbAssumption == None \notin Row  \* None: no row

NoItems == [items |-> <<>>, active |-> None, preview |-> None]
NoFiles == [n \in Items |-> None]

(* The id that SQLite gives a new row: one more than the largest.          *)
NewRowId == 1 + (IF \A i \in Ids : rows[i] = None THEN 0
                 ELSE CHOOSE i \in Ids : /\ rows[i] # None
                                         /\ \A j \in Ids : rows[j] # None => j <= i)

(* workspace_for_path.                                                     *)
RowsOf(p) == {i \in Ids : rows[i] # None /\ rows[i].location = p}

(* session_workspaces.                                                     *)
SessionRows(session) ==
  {i \in Ids : rows[i] # None /\ rows[i].session = session /\ rows[i].location # None}
SessionPaths(session) == {rows[i].location : i \in SessionRows(session)}

-----------------------------------------------------------------------------
Enqueued(write) == queue' = Append(queue, write)

(* The writes; the task "by" awaits its own.                               *)
SaveWrite(i, p, pane, session, by) ==
  [op |-> "save", id |-> i, row |-> [location |-> p, pane |-> pane, session |-> session],
   by |-> by]
ItemWrite(i, item, file) == [op |-> "item", id |-> i, item |-> item, file |-> file, by |-> None]
CleanupWrite(i, alive, by) == [op |-> "cleanup", id |-> i, alive |-> alive, by |-> by]
NewWrite(by) == [op |-> "new", by |-> by]
ClearWrite == [op |-> "clear", by |-> None]

Awaits(by) == \E k \in 1 .. Len(queue) : queue[k].by = by

(* save_workspace: the pane's rows are replaced, other workspaces of the   *)
(* location are deleted, their items with them.                            *)
ApplySave(write) ==
  /\ write.op = "save"
  /\ LET others == RowsOf(write.row.location) \ {write.id}
     IN  /\ rows' = [i \in Ids |-> IF i = write.id THEN write.row
                                   ELSE IF i \in others THEN None ELSE rows[i]]
         /\ files' = [i \in Ids |-> IF i \in others THEN NoFiles ELSE files[i]]

(* save_serialized_editor, save_serialized_request_editor: the foreign key *)
(* refuses an item of a workspace that is not there.                       *)
ApplyItem(write) ==
  /\ write.op = "item"
  /\ files' = IF rows[write.id] = None THEN files
              ELSE [files EXCEPT ![write.id][write.item] = write.file]
  /\ UNCHANGED rows

(* delete_unloaded_items.                                                  *)
Kept(write) == [n \in Items |-> IF n \in write.alive THEN files[write.id][n] ELSE None]

ApplyCleanup(write) ==
  /\ write.op = "cleanup"
  /\ files' = [files EXCEPT ![write.id] = Kept(write)]
  /\ UNCHANGED rows

(* clear_recent_workspaces.                                                *)
ApplyClear(write) ==
  /\ write.op = "clear"
  /\ rows' = [i \in Ids |-> None]
  /\ files' = [i \in Ids |-> NoFiles]

(* next_id: a row of no location keeps the id.  Variant: no row does.      *)
ApplyNewUnkept(write) == write.op = "new" /\ NewRowId <= MaxId /\ UNCHANGED <<rows, files>>

ApplyNew(write) ==
  /\ write.op = "new" /\ NewRowId <= MaxId
  /\ rows' = [rows EXCEPT ![NewRowId] = [location |-> None, pane |-> NoItems, session |-> 0]]
  /\ UNCHANGED files

DbTypeOK ==
  /\ rows \in [Ids -> Row \cup {None}]
  /\ files \in [Ids -> [Items -> Files \cup {None}]]
  /\ \A i \in Ids : rows[i] = None => files[i] = NoFiles

(* A directory is stored once.                                             *)
LocationUnique == \A p \in Paths : \A i, j \in RowsOf(p) : i = j
=============================================================================
