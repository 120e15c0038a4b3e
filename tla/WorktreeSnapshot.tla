-------------------------- MODULE WorktreeSnapshot --------------------------
(***************************************************************************)
(* The data the background scanner keeps behind its mutex                  *)
(* (crates/worktree: BackgroundScannerState and the WorktreeSnapshot in    *)
(* it) and the operations on it, as operators from a state record to the   *)
(* next one.  A snapshot is indexed twice: entries_by_path and             *)
(* entries_by_id.  The operations have to keep the two indexes equal, and  *)
(* they have to give an entry that was renamed or replaced the id it had.  *)
(*                                                                         *)
(* Paths are the nodes of a fixed tree.  What the disk holds at a path is  *)
(* a record with the inode and the modification time, or None; no inode is *)
(* at two paths (no hard links).  One .gitignore at the root is modelled:  *)
(* when its rule is on, exactly the paths of IgnoreSet are ignored.        *)
(***************************************************************************)
EXTENDS Integers, FiniteSets, Sequences, SequencesExt

CONSTANTS
  Paths,       \* the paths of the worktree, the root included
  Root,        \* the worktree root
  Parent,      \* Parent[p]: the directory that holds p, for p # Root
  Ancestors,   \* Ancestors[p]: p and every directory above it
  Dirs,        \* the paths at which directories live; the others hold files
  Gitignore,   \* the path of the .gitignore file
  IgnoreSet,   \* the paths the .gitignore ignores while its rule is on
  Inodes,      \* inode numbers; the file system reuses them
  Rank,        \* a numbering of the paths, the order of a directory listing
  None         \* "no entry", "no file"

ASSUME TreeAssumption ==
  /\ Root \in Dirs /\ Dirs \subseteq Paths
  /\ Parent \in [Paths \ {Root} -> Dirs]
  /\ Ancestors \in [Paths -> SUBSET Paths]
  /\ \A p \in Paths : {p, Root} \subseteq Ancestors[p]
  /\ \A p \in Paths, q \in Paths : q \in Ancestors[p] => Ancestors[q] \subseteq Ancestors[p]
  /\ \A p \in Paths \ {Root} : Ancestors[p] = {p} \cup Ancestors[Parent[p]]
  /\ Gitignore \in Paths \ Dirs /\ Parent[Gitignore] = Root

ASSUME IgnoreAssumption ==
  /\ IgnoreSet \subseteq Paths \ {Root, Gitignore}
  /\ \A p \in Paths \ {Root} : Parent[p] \in IgnoreSet => p \in IgnoreSet

ASSUME RankAssumption ==
  /\ IsFiniteSet(Paths)
  /\ Rank \in [Paths -> 0 .. Cardinality(Paths) - 1]
  /\ \A p, q \in Paths : Rank[p] = Rank[q] => p = q

-----------------------------------------------------------------------------
FileState == [inode : Inodes, mtime : Nat]

Kind == {"File", "Dir", "PendingDir", "UnloadedDir"}

Entry == [id : Nat, kind : Kind, inode : Inodes, mtime : Nat, ignored : BOOLEAN]

RemovedEntry == [id : Nat, mtime : Nat, path : Paths]

ASSUME NoneAssumption ==
  None \notin Paths /\ None \notin Inodes /\ None \notin FileState /\ None \notin Entry
  /\ None \notin BOOLEAN

(* The record behind the mutex.  ids is entries_by_id as a set of pairs;   *)
(* ignore is the .gitignore's entry of ignores_by_parent_abs_path.         *)
ScannerState ==
  [paths : [Paths -> Entry \cup {None}], ids : SUBSET (Nat \X Paths),
   removed : [Inodes -> RemovedEntry \cup {None}],
   scannedDirs : SUBSET Nat, toScan : SUBSET Paths, changed : SUBSET Paths,
   ignore : [rule : BOOLEAN, needsUpdate : BOOLEAN] \cup {None},
   nextId : Nat, scanId : Nat, completedId : Nat]

(* The paths of a set in the order of the entries_by_path tree. *)
AllInOrder == [n \in 1 .. Cardinality(Paths) |-> CHOOSE p \in Paths : Rank[p] = n - 1]
InOrder(S) ==
  LET picked[n \in 0 .. Cardinality(Paths)] ==
        IF n = 0 THEN <<>>
        ELSE IF AllInOrder[n] \in S THEN Append(picked[n - 1], AllInOrder[n])
        ELSE picked[n - 1]
  IN  picked[Cardinality(Paths)]

Under(p) == {q \in Paths : p \in Ancestors[q]}
Children(d) == {q \in Paths \ {Root} : Parent[q] = d}

(* The rule the snapshot's ignore stack applies, and its verdict on a path. *)
Rule(st) == st.ignore # None /\ st.ignore.rule
IsIgnored(rule, p) == rule /\ p \in IgnoreSet

-----------------------------------------------------------------------------
(* What WorktreeSnapshot::check_invariants asserts of the two indexes.     *)
SameIndexes(st) ==
  st.ids = {<<st.paths[p].id, p>> : p \in {q \in Paths : st.paths[q] # None}}

(* entries_by_id.insert_or_replace *)
ReplaceId(ids, id, p) == {pair \in ids : pair[1] # id} \cup {<<id, p>>}

(* Variant: only an entry that did not move gets its id back. *)
EntryIdForUnmoved(st, p, file) ==
  LET old == st.removed[file.inode]
      new == st.nextId + Rank[p]
  IN  IF old # None
      THEN IF old.mtime = file.mtime /\ old.path = p THEN old.id ELSE new
      ELSE IF st.paths[p] # None THEN st.paths[p].id ELSE new

(* The id a path that was just read from the disk gets: that of the entry  *)
(* removed earlier with its inode, if it has the same mtime or path, else  *)
(* that of the entry already at the path, else a new one.                  *)
EntryIdFor(st, p, file) ==
  LET old == st.removed[file.inode]
      new == st.nextId + Rank[p]
  IN  IF old # None
      THEN IF old.mtime = file.mtime \/ old.path = p THEN old.id ELSE new
      ELSE IF st.paths[p] # None THEN st.paths[p].id ELSE new

(* New ids come from a counter; the ids it draws and nothing ever uses are *)
(* not counted.                                                            *)
DrawIds(st, used) ==
  [st EXCEPT !.nextId = IF \A id \in used : id < @ THEN @ ELSE @ + Cardinality(Paths)]

ForgetInodes(removed, inodes) ==
  [i \in Inodes |-> IF i \in inodes THEN None ELSE removed[i]]

(* The entries remove_path_from_snapshot takes out: p and all below it.    *)
Gone(st, p) == {q \in Under(p) : st.paths[q] # None}

(* remove_path_from_snapshot: drops p and everything below it from both    *)
(* indexes and remembers each entry under its inode.                       *)
RemovePath(st, p) ==
  LET gone == Gone(st, p)
      goneIds == {st.paths[q].id : q \in gone}
      At(i) == {q \in gone : st.paths[q].inode = i}
      Latest(i) == CHOOSE q \in At(i) : \A r \in At(i) : st.paths[q].id >= st.paths[r].id
      Remember(i) == LET q == Latest(i) IN
        IF st.removed[i] # None /\ st.removed[i].id >= st.paths[q].id
        THEN st.removed[i]
        ELSE [id |-> st.paths[q].id, mtime |-> st.paths[q].mtime, path |-> q]
  IN [st EXCEPT
        !.paths = [q \in Paths |-> IF q \in gone THEN None ELSE st.paths[q]],
        !.ids = {pair \in @ : pair[1] \notin goneIds},
        !.removed = [i \in Inodes |-> IF At(i) = {} THEN st.removed[i] ELSE Remember(i)],
        !.ignore = IF Gitignore \in gone /\ @ # None THEN [@ EXCEPT !.needsUpdate = TRUE] ELSE @]

(* The ids left when a path's entry is replaced by one with another id.    *)
IdsWithoutReplaced(st, p, entry) ==
  {pair \in st.ids : st.paths[p] # None /\ st.paths[p].id # entry.id => pair[1] # st.paths[p].id}

(* insert_entry of the state and of the snapshot; gitignoreRule is what    *)
(* build_gitignore reads when the entry is the .gitignore file.  If it     *)
(* reads nothing the rules are what they were.                             *)
InsertEntry(st, p, entry, gitignoreRule) ==
  LET old == st.paths[p]
      kept == IF entry.kind = "PendingDir" /\ old # None
              THEN [entry EXCEPT !.kind = old.kind] ELSE entry
  IN [st EXCEPT
        !.paths = [@ EXCEPT ![p] = kept],
        !.ids = ReplaceId(IdsWithoutReplaced(st, p, entry), entry.id, p),
        !.removed = ForgetInodes(@, {entry.inode}),
        !.ignore = IF p = Gitignore /\ gitignoreRule # None
                     THEN [rule |-> gitignoreRule, needsUpdate |-> TRUE] ELSE @]

(* should_scan_directory, without path prefixes *)
ShouldScan(st, p, entry) ==
  \/ ~entry.ignored
  \/ entry.id \in st.scannedDirs
  \/ \E q \in st.toScan : p \in Ancestors[q]

(* populate_dir with the id reuse before it: read is what scan_dir read of *)
(* the children of d (None: absent), rule the ignore verdict it computed   *)
(* for them, newIgnore the .gitignore it parsed there.  A child keeps both *)
(* indexes' older entries out of view: entries_by_id is only inserted to.  *)
ChildEntry(st, p, file, rule) ==
  LET entry == [id |-> EntryIdFor(st, p, file),
                kind |-> IF p \in Dirs THEN "PendingDir" ELSE "File",
                inode |-> file.inode, mtime |-> file.mtime, ignored |-> IsIgnored(rule, p)]
  IN  IF p \in Dirs /\ ~ShouldScan(st, p, entry)
      THEN [entry EXCEPT !.kind = "UnloadedDir"] ELSE entry

ReadChildren(d, read) == {p \in Children(d) : read[p] # None}

PopulateDir(st, d, read, rule, newIgnore) ==
  LET found == ReadChildren(d, read)
      child == [p \in found |-> ChildEntry(st, p, read[p], rule)]
      drawn == [DrawIds(st, {child[p].id : p \in found}) EXCEPT !.removed = ForgetInodes(@, {read[p].inode : p \in found})]
      loaded == [st.paths[d] EXCEPT !.kind = "Dir"]
  IN  IF st.paths[d] = None
      THEN drawn
      ELSE [drawn EXCEPT
             !.paths = [p \in Paths |-> IF p \in found THEN child[p]
                                        ELSE IF p = d THEN loaded ELSE st.paths[p]],
             !.ids = {pair \in @ : \A p \in found : pair[1] # child[p].id}
                       \cup {<<child[p].id, p>> : p \in found},
             !.scannedDirs = @ \cup {st.paths[d].id},
             !.changed = @ \cup {d},
             !.ignore = IF newIgnore # None THEN newIgnore ELSE @]

(* The subdirectories scan_dir queues after populating d. *)
SubdirsToScan(st, d, read, rule) ==
  {p \in ReadChildren(d, read) \cap Dirs : ChildEntry(st, p, read[p], rule).kind = "PendingDir"}

(* reload_entries_for_paths with the mutex held: meta is the metadata read *)
(* before.  First the paths that are gone are removed, and all of them if  *)
(* the reload is recursive; then those that exist are inserted.            *)
InsertReloaded(st, p, file, recursive, gitignoreRule) ==
  LET entry == [id |-> EntryIdFor(st, p, file),
                kind |-> IF p \in Dirs THEN "PendingDir" ELSE "File",
                inode |-> file.inode, mtime |-> file.mtime, ignored |-> IsIgnored(Rule(st), p)]
      deferred == recursive /\ p \in Dirs /\ ~ShouldScan(st, p, entry)
  IN  InsertEntry(DrawIds(st, {entry.id}), p,
                  IF deferred THEN [entry EXCEPT !.kind = "UnloadedDir"] ELSE entry,
                  gitignoreRule)

(* Variant: an entry is not removed when its file is gone. *)
GoneFromKept(paths, meta, recursive) == {p \in paths : recursive /\ meta[p] # None}

GoneFrom(paths, meta, recursive) == {p \in paths : recursive \/ meta[p] = None}

(* Paths are removed, and inserted, one after the other.                   *)
RemovePaths(st, gone) ==
  LET removed[n \in 0 .. Cardinality(Paths)] ==
        IF n = 0 THEN st
        ELSE IF AllInOrder[n] \in gone THEN RemovePath(removed[n - 1], AllInOrder[n])
        ELSE removed[n - 1]
  IN  removed[Cardinality(Paths)]

InsertPaths(st, found, meta, recursive, gitignoreRule) ==
  LET inserted[n \in 0 .. Cardinality(Paths)] ==
        IF n = 0 THEN st
        ELSE IF AllInOrder[n] \in found
             THEN InsertReloaded(inserted[n - 1], AllInOrder[n], meta[AllInOrder[n]],
                                 recursive, gitignoreRule)
        ELSE inserted[n - 1]
  IN  inserted[Cardinality(Paths)]

ReloadEntries(st, paths, meta, recursive, gitignoreRule) ==
  LET removed == RemovePaths(st, GoneFrom(paths, meta, recursive))
      found == {p \in paths : meta[p] # None}
  IN  [InsertPaths(removed, found, meta, recursive, gitignoreRule) EXCEPT !.changed = @ \cup paths]
=============================================================================
