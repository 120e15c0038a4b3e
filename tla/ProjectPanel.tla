----------------------------- MODULE ProjectPanel -----------------------------
(***************************************************************************)
(* The project panel (crates/project_panel/src/project_panel.rs) over the  *)
(* entries of a worktree and the statuses of GitRepository: the rows it    *)
(* shows, which a background task computes from what it captured, the      *)
(* directories that are expanded, the entry whose name is edited, the      *)
(* selection, the clipboard, and the tasks that create, rename, copy, move *)
(* and delete entries while other programs do the same.                    *)
(*                                                                         *)
(* A handler runs in one turn of the UI thread.  A key, a menu, a button   *)
(* or another part of the program calls it, so none is tied to where the   *)
(* focus is, and one that returns early without an effect is no step.      *)
(* Every entry is a directory or a request: other files have no rows.  The *)
(* tree is at once the disk and the worktree's snapshot, whose distance is *)
(* the matter of WorktreeScanner.  Scrolling, the messages about names and *)
(* what is drawn are left out.                                             *)
(***************************************************************************)
EXTENDS GitRepository, FiniteSets, FiniteSetsExt, SequencesExt

CONSTANTS
  Names,       \* names of entries
  Initial,     \* the tree at the start; Root is the worktree's root
  MaxEntries,  \* bound: entries ever
  Tasks,       \* bound: tasks of the panel in progress at a time
  Bounds       \* bounds: what the user and others may do, see BoundType

Root == 1
None == 0               \* no entry
New == MaxEntries + 1   \* NEW_ENTRY_ID: the row of an entry that is being created
Entries == 1 .. MaxEntries

Commands ==
  {"select", "expand", "collapse", "edit", "clipboard", "paste", "remove", "open", "mouse"}

(* changes, trouble: changes of the repository, and its failed commands    *)
(* and moves; acts: commands of the user and of the rest of the program;   *)
(* others: changes of the tree by other programs; faults: operations of    *)
(* the panel that fail.                                                    *)
BoundType ==
  [panel : BOOLEAN, repository : BOOLEAN, changes : Nat, trouble : Nat,
   commands : SUBSET Commands, acts : Nat, others : Nat, faults : Nat]

ASSUME PanelAssumption ==
  /\ Names \subseteq Nat \ {0}
  /\ MaxEntries \in Nat
  /\ Root \in DOMAIN Initial /\ DOMAIN Initial \subseteq Entries
  /\ Bounds \subseteq BoundType

VARIABLES
  bound,      \* the element of Bounds this behaviour keeps to, and what is left of it
  tree,       \* the entries of the worktree: id -> [path, dir]
  next,       \* the id that the next entry gets
  rows,       \* tree_state.visible_entries: id -> [path, dir, git], in the order Before
  expanded,   \* tree_state.expanded_dir_ids
  edit,       \* tree_state.edit_state
  typed,      \* the text of file_name_editor, 0 if it is not a name
  selection,
  marked,     \* marked_entries
  clipboard,
  update,     \* update_visible_entries_task, with what it captured computed at once
  focus,      \* what has the keyboard: the panel, the editor or something else
  drawn,      \* whether the editor had it in the last frame
  task,       \* the tasks in progress
  missed,     \* ghost: the editor lost the keyboard before a frame showed it
  unshown     \* ghost: directories were expanded without a new list of rows

treeVars == <<tree, next>>
editVars == <<edit, typed>>
choiceVars == <<selection, marked>>
updateVars == <<update, unshown>>
focusVars == <<focus, missed>>
panelVars == <<bound, treeVars, rows, expanded, editVars, choiceVars, clipboard, updateVars,
               focusVars, drawn, task>>
allVars == <<vars, panelVars>>

NoEdit == [entry |-> None]
Editing == edit # NoEdit /\ ~edit.processing

NoRows == [e \in {} |-> None]
NoUpdate == [running |-> FALSE, rows |-> NoRows, select |-> None, focus |-> FALSE]

(* ops: operations of the file system in progress, by the entry they are   *)
(* for; got: the entries they ended with.                                  *)
NoTask == [kind |-> "none"]
Idle(t) == task[t].kind = "none"
-----------------------------------------------------------------------------
(***************************************************************************)
(* The tree.                                                               *)
(***************************************************************************)
Parent(p) == SubSeq(p, 1, Len(p) - 1)
At(t, p) == {e \in DOMAIN t : t[e].path = p}
Below(t, e) == {x \in DOMAIN t : IsPrefix(t[e].path, t[x].path)}
Above(t, e) == {x \in DOMAIN t : IsStrictPrefix(t[x].path, t[e].path)}
DirsBelow(t, e) == {x \in Below(t, e) : t[x].dir}
Siblings(t, e) == {x \in DOMAIN t \ {Root} : Parent(t[x].path) = Parent(t[e].path)}
DirsTo(t, e) == {x \in Above(t, e) \cup {e} : t[x].dir}
DirAt(t, p) == \E e \in At(t, p) : t[e].dir

Without(t, e) == [x \in DOMAIN t \ Below(t, e) |-> t[x]]
Relocated(t, e, x, p) == p \o SubSeq(t[x].path, Len(t[e].path) + 1, Len(t[x].path))
Moved(t, e, p) ==
  [x \in DOMAIN t |->
     IF x \in Below(t, e) THEN [t[x] EXCEPT !.path = Relocated(t, e, x, p)] ELSE t[x]]

(* Entries that appear get the next ids, in the order of the list.         *)
With(t, added) ==
  [x \in DOMAIN t \cup (next .. next + Len(added) - 1) |->
     IF x \in DOMAIN t THEN t[x] ELSE added[x - next + 1]]

CopyOf(t, e, p) ==
  LET order == SetToSortSeq(Below(t, e), LAMBDA x, y : Len(t[x].path) < Len(t[y].path))
  IN  [i \in DOMAIN order |-> [t[order[i]] EXCEPT !.path = Relocated(t, e, order[i], p)]]

(* create_dir_all.                                                         *)
MissingDirs(t, p) ==
  LET missing == SelectSeq([i \in DOMAIN p |-> SubSeq(p, 1, i)], LAMBDA q : At(t, q) = {})
  IN  [i \in DOMAIN missing |-> [path |-> missing[i], dir |-> TRUE]]
MayCreateDir(t, p) == \A e \in DOMAIN t : IsPrefix(t[e].path, p) => t[e].dir

(* cmp_worktree_entries: directories before files, then by name.           *)
LeafFile(a, k) == ~a.dir /\ k = Len(a.path)
Before(a, b) ==
  \/ IsStrictPrefix(a.path, b.path)
  \/ \E k \in DOMAIN a.path \cap DOMAIN b.path :
       /\ SubSeq(a.path, 1, k - 1) = SubSeq(b.path, 1, k - 1) /\ a.path[k] # b.path[k]
       /\ \/ ~LeafFile(a, k) /\ LeafFile(b, k)
          \/ LeafFile(a, k) = LeafFile(b, k) /\ a.path[k] < b.path[k]

FirstOf(S, t) == CHOOSE e \in S : \A x \in S \ {e} : Before(t[e], t[x])
LastOf(S, t) == CHOOSE e \in S : \A x \in S \ {e} : Before(t[x], t[e])
After(S, t, e) == {x \in S : Before(t[e], t[x])}
Ahead(S, t, e) == {x \in S : Before(t[x], t[e])}
-----------------------------------------------------------------------------
(***************************************************************************)
(* The rows.                                                               *)
(***************************************************************************)
GitSummary(found, p) == {found[q] : q \in {q \in Paths : IsPrefix(p, q)}} \ {Clean}

RowOf(t, found, e) ==
  [path |-> t[e].path, dir |-> t[e].dir, git |-> GitSummary(found, t[e].path)]

(* create_new_git_entry.                                                   *)
NewRow(t, found, ed) ==
  [path |-> Append(t[ed.entry].path, 0), dir |-> ed.dir, git |-> GitSummary(found, t[ed.entry].path)]

(* The traversal goes into expanded directories only.                      *)
Visited(t, open) == {e \in DOMAIN t : Above(t, e) \subseteq open}

VisibleEntries(t, open, ed, found) ==
  LET placeholder == IF ed # NoEdit /\ ed.new /\ ed.entry \in Visited(t, open) THEN {New} ELSE {}
  IN  [e \in (Visited(t, open) \ {Root}) \cup placeholder |->
         IF e = New THEN NewRow(t, found, ed) ELSE RowOf(t, found, e)]

(* update_visible_entries replaces the task that runs: what it was to      *)
(* select is forgotten, but not that it was to focus the editor.           *)
(* Variant: that too.                                                      *)
FocusForgotten(focusEditor) == focusEditor
FocusWanted(focusEditor) == focusEditor \/ update.focus

UpdateVisibleEntries(select, focusEditor) ==
  /\ update' = [running |-> TRUE, rows |-> VisibleEntries(tree', expanded', edit', statuses'),
                select |-> select, focus |-> FocusWanted(focusEditor)]
  /\ unshown' = FALSE

(* Variant: one update at a time.                                          *)
RefreshUnlessRunning ==
  IF update.running THEN UNCHANGED updateVars ELSE UpdateVisibleEntries(None, FALSE)
Refresh == UpdateVisibleEntries(None, FALSE)

FocusOn(which) ==
  /\ focus' = which
  /\ missed' = (which # "editor" /\ (missed \/ (focus = "editor" /\ ~drawn)))

UpdateEnds ==
  /\ update.running
  /\ rows' = update.rows
  /\ selection' = IF update.select = None THEN selection ELSE update.select
  /\ IF update.focus THEN FocusOn("editor") ELSE UNCHANGED focusVars
  /\ update' = NoUpdate
  /\ UNCHANGED <<vars, bound, treeVars, expanded, editVars, marked, clipboard, unshown, drawn,
                 task>>
-----------------------------------------------------------------------------
(***************************************************************************)
(* Selecting and expanding.                                                *)
(***************************************************************************)
Command(kind) ==
  /\ bound.panel /\ kind \in bound.commands /\ bound.acts > 0
  /\ bound' = [bound EXCEPT !.acts = @ - 1]
  /\ UNCHANGED <<vars, treeVars, rows, drawn>>

Choose(e, shift) ==
  /\ selection' = e
  /\ marked' = IF shift THEN Append(marked, e) ELSE marked
  /\ FocusOn("panel")
  /\ UNCHANGED <<expanded, editVars, clipboard, updateVars, task>>

SelectFirst(shift) == rows # NoRows /\ Choose(FirstOf(DOMAIN rows, rows), shift)
SelectLast == rows # NoRows /\ Choose(LastOf(DOMAIN rows, rows), FALSE)

SelectPrevious(shift) ==
  IF selection = None THEN SelectFirst(shift)
  ELSE /\ selection \in DOMAIN rows
       /\ LET S == Ahead(DOMAIN rows, rows, selection)
          IN  S # {} /\ Choose(LastOf(S, rows), shift)

SelectNext(shift) ==
  IF selection = None THEN SelectFirst(shift)
  ELSE /\ selection \in DOMAIN rows
       /\ LET S == After(DOMAIN rows, rows, selection)
          IN  S # {} /\ Choose(FirstOf(S, rows), shift)

Selects ==
  /\ Command("select")
  /\ \/ \E shift \in BOOLEAN : SelectFirst(shift) \/ SelectNext(shift) \/ SelectPrevious(shift)
     \/ SelectLast

ExpandSelected ==
  /\ Command("expand")
  /\ selection \in DOMAIN rows /\ rows[selection].dir
  /\ IF selection \in expanded THEN \E shift \in BOOLEAN : SelectNext(shift)
     ELSE /\ expanded' = expanded \cup {selection}
          /\ FocusOn("panel")
          /\ UNCHANGED <<editVars, choiceVars, clipboard, task>>
          /\ Refresh

(* What is expanded and nearest above: a request may be, after expand_entry. *)
CollapseSelected ==
  /\ Command("collapse")
  /\ selection \in DOMAIN tree
  /\ LET S == ((Above(tree, selection) \cup {selection}) \cap expanded) \ {Root}
     IN  /\ S # {}
         /\ \E e \in S :
              /\ \A x \in S : Len(tree[x].path) <= Len(tree[e].path)
              /\ expanded' = expanded \ {e}
              /\ selection' = e /\ marked' = <<e>>
  /\ FocusOn("panel")
  /\ UNCHANGED <<editVars, clipboard, task>>
  /\ Refresh

CollapsedAll(e) == expanded \ ((DirsBelow(tree, e) \cup {e}) \ {Root})

CollapseSelectedAndChildren ==
  /\ Command("collapse")
  /\ selection # None
  /\ expanded' = IF selection \in DOMAIN tree THEN CollapsedAll(selection) ELSE expanded
  /\ UNCHANGED <<editVars, choiceVars, clipboard, focusVars, task>>
  /\ Refresh

CollapseAll ==
  /\ Command("collapse")
  /\ expanded' = expanded \cap {Root}
  /\ UNCHANGED <<editVars, choiceVars, clipboard, focusVars, task>>
  /\ Refresh

(* A click on a row of a directory, with alt for all below it.  The row    *)
(* may be of a directory that is gone.                                     *)
ToggleExpanded(e) ==
  /\ expanded' = IF e \in expanded THEN expanded \ {e} ELSE expanded \cup {e}
  /\ UpdateVisibleEntries(e, FALSE)

ToggleExpandAll(e) ==
  /\ expanded' = IF e \notin DOMAIN tree THEN expanded
                 ELSE IF e \in expanded THEN CollapsedAll(e)
                 ELSE IF tree[e].dir THEN expanded \cup DirsBelow(tree, e) ELSE expanded
  /\ Refresh

RowOfEditor == IF edit.new THEN New ELSE edit.entry
EditorShown == Editing /\ RowOfEditor \in DOMAIN rows

ClickDirectory(e) ==
  /\ Command("mouse")
  /\ e \in DOMAIN rows /\ rows[e].dir /\ ~(EditorShown /\ e = RowOfEditor)
  /\ marked' = <<e>> /\ selection' = e
  /\ FocusOn("panel")
  /\ UNCHANGED <<editVars, clipboard, task>>
  /\ ToggleExpanded(e) \/ ToggleExpandAll(e)

(* The line that leads down from a directory: the parent of the first row  *)
(* below it.                                                               *)
ClickIndentGuide(e) ==
  /\ Command("mouse")
  /\ e \in DOMAIN rows
  /\ \E x \in At(tree, Parent(rows[e].path)) :
       x # Root /\ x \in expanded /\ expanded' = expanded \ {x}
  /\ FocusOn("panel")
  /\ UNCHANGED <<editVars, choiceVars, clipboard, task>>
  /\ Refresh

(* A right click on a row, or on the space below them for the root.        *)
OpenContextMenu(e) ==
  /\ Command("mouse")
  /\ e \in DOMAIN rows \cup {Root}
  /\ marked' = IF e # Root /\ Contains(marked, e) THEN marked ELSE <<>>
  /\ IF e \in DOMAIN tree THEN selection' = e /\ FocusOn("away")
     ELSE UNCHANGED <<selection, focusVars>>
  /\ UNCHANGED <<expanded, editVars, clipboard, updateVars, task>>

(* The user turns to the panel, to the editor or to something else, which  *)
(* is also where an opened request takes the keyboard.                     *)
TurnTo(which) ==
  /\ Command("mouse")
  /\ focus # which /\ (which = "editor" => EditorShown)
  /\ FocusOn(which)
  /\ UNCHANGED <<expanded, editVars, choiceVars, clipboard, updateVars, task>>
-----------------------------------------------------------------------------
(***************************************************************************)
(* Opening and revealing.                                                  *)
(***************************************************************************)
(* The handler of OpenedEntry: an entry that is gone is not opened.        *)
Opened(e, focusOpened) ==
  /\ marked' = <<e>> /\ selection' = e
  /\ IF focusOpened THEN UNCHANGED focusVars ELSE FocusOn("panel")

Open ==
  /\ Command("open")
  /\ selection \in DOMAIN rows
  /\ UNCHANGED <<editVars, clipboard, task>>
  /\ IF rows[selection].dir
     THEN ToggleExpanded(selection) /\ FocusOn("panel") /\ UNCHANGED choiceVars
     ELSE selection \in DOMAIN tree /\ Opened(selection, FALSE) /\ UNCHANGED <<expanded, updateVars>>

ClickRequest(e, focusOpened) ==
  /\ Command("mouse")
  /\ e \in DOMAIN rows \cap DOMAIN tree /\ ~rows[e].dir /\ ~(EditorShown /\ e = RowOfEditor)
  /\ Opened(e, focusOpened)
  /\ UNCHANGED <<expanded, editVars, clipboard, updateVars, task>>

ExpandedTo(S) == expanded \cup S \cup UNION {Above(tree, e) : e \in S}

(* ActiveEntryChanged.                                                     *)
RevealEntry(e) ==
  /\ Command("open")
  /\ e \in DOMAIN tree
  /\ expanded' = ExpandedTo({e})
  /\ marked' = <<e>>
  /\ UNCHANGED <<editVars, selection, clipboard, focusVars, task>>
  /\ UpdateVisibleEntries(e, FALSE)

NoActiveEntry ==
  /\ Command("open")
  /\ marked # <<>> /\ marked' = <<>>
  /\ UNCHANGED <<expanded, editVars, selection, clipboard, updateVars, focusVars, task>>

(* The items of a restored pane.                                           *)
PaneRestored(S) ==
  /\ Command("open")
  /\ S \subseteq DOMAIN tree /\ S # {}
  /\ expanded' = ExpandedTo(S)
  /\ UNCHANGED <<editVars, choiceVars, clipboard, focusVars, task>>
  /\ Refresh
-----------------------------------------------------------------------------
(***************************************************************************)
(* Names.                                                                  *)
(***************************************************************************)
Start(t, started) == Idle(t) /\ task' = [task EXCEPT ![t] = started]

NameOf(p) == IF p = <<>> THEN 0 ELSE Last(p)

EditName(e) ==
  /\ edit' = [entry |-> e, new |-> FALSE, dir |-> tree[e].dir, processing |-> FALSE, previous |-> None]
  /\ typed' = NameOf(tree[e].path)
  /\ UpdateVisibleEntries(None, TRUE)

Rename ==
  /\ Command("edit")
  /\ selection \in DOMAIN tree
  /\ UNCHANGED <<expanded, choiceVars, clipboard, focusVars, task>>
  /\ EditName(selection)

(* add_entry: in the directory of the selected entry, else of the entry    *)
(* that is being created, else of the root.                                *)
AddEntry(selected, dir) ==
  LET pending == edit # NoEdit /\ edit.new
      base == IF selected \in DOMAIN tree THEN selected
              ELSE IF pending THEN edit.entry ELSE Root
      previous == IF selected \in DOMAIN tree THEN selected
                  ELSE IF pending THEN edit.previous ELSE None
  IN  /\ base \in DOMAIN tree
      /\ \E parent \in At(tree, IF tree[base].dir THEN tree[base].path ELSE Parent(tree[base].path)) :
           /\ expanded' = expanded \cup {parent}
           /\ edit' = [entry |-> parent, new |-> TRUE, dir |-> dir, processing |-> FALSE,
                       previous |-> previous]
      /\ marked' = <<>> /\ typed' = 0
      /\ UpdateVisibleEntries(New, TRUE)

NewEntry(dir) ==
  /\ Command("edit")
  /\ AddEntry(selection, dir)
  /\ UNCHANGED <<selection, clipboard, focusVars, task>>

(* One click on the space below the rows, or two.                          *)
ClickBelowRows ==
  /\ Command("mouse")
  /\ selection' = None /\ marked' = <<>> /\ FocusOn("panel")
  /\ UNCHANGED <<expanded, editVars, clipboard, updateVars, task>>

DoubleClickBelowRows ==
  /\ Command("mouse")
  /\ edit = NoEdit
  /\ selection' = Root /\ FocusOn("panel")
  /\ AddEntry(Root, FALSE)
  /\ UNCHANGED <<clipboard, task>>

Type(name) ==
  /\ focus = "editor" /\ Editing /\ EditorShown /\ typed # name
  /\ typed' = name
  /\ UNCHANGED <<vars, bound, treeVars, rows, expanded, edit, choiceVars, clipboard, updateVars,
                 focusVars, drawn, task>>

NewPath ==
  Append(IF edit.new THEN tree[edit.entry].path ELSE Parent(tree[edit.entry].path), typed)

Confirmable == edit # NoEdit /\ typed # 0 /\ edit.entry \in DOMAIN tree

(* confirm_edit of a name that is free; a name that is being processed may *)
(* be confirmed once more.                                                 *)
Accepted == Confirmable /\ At(tree, NewPath) = {}

ConfirmEdit(refocus) ==
  /\ Accepted
  /\ \E t \in Tasks :
       Start(t, [kind |-> "edit", item |-> RowOfEditor, dir |-> edit.dir, got |-> {},
                 ops |-> {[kind |-> IF edit.new THEN "create" ELSE "rename", item |-> RowOfEditor,
                           dir |-> edit.dir, from |-> tree[edit.entry].path, to |-> NewPath]}])
  /\ selection' = IF edit.new THEN New ELSE selection
  /\ edit' = [edit EXCEPT !.processing = TRUE]
  /\ IF refocus THEN FocusOn("panel") ELSE UNCHANGED focusVars
  /\ UNCHANGED <<typed, updateVars>>

DiscardEditState ==
  IF edit = NoEdit THEN UNCHANGED <<edit, updateVars>>
  ELSE /\ edit' = NoEdit
       /\ UpdateVisibleEntries(IF edit.previous = Root THEN None ELSE edit.previous, FALSE)

Confirm ==
  /\ Command("edit")
  /\ \/ ConfirmEdit(TRUE)
     \/ /\ Confirmable /\ ~edit.new /\ At(tree, NewPath) = {edit.entry}
        /\ FocusOn("panel")
        /\ UNCHANGED <<editVars, selection, updateVars, task>>
  /\ UNCHANGED <<expanded, marked, clipboard>>

Cancel ==
  /\ Command("edit")
  /\ marked' = <<>>
  /\ FocusOn("panel")
  /\ UNCHANGED <<expanded, typed, selection, clipboard, task>>
  /\ DiscardEditState

(* A frame: Blurred is sent when the editor had the keyboard in the last   *)
(* one and has not in this one, or is not in it.                           *)
Blurred ==
  IF Editing /\ edit.new /\ Accepted THEN ConfirmEdit(FALSE)
  ELSE /\ IF Editing THEN DiscardEditState ELSE UNCHANGED <<edit, updateVars>>
       /\ UNCHANGED <<typed, selection, focusVars, task>>

HasKeyboard == focus = "editor" /\ EditorShown

Draw ==
  /\ drawn # HasKeyboard /\ drawn' = HasKeyboard
  /\ UNCHANGED <<vars, bound, treeVars, rows, expanded, marked, clipboard>>
  /\ IF drawn THEN Blurred ELSE UNCHANGED <<editVars, selection, updateVars, focusVars, task>>

(* What confirm_edit waits for has ended.  It forgets the edit there is,   *)
(* if it is another one too.                                               *)
EditEnds(t) ==
  /\ task[t].kind = "edit" /\ task[t].ops = {}
  /\ task' = [task EXCEPT ![t] = NoTask]
  /\ edit' = NoEdit
  /\ IF task[t].got = {}
     THEN marked' = <<>> /\ UNCHANGED <<selection, expanded>>
     ELSE \E g \in task[t].got :
            LET ours == selection = task[t].item
                opened == task[t].item = New /\ ~task[t].dir /\ g.entry \in DOMAIN tree
            IN  /\ selection' = IF ours \/ opened THEN g.entry ELSE selection
                /\ marked' = IF opened THEN <<g.entry>> ELSE IF ours THEN <<>> ELSE marked
                /\ expanded' = IF ours /\ g.entry \in DOMAIN tree
                               THEN expanded \cup DirsTo(tree, g.entry) ELSE expanded
  /\ UNCHANGED <<vars, bound, treeVars, rows, typed, clipboard, focusVars, drawn>>
  /\ Refresh
-----------------------------------------------------------------------------
(***************************************************************************)
(* The clipboard, pasting and deleting.                                    *)
(***************************************************************************)
EffectiveEntries ==
  IF selection # None /\ (marked = <<>> \/ (Len(marked) = 1 /\ ~Contains(marked, selection)))
  THEN {selection} ELSE ToSet(marked)

DisjointEntries ==
  LET S == (EffectiveEntries \cap DOMAIN tree) \ {Root}
  IN  {e \in S : \A d \in Above(tree, e) \cap S : ~tree[d].dir}

CopyEntries(cut) ==
  /\ Command("clipboard")
  /\ DisjointEntries # {}
  /\ clipboard' = [cut |-> cut, items |-> DisjointEntries]
  /\ UNCHANGED <<expanded, editVars, choiceVars, updateVars, focusVars, task>>

(* create_paste_path: beside a request or the directory that was copied,   *)
(* into another directory, with another name when the name is taken.       *)
PasteDir(e, target) ==
  IF ~tree[target].dir \/ e = target THEN Parent(tree[target].path) ELSE tree[target].path
SameName(e, target) == Append(PasteDir(e, target), Last(tree[e].path))
PastePaths(e, target) ==
  IF At(tree, SameName(e, target)) = {} THEN {SameName(e, target)}
  ELSE {p \in {Append(PasteDir(e, target), n) : n \in Names} : At(tree, p) = {}}

(* When an item of the clipboard is gone the tasks of the items before it  *)
(* are dropped, which may be too late.  Otherwise what was cut counts as   *)
(* copied from now on, and the directory is expanded but no row computed.  *)
Paste(clip) ==
  LET gone == clip.items \ DOMAIN tree
      started == {e \in clip.items : \A x \in gone : e < x}
  IN  /\ selection \in DOMAIN tree /\ clip.items # {}
      /\ \E t \in Tasks, to \in [started -> UNION {PastePaths(e, selection) : e \in started}] :
           /\ \A e \in started : to[e] \in PastePaths(e, selection)
           /\ Start(t, [kind |-> IF gone = {} THEN "paste" ELSE "dropped", got |-> {},
                        single |-> Cardinality(clip.items) = 1,
                        renamed |-> \E e \in started : to[e] # SameName(e, selection),
                        ops |-> {[kind |-> IF clip.cut THEN "rename" ELSE "copy", item |-> e,
                                  dir |-> tree[e].dir, from |-> tree[e].path, to |-> to[e]] :
                                 e \in started}])
      /\ clipboard' = IF gone = {} THEN [clip EXCEPT !.cut = FALSE] ELSE clip
      /\ expanded' = IF gone = {} THEN ExpandedTo({selection}) ELSE expanded
      /\ unshown' = (unshown \/ expanded' # expanded)
      /\ UNCHANGED <<editVars, choiceVars, update, focusVars>>

PasteClipboard == Command("paste") /\ Paste(clipboard)

(* duplicate: copy, which keeps the clipboard when there is nothing to     *)
(* copy, and paste.                                                        *)
Duplicate ==
  LET clip == IF DisjointEntries = {} THEN clipboard ELSE [cut |-> FALSE, items |-> DisjointEntries]
  IN  /\ Command("paste")
      /\ \/ Paste(clip)
         \/ /\ selection \notin DOMAIN tree \/ clip.items = {}
            /\ clipboard' = clip
            /\ UNCHANGED <<expanded, editVars, choiceVars, updateVars, focusVars, task>>

(* The last item that was pasted is selected; a single one is opened, if   *)
(* it is a request, and its name is edited, if it had to have another one. *)
PasteEnds(t) ==
  /\ task[t].kind = "paste" /\ task[t].ops = {}
  /\ task' = [task EXCEPT ![t] = NoTask]
  /\ UNCHANGED <<vars, bound, treeVars, rows, expanded, clipboard, drawn>>
  /\ IF task[t].got = {} THEN UNCHANGED <<choiceVars, focusVars, editVars, updateVars>>
     ELSE \E g \in task[t].got :
            LET shown == task[t].single /\ g.entry \in DOMAIN tree
            IN  /\ \A h \in task[t].got : h.item <= g.item
                /\ IF shown /\ ~tree[g.entry].dir THEN Opened(g.entry, ~task[t].renamed)
                   ELSE selection' = g.entry /\ UNCHANGED <<marked, focusVars>>
                /\ IF shown /\ task[t].renamed THEN EditName(g.entry)
                   ELSE UNCHANGED <<editVars, updateVars>>

DropTask(t) ==
  /\ task[t].kind = "dropped"
  /\ task' = [task EXCEPT ![t] = NoTask]
  /\ UNCHANGED <<vars, bound, treeVars, rows, expanded, editVars, choiceVars, clipboard, updateVars,
                 focusVars, drawn>>

(* find_next_selection_after_deletion: the next sibling that stays of the  *)
(* last entry, the one before it, or the directory unless it is the root.  *)
NextSelection(S) ==
  LET latest == LastOf(S, tree)
      staying == Siblings(tree, latest) \ S
      after == After(staying, tree, latest)
      ahead == Ahead(staying, tree, latest)
      parents == At(tree, Parent(tree[latest].path)) \ {Root}
  IN  IF after # {} THEN FirstOf(after, tree)
      ELSE IF ahead # {} THEN LastOf(ahead, tree)
      ELSE IF parents # {} THEN CHOOSE e \in parents : TRUE
      ELSE None

(* remove_impl, asking first or not.                                       *)
RemoveEntries(ask) ==
  /\ Command("remove")
  /\ DisjointEntries # {}
  /\ \E t \in Tasks :
       Start(t, [kind |-> "remove", asking |-> ask, got |-> {}, ops |-> {},
                 left |-> SetToSortSeq(DisjointEntries, LAMBDA a, b : a < b),
                 select |-> NextSelection(DisjointEntries)])
  /\ UNCHANGED <<expanded, editVars, choiceVars, clipboard, updateVars, focusVars>>

(* The next entry; one that is gone ends the task, as a refusal does.      *)
RemoveNext(t) ==
  /\ task[t].kind = "remove" /\ task[t].ops = {} /\ task[t].left # <<>>
  /\ LET e == Head(task[t].left)
     IN  task' = [task EXCEPT ![t] =
           IF e \notin DOMAIN tree THEN NoTask
           ELSE [@ EXCEPT !.asking = FALSE, !.left = Tail(@),
                          !.ops = {[kind |-> "delete", item |-> e, dir |-> tree[e].dir,
                                    from |-> tree[e].path, to |-> tree[e].path]}]]
  /\ UNCHANGED <<vars, bound, treeVars, rows, expanded, editVars, choiceVars, clipboard, updateVars,
                 focusVars, drawn>>

RemoveRefused(t) ==
  /\ task[t].kind = "remove" /\ task[t].asking
  /\ task' = [task EXCEPT ![t] = NoTask]
  /\ UNCHANGED <<vars, bound, treeVars, rows, expanded, editVars, choiceVars, clipboard, updateVars,
                 focusVars, drawn>>

RemoveEnds(t) ==
  /\ task[t].kind = "remove" /\ task[t].ops = {} /\ task[t].left = <<>>
  /\ task' = [task EXCEPT ![t] = NoTask]
  /\ marked' = <<>>
  /\ selection' = IF task[t].select = None THEN None ELSE selection
  /\ UNCHANGED <<vars, bound, treeVars, rows, expanded, editVars, clipboard, focusVars, drawn>>
  /\ UpdateVisibleEntries(task[t].select, FALSE)
-----------------------------------------------------------------------------
(***************************************************************************)
(* The file system, and the other programs that use it.  An operation that *)
(* fails changes nothing.                                                  *)
(***************************************************************************)
(* The worktree tells of a change before the task that made it goes on.    *)
TreeBecomes(t, told) ==
  /\ tree' = t
  /\ next' = next + Cardinality(DOMAIN t \ DOMAIN tree) /\ next' <= New
  /\ UNCHANGED <<vars, rows, expanded, editVars, choiceVars, clipboard, focusVars, drawn>>
  /\ IF told THEN Refresh ELSE UNCHANGED updateVars

(* write replaces a request that exists.  rename and copy replace nothing, *)
(* and all but the copy of a request create the directories above.         *)
Possible(op) ==
  IF op.kind = "create"
  THEN MayCreateDir(tree, Parent(op.to)) /\ \A e \in At(tree, op.to) : tree[e].dir = op.dir
  ELSE /\ At(tree, op.from) # {}
       /\ op.kind # "delete" /\ op.from # <<>> =>
            /\ At(tree, op.to) = {} /\ MayCreateDir(tree, Parent(op.to))
            /\ op.kind = "rename" => ~IsPrefix(op.from, op.to)
            /\ op.kind = "copy" /\ ~DirAt(tree, op.from) => DirAt(tree, Parent(op.to))

(* The name of the root is in no path.                                     *)
Result(op) ==
  LET missing == MissingDirs(tree, Parent(op.to))
      source == CHOOSE e \in At(tree, op.from) : TRUE
      created == IF At(tree, op.to) = {} THEN <<[path |-> op.to, dir |-> op.dir]>> ELSE <<>>
  IN  CASE op.kind = "create" -> With(tree, missing \o created)
        [] op.kind = "copy" -> With(tree, missing \o CopyOf(tree, source, op.to))
        [] op.kind = "rename" ->
             IF op.from = <<>> THEN tree ELSE Moved(With(tree, missing), source, op.to)
        [] op.kind = "delete" -> Without(tree, source)

EndedWith(op) ==
  IF op.kind = "delete" THEN {op.item}
  ELSE At(Result(op), IF op.from = <<>> /\ op.kind = "rename" THEN <<>> ELSE op.to)

Perform(t, op) ==
  /\ op \in task[t].ops /\ Possible(op)
  /\ TreeBecomes(Result(op), Result(op) # tree \/ (op.kind = "create" /\ ~op.dir))
  /\ \E e \in EndedWith(op) :
       task' = [task EXCEPT ![t].ops = @ \ {op},
                            ![t].got = @ \cup {[item |-> op.item, entry |-> e]}]
  /\ UNCHANGED bound

(* The first entry that cannot be deleted ends that task.                  *)
Fail(t, op) ==
  /\ op \in task[t].ops
  /\ IF Possible(op) THEN bound.faults > 0 /\ bound' = [bound EXCEPT !.faults = @ - 1]
     ELSE UNCHANGED bound
  /\ task' = [task EXCEPT ![t] = IF @.kind = "remove" THEN NoTask ELSE [@ EXCEPT !.ops = @ \ {op}]]
  /\ UNCHANGED <<vars, treeVars, rows, expanded, editVars, choiceVars, clipboard, updateVars,
                 focusVars, drawn>>

FreePaths ==
  {p \in {Append(tree[d].path, n) : d \in DirsBelow(tree, Root), n \in Names} : At(tree, p) = {}}

OthersChange ==
  /\ bound.panel /\ bound.others > 0 /\ bound' = [bound EXCEPT !.others = @ - 1]
  /\ \/ \E p \in FreePaths, dir \in BOOLEAN :
          TreeBecomes(With(tree, <<[path |-> p, dir |-> dir]>>), TRUE)
     \/ \E e \in DOMAIN tree \ {Root} :
          \/ TreeBecomes(Without(tree, e), TRUE)
          \/ \E p \in FreePaths :
               ~IsPrefix(tree[e].path, p) /\ TreeBecomes(Moved(tree, e, p), TRUE)
  /\ UNCHANGED task
-----------------------------------------------------------------------------
(* The statuses of the repository.  Variant: nobody listens.               *)
StatusesUnheard == FALSE
StatusesHeard == statuses' # statuses

Git(A) ==
  /\ bound.repository /\ A /\ changes' <= bound.changes /\ failures' + moves' <= bound.trouble
  /\ UNCHANGED <<bound, treeVars, rows, expanded, editVars, choiceVars, clipboard, focusVars, drawn,
                 task>>
  /\ IF bound.panel /\ StatusesHeard THEN Refresh ELSE UNCHANGED updateVars

PanelInit ==
  /\ Init
  /\ bound \in Bounds
  /\ bound.repository \/ git = statuses
  /\ tree = Initial /\ next = 1 + Max(DOMAIN Initial)
  /\ rows = NoRows /\ expanded = {Root}
  /\ edit = NoEdit /\ typed = 0
  /\ selection = None /\ marked = <<>> /\ clipboard = [cut |-> FALSE, items |-> {}]
  /\ update = [NoUpdate EXCEPT !.running = bound.panel,
                               !.rows = VisibleEntries(tree, expanded, edit, statuses)]
  /\ focus = "away" /\ drawn = FALSE
  /\ task = [t \in Tasks |-> NoTask]
  /\ missed = FALSE /\ unshown = FALSE

Choosing ==
  \/ Selects \/ ExpandSelected \/ CollapseSelected \/ CollapseSelectedAndChildren \/ CollapseAll
  \/ Open \/ NoActiveEntry \/ ClickBelowRows
  \/ \E e \in DOMAIN rows \cup DOMAIN tree :
       \/ ClickDirectory(e) \/ ClickIndentGuide(e) \/ OpenContextMenu(e) \/ RevealEntry(e)
       \/ \E focusOpened \in BOOLEAN : ClickRequest(e, focusOpened)
  \/ \E S \in SUBSET DOMAIN tree : PaneRestored(S)
  \/ \E which \in {"panel", "editor", "away"} : TurnTo(which)

EditingNames ==
  \/ Rename \/ DoubleClickBelowRows \/ Confirm \/ Cancel
  \/ \E dir \in BOOLEAN : NewEntry(dir)
  \/ \E name \in Names \cup {0} : Type(name)
  \/ \E t \in Tasks : EditEnds(t)

Changing ==
  \/ PasteClipboard \/ Duplicate
  \/ \E cut \in BOOLEAN : CopyEntries(cut)
  \/ \E ask \in BOOLEAN : RemoveEntries(ask)
  \/ \E t \in Tasks :
       \/ PasteEnds(t) \/ DropTask(t) \/ RemoveNext(t) \/ RemoveRefused(t) \/ RemoveEnds(t)
  \/ \E t \in Tasks : task[t] # NoTask /\ \E op \in task[t].ops : Perform(t, op) \/ Fail(t, op)
  \/ OthersChange

PanelNext == Git(Next) \/ UpdateEnds \/ Draw \/ Choosing \/ EditingNames \/ Changing

PanelSpec == PanelInit /\ [][PanelNext]_allVars

(* The worktree tells of every change, and the executor runs every task.   *)
Fairness ==
  /\ WF_allVars(Git(UpdatedEntries)) /\ WF_allVars(Git(\E S \in batches : PathsChanged(S)))
  /\ WF_allVars(Git(ScheduleScan)) /\ WF_allVars(Git(WorkerStart)) /\ WF_allVars(Git(TakeJob))
  /\ WF_allVars(Git(JobStep))
  /\ WF_allVars(UpdateEnds)

FairPanelSpec == PanelSpec /\ Fairness
-----------------------------------------------------------------------------
(* The rows are what the tree, the directories that are expanded, the new  *)
(* entry and the statuses of git make of them, once what is computed is    *)
(* shown; what is computed meanwhile is of the present too.  Only a paste  *)
(* expands a directory without new rows.                                   *)
PanelShowsTree ==
  bound.panel /\ ~unshown =>
    VisibleEntries(tree, expanded, edit, statuses) = IF update.running THEN update.rows ELSE rows

(* A name that is edited has the keyboard, or a frame will end the edit:   *)
(* the request for it survives the lists of rows that are replaced before  *)
(* they are shown.  Only what takes the keyboard before the first frame    *)
(* leaves the name without it.                                             *)
EditHasKeyboard ==
  Editing /\ ~missed => focus = "editor" \/ drawn \/ (update.running /\ update.focus)

(* When the repository is left alone the rows come to show its statuses.   *)
PanelFollowsGit ==
  <>[](worker = "ready" /\ ~lost =>
         /\ statuses = git /\ branch = head
         /\ bound.panel => \A e \in DOMAIN rows : rows[e].git =
               GitSummary(git, IF e = New THEN Parent(rows[e].path) ELSE rows[e].path))
=============================================================================
