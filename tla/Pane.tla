--------------------------------- MODULE Pane ---------------------------------
(***************************************************************************)
(* The items of a pane (crates/workspace/src/pane.rs), as operators on     *)
(* records: the tabs in their order, the index of the active one, counted  *)
(* from 0 as in the code, and the preview item, which the next preview     *)
(* replaces.                                                               *)
(*                                                                         *)
(* Every item edits one file; two items of one file have the same project  *)
(* entry.  Opening a file, adding an item, moving a tab and restoring a    *)
(* pane activate the item, as all callers in the program do.               *)
(***************************************************************************)
EXTENDS Naturals, Sequences, SequencesExt

CONSTANT None  \* no item, no file, no place for an item

ASSUME PaneAssumption == None \notin Nat

EmptyPane == [items |-> <<>>, active |-> 0, preview |-> None]

PaneState(Items) == [items : Seq(Items), active : Nat, preview : Items \cup {None}]

Has(pane, item) == \E k \in 1 .. Len(pane.items) : pane.items[k] = item
Preview(pane) == IF pane.preview # None /\ Has(pane, pane.preview) THEN pane.preview ELSE None

IndexOf(pane, item) == (CHOOSE k \in 1 .. Len(pane.items) : pane.items[k] = item) - 1

ActiveItem(pane) ==
  IF pane.active < Len(pane.items) THEN pane.items[pane.active + 1] ELSE None

LesserOf(a, b) == IF a < b THEN a ELSE b

-----------------------------------------------------------------------------
ActivateItem(pane, index) ==
  IF index < Len(pane.items) THEN [pane EXCEPT !.active = index] ELSE pane

UnpreviewItem(pane, item) ==
  [pane EXCEPT !.preview = IF @ = item THEN None ELSE @]

(* remove_item: the neighbour that takes the place becomes active.         *)
(* Variant: the index may be past the end.                                 *)
ActivePastEnd(pane, index) ==
  IF Len(pane.items) = 1 THEN 0
  ELSE IF index < pane.active THEN pane.active - 1 ELSE pane.active

ActiveAfterRemoval(pane, index) ==
  IF Len(pane.items) = 1 THEN 0
  ELSE IF index < pane.active THEN pane.active - 1
  ELSE LesserOf(pane.active, Len(pane.items) - 2)

RemoveItem(pane, item) ==
  IF ~Has(pane, item) THEN pane
  ELSE LET index == IndexOf(pane, item)
       IN  [items |-> RemoveAt(pane.items, index + 1),
            active |-> ActiveAfterRemoval(pane, index),
            preview |-> IF pane.preview = item THEN None ELSE pane.preview]

(* The first item with the id or the project entry of the one added.       *)
Matching(pane, item, fileOf) ==
  {k \in 0 .. Len(pane.items) - 1 :
     pane.items[k + 1] = item \/ fileOf[pane.items[k + 1]] = fileOf[item]}

(* add_item of an item that is not there: it is inserted and activated.    *)
InsertNew(pane, item, insertion) ==
  [items |-> InsertAt(pane.items, insertion + 1, item), active |-> insertion,
   preview |-> pane.preview]

(* add_item of an item whose id or file is there: the tab moves to the     *)
(* place asked for, or behind the active one, and is activated.            *)
MoveExisting(pane, item, existing, insertion, destination) ==
  IF existing = insertion \/ (existing = pane.active /\ destination = None)
  THEN [pane EXCEPT !.active = existing]
  ELSE LET left == RemoveAt(pane.items, existing + 1)
           place == LesserOf(insertion, Len(left))
       IN  [items |-> InsertAt(left, place + 1, item), active |-> place,
            preview |-> pane.preview]

AddItem(pane, item, fileOf, destination) ==
  LET insertion == LesserOf(IF destination = None THEN pane.active + 1 ELSE destination,
                            Len(pane.items))
      matching == Matching(pane, item, fileOf)
  IN  IF matching = {} THEN InsertNew(pane, item, insertion)
      ELSE MoveExisting(pane, item, CHOOSE k \in matching : \A m \in matching : k <= m,
                        insertion, destination)

(* close_current_preview_item: the active index is put back, less one when *)
(* the preview was before it; the new preview takes its place.             *)
ClosePreview(pane) ==
  IF Preview(pane) = None THEN [pane |-> pane, destination |-> None]
  ELSE LET index == IndexOf(pane, pane.preview)
           removed == RemoveItem(pane, pane.preview)
       IN  [pane |-> [removed EXCEPT
                        !.active = IF index < pane.active THEN pane.active - 1 ELSE pane.active],
            destination |-> IF index < Len(removed.items) THEN index ELSE None]

(* open_item of a file that no item shows: item is the one it builds.      *)
OpenNew(pane, item, fileOf, allowPreview) ==
  IF allowPreview
  THEN LET closed == ClosePreview(pane)
       IN  [AddItem(closed.pane, item, fileOf, closed.destination) EXCEPT !.preview = item]
  ELSE AddItem(pane, item, fileOf, None)

OpenExisting(pane, item, allowPreview) ==
  ActivateItem(IF allowPreview THEN pane ELSE UnpreviewItem(pane, item), IndexOf(pane, item))

(* handle_tab_drop: the tab is moved to an index.                          *)
MoveTab(pane, item, fileOf, index) == AddItem(UnpreviewItem(pane, item), item, fileOf, index)

-----------------------------------------------------------------------------
(* The active index is of an item when there is one, the preview is one of *)
(* the items, no item is there twice, and no file has two tabs.            *)
PaneSound(pane, fileOf) ==
  /\ pane.items = <<>> => pane.active = 0
  /\ pane.items # <<>> => pane.active < Len(pane.items)
  /\ pane.preview # None => Has(pane, pane.preview)
  /\ \A j, k \in 1 .. Len(pane.items) :
       fileOf[pane.items[j]] = fileOf[pane.items[k]] => j = k
=============================================================================
