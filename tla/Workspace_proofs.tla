--------------------------- MODULE Workspace_proofs ---------------------------
(***************************************************************************)
(* Proofs about the stored workspaces: a directory is stored once, for any *)
(* number of windows, commands, runs and crashes.  The commands and timers *)
(* only put writes in the queue, so the argument is about the writing      *)
(* thread: a save deletes the other rows of its location in the            *)
(* transaction that stores its own, and a new row has no location.         *)
(*                                                                         *)
(* And about the tabs of a pane: each operation keeps a sound pane sound,  *)
(* for any items and any files.  What an operation needs is what its       *)
(* callers grant: a file is opened as a new item only when no item shows   *)
(* it, and a tab that is moved is one of the pane's.                       *)
(*                                                                         *)
(* And about the ids of the open workspaces: no two share one.  Here the   *)
(* queue is read as a ledger: a row is drawn, then stored by the save that *)
(* gives it a location, and dropped only by a save of its own location.    *)
(*                                                                         *)
(* And about the session: what a start reopens is what was open.  What the *)
(* queue will leave of a directory is followed from the save that is       *)
(* queued last, with who closes which workspace and which one is listed.   *)
(***************************************************************************)
EXTENDS Workspace, SequenceTheorems, FiniteSetTheorems, TLAPS

RowsAreIndexed == rows = [i \in Ids |-> rows[i]]

StoreInv == RowsAreIndexed /\ LocationUnique

LEMMA InitStore == Init => StoreInv
  BY DEF Init, StoreInv, RowsAreIndexed, LocationUnique, RowsOf

(* save_workspace.                                                         *)
LEMMA SaveKeepsOne ==
  ASSUME StoreInv, NEW write, ApplySave(write)
  PROVE  StoreInv'
<1>1. RowsAreIndexed'
  BY DEF ApplySave, RowsAreIndexed
<1>2. ASSUME NEW p \in Paths, NEW i \in RowsOf(p)', NEW j \in RowsOf(p)'
      PROVE  i = j
  <2> DEFINE others == RowsOf(write.row.location) \ {write.id}
  <2>1. \A k \in Ids : rows'[k] = IF k = write.id THEN write.row
                                  ELSE IF k \in others THEN None ELSE rows[k]
    BY DEF ApplySave
  <2>2. /\ i \in Ids /\ rows'[i] # None /\ rows'[i].location = p
        /\ j \in Ids /\ rows'[j] # None /\ rows'[j].location = p
    BY DEF RowsOf, Ids
  <2>3. CASE p = write.row.location
    <3>1. ASSUME NEW k \in Ids, rows'[k] # None, rows'[k].location = p
          PROVE  k = write.id
      BY <2>1, <2>3, <3>1 DEF RowsOf
    <3> QED
      BY <2>2, <3>1
  <2>4. CASE p # write.row.location
    <3>1. ASSUME NEW k \in Ids, rows'[k] # None, rows'[k].location = p
          PROVE  k \in RowsOf(p)
      BY <2>1, <2>4, <3>1 DEF RowsOf
    <3> QED
      BY <2>2, <3>1 DEF StoreInv, LocationUnique
  <2> QED
    BY <2>3, <2>4
<1> QED
  BY <1>1, <1>2 DEF StoreInv, LocationUnique

(* next_id.                                                                *)
LEMMA NewKeepsOne ==
  ASSUME StoreInv, NEW write, ApplyNew(write)
  PROVE  StoreInv'
<1> DEFINE fresh == [location |-> None, pane |-> NoItems, session |-> 0]
<1>1. \A k \in Ids : rows'[k] = IF k = NewRowId THEN fresh ELSE rows[k]
  BY DEF ApplyNew, StoreInv, RowsAreIndexed
<1>2. RowsAreIndexed'
  BY DEF ApplyNew, StoreInv, RowsAreIndexed
<1>3. fresh.location \notin Paths
  BY WorkspaceAssumption
<1>4. ASSUME NEW p \in Paths, NEW k \in RowsOf(p)'
      PROVE  k \in RowsOf(p)
  BY <1>1, <1>3, <1>4 DEF RowsOf, Ids
<1> QED
  BY <1>2, <1>4 DEF StoreInv, LocationUnique

LEMMA WrittenKeepsOne == StoreInv /\ Written => StoreInv'
<1> SUFFICES ASSUME StoreInv, Written PROVE StoreInv'
  OBVIOUS
<1>1. CASE ApplySave(Head(queue))
  BY <1>1, SaveKeepsOne
<1>2. CASE ApplyNew(Head(queue))
  BY <1>2, NewKeepsOne
<1>3. CASE ApplyClear(Head(queue))
  BY <1>3 DEF ApplyClear, StoreInv, RowsAreIndexed, LocationUnique, RowsOf
<1>4. CASE UNCHANGED rows
  BY <1>4 DEF StoreInv, RowsAreIndexed, LocationUnique, RowsOf
<1> QED
  BY <1>1, <1>2, <1>3, <1>4 DEF Written, ApplyItem, ApplyCleanup

(* Only the writing thread changes what is stored.                         *)
LEMMA OthersOnlyEnqueue == Next /\ ~Written => UNCHANGED rows
<1> SUFFICES ASSUME Next, ~Written PROVE UNCHANGED rows
  OBVIOUS
<1> USE DEF dbVars
<1>1. CASE Start \/ Crash \/ \E p \in Paths : Reopen(p)
  BY <1>1 DEF Start, Crash, Reopen, Down
<1>2. ASSUME NEW t \in Tasks, CommandStep(t) PROVE UNCHANGED rows
  BY <1>2 DEF CommandStep, CloseProject, CloseWindow, QuitPrepares, QuitAborts, Prepare,
              OpenProject, OpenFile, Quit
<1>3. ASSUME NEW t \in AllTasks, TaskStep(t) PROVE UNCHANGED rows
  <2>1. CASE PrepareToClose(t) \/ RemoveFromSession(t) \/ GiveUp(t)
    BY <2>1 DEF PrepareToClose, Prepare, RemoveFromSession, GiveUp
  <2>2. CASE FoundOpen(t) \/ StartLoad(t) \/ LoadKnown(t) \/ LoadNew(t) \/ IdArrived(t)
    BY <2>2 DEF FoundOpen, StartLoad, LoadKnown, LoadNew, IdArrived, Create
  <2>3. CASE LoadFailed(t) \/ ReadItems(t) \/ RestoreItems(t) \/ RestoreEnd(t)
    BY <2>3 DEF LoadFailed, ReadItems, RestoreItems, RestoreEnd
  <2>4. CASE ReplaceByEmpty(t) \/ RemoveWindow(t) \/ QuitGoesOn(t) \/ QuitEnds(t) \/ FileBuilt(t)
    BY <2>4 DEF ReplaceByEmpty, RemoveWindow, QuitGoesOn, QuitEnds, FileBuilt, Down
  <2> QED
    BY <1>3, <2>1, <2>2, <2>3, <2>4 DEF TaskStep
<1>4. ASSUME NEW i \in Handles, TimerSaves(i) \/ ItemsSent(i) PROVE UNCHANGED rows
  BY <1>4 DEF TimerSaves, ItemsSent
<1>5. ASSUME NEW w \in Windows, ClearRecent(w) \/ TabStep(w) PROVE UNCHANGED rows
  BY <1>5 DEF ClearRecent, TabStep, SelectTab, CloseItem, DragTab, KeepPreview, PaneChanges
<1> QED
  BY <1>1, <1>2, <1>3, <1>4, <1>5 DEF Next

(* A directory is stored once, whatever is open twice, cleared or lost.    *)
THEOREM DirectoryIsStoredOnce == Spec => []LocationUnique
<1>1. StoreInv /\ [Next]_vars => StoreInv'
  <2> SUFFICES ASSUME StoreInv, [Next]_vars PROVE StoreInv'
    OBVIOUS
  <2>1. CASE Written
    BY <2>1, WrittenKeepsOne
  <2>2. CASE UNCHANGED rows
    BY <2>2 DEF StoreInv, RowsAreIndexed, LocationUnique, RowsOf
  <2> QED
    BY <2>1, <2>2, OthersOnlyEnqueue DEF vars, dbVars
<1>2. StoreInv => LocationUnique
  BY DEF StoreInv
<1> QED
  BY InitStore, <1>1, <1>2, PTL DEF Spec
-----------------------------------------------------------------------------
(***************************************************************************)
(* The tabs of a pane.                                                     *)
(***************************************************************************)
LEMMA RemoveAtFacts ==
  ASSUME NEW s \in Seq(Items), NEW i \in 1 .. Len(s)
  PROVE  /\ RemoveAt(s, i) \in Seq(Items)
         /\ Len(RemoveAt(s, i)) = Len(s) - 1
         /\ \A j \in 1 .. Len(s) - 1 :
              RemoveAt(s, i)[j] = IF j < i THEN s[j] ELSE s[j + 1]
<1> DEFINE left == SubSeq(s, 1, i - 1)
           right == SubSeq(s, i + 1, Len(s))
<1>1. left \in Seq(Items) /\ Len(left) = i - 1 /\ \A j \in 1 .. i - 1 : left[j] = s[j]
  OBVIOUS
<1>2. /\ right \in Seq(Items) /\ Len(right) = Len(s) - i
      /\ \A j \in 1 .. Len(s) - i : right[j] = s[i + j]
  OBVIOUS
<1> HIDE DEF left, right
<1>3. /\ left \o right \in Seq(Items)
      /\ Len(left \o right) = Len(left) + Len(right)
      /\ \A j \in 1 .. Len(left) + Len(right) :
           (left \o right)[j] = IF j <= Len(left) THEN left[j] ELSE right[j - Len(left)]
  BY <1>1, <1>2, ConcatProperties
<1>4. Len(left \o right) = Len(s) - 1
  BY <1>1, <1>2, <1>3
<1>5. ASSUME NEW j \in 1 .. Len(s) - 1
      PROVE  (left \o right)[j] = IF j < i THEN s[j] ELSE s[j + 1]
  <2>1. (left \o right)[j] = IF j <= i - 1 THEN left[j] ELSE right[j - (i - 1)]
    BY <1>1, <1>2, <1>3
  <2>2. CASE j < i
    BY <1>1, <2>1, <2>2
  <2>3. CASE ~(j < i)
    <3>1. j - (i - 1) \in 1 .. Len(s) - i /\ i + (j - (i - 1)) = j + 1
      BY <2>3
    <3>2. right[j - (i - 1)] = s[j + 1]
      BY <1>2, <3>1
    <3> QED
      BY <2>1, <2>3, <3>2
  <2> QED
    BY <2>2, <2>3
<1> QED
  BY <1>3, <1>4, <1>5 DEF RemoveAt, left, right

LEMMA InsertAtFacts ==
  ASSUME NEW s \in Seq(Items), NEW i \in 1 .. Len(s) + 1, NEW e \in Items
  PROVE  /\ InsertAt(s, i, e) \in Seq(Items)
         /\ Len(InsertAt(s, i, e)) = Len(s) + 1
         /\ \A j \in 1 .. Len(s) + 1 :
              InsertAt(s, i, e)[j] = IF j < i THEN s[j] ELSE IF j = i THEN e ELSE s[j - 1]
<1> DEFINE left == SubSeq(s, 1, i - 1)
           right == SubSeq(s, i, Len(s))
           most == left \o <<e>>
<1>1. left \in Seq(Items) /\ Len(left) = i - 1 /\ \A j \in 1 .. i - 1 : left[j] = s[j]
  OBVIOUS
<1>2. /\ right \in Seq(Items) /\ Len(right) = Len(s) - i + 1
      /\ \A j \in 1 .. Len(s) - i + 1 : right[j] = s[i + j - 1]
  OBVIOUS
<1> HIDE DEF left, right
<1>3. /\ most \in Seq(Items) /\ Len(most) = i
      /\ \A j \in 1 .. i : most[j] = IF j < i THEN s[j] ELSE e
  BY <1>1
<1> HIDE DEF most
<1>4. /\ most \o right \in Seq(Items)
      /\ Len(most \o right) = Len(s) + 1
      /\ \A j \in 1 .. Len(s) + 1 :
           (most \o right)[j] = IF j <= i THEN most[j] ELSE right[j - i]
  BY <1>2, <1>3, ConcatProperties, SMTT(30)
<1>5. \A j \in 1 .. Len(s) + 1 :
        (most \o right)[j] = IF j < i THEN s[j] ELSE IF j = i THEN e ELSE s[j - 1]
  BY <1>2, <1>3, <1>4
<1> QED
  BY <1>4, <1>5 DEF InsertAt, left, right, most

(* The same for every sequence, place and item. *)
LEMMA InsertedAt ==
  \A s \in Seq(Items) : \A i \in 1 .. Len(s) + 1 : \A e \in Items :
    /\ InsertAt(s, i, e) \in Seq(Items)
    /\ Len(InsertAt(s, i, e)) = Len(s) + 1
    /\ \A j \in 1 .. Len(s) + 1 :
         InsertAt(s, i, e)[j] = IF j < i THEN s[j] ELSE IF j = i THEN e ELSE s[j - 1]
<1> SUFFICES ASSUME NEW s \in Seq(Items), NEW i \in 1 .. Len(s) + 1, NEW e \in Items
             PROVE  /\ InsertAt(s, i, e) \in Seq(Items)
                    /\ Len(InsertAt(s, i, e)) = Len(s) + 1
                    /\ \A j \in 1 .. Len(s) + 1 :
                         InsertAt(s, i, e)[j]
                           = IF j < i THEN s[j] ELSE IF j = i THEN e ELSE s[j - 1]
  OBVIOUS
<1> QED
  BY InsertAtFacts, ZenonT(40)

(* No two tabs of one file, hence no item twice.                           *)
Distinct(items, fileFor) ==
  \A j, k \in 1 .. Len(items) : fileFor[items[j]] = fileFor[items[k]] => j = k

Sound(pane, fileFor) == pane \in PaneState(Items) /\ PaneSound(pane, fileFor)

(* What holds while a preview is replaced: the active index may be past    *)
(* the end.                                                                *)
SoundTabs(pane, fileFor) ==
  /\ pane \in PaneState(Items)
  /\ pane.preview # None => Has(pane, pane.preview)
  /\ Distinct(pane.items, fileFor)

LEMMA SoundHasSoundTabs ==
  ASSUME NEW fileFor, NEW pane, Sound(pane, fileFor)
  PROVE  SoundTabs(pane, fileFor)
BY DEF Sound, PaneSound, SoundTabs, Distinct

LEMMA IndexOfFacts ==
  ASSUME NEW pane \in PaneState(Items), NEW item, Has(pane, item)
  PROVE  /\ IndexOf(pane, item) \in 0 .. Len(pane.items) - 1
         /\ pane.items[IndexOf(pane, item) + 1] = item
<1> DEFINE at == CHOOSE k \in 1 .. Len(pane.items) : pane.items[k] = item
<1>1. at \in 1 .. Len(pane.items) /\ pane.items[at] = item
  BY DEF Has
<1>2. Len(pane.items) \in Nat
  BY DEF PaneState
<1>3. IndexOf(pane, item) = at - 1
  BY DEF IndexOf
<1> HIDE DEF at
<1> QED
  BY <1>1, <1>2, <1>3

(* remove_item.                                                            *)
LEMMA RemoveItemSound ==
  ASSUME NEW fileFor, NEW pane, NEW item, Sound(pane, fileFor)
  PROVE  Sound(RemoveItem(pane, item), fileFor)
<1>1. CASE ~Has(pane, item)
  BY <1>1 DEF RemoveItem
<1>2. CASE Has(pane, item)
  <2> DEFINE items == pane.items
             at == IndexOf(pane, item) + 1
             rest == RemoveAt(items, at)
             next == RemoveItem(pane, item)
  <2>1. items \in Seq(Items) /\ pane.active \in Nat /\ Len(items) \in Nat
    BY DEF Sound, PaneState
  <2>2. at \in 1 .. Len(items) /\ items[at] = item
    BY <1>2, <2>1, IndexOfFacts DEF Sound
  <2>3. /\ rest \in Seq(Items) /\ Len(rest) = Len(items) - 1
        /\ \A j \in 1 .. Len(items) - 1 : rest[j] = IF j < at THEN items[j] ELSE items[j + 1]
    BY <2>1, <2>2, RemoveAtFacts
  <2>4. /\ next.items = rest
        /\ next.active = ActiveAfterRemoval(pane, at - 1)
        /\ next.preview = IF pane.preview = item THEN None ELSE pane.preview
        /\ next = [items |-> next.items, active |-> next.active, preview |-> next.preview]
    BY <1>2, <2>1, <2>2, IndexOfFacts DEF RemoveItem, Sound
  <2>5. pane.active < Len(items) /\ Len(items) - 1 \in Nat
    <3>1. items # <<>> /\ Len(items) - 1 \in Nat
      BY <2>1, <2>2
    <3> QED
      BY <3>1 DEF Sound, PaneSound
  <2> HIDE DEF at, rest, next
  <2>6. /\ next.active \in Nat
        /\ Len(rest) = 0 => next.active = 0
        /\ Len(rest) # 0 => next.active < Len(rest)
    <3>1. CASE Len(items) = 1
      BY <2>3, <2>4, <3>1 DEF ActiveAfterRemoval
    <3>2. CASE Len(items) # 1 /\ at - 1 < pane.active
      BY <2>1, <2>2, <2>3, <2>4, <2>5, <3>2 DEF ActiveAfterRemoval
    <3>3. CASE Len(items) # 1 /\ ~(at - 1 < pane.active)
      <4>1. next.active = LesserOf(pane.active, Len(items) - 2)
        BY <2>4, <3>3 DEF ActiveAfterRemoval
      <4>2. Len(items) - 2 \in Nat
        <5>1. \A n \in Nat : n - 1 \in Nat /\ n # 1 => n - 2 \in Nat
          OBVIOUS
        <5> QED
          BY <2>1, <2>5, <3>3, <5>1, Zenon
      <4>3. next.active = pane.active \/ next.active = Len(items) - 2
        BY <4>1 DEF LesserOf
      <4>4. next.active <= Len(items) - 2
        BY <2>1, <4>1, <4>2 DEF LesserOf
      <4> QED
        BY <2>1, <2>3, <4>2, <4>3, <4>4
    <3> QED
      BY <3>1, <3>2, <3>3
  <2>7. Distinct(rest, fileFor)
    <3>1. Distinct(items, fileFor)
      BY DEF Sound, PaneSound, Distinct
    <3> SUFFICES ASSUME NEW j \in 1 .. Len(rest), NEW k \in 1 .. Len(rest),
                        fileFor[rest[j]] = fileFor[rest[k]]
                 PROVE  j = k
      BY DEF Distinct
    <3> DEFINE before(x) == IF x < at THEN x ELSE x + 1
    <3>2. ASSUME NEW x \in 1 .. Len(rest)
          PROVE  before(x) \in 1 .. Len(items) /\ rest[x] = items[before(x)]
      <4>1. x \in Nat /\ x <= Len(items) - 1 /\ 1 <= x /\ at <= Len(items)
        BY <2>1, <2>2, <2>3
      <4>2. rest[x] = IF x < at THEN items[x] ELSE items[x + 1]
        BY <2>3
      <4> QED
        BY <2>1, <4>1, <4>2
    <3>3. before(j) = before(k)
      <4>1. /\ before(j) \in 1 .. Len(items) /\ rest[j] = items[before(j)]
            /\ before(k) \in 1 .. Len(items) /\ rest[k] = items[before(k)]
        BY <3>2
      <4> QED
        BY <3>1, <4>1 DEF Distinct
    <3> QED
      BY <2>1, <2>2, <2>3, <3>3
  <2>8. next.preview # None => \E k \in 1 .. Len(rest) : rest[k] = next.preview
    <3> SUFFICES ASSUME next.preview # None
                 PROVE  \E k \in 1 .. Len(rest) : rest[k] = next.preview
      OBVIOUS
    <3>1. next.preview = pane.preview /\ pane.preview # item /\ pane.preview # None
      BY <2>4
    <3>2. PICK k \in 1 .. Len(items) : items[k] = pane.preview
      BY <3>1 DEF Sound, PaneSound, Has
    <3>3. k # at
      BY <2>2, <3>1, <3>2
    <3>4. CASE k < at
      <4>1. k \in 1 .. Len(rest) /\ rest[k] = items[k]
        BY <2>1, <2>2, <2>3, <3>2, <3>4
      <4> QED
        BY <3>1, <3>2, <4>1
    <3>5. CASE k > at
      <4>1. k - 1 \in 1 .. Len(rest) /\ rest[k - 1] = items[k]
        BY <2>1, <2>2, <2>3, <3>2, <3>5
      <4> QED
        BY <3>1, <3>2, <4>1
    <3> QED
      BY <2>1, <2>2, <3>2, <3>3, <3>4, <3>5
  <2>9. next \in PaneState(Items)
    BY <2>3, <2>4, <2>6 DEF PaneState, Sound
  <2> QED
    BY <2>3, <2>4, <2>6, <2>7, <2>8, <2>9, SMTT(40) DEF Sound, PaneSound, Distinct, Has, next
<1> QED
  BY <1>1, <1>2

(* add_item of an item that is not there.                                  *)
LEMMA InsertNewSound ==
  ASSUME NEW fileFor, NEW pane, NEW item \in Items, SoundTabs(pane, fileFor),
         NEW at \in 0 .. Len(pane.items), Matching(pane, item, fileFor) = {}
  PROVE  /\ Sound(InsertNew(pane, item, at), fileFor)
         /\ Has(InsertNew(pane, item, at), item)
<1> DEFINE items == pane.items
           place == at + 1
           more == InsertAt(items, place, item)
           next == InsertNew(pane, item, at)
<1>1. items \in Seq(Items) /\ Len(items) \in Nat /\ place \in 1 .. Len(items) + 1
  BY DEF SoundTabs, PaneState
<1> HIDE DEF items, place
<1>2. /\ more \in Seq(Items) /\ Len(more) = Len(items) + 1
      /\ \A j \in 1 .. Len(items) + 1 :
           more[j] = IF j < place THEN items[j] ELSE IF j = place THEN item ELSE items[j - 1]
  BY <1>1, InsertedAt, ZenonT(40)
<1> USE DEF items, place
<1>3. /\ next.items = more /\ next.active = at /\ next.preview = pane.preview
      /\ next \in PaneState(Items)
  BY <1>1, <1>2 DEF InsertNew, SoundTabs, PaneState
<1>4. \A j \in 1 .. Len(items) : fileFor[items[j]] # fileFor[item]
  <2>1. ASSUME NEW j \in 1 .. Len(items), fileFor[items[j]] = fileFor[item]
        PROVE  FALSE
    <3>1. j - 1 \in 0 .. Len(items) - 1 /\ items[(j - 1) + 1] = items[j]
      BY <1>1
    <3> QED
      BY <2>1, <3>1 DEF Matching
  <2> QED
    BY <2>1
<1> HIDE DEF more, next
<1>5. Distinct(more, fileFor)
  <2>1. Distinct(items, fileFor)
    BY DEF SoundTabs
  <2> SUFFICES ASSUME NEW j \in 1 .. Len(more), NEW k \in 1 .. Len(more),
                      fileFor[more[j]] = fileFor[more[k]]
               PROVE  j = k
    BY DEF Distinct
  <2> DEFINE before(x) == IF x < at + 1 THEN x ELSE x - 1
  <2>2. \A x \in 1 .. Len(more) : x # at + 1 =>
          before(x) \in 1 .. Len(items) /\ more[x] = items[before(x)]
    BY <1>1, <1>2
  <2>3. more[at + 1] = item
    BY <1>1, <1>2
  <2>4. CASE j = at + 1 \/ k = at + 1
    BY <1>4, <2>2, <2>3, <2>4
  <2>5. CASE j # at + 1 /\ k # at + 1
    <3>1. before(j) = before(k)
      BY <2>1, <2>2, <2>5 DEF Distinct
    <3> QED
      BY <1>1, <1>2, <2>5, <3>1
  <2> QED
    BY <2>4, <2>5
<1>6. next.preview # None => Has(next, next.preview)
  <2> SUFFICES ASSUME next.preview # None PROVE Has(next, next.preview)
    OBVIOUS
  <2>1. PICK k \in 1 .. Len(items) : items[k] = pane.preview
    BY <1>3 DEF SoundTabs, Has
  <2> DEFINE after == IF k < at + 1 THEN k ELSE k + 1
  <2>2. after \in 1 .. Len(more) /\ more[after] = items[k]
    BY <1>1, <1>2
  <2> QED
    BY <1>3, <2>1, <2>2 DEF Has
<1>7. Has(next, item)
  BY <1>1, <1>2, <1>3 DEF Has
<1>8. next.active < Len(next.items) /\ next.items # <<>>
  BY <1>1, <1>2, <1>3
<1> QED
  BY <1>3, <1>5, <1>6, <1>7, <1>8 DEF Sound, PaneSound, Distinct, next

(* add_item of an item that is there, as a tab that is moved: it is taken  *)
(* out and put back, so that what InsertNew needs holds in between.  In a  *)
(* pane that is restored, another item of its file may be there, and its   *)
(* tab goes.                                                               *)
LEMMA MoveExistingSound ==
  ASSUME NEW fileFor, NEW pane, NEW item \in Items, Sound(pane, fileFor),
         NEW existing \in 0 .. Len(pane.items) - 1,
         fileFor[pane.items[existing + 1]] = fileFor[item],
         pane.preview # None => pane.items[existing + 1] = item,
         NEW at \in Nat, NEW destination
  PROVE  LET next == MoveExisting(pane, item, existing, at, destination)
         IN  /\ Sound(next, fileFor)
             /\ next.preview = pane.preview
             /\ pane.items[existing + 1] = item => Has(next, item)
<1> DEFINE items == pane.items
           index == existing + 1
           left == RemoveAt(items, index)
           place == LesserOf(at, Len(left))
           more == InsertAt(left, place + 1, item)
           next == MoveExisting(pane, item, existing, at, destination)
<1>1. /\ items \in Seq(Items) /\ Len(items) \in Nat /\ pane.active \in Nat
      /\ index \in 1 .. Len(items) /\ fileFor[items[index]] = fileFor[item]
  BY DEF Sound, PaneState
<1>2. CASE existing = at \/ (existing = pane.active /\ destination = None)
  <2>1. next = [pane EXCEPT !.active = existing]
    BY <1>2 DEF MoveExisting
  <2>2. /\ next.items = items /\ next.active = existing /\ next.preview = pane.preview
        /\ next \in PaneState(Items)
    BY <2>1, <1>1 DEF Sound, PaneState
  <2> HIDE DEF next
  <2>3. next.active < Len(items) /\ items # <<>>
    BY <1>1, <2>2
  <2>4. items[index] = item => Has(next, item)
    BY <1>1, <2>2 DEF Has
  <2> QED
    BY <2>2, <2>3, <2>4 DEF Sound, PaneSound, Has, next
<1>3. CASE ~(existing = at \/ (existing = pane.active /\ destination = None))
  <2>1. /\ left \in Seq(Items) /\ Len(left) = Len(items) - 1
        /\ \A j \in 1 .. Len(items) - 1 : left[j] = IF j < index THEN items[j] ELSE items[j + 1]
    <3> HIDE DEF items, index
    <3> QED
      BY <1>1, RemoveAtFacts
  <2> HIDE DEF left
  <2>2. place \in 0 .. Len(left)
    BY <1>1, <2>1 DEF LesserOf
  <2>3. next = [items |-> more, active |-> place, preview |-> pane.preview]
    BY <1>3 DEF MoveExisting, left
  <2> DEFINE spot == place + 1
  <2>4. spot \in 1 .. Len(left) + 1
    BY <1>1, <2>1, <2>2
  <2> HIDE DEF place
  <2>5. /\ more \in Seq(Items) /\ Len(more) = Len(left) + 1
        /\ \A j \in 1 .. Len(left) + 1 :
             more[j] = IF j < spot THEN left[j] ELSE IF j = spot THEN item ELSE left[j - 1]
    <3> HIDE DEF spot
    <3>1. /\ InsertAt(left, spot, item) \in Seq(Items)
          /\ Len(InsertAt(left, spot, item)) = Len(left) + 1
          /\ \A j \in 1 .. Len(left) + 1 :
               InsertAt(left, spot, item)[j]
                 = IF j < spot THEN left[j] ELSE IF j = spot THEN item ELSE left[j - 1]
      <4>1. left \in Seq(Items)
        BY <2>1
      <4> QED
        BY <2>4, <4>1, InsertedAt, ZenonT(40)
    <3>2. more = InsertAt(left, spot, item)
      BY DEF spot
    <3> HIDE DEF more
    <3> QED
      BY <3>1, <3>2, Zenon
  <2> HIDE DEF more, spot
  <2> DEFINE toLeft(x) == IF x < spot THEN x ELSE x - 1
             from(x) == IF x = spot THEN index
                        ELSE IF toLeft(x) < index THEN toLeft(x) ELSE toLeft(x) + 1
  <2>6. \A x \in 1 .. Len(more) :
          from(x) \in 1 .. Len(items) /\ more[x] = IF x = spot THEN item ELSE items[from(x)]
    <3> SUFFICES ASSUME NEW x \in 1 .. Len(more)
                 PROVE  /\ from(x) \in 1 .. Len(items)
                        /\ more[x] = IF x = spot THEN item ELSE items[from(x)]
      OBVIOUS
    <3>1. x \in 1 .. Len(items)
      BY <2>1, <2>5
    <3>2. CASE x = spot
      <4>1. more[x] = item /\ from(x) = index
        BY <2>5, <3>1, <3>2
      <4> QED
        BY <1>1, <2>1, <3>2, <4>1
    <3>3. CASE x # spot
      <4>1. more[x] = left[toLeft(x)] /\ toLeft(x) \in 1 .. Len(items) - 1
        BY <1>1, <2>1, <2>4, <2>5, <3>1, <3>3
      <4> HIDE DEF toLeft
      <4>2. CASE toLeft(x) < index
        BY <1>1, <2>1, <3>3, <4>1, <4>2, SMTT(40)
      <4>3. CASE ~(toLeft(x) < index)
        BY <1>1, <2>1, <3>3, <4>1, <4>3
      <4> QED
        BY <4>2, <4>3
    <3> QED
      BY <3>2, <3>3
  <2>7. \A x, y \in 1 .. Len(more) : from(x) = from(y) => x = y
    BY <1>1, <2>1, <2>4, <2>5
  <2>8. items[index] = item =>
          \A k \in 1 .. Len(items) : \E x \in 1 .. Len(more) : more[x] = items[k]
    <3> SUFFICES ASSUME items[index] = item, NEW k \in 1 .. Len(items)
                 PROVE  \E x \in 1 .. Len(more) : more[x] = items[k]
      OBVIOUS
    <3> DEFINE kept == IF k < index THEN k ELSE k - 1
               x == IF k = index THEN spot ELSE IF kept < spot THEN kept ELSE kept + 1
    <3>1. x \in 1 .. Len(more) /\ from(x) = k
      BY <1>1, <2>1, <2>4, <2>5
    <3>2. more[x] = items[k]
      BY <2>6, <3>1
    <3> QED
      BY <3>1, <3>2
  <2>9. Distinct(more, fileFor)
    <3>1. Distinct(items, fileFor)
      BY DEF Sound, PaneSound, Distinct
    <3>2. \A x \in 1 .. Len(more) :
            from(x) \in 1 .. Len(items) /\ fileFor[more[x]] = fileFor[items[from(x)]]
      <4> SUFFICES ASSUME NEW x \in 1 .. Len(more)
                   PROVE  /\ from(x) \in 1 .. Len(items)
                          /\ fileFor[more[x]] = fileFor[items[from(x)]]
        OBVIOUS
      <4>1. /\ from(x) \in 1 .. Len(items)
            /\ more[x] = IF x = spot THEN item ELSE items[from(x)]
        BY <2>6
      <4>2. x = spot => from(x) = index
        OBVIOUS
      <4> HIDE DEF from
      <4> QED
        BY <1>1, <4>1, <4>2
    <3> HIDE DEF from
    <3> SUFFICES ASSUME NEW j \in 1 .. Len(more), NEW k \in 1 .. Len(more),
                        fileFor[more[j]] = fileFor[more[k]]
                 PROVE  j = k
      BY DEF Distinct
    <3>3. from(j) = from(k)
      BY <3>1, <3>2, SMTT(40) DEF Distinct
    <3> QED
      BY <2>7, <3>3
  <2> HIDE DEF from
  <2>10. /\ next.items = more /\ next.active = place /\ next.preview = pane.preview
         /\ next \in PaneState(Items)
    BY <2>2, <2>3, <2>5 DEF Sound, PaneState
  <2> HIDE DEF next
  <2>11. next.active < Len(more) /\ more # <<>>
    BY <2>1, <2>2, <2>5, <2>10
  <2>12. items[index] = item => Has(next, item)
    BY <1>1, <2>8, <2>10 DEF Has
  <2>13. next.preview # None => Has(next, next.preview)
    BY <2>8, <2>10 DEF Sound, PaneSound, Has
  <2> QED
    BY <2>9, <2>10, <2>11, <2>12, <2>13 DEF Sound, PaneSound, Distinct, next
<1> QED
  BY <1>2, <1>3

(* add_item: the item is new to the pane, or one of its tabs.              *)
LEMMA AddItemSound ==
  ASSUME NEW fileFor, NEW pane, NEW item \in Items, Sound(pane, fileFor),
         NEW destination \in Nat \cup {None},
         Has(pane, item) \/ Matching(pane, item, fileFor) = {}
  PROVE  /\ Sound(AddItem(pane, item, fileFor, destination), fileFor)
         /\ Has(AddItem(pane, item, fileFor, destination), item)
<1> DEFINE insertion == LesserOf(IF destination = None THEN pane.active + 1 ELSE destination,
                                 Len(pane.items))
           matching == Matching(pane, item, fileFor)
           first == CHOOSE k \in matching : \A m \in matching : k <= m
<1>1. Len(pane.items) \in Nat /\ pane.active \in Nat
  BY DEF Sound, PaneState
<1>2. insertion \in 0 .. Len(pane.items)
  BY <1>1 DEF LesserOf
<1>3. CASE matching = {}
  BY <1>2, <1>3, InsertNewSound, SoundHasSoundTabs DEF AddItem
<1>4. CASE matching # {}
  <2>1. PICK k \in 1 .. Len(pane.items) : pane.items[k] = item
    BY <1>4 DEF Has
  <2>2. \A m \in matching : m = k - 1
    <3> SUFFICES ASSUME NEW m \in matching PROVE m = k - 1
      OBVIOUS
    <3>1. m \in 0 .. Len(pane.items) - 1 /\ fileFor[pane.items[m + 1]] = fileFor[item]
      BY DEF Matching
    <3>2. m + 1 \in 1 .. Len(pane.items)
      BY <1>1, <3>1
    <3>3. m + 1 = k
      BY <2>1, <3>1, <3>2 DEF Sound, PaneSound
    <3> QED
      BY <3>1, <3>3
  <2>3. k - 1 \in 0 .. Len(pane.items) - 1 /\ pane.items[(k - 1) + 1] = item
    BY <1>1, <2>1
  <2>4. first = k - 1
    <3>1. matching = {k - 1}
      BY <1>4, <2>2
    <3>2. k - 1 <= k - 1
      BY <2>3
    <3> QED
      BY <3>1, <3>2
  <2>5. AddItem(pane, item, fileFor, destination)
          = MoveExisting(pane, item, k - 1, insertion, destination)
    BY <1>4, <2>4 DEF AddItem
  <2>6. insertion \in Nat
    BY <1>1, <1>2
  <2> HIDE DEF insertion
  <2> DEFINE moved == MoveExisting(pane, item, k - 1, insertion, destination)
  <2>7. Sound(moved, fileFor) /\ Has(moved, item)
    BY <2>3, <2>6, MoveExistingSound
  <2> QED
    BY <2>5, <2>7
<1> QED
  BY <1>3, <1>4

(* The tabs that remain were there.                                        *)
LEMMA RemoveItemKeeps ==
  ASSUME NEW fileFor, NEW pane, NEW item, Sound(pane, fileFor), Has(pane, item),
         NEW k \in 1 .. Len(RemoveItem(pane, item).items)
  PROVE  \E m \in 1 .. Len(pane.items) : RemoveItem(pane, item).items[k] = pane.items[m]
<1> DEFINE items == pane.items
           at == IndexOf(pane, item) + 1
           rest == RemoveAt(items, at)
<1>1. items \in Seq(Items) /\ Len(items) \in Nat /\ at \in 1 .. Len(items)
  BY IndexOfFacts DEF Sound, PaneState
<1>2. /\ Len(rest) = Len(items) - 1
      /\ \A j \in 1 .. Len(items) - 1 : rest[j] = IF j < at THEN items[j] ELSE items[j + 1]
  BY <1>1, RemoveAtFacts
<1>3. RemoveItem(pane, item).items = rest
  BY DEF RemoveItem
<1> HIDE DEF at, rest
<1>4. k \in 1 .. Len(items) - 1
  BY <1>2, <1>3
<1> DEFINE m == IF k < at THEN k ELSE k + 1
<1>5. m \in 1 .. Len(items) /\ rest[k] = items[m]
  BY <1>1, <1>2, <1>4
<1> QED
  BY <1>3, <1>5

LEMMA NoneMatches ==
  ASSUME NEW fileFor, NEW pane, NEW item, pane.items \in Seq(Items),
         \A k \in 1 .. Len(pane.items) : fileFor[pane.items[k]] # fileFor[item]
  PROVE  Matching(pane, item, fileFor) = {}
<1> SUFFICES ASSUME NEW k \in Matching(pane, item, fileFor) PROVE FALSE
  OBVIOUS
<1>1. /\ k \in 0 .. Len(pane.items) - 1
      /\ fileFor[pane.items[k + 1]] = fileFor[item]
  BY DEF Matching
<1>2. k + 1 \in 1 .. Len(pane.items)
  BY <1>1
<1> QED
  BY <1>1, <1>2

(* close_current_preview_item.                                             *)
LEMMA ClosePreviewSound ==
  ASSUME NEW fileFor, NEW pane, NEW item \in Items, Sound(pane, fileFor),
         \A k \in 1 .. Len(pane.items) : fileFor[pane.items[k]] # fileFor[item]
  PROVE  /\ SoundTabs(ClosePreview(pane).pane, fileFor)
         /\ ClosePreview(pane).destination \in Nat \cup {None}
         /\ Matching(ClosePreview(pane).pane, item, fileFor) = {}
<1>1. CASE Preview(pane) = None
  <2>1. ClosePreview(pane) = [pane |-> pane, destination |-> None]
    BY <1>1 DEF ClosePreview
  <2>2. pane.items \in Seq(Items)
    BY DEF Sound, PaneState
  <2> QED
    BY <2>1, <2>2, SoundHasSoundTabs, NoneMatches
<1>2. CASE Preview(pane) # None
  <2> DEFINE index == IndexOf(pane, pane.preview)
             removed == RemoveItem(pane, pane.preview)
             back == IF index < pane.active THEN pane.active - 1 ELSE pane.active
             closed == [removed EXCEPT !.active = back]
  <2>1. pane.preview # None /\ Has(pane, pane.preview)
    BY <1>2 DEF Preview
  <2>2. Sound(removed, fileFor)
    BY RemoveItemSound
  <2>3. index \in 0 .. Len(pane.items) - 1 /\ pane.active \in Nat /\ Len(pane.items) \in Nat
    BY <2>1, IndexOfFacts DEF Sound, PaneState
  <2>4. back \in Nat /\ index \in Nat
    <3> HIDE DEF index
    <3> QED
      BY <2>3
  <2>5. /\ ClosePreview(pane).pane = closed
        /\ ClosePreview(pane).destination \in {index, None}
    BY <1>2 DEF ClosePreview
  <2>6. \A k \in 1 .. Len(removed.items) : fileFor[removed.items[k]] # fileFor[item]
    BY <2>1, RemoveItemKeeps
  <2> HIDE DEF index, removed, back
  <2>7. /\ closed.items = removed.items /\ closed.preview = removed.preview
        /\ closed \in PaneState(Items) /\ closed.items \in Seq(Items)
    BY <2>2, <2>4 DEF Sound, PaneState
  <2>8. SoundTabs(closed, fileFor)
    BY <2>2, <2>7, SoundHasSoundTabs DEF SoundTabs, Has
  <2>9. Matching(closed, item, fileFor) = {}
    BY <2>6, <2>7, NoneMatches
  <2> QED
    BY <2>4, <2>5, <2>8, <2>9
<1> QED
  BY <1>1, <1>2

(* open_item of a file that no item shows.                                 *)
LEMMA OpenNewSound ==
  ASSUME NEW fileFor, NEW pane, NEW item \in Items, Sound(pane, fileFor),
         NEW allowPreview \in BOOLEAN,
         \A k \in 1 .. Len(pane.items) : fileFor[pane.items[k]] # fileFor[item]
  PROVE  Sound(OpenNew(pane, item, fileFor, allowPreview), fileFor)
<1>1. CASE ~allowPreview
  <2>1. Matching(pane, item, fileFor) = {}
    BY NoneMatches DEF Sound, PaneState
  <2> QED
    BY <1>1, <2>1, AddItemSound DEF OpenNew
<1>2. CASE allowPreview
  <2> DEFINE closed == ClosePreview(pane).pane
             destination == ClosePreview(pane).destination
             insertion == LesserOf(IF destination = None THEN closed.active + 1 ELSE destination,
                                   Len(closed.items))
             added == InsertNew(closed, item, insertion)
  <2>1. /\ SoundTabs(closed, fileFor) /\ destination \in Nat \cup {None}
        /\ Matching(closed, item, fileFor) = {}
    BY ClosePreviewSound
  <2> HIDE DEF closed, destination
  <2>2. insertion \in 0 .. Len(closed.items)
    <3>1. Len(closed.items) \in Nat /\ closed.active \in Nat
      BY <2>1 DEF SoundTabs, PaneState
    <3> QED
      BY <2>1, <3>1, PaneAssumption DEF LesserOf
  <2>3. AddItem(closed, item, fileFor, destination) = added
    BY <2>1 DEF AddItem
  <2> HIDE DEF insertion
  <2>4. Sound(added, fileFor) /\ Has(added, item)
    BY <2>1, <2>2, InsertNewSound
  <2>5. OpenNew(pane, item, fileFor, allowPreview) = [added EXCEPT !.preview = item]
    BY <1>2, <2>3 DEF OpenNew, closed, destination
  <2> HIDE DEF added
  <2> DEFINE next == [added EXCEPT !.preview = item]
  <2>6. /\ next.items = added.items /\ next.active = added.active /\ next.preview = item
        /\ next \in PaneState(Items)
    BY <2>4 DEF Sound, PaneState
  <2> HIDE DEF next
  <2>7. Sound(next, fileFor)
    BY <2>4, <2>6 DEF Sound, PaneSound, Has
  <2> QED
    BY <2>5, <2>7 DEF next
<1> QED
  BY <1>1, <1>2

LEMMA ActivateItemSound ==
  ASSUME NEW fileFor, NEW pane, NEW index \in Nat, Sound(pane, fileFor)
  PROVE  Sound(ActivateItem(pane, index), fileFor)
<1>1. CASE index < Len(pane.items)
  <2> DEFINE next == [pane EXCEPT !.active = index]
  <2>1. /\ next.items = pane.items /\ next.active = index /\ next.preview = pane.preview
        /\ next \in PaneState(Items)
    BY DEF Sound, PaneState
  <2> HIDE DEF next
  <2>2. pane.items # <<>>
    BY <1>1
  <2>3. Sound(next, fileFor)
    BY <1>1, <2>1, <2>2 DEF Sound, PaneSound, Has
  <2> QED
    BY <1>1, <2>3 DEF ActivateItem, next
<1>2. CASE ~(index < Len(pane.items))
  BY <1>2 DEF ActivateItem
<1> QED
  BY <1>1, <1>2

LEMMA UnpreviewItemSound ==
  ASSUME NEW fileFor, NEW pane, NEW item, Sound(pane, fileFor)
  PROVE  /\ Sound(UnpreviewItem(pane, item), fileFor)
         /\ UnpreviewItem(pane, item).items = pane.items
<1> DEFINE preview == IF pane.preview = item THEN None ELSE pane.preview
           next == [pane EXCEPT !.preview = preview]
<1>1. next = UnpreviewItem(pane, item)
  BY DEF UnpreviewItem
<1>2. /\ next.items = pane.items /\ next.active = pane.active /\ next.preview = preview
      /\ next \in PaneState(Items)
  BY DEF Sound, PaneState
<1> HIDE DEF next
<1>3. Sound(next, fileFor)
  BY <1>2 DEF Sound, PaneSound, Has
<1> QED
  BY <1>1, <1>2, <1>3

(* Whatever is done with its tabs, a pane has one tab per file, an active  *)
(* index within its tabs and a preview that is one of them: removing a     *)
(* tab, selecting one, keeping the preview, moving a tab, and opening a    *)
(* file, with its tab or without, as preview or not (pane.rs).             *)
THEOREM PaneStaysSound ==
  ASSUME NEW fileFor, NEW pane, NEW item \in Items, NEW index \in Nat,
         NEW allowPreview \in BOOLEAN, Sound(pane, fileFor)
  PROVE  /\ Sound(RemoveItem(pane, item), fileFor)
         /\ Sound(ActivateItem(pane, index), fileFor)
         /\ Sound(UnpreviewItem(pane, item), fileFor)
         /\ Has(pane, item) => /\ Sound(MoveTab(pane, item, fileFor, index), fileFor)
                               /\ Sound(OpenExisting(pane, item, allowPreview), fileFor)
         /\ (\A k \in 1 .. Len(pane.items) : fileFor[pane.items[k]] # fileFor[item])
              => Sound(OpenNew(pane, item, fileFor, allowPreview), fileFor)
<1>1. ASSUME Has(pane, item)
      PROVE  Sound(MoveTab(pane, item, fileFor, index), fileFor)
  <2> DEFINE kept == UnpreviewItem(pane, item)
  <2>1. Sound(kept, fileFor) /\ kept.items = pane.items
    BY UnpreviewItemSound
  <2>2. Has(kept, item)
    BY <1>1, <2>1 DEF Has
  <2> HIDE DEF kept
  <2>3. Sound(AddItem(kept, item, fileFor, index), fileFor)
    BY <2>1, <2>2, AddItemSound
  <2> QED
    BY <2>3 DEF MoveTab, kept
<1>2. ASSUME Has(pane, item)
      PROVE  Sound(OpenExisting(pane, item, allowPreview), fileFor)
  <2> DEFINE kept == IF allowPreview THEN pane ELSE UnpreviewItem(pane, item)
  <2>1. Sound(kept, fileFor)
    BY UnpreviewItemSound
  <2>2. IndexOf(pane, item) \in Nat
    BY <1>2, IndexOfFacts DEF Sound, PaneState
  <2> HIDE DEF kept
  <2>3. Sound(ActivateItem(kept, IndexOf(pane, item)), fileFor)
    BY <2>1, <2>2, ActivateItemSound
  <2> QED
    BY <2>3 DEF OpenExisting, kept
<1> QED
  BY <1>1, <1>2, RemoveItemSound, ActivateItemSound, UnpreviewItemSound, OpenNewSound
-----------------------------------------------------------------------------
(***************************************************************************)
(* A pane that is restored: its items are added one after the other.  The  *)
(* induction is over the stored places: a set of numbers that holds 0 and  *)
(* the successor of each of its members holds all, by the least initial    *)
(* segment that would be missing.                                          *)
(***************************************************************************)
LEMMA SetInduction ==
  ASSUME NEW S, 0 \in S, \A n \in Nat : n \in S => n + 1 \in S
  PROVE  Nat \subseteq S
<1> SUFFICES ASSUME Nat \ S # {} PROVE FALSE
  OBVIOUS
<1> DEFINE segments == {0 .. n : n \in Nat \ S}
<1>1. \E X \in segments :
        \A Y \in segments : ~(<<Y, X>> \in StrictSubsetOrdering(Nat))
  <2>1. \A X \in segments : X \in SUBSET Nat /\ IsFiniteSet(X)
    <3>1. ASSUME NEW n \in Nat PROVE (0 .. n) \in SUBSET Nat /\ IsFiniteSet(0 .. n)
      BY FS_Interval
    <3> QED
      BY <3>1
  <2>2. segments \subseteq FiniteSubsetsOf(Nat)
    BY <2>1 DEF FiniteSubsetsOf
  <2>3. segments # {}
    OBVIOUS
  <2> HIDE DEF segments
  <2>4. IsWellFoundedOn(StrictSubsetOrdering(Nat), FiniteSubsetsOf(Nat))
    BY FS_StrictSubsetOrderingWellFounded
  <2> QED
    BY <2>2, <2>3, <2>4, WFMin
<1>2. PICK x \in Nat \ S :
        \A y \in Nat \ S : ~(<<0 .. y, 0 .. x>> \in StrictSubsetOrdering(Nat))
  BY <1>1
<1>3. x # 0 /\ x - 1 \in Nat
  OBVIOUS
<1>4. <<0 .. x - 1, 0 .. x>> \in StrictSubsetOrdering(Nat)
  <2>1. (0 .. x - 1) \subseteq (0 .. x) /\ (0 .. x - 1) # (0 .. x) /\ (0 .. x) \subseteq Nat
    BY <1>3
  <2> QED
    BY <2>1 DEF StrictSubsetOrdering
<1>5. x - 1 \in S
  BY <1>2, <1>3, <1>4
<1>6. (x - 1) + 1 \in S
  BY <1>3, <1>5
<1> QED
  BY <1>6

LEMMA LeastOf ==
  ASSUME NEW M \in SUBSET Nat, M # {}
  PROVE  \E k \in M : \A m \in M : k <= m
<1> SUFFICES ASSUME ~\E k \in M : \A m \in M : k <= m PROVE FALSE
  OBVIOUS
<1> DEFINE S == {n \in Nat : \A m \in M : n <= m}
<1>1. 0 \in S
  OBVIOUS
<1>2. ASSUME NEW n \in Nat, n \in S PROVE n + 1 \in S
  <2>1. n \notin M
    BY <1>2
  <2>2. \A m \in M : n + 1 <= m
    BY <1>2, <2>1
  <2> QED
    BY <2>2
<1>3. Nat \subseteq S
  <2> HIDE DEF S
  <2> QED
    BY <1>1, <1>2, SetInduction
<1>4. PICK m \in M : TRUE
  OBVIOUS
<1> QED
  BY <1>3, <1>4

Tabs(pane) == {pane.items[k] : k \in 1 .. Len(pane.items)}

(* The tabs after an item is added: those before and the item.             *)
LEMMA RemoveAtFrom ==
  ASSUME NEW s \in Seq(Items), NEW i \in 1 .. Len(s), NEW k \in 1 .. Len(RemoveAt(s, i))
  PROVE  \E m \in 1 .. Len(s) : RemoveAt(s, i)[k] = s[m]
<1> DEFINE rest == RemoveAt(s, i)
           m == IF k < i THEN k ELSE k + 1
<1>1. /\ Len(rest) = Len(s) - 1
      /\ \A j \in 1 .. Len(s) - 1 : rest[j] = IF j < i THEN s[j] ELSE s[j + 1]
  BY RemoveAtFacts
<1> HIDE DEF rest
<1>2. Len(s) \in Nat /\ k \in 1 .. Len(s) - 1
  BY <1>1 DEF rest
<1>3. m \in 1 .. Len(s) /\ rest[k] = s[m]
  BY <1>1, <1>2
<1> QED
  BY <1>3 DEF rest

LEMMA InsertAtFrom ==
  ASSUME NEW s \in Seq(Items), NEW i \in 1 .. Len(s) + 1, NEW e \in Items,
         NEW k \in 1 .. Len(InsertAt(s, i, e))
  PROVE  InsertAt(s, i, e)[k] = e \/ \E m \in 1 .. Len(s) : InsertAt(s, i, e)[k] = s[m]
<1> DEFINE more == InsertAt(s, i, e)
           m == IF k < i THEN k ELSE k - 1
<1>1. /\ Len(more) = Len(s) + 1
      /\ \A j \in 1 .. Len(s) + 1 :
           more[j] = IF j < i THEN s[j] ELSE IF j = i THEN e ELSE s[j - 1]
  BY InsertAtFacts
<1> HIDE DEF more
<1>2. Len(s) \in Nat /\ k \in 1 .. Len(s) + 1
  BY <1>1 DEF more
<1>3. k = i \/ (m \in 1 .. Len(s) /\ more[k] = s[m])
  BY <1>1, <1>2
<1>4. k = i => more[k] = e
  BY <1>1, <1>2
<1> QED
  BY <1>3, <1>4 DEF more

LEMMA AddItemFrom ==
  ASSUME NEW fileFor, NEW pane \in PaneState(Items), NEW item \in Items,
         NEW destination \in Nat \cup {None}
  PROVE  Tabs(AddItem(pane, item, fileFor, destination)) \subseteq Tabs(pane) \cup {item}
<1> DEFINE items == pane.items
           insertion == LesserOf(IF destination = None THEN pane.active + 1 ELSE destination,
                                 Len(items))
           matching == Matching(pane, item, fileFor)
           first == CHOOSE k \in matching : \A m \in matching : k <= m
           next == AddItem(pane, item, fileFor, destination)
<1>1. items \in Seq(Items) /\ Len(items) \in Nat /\ pane.active \in Nat
  BY DEF PaneState
<1>2. insertion \in 0 .. Len(items)
  BY <1>1 DEF LesserOf
<1>3. CASE matching = {}
  <2>1. next = InsertNew(pane, item, insertion)
    BY <1>3 DEF AddItem
  <2>2. insertion + 1 \in 1 .. Len(items) + 1
    BY <1>1, <1>2
  <2> HIDE DEF insertion
  <2>3. next.items = InsertAt(items, insertion + 1, item)
    BY <2>1 DEF InsertNew
  <2>4. \A k \in 1 .. Len(next.items) :
          next.items[k] = item \/ \E m \in 1 .. Len(items) : next.items[k] = items[m]
    BY <1>1, <2>2, <2>3, InsertAtFrom
  <2> QED
    BY <2>4 DEF Tabs
<1>4. CASE matching # {}
  <2>1. next = MoveExisting(pane, item, first, insertion, destination)
    BY <1>4 DEF AddItem
  <2>2. \A k \in matching : k \in 0 .. Len(items) - 1
    BY DEF Matching
  <2>3. first \in matching
    <3>1. matching \in SUBSET Nat
      BY <1>1, <2>2
    <3> HIDE DEF matching
    <3>2. \E k \in matching : \A m \in matching : k <= m
      BY <1>4, <3>1, LeastOf
    <3> QED
      BY <3>2
  <2>4. first + 1 \in 1 .. Len(items)
    BY <1>1, <2>2, <2>3
  <2> HIDE DEF insertion, first
  <2>5. CASE first = insertion \/ (first = pane.active /\ destination = None)
    <3>1. next.items = items
      BY <2>1, <2>5 DEF MoveExisting, PaneState
    <3> QED
      BY <3>1 DEF Tabs
  <2>6. CASE ~(first = insertion \/ (first = pane.active /\ destination = None))
    <3> DEFINE left == RemoveAt(items, first + 1)
               place == LesserOf(insertion, Len(left))
    <3>1. left \in Seq(Items) /\ Len(left) \in Nat
      BY <1>1, <2>4, RemoveAtFacts
    <3>2. next.items = InsertAt(left, place + 1, item)
      BY <2>1, <2>6 DEF MoveExisting
    <3>3. \A k \in 1 .. Len(left) : \E m \in 1 .. Len(items) : left[k] = items[m]
      BY <1>1, <2>4, RemoveAtFrom
    <3> HIDE DEF left
    <3>4. place + 1 \in 1 .. Len(left) + 1
      BY <1>2, <3>1 DEF LesserOf
    <3> HIDE DEF place
    <3>5. \A k \in 1 .. Len(next.items) :
            next.items[k] = item \/ \E m \in 1 .. Len(left) : next.items[k] = left[m]
      BY <3>1, <3>2, <3>4, InsertAtFrom
    <3> QED
      BY <3>3, <3>5 DEF Tabs
  <2> QED
    BY <2>5, <2>6
<1> QED
  BY <1>3, <1>4
(* add_item in a pane without a preview: another item of the file may be   *)
(* there.                                                                  *)
LEMMA AddItemRestores ==
  ASSUME NEW fileFor, NEW pane, NEW item \in Items, Sound(pane, fileFor), pane.preview = None
  PROVE  /\ Sound(AddItem(pane, item, fileFor, None), fileFor)
         /\ AddItem(pane, item, fileFor, None).preview = None
<1> DEFINE items == pane.items
           insertion == LesserOf(pane.active + 1, Len(items))
           matching == Matching(pane, item, fileFor)
           first == CHOOSE k \in matching : \A m \in matching : k <= m
           next == AddItem(pane, item, fileFor, None)
<1>1. items \in Seq(Items) /\ Len(items) \in Nat /\ pane.active \in Nat
  BY DEF Sound, PaneState
<1>2. insertion \in 0 .. Len(items)
  BY <1>1 DEF LesserOf
<1>3. CASE matching = {}
  <2>1. next = InsertNew(pane, item, insertion)
    BY <1>3 DEF AddItem
  <2>2. next.preview = None
    BY <2>1 DEF InsertNew
  <2> HIDE DEF insertion
  <2>3. Sound(InsertNew(pane, item, insertion), fileFor)
    BY <1>2, <1>3, InsertNewSound, SoundHasSoundTabs
  <2> QED
    BY <2>1, <2>2, <2>3
<1>4. CASE matching # {}
  <2>1. next = MoveExisting(pane, item, first, insertion, None)
    BY <1>4 DEF AddItem
  <2>2. \A k \in matching : /\ k \in 0 .. Len(items) - 1
                            /\ fileFor[items[k + 1]] = fileFor[item]
    BY DEF Matching
  <2>3. first \in matching
    <3>1. matching \in SUBSET Nat
      BY <1>1, <2>2
    <3> HIDE DEF matching
    <3>2. \E k \in matching : \A m \in matching : k <= m
      BY <1>4, <3>1, LeastOf
    <3> QED
      BY <3>2
  <2>4. first \in 0 .. Len(items) - 1 /\ fileFor[items[first + 1]] = fileFor[item]
    BY <2>2, <2>3
  <2>5. insertion \in Nat
    BY <1>1, <1>2
  <2> HIDE DEF insertion, first
  <2> DEFINE moved == MoveExisting(pane, item, first, insertion, None)
  <2>6. pane.preview # None => pane.items[first + 1] = item
    OBVIOUS
  <2>7. Sound(moved, fileFor) /\ moved.preview = pane.preview
    BY <2>4, <2>5, <2>6, MoveExistingSound
  <2> QED
    BY <2>1, <2>7
<1> QED
  BY <1>3, <1>4

(* Added is the last of the panes that its recursion defines.              *)
AddedBy(count, ids, fileFor, f) ==
  f = [k \in 0 .. count |->
         IF k = 0 THEN EmptyPane
         ELSE IF k \in DOMAIN ids THEN AddItem(f[k - 1], ids[k], fileFor, None)
         ELSE f[k - 1]]

LEMMA AddedExists ==
  ASSUME NEW fileFor, NEW ids, NEW count \in Nat
  PROVE  \E f : AddedBy(count, ids, fileFor, f)
<1> DEFINE S == {n \in Nat : \E f : AddedBy(n, ids, fileFor, f)}
<1>1. 0 \in S
  <2> DEFINE f == [k \in 0 .. 0 |-> EmptyPane]
  <2>1. AddedBy(0, ids, fileFor, f)
    BY DEF AddedBy
  <2> QED
    BY <2>1
<1>2. ASSUME NEW n \in Nat, n \in S PROVE n + 1 \in S
  <2>1. PICK f : AddedBy(n, ids, fileFor, f)
    BY <1>2
  <2> DEFINE next == IF n + 1 \in DOMAIN ids THEN AddItem(f[n], ids[n + 1], fileFor, None)
                     ELSE f[n]
             g == [k \in 0 .. n + 1 |-> IF k = n + 1 THEN next ELSE f[k]]
  <2>2. ASSUME NEW k \in 0 .. n + 1
        PROVE  g[k] = IF k = 0 THEN EmptyPane
                      ELSE IF k \in DOMAIN ids THEN AddItem(g[k - 1], ids[k], fileFor, None)
                      ELSE g[k - 1]
    <3>1. CASE k = n + 1
      <4>1. g[k] = next /\ k # 0
        BY <3>1
      <4>2. g[k - 1] = f[n]
        BY <3>1
      <4> HIDE DEF g
      <4> QED
        BY <3>1, <4>1, <4>2
    <3>2. CASE k = 0
      <4>1. f[0] = EmptyPane
        BY <2>1 DEF AddedBy
      <4>2. g[0] = f[0]
        OBVIOUS
      <4> QED
        BY <3>2, <4>1, <4>2
    <3>3. CASE k # n + 1 /\ k # 0
      <4>1. k \in 0 .. n /\ k - 1 \in 0 .. n
        BY <3>3
      <4>2. g[k] = f[k] /\ g[k - 1] = f[k - 1]
        BY <3>3, <4>1
      <4>3. f[k] = IF k \in DOMAIN ids THEN AddItem(f[k - 1], ids[k], fileFor, None)
                   ELSE f[k - 1]
        BY <2>1, <3>3, <4>1 DEF AddedBy
      <4> HIDE DEF g
      <4> QED
        BY <3>3, <4>2, <4>3
    <3> QED
      BY <3>1, <3>2, <3>3
  <2>3. AddedBy(n + 1, ids, fileFor, g)
    <3>1. g = [k \in 0 .. n + 1 |-> g[k]]
      OBVIOUS
    <3> HIDE DEF g
    <3> QED
      BY <2>2, <3>1 DEF AddedBy
  <2> QED
    BY <2>3
<1>3. Nat \subseteq S
  <2> HIDE DEF S
  <2> QED
    BY <1>1, <1>2, SetInduction
<1> QED
  BY <1>3

(* The restored pane is sound, and its tabs are the items opened for it.   *)
LEMMA AddedSound ==
  ASSUME NEW fileFor, NEW ids, NEW count \in Nat, \A k \in DOMAIN ids : ids[k] \in Items
  PROVE  /\ Sound(Added(count, ids, fileFor), fileFor)
         /\ Added(count, ids, fileFor).preview = None
         /\ \A n \in Tabs(Added(count, ids, fileFor)) : \E k \in DOMAIN ids : ids[k] = n
<1> DEFINE f == CHOOSE f : AddedBy(count, ids, fileFor, f)
<1>1. AddedBy(count, ids, fileFor, f)
  BY AddedExists
<1>2. Added(count, ids, fileFor) = f[count]
  BY DEF Added, AddedBy
<1> HIDE DEF f
<1> DEFINE Good(pane) == /\ Sound(pane, fileFor) /\ pane.preview = None
                         /\ \A n \in Tabs(pane) : \E k \in DOMAIN ids : ids[k] = n
           S == {n \in Nat : n <= count => Good(f[n])}
<1>3. 0 \in S
  <2>1. f[0] = EmptyPane
    BY <1>1 DEF AddedBy
  <2>2. EmptyPane.items = <<>> /\ EmptyPane.active = 0 /\ EmptyPane.preview = None
    BY DEF EmptyPane
  <2>3. EmptyPane \in PaneState(Items)
    BY DEF EmptyPane, PaneState
  <2>4. Good(EmptyPane)
    BY <2>2, <2>3 DEF Sound, PaneSound, Tabs
  <2> QED
    BY <2>1, <2>4
<1>4. ASSUME NEW n \in Nat, n \in S PROVE n + 1 \in S
  <2> SUFFICES ASSUME n + 1 <= count PROVE Good(f[n + 1])
    OBVIOUS
  <2>1. Good(f[n])
    BY <1>4
  <2>2. n + 1 \in 0 .. count /\ n + 1 # 0 /\ (n + 1) - 1 = n
    OBVIOUS
  <2>3. f[n + 1] = IF n + 1 \in DOMAIN ids THEN AddItem(f[n], ids[n + 1], fileFor, None)
                   ELSE f[n]
    BY <1>1, <2>2 DEF AddedBy
  <2>4. CASE n + 1 \in DOMAIN ids
    <3> DEFINE pane == f[n]
               next == AddItem(pane, ids[n + 1], fileFor, None)
    <3>1. Sound(pane, fileFor) /\ pane.preview = None
      BY <2>1
    <3> HIDE DEF Good
    <3>2. Sound(next, fileFor) /\ next.preview = None
      BY <2>4, <3>1, AddItemRestores
    <3>3. Tabs(next) \subseteq Tabs(pane) \cup {ids[n + 1]}
      <4>1. pane \in PaneState(Items) /\ None \in Nat \cup {None} /\ ids[n + 1] \in Items
        BY <2>4, <3>1 DEF Sound
      <4>2. \A p \in PaneState(Items), i \in Items, d \in Nat \cup {None} :
              Tabs(AddItem(p, i, fileFor, d)) \subseteq Tabs(p) \cup {i}
        BY AddItemFrom
      <4> HIDE DEF pane
      <4> QED
        BY <4>1, <4>2
    <3>4. Good(next)
      BY <2>1, <2>4, <3>2, <3>3 DEF Good
    <3> QED
      BY <2>3, <2>4, <3>4
  <2>5. CASE n + 1 \notin DOMAIN ids
    BY <2>1, <2>3, <2>5
  <2> QED
    BY <2>4, <2>5
<1>5. Nat \subseteq S
  <2> HIDE DEF S
  <2> QED
    BY <1>3, <1>4, SetInduction
<1>6. Good(f[count])
  BY <1>5
<1> QED
  BY <1>2, <1>6
-----------------------------------------------------------------------------
(***************************************************************************)
(* The panes of all workspaces, shown or not: they are sound and their     *)
(* items have files, so that an item that is built is in none of them.     *)
(***************************************************************************)
PaneOk(pane, fileFor) == Sound(pane, fileFor) /\ \A n \in Tabs(pane) : fileFor[n] # None

LEMMA EmptyPaneOk == ASSUME NEW fileFor PROVE PaneOk(EmptyPane, fileFor)
<1>1. EmptyPane.items = <<>> /\ EmptyPane.active = 0 /\ EmptyPane.preview = None
  BY DEF EmptyPane
<1>2. EmptyPane \in PaneState(Items)
  BY DEF EmptyPane, PaneState
<1> QED
  BY <1>1, <1>2 DEF PaneOk, Sound, PaneSound, Tabs

LEMMA PaneStaysOk ==
  ASSUME NEW before, NEW after, NEW pane, PaneOk(pane, before),
         \A n \in Tabs(pane) : after[n] = before[n]
  PROVE  PaneOk(pane, after)
<1>1. \A k \in 1 .. Len(pane.items) : pane.items[k] \in Tabs(pane)
  BY DEF Tabs
<1>2. PaneSound(pane, after)
  BY <1>1 DEF PaneOk, Sound, PaneSound
<1> QED
  BY <1>2 DEF PaneOk, Sound

LEMMA SameTabsOk ==
  ASSUME NEW fileFor, NEW pane, NEW next, PaneOk(pane, fileFor), Sound(next, fileFor),
         next.items = pane.items
  PROVE  PaneOk(next, fileFor)
BY DEF PaneOk, Tabs

LEMMA ActivateOk ==
  ASSUME NEW fileFor, NEW pane, NEW index \in Nat, PaneOk(pane, fileFor)
  PROVE  PaneOk(ActivateItem(pane, index), fileFor)
<1>1. ActivateItem(pane, index).items = pane.items
  BY DEF ActivateItem, PaneOk, Sound, PaneState
<1>2. Sound(ActivateItem(pane, index), fileFor)
  BY ActivateItemSound DEF PaneOk
<1> QED
  BY <1>1, <1>2, SameTabsOk

LEMMA UnpreviewOk ==
  ASSUME NEW fileFor, NEW pane, NEW item, PaneOk(pane, fileFor)
  PROVE  PaneOk(UnpreviewItem(pane, item), fileFor)
BY UnpreviewItemSound, SameTabsOk DEF PaneOk

LEMMA OpenExistingOk ==
  ASSUME NEW fileFor, NEW pane, NEW item, NEW allowPreview, PaneOk(pane, fileFor),
         Has(pane, item)
  PROVE  PaneOk(OpenExisting(pane, item, allowPreview), fileFor)
<1> DEFINE kept == IF allowPreview THEN pane ELSE UnpreviewItem(pane, item)
<1>1. PaneOk(kept, fileFor)
  BY UnpreviewOk
<1>2. IndexOf(pane, item) \in Nat
  BY IndexOfFacts DEF PaneOk, Sound, PaneState
<1> HIDE DEF kept
<1>3. PaneOk(ActivateItem(kept, IndexOf(pane, item)), fileFor)
  BY <1>1, <1>2, ActivateOk
<1> QED
  BY <1>3 DEF OpenExisting, kept

LEMMA RemoveOk ==
  ASSUME NEW fileFor, NEW pane, NEW item, PaneOk(pane, fileFor)
  PROVE  PaneOk(RemoveItem(pane, item), fileFor)
<1>1. CASE Has(pane, item)
  <2>1. Tabs(RemoveItem(pane, item)) \subseteq Tabs(pane)
    BY <1>1, RemoveItemKeeps DEF Tabs, PaneOk
  <2> QED
    BY <2>1, RemoveItemSound DEF PaneOk
<1>2. CASE ~Has(pane, item)
  BY <1>2 DEF RemoveItem
<1> QED
  BY <1>1, <1>2

LEMMA MoveTabOk ==
  ASSUME NEW fileFor, NEW pane, NEW item \in Items, NEW index \in Nat, PaneOk(pane, fileFor),
         Has(pane, item)
  PROVE  PaneOk(MoveTab(pane, item, fileFor, index), fileFor)
<1> DEFINE kept == UnpreviewItem(pane, item)
           next == MoveTab(pane, item, fileFor, index)
<1>1. Sound(kept, fileFor) /\ kept.items = pane.items
  BY UnpreviewItemSound DEF PaneOk
<1>2. Has(kept, item) /\ Tabs(kept) = Tabs(pane) /\ item \in Tabs(pane)
  BY <1>1 DEF Has, Tabs
<1>3. next = AddItem(kept, item, fileFor, index)
  BY DEF MoveTab
<1> HIDE DEF kept, next
<1>4. Sound(next, fileFor)
  BY <1>1, <1>2, <1>3, AddItemSound
<1>5. Tabs(next) \subseteq Tabs(kept) \cup {item}
  <2>1. kept \in PaneState(Items) /\ index \in Nat \cup {None}
    BY <1>1 DEF Sound
  <2>2. \A d \in Nat \cup {None} :
          Tabs(AddItem(kept, item, fileFor, d)) \subseteq Tabs(kept) \cup {item}
    BY <2>1, AddItemFrom
  <2> QED
    BY <1>3, <2>1, <2>2
<1> QED
  BY <1>2, <1>4, <1>5 DEF PaneOk, next

LEMMA OpenNewOk ==
  ASSUME NEW fileFor, NEW pane, NEW item \in Items, NEW allowPreview \in BOOLEAN,
         PaneOk(pane, fileFor), fileFor[item] # None,
         \A k \in 1 .. Len(pane.items) : fileFor[pane.items[k]] # fileFor[item]
  PROVE  PaneOk(OpenNew(pane, item, fileFor, allowPreview), fileFor)
<1> DEFINE next == OpenNew(pane, item, fileFor, allowPreview)
<1>1. Sound(next, fileFor)
  BY OpenNewSound DEF PaneOk
<1>2. Tabs(next) \subseteq Tabs(pane) \cup {item}
  <2>1. CASE ~allowPreview
    <3>1. next = AddItem(pane, item, fileFor, None)
      BY <2>1 DEF OpenNew
    <3> HIDE DEF next
    <3>2. pane \in PaneState(Items) /\ None \in Nat \cup {None}
      BY DEF PaneOk, Sound
    <3>3. \A d \in Nat \cup {None} :
            Tabs(AddItem(pane, item, fileFor, d)) \subseteq Tabs(pane) \cup {item}
      BY <3>2, AddItemFrom
    <3> QED
      BY <3>1, <3>2, <3>3
  <2>2. CASE allowPreview
    <3> DEFINE closed == ClosePreview(pane).pane
               destination == ClosePreview(pane).destination
               added == AddItem(closed, item, fileFor, destination)
    <3>1. SoundTabs(closed, fileFor) /\ destination \in Nat \cup {None}
      BY ClosePreviewSound DEF PaneOk
    <3>2. Tabs(closed) \subseteq Tabs(pane)
      <4>1. CASE Preview(pane) = None
        BY <4>1 DEF ClosePreview
      <4>2. CASE Preview(pane) # None
        <5> DEFINE removed == RemoveItem(pane, pane.preview)
        <5>1. closed.items = removed.items
          <6>1. removed \in PaneState(Items)
            BY RemoveItemSound DEF PaneOk, Sound
          <6> HIDE DEF removed
          <6>2. \A a : [removed EXCEPT !.active = a].items = removed.items
            BY <6>1 DEF PaneState
          <6> QED
            BY <4>2, <6>2 DEF ClosePreview, removed
        <5>2. Has(pane, pane.preview)
          BY <4>2 DEF Preview
        <5>3. \A k \in 1 .. Len(removed.items) :
                \E m \in 1 .. Len(pane.items) : removed.items[k] = pane.items[m]
          BY <5>2, RemoveItemKeeps DEF PaneOk
        <5> HIDE DEF closed, removed
        <5> QED
          BY <5>1, <5>3 DEF Tabs
      <4> QED
        BY <4>1, <4>2
    <3>3. next = [added EXCEPT !.preview = item]
      BY <2>2 DEF OpenNew
    <3> HIDE DEF closed, destination, next
    <3>4. Tabs(added) \subseteq Tabs(closed) \cup {item}
      BY <3>1, AddItemFrom DEF SoundTabs
    <3>5. next.items = added.items
      BY <1>1, <3>3 DEF Sound, PaneState
    <3> HIDE DEF added
    <3> QED
      BY <3>2, <3>4, <3>5 DEF Tabs
  <2> QED
    BY <2>1, <2>2
<1> HIDE DEF next
<1> QED
  BY <1>1, <1>2 DEF PaneOk, next
(* A pane as it is stored: its active item is one of its items.            *)
SoundStored ==
  {stored \in StoredPane :
     stored.active # None => \E k \in 1 .. Len(stored.items) : stored.items[k] = stored.active}

LEMMA StoredOfSound ==
  ASSUME NEW fileFor, NEW pane, PaneOk(pane, fileFor)
  PROVE  StoredOf(pane) \in SoundStored
<1> DEFINE stored == StoredOf(pane)
<1>1. /\ pane.items \in Seq(Items) /\ pane.active \in Nat /\ Len(pane.items) \in Nat
      /\ pane.preview \in Items \cup {None}
  BY DEF PaneOk, Sound, PaneState
<1>2. /\ stored.items = pane.items /\ stored.active = ActiveItem(pane)
      /\ stored.preview = Preview(pane)
      /\ stored = [items |-> stored.items, active |-> stored.active, preview |-> stored.preview]
  BY DEF StoredOf
<1> HIDE DEF stored
<1>3. CASE pane.active < Len(pane.items)
  <2>1. ActiveItem(pane) = pane.items[pane.active + 1]
    BY <1>3 DEF ActiveItem
  <2>2. pane.active + 1 \in 1 .. Len(pane.items)
    BY <1>1, <1>3
  <2>3. stored \in StoredPane
    BY <1>1, <1>2, <2>1, <2>2 DEF StoredPane, Preview
  <2> QED
    BY <1>2, <2>1, <2>2, <2>3 DEF SoundStored, stored
<1>4. CASE ~(pane.active < Len(pane.items))
  <2>1. stored.active = None
    BY <1>2, <1>4 DEF ActiveItem
  <2>2. stored \in StoredPane
    BY <1>1, <1>2, <2>1 DEF StoredPane, Preview
  <2> QED
    BY <2>1, <2>2 DEF SoundStored, stored
<1> QED
  BY <1>3, <1>4

(* deserialize_to.                                                         *)
LEMMA DeserializedOk ==
  ASSUME NEW fileFor, NEW stored \in SoundStored, NEW ids,
         \A k \in DOMAIN ids : ids[k] \in Items /\ fileFor[ids[k]] # None
  PROVE  PaneOk(Deserialized(stored, ids, fileFor), fileFor)
<1> DEFINE added == Added(Len(stored.items), ids, fileFor)
           index(item) == CHOOSE k \in 1 .. Len(stored.items) : stored.items[k] = item
           activated == IF stored.active = None THEN added
                        ELSE ActivateItem(added, index(stored.active) - 1)
           at == IF stored.preview = None THEN 0 ELSE index(stored.preview)
           next == [activated EXCEPT !.preview = added.items[at]]
<1>1. Len(stored.items) \in Nat
  BY DEF SoundStored, StoredPane
<1>2. /\ Sound(added, fileFor)
      /\ \A n \in Tabs(added) : \E k \in DOMAIN ids : ids[k] = n
  BY <1>1, AddedSound
<1> HIDE DEF added
<1>3. PaneOk(added, fileFor)
  BY <1>2 DEF PaneOk
<1>4. stored.active # None => index(stored.active) - 1 \in Nat
  <2> SUFFICES ASSUME stored.active # None PROVE index(stored.active) - 1 \in Nat
    OBVIOUS
  <2>1. \E k \in 1 .. Len(stored.items) : stored.items[k] = stored.active
    BY DEF SoundStored
  <2>2. index(stored.active) \in 1 .. Len(stored.items)
    BY <2>1
  <2> HIDE DEF index
  <2> QED
    BY <1>1, <2>2
<1>5. PaneOk(activated, fileFor) /\ activated.items = added.items
  <2>1. CASE stored.active = None
    BY <1>3, <2>1
  <2>2. CASE stored.active # None
    <3> DEFINE place == index(stored.active) - 1
    <3>1. place \in Nat
      BY <1>4, <2>2
    <3> HIDE DEF place
    <3>2. PaneOk(ActivateItem(added, place), fileFor)
      BY <1>3, <3>1, ActivateOk
    <3>3. ActivateItem(added, place).items = added.items
      BY <1>3 DEF ActivateItem, PaneOk, Sound, PaneState
    <3> QED
      BY <2>2, <3>2, <3>3 DEF place
  <2> QED
    BY <2>1, <2>2
<1>6. Deserialized(stored, ids, fileFor) = IF at \in 1 .. Len(added.items) THEN next ELSE activated
  BY DEF Deserialized, added
<1> HIDE DEF at, activated
<1>7. ASSUME at \in 1 .. Len(added.items)
      PROVE  PaneOk(next, fileFor)
  <2>1. activated \in PaneState(Items) /\ added.items \in Seq(Items)
    BY <1>3, <1>5 DEF PaneOk, Sound, PaneState
  <2>2. added.items[at] \in Items
    BY <1>7, <2>1
  <2>3. /\ next.items = added.items /\ next.active = activated.active
        /\ next.preview = added.items[at] /\ next \in PaneState(Items)
    BY <1>5, <2>1, <2>2 DEF PaneState
  <2> HIDE DEF next
  <2>4. Has(next, next.preview)
    BY <1>7, <2>3 DEF Has
  <2>5. Sound(next, fileFor)
    BY <1>5, <2>3, <2>4 DEF PaneOk, Sound, PaneSound
  <2> QED
    BY <1>5, <2>3, <2>5, SameTabsOk
<1> QED
  BY <1>5, <1>6, <1>7
-----------------------------------------------------------------------------
(***************************************************************************)
(* The inductive invariant: the types, with what is stored, queued, read   *)
(* and shown sound, and what each step of a command knows.                 *)
(***************************************************************************)
SoundRow == [location : Paths \cup {None}, pane : SoundStored, session : Sessions]

Write ==
  [op : {"save"}, id : Ids \cup {0}, row : SoundRow, by : AllTasks \cup {None}]
  \cup [op : {"item"}, id : Ids \cup {0}, item : Items, file : Files \cup {None}, by : {None}]
  \cup [op : {"cleanup"}, id : Ids \cup {0}, alive : SUBSET Items, by : AllTasks]
  \cup [op : {"new"}, by : AllTasks]
  \cup [op : {"clear"}, by : {None}]

(* The steps at which a command has a workspace.                           *)
HasWorkspace(tk) ==
  \/ tk.step \in {"lookup", "flush", "unlisted", "restore", "loaded", "cleanup", "build"}
  \/ tk.step = "prepare" /\ tk.kind # "quit"

GoodTask ==
  {tk \in TaskState : /\ tk.stored \in SoundStored
                      /\ HasWorkspace(tk) => tk.workspace \in Handles
                      /\ tk.step = "restore" => tk.id \in Ids
                      /\ tk.step = "build" => tk.file \in Files}

StoredOk ==
  /\ rows \in [Ids -> SoundRow \cup {None}]
  /\ files \in [Ids -> [Items -> Files \cup {None}]]
  /\ \A i \in Ids : rows[i] = None => files[i] = NoFiles
QueueOk == queue \in Seq(Write)
ProgramOk ==
  /\ up \in BOOLEAN /\ run \in Sessions /\ boot \subseteq Paths /\ budget \in [Kinds -> Nat]
  /\ shown \in [Windows -> Handles \cup {0}]
TasksOk == task \in [AllTasks -> GoodTask]
FilesOk == fileOf \in [Items -> Files \cup {None}]
AreOk(ws2, fileFor) ==
  ws2 \in [Handles -> WorkspaceState] /\ \A i \in Handles : PaneOk(ws2[i].pane, fileFor)
WorkspacesOk == AreOk(workspace, fileOf)

WorkspaceInv == StoredOk /\ QueueOk /\ ProgramOk /\ TasksOk /\ FilesOk /\ WorkspacesOk
LEMMA NoItemsSound == NoItems \in SoundStored
<1>1. NoItems \in StoredPane
  BY DEF NoItems, StoredPane
<1> QED
  BY <1>1 DEF NoItems, SoundStored

LEMMA NoTaskGood == NoTask \in GoodTask
<1>1. NoTask \in TaskState
  BY NoItemsSound DEF NoTask, TaskState, SoundStored, Handles, Ids
<1>2. /\ NoTask.step = "none" /\ NoTask.stored = NoItems
  BY DEF NoTask
<1> QED
  BY <1>1, <1>2, NoItemsSound DEF GoodTask, HasWorkspace

LEMMA NewWorkspaceOk ==
  ASSUME NEW fileFor, NEW id \in Ids \cup {0}, NEW path \in Paths \cup {None}
  PROVE  /\ NewWorkspace(id, path) \in WorkspaceState
         /\ PaneOk(NewWorkspace(id, path).pane, fileFor)
<1>1. EmptyPane \in PaneState(Items)
  BY DEF EmptyPane, PaneState
<1>2. NewWorkspace(id, path) \in WorkspaceState
  BY <1>1 DEF NewWorkspace, WorkspaceState
<1> QED
  BY <1>2, EmptyPaneOk DEF NewWorkspace

LEMMA NoWorkspaceOk ==
  ASSUME NEW fileFor
  PROVE  NoWorkspace \in WorkspaceState /\ PaneOk(NoWorkspace.pane, fileFor)
<1> DEFINE ws == NewWorkspace(0, None)
<1>1. ws \in WorkspaceState /\ PaneOk(ws.pane, fileFor)
  BY NewWorkspaceOk
<1>2. NoWorkspace = [ws EXCEPT !.inSession = FALSE]
  BY DEF NoWorkspace
<1> HIDE DEF ws
<1>3. NoWorkspace \in WorkspaceState /\ NoWorkspace.pane = ws.pane
  BY <1>1, <1>2 DEF WorkspaceState
<1> QED
  BY <1>1, <1>3

(* What is dropped, changed and kept of the workspaces.                    *)
LEMMA SurvivingOk ==
  ASSUME NEW ws2, AreOk(ws2, fileOf), UNCHANGED fileOf, workspace' = Surviving(ws2)
  PROVE  WorkspacesOk'
<1>1. \A i \in Handles : workspace'[i] = ws2[i] \/ workspace'[i] = NoWorkspace
  BY DEF Surviving
<1>2. workspace' = [i \in Handles |-> workspace'[i]]
  BY DEF Surviving
<1>3. ASSUME NEW i \in Handles
      PROVE  workspace'[i] \in WorkspaceState /\ PaneOk(workspace'[i].pane, fileOf')
  BY <1>1, NoWorkspaceOk DEF AreOk
<1> QED
  BY <1>2, <1>3 DEF WorkspacesOk, AreOk

LEMMA ChangeOk ==
  ASSUME NEW ws2, NEW fileFor, AreOk(ws2, fileFor), NEW i, NEW ws,
         i \in Handles => ws \in WorkspaceState /\ PaneOk(ws.pane, fileFor)
  PROVE  AreOk([ws2 EXCEPT ![i] = ws], fileFor)
BY DEF AreOk

LEMMA WorkspacesStayOk ==
  ASSUME WorkspaceInv, UNCHANGED <<workspace, fileOf>>
  PROVE  WorkspacesOk'
BY DEF WorkspaceInv, WorkspacesOk

LEMMA TaskOk ==
  ASSUME WorkspaceInv, NEW t, NEW tk, t \in AllTasks => tk \in GoodTask,
         task' = [task EXCEPT ![t] = tk]
  PROVE  TasksOk'
BY DEF WorkspaceInv, TasksOk

LEMMA SpendOk ==
  ASSUME WorkspaceInv, NEW kind, Spend(kind)
  PROVE  budget' \in [Kinds -> Nat]
<1>1. budget \in [Kinds -> Nat] /\ budget[kind] > 0 /\ budget' = [budget EXCEPT ![kind] = @ - 1]
  BY DEF WorkspaceInv, ProgramOk, Spend
<1>2. kind \in Kinds => budget[kind] - 1 \in Nat
  BY <1>1
<1> QED
  BY <1>1, <1>2

LEMMA SavesTyped ==
  ASSUME WorkspaceInv, NEW ws \in WorkspaceState, PaneOk(ws.pane, fileOf),
         NEW by \in AllTasks \cup {None}
  PROVE  Saves(ws, by) \in Seq(Write)
<1>1. CASE ws.path = None
  BY <1>1 DEF Saves
<1>2. CASE ws.path # None
  <2> DEFINE row == [location |-> ws.path, pane |-> StoredOf(ws.pane),
                     session |-> IF ws.inSession THEN run ELSE 0]
  <2>1. StoredOf(ws.pane) \in SoundStored
    BY StoredOfSound
  <2>2. /\ ws.path \in Paths \cup {None} /\ ws.id \in Ids \cup {0}
        /\ (IF ws.inSession THEN run ELSE 0) \in Sessions
    BY WorkspaceAssumption DEF WorkspaceState, WorkspaceInv, ProgramOk, Sessions
  <2>3. row \in SoundRow
    BY <2>1, <2>2 DEF SoundRow
  <2> HIDE DEF row
  <2>4. Saves(ws, by) = <<[op |-> "save", id |-> ws.id, row |-> row, by |-> by]>>
    BY <1>2 DEF Saves, SaveWrite, row
  <2>5. [op |-> "save", id |-> ws.id, row |-> row, by |-> by] \in Write
    BY <2>2, <2>3 DEF Write
  <2> QED
    BY <2>4, <2>5
<1> QED
  BY <1>1, <1>2

LEMMA SavesOk ==
  ASSUME WorkspaceInv, NEW ws \in WorkspaceState, PaneOk(ws.pane, fileOf),
         NEW by \in AllTasks \cup {None}, queue' = queue \o Saves(ws, by)
  PROVE  QueueOk'
BY SavesTyped DEF WorkspaceInv, QueueOk

LEMMA EnqueuedOk ==
  ASSUME WorkspaceInv, NEW write \in Write, Enqueued(write)
  PROVE  QueueOk'
BY DEF WorkspaceInv, QueueOk, Enqueued

LEMMA NewWriteTyped == \A t \in AllTasks : NewWrite(t) \in Write
BY DEF NewWrite, Write

LEMMA ClearWriteTyped == ClearWrite \in Write
BY DEF ClearWrite, Write

LEMMA StoredStaysOk ==
  ASSUME WorkspaceInv, UNCHANGED <<rows, files>>
  PROVE  StoredOk'
BY DEF WorkspaceInv, StoredOk

-----------------------------------------------------------------------------
(* The timers and the writing thread.                                      *)
LEMMA KnownWorkspace ==
  ASSUME WorkspaceInv, NEW i \in Handles
  PROVE  workspace[i] \in WorkspaceState /\ PaneOk(workspace[i].pane, fileOf)
BY DEF WorkspaceInv, WorkspacesOk, AreOk

LEMMA KnownTask ==
  ASSUME WorkspaceInv, NEW t \in AllTasks
  PROVE  /\ task[t] \in GoodTask /\ task[t] \in TaskState /\ task[t].stored \in SoundStored
         /\ HasWorkspace(task[t]) => task[t].workspace \in Handles
BY DEF WorkspaceInv, TasksOk, GoodTask

LEMMA ChangesOk ==
  ASSUME WorkspaceInv, NEW i, NEW ws, UNCHANGED fileOf,
         i \in Handles => ws \in WorkspaceState /\ PaneOk(ws.pane, fileOf),
         workspace' = [workspace EXCEPT ![i] = ws]
  PROVE  WorkspacesOk'
BY DEF WorkspaceInv, WorkspacesOk, AreOk

LEMMA TimerSavesOk ==
  ASSUME WorkspaceInv, NEW i \in Handles, TimerSaves(i)
  PROVE  WorkspaceInv'
<1> DEFINE ws == [workspace[i] EXCEPT !.scheduled = FALSE]
<1>1. workspace[i] \in WorkspaceState /\ PaneOk(workspace[i].pane, fileOf)
  BY KnownWorkspace
<1>2. ws \in WorkspaceState /\ ws.pane = workspace[i].pane
  BY <1>1 DEF WorkspaceState
<1>3. workspace' = [workspace EXCEPT ![i] = ws]
  BY DEF TimerSaves
<1> HIDE DEF ws
<1>4. /\ queue' = queue \o Saves(workspace[i], None)
      /\ UNCHANGED <<rows, files, programVars, shown, task, fileOf, budget>>
  BY DEF TimerSaves
<1>5. WorkspacesOk'
  BY <1>1, <1>2, <1>3, <1>4, ChangesOk
<1>6. QueueOk'
  BY <1>1, <1>4, SavesOk
<1> QED
  BY <1>4, <1>5, <1>6, StoredStaysOk DEF WorkspaceInv, ProgramOk, TasksOk, FilesOk, programVars

LEMMA ItemsSentOk ==
  ASSUME WorkspaceInv, NEW i \in Handles, ItemsSent(i)
  PROVE  WorkspaceInv'
<1> DEFINE ws == [workspace[i] EXCEPT !.unsent = {}]
           count == Cardinality(workspace[i].unsent)
<1>1. workspace[i] \in WorkspaceState /\ PaneOk(workspace[i].pane, fileOf)
  BY KnownWorkspace
<1>2. ws \in WorkspaceState /\ ws.pane = workspace[i].pane
  BY <1>1 DEF WorkspaceState
<1>3. workspace' = [workspace EXCEPT ![i] = ws]
  BY DEF ItemsSent
<1> HIDE DEF ws
<1>4. UNCHANGED <<rows, files, programVars, shown, task, fileOf, budget>>
  BY DEF ItemsSent
<1>5. WorkspacesOk'
  BY <1>1, <1>2, <1>3, <1>4, ChangesOk
<1>6. PICK order \in [1 .. count -> workspace[i].unsent] :
        queue' = queue \o [k \in 1 .. count |->
                             ItemWrite(workspace[i].id, order[k], fileOf[order[k]])]
  BY DEF ItemsSent
<1>7. QueueOk'
  <2> DEFINE sent == [k \in 1 .. count |->
                        ItemWrite(workspace[i].id, order[k], fileOf[order[k]])]
  <2>1. workspace[i].unsent \subseteq Items /\ workspace[i].id \in Ids \cup {0}
    BY <1>1 DEF WorkspaceState
  <2>2. \A k \in 1 .. count : sent[k] \in Write
    <3>1. \A k \in 1 .. count : order[k] \in Items /\ fileOf[order[k]] \in Files \cup {None}
      BY <2>1 DEF WorkspaceInv, FilesOk
    <3> QED
      BY <2>1, <3>1 DEF ItemWrite, Write
  <2>3. sent \in Seq(Write)
    <3>1. count \in Nat
      BY <2>1, FS_Subset, FS_CardinalityType, WorkspaceAssumption
    <3> HIDE DEF count
    <3> QED
      BY <2>2, <3>1
  <2>4. queue' = queue \o sent
    BY <1>6
  <2> HIDE DEF sent
  <2> QED
    BY <2>3, <2>4 DEF WorkspaceInv, QueueOk
<1> QED
  BY <1>4, <1>5, <1>7, StoredStaysOk DEF WorkspaceInv, ProgramOk, TasksOk, FilesOk, programVars
(* A new row gets an id that no row has.                                   *)
LEMMA NewRowIdKnown ==
  ASSUME NewRowId <= MaxId
  PROVE  NewRowId \in Ids /\ rows[NewRowId] = None
<1>1. CASE \A i \in Ids : rows[i] = None
  <2>1. NewRowId = 1
    BY <1>1 DEF NewRowId
  <2>2. 1 \in Ids
    BY WorkspaceAssumption DEF Ids
  <2> QED
    BY <1>1, <2>1, <2>2
<1>2. CASE ~\A i \in Ids : rows[i] = None
  <2> DEFINE back == {MaxId - i : i \in {j \in Ids : rows[j] # None}}
             Largest(i) == rows[i] # None /\ \A j \in Ids : rows[j] # None => j <= i
             last == CHOOSE i \in Ids : Largest(i)
  <2>1. back \in SUBSET Nat /\ back # {}
    BY <1>2, WorkspaceAssumption DEF Ids
  <2>2. PICK k \in back : \A m \in back : k <= m
    <3> HIDE DEF back
    <3> QED
      BY <2>1, LeastOf
  <2>3. PICK i \in Ids : rows[i] # None /\ k = MaxId - i
    BY <2>2
  <2>4. ASSUME NEW j \in Ids, rows[j] # None PROVE j <= i
    <3>1. MaxId - j \in back
      BY <2>4
    <3>2. MaxId - i <= MaxId - j
      BY <2>2, <2>3, <3>1
    <3> QED
      BY <3>2, WorkspaceAssumption DEF Ids
  <2>5. Largest(i)
    BY <2>3, <2>4
  <2>6. last \in Ids /\ Largest(last)
    <3> HIDE DEF Largest
    <3> QED
      BY <2>5
  <2>7. NewRowId = 1 + last
    BY <1>2 DEF NewRowId
  <2> HIDE DEF last
  <2> QED
    BY <2>6, <2>7, WorkspaceAssumption DEF Ids
<1> QED
  BY <1>1, <1>2

LEMMA RowIsSome == \A row \in SoundRow : row # None
<1>1. SoundRow \subseteq Row
  BY DEF SoundRow, Row, SoundStored
<1> QED
  BY <1>1, DbAssumption

LEMMA ApplySaveOk ==
  ASSUME WorkspaceInv, NEW write \in Write, ApplySave(write)
  PROVE  StoredOk'
<1> DEFINE others == RowsOf(write.row.location) \ {write.id}
<1>1. write.row \in SoundRow
  BY DEF Write, ApplySave
<1>2. /\ rows \in [Ids -> SoundRow \cup {None}]
      /\ files \in [Ids -> [Items -> Files \cup {None}]]
      /\ \A i \in Ids : rows[i] = None => files[i] = NoFiles
  BY DEF WorkspaceInv, StoredOk
<1>3. /\ rows' = [i \in Ids |-> IF i = write.id THEN write.row
                               ELSE IF i \in others THEN None ELSE rows[i]]
      /\ files' = [i \in Ids |-> IF i \in others THEN NoFiles ELSE files[i]]
  BY DEF ApplySave
<1>4. NoFiles \in [Items -> Files \cup {None}]
  BY DEF NoFiles
<1>5. write.id \notin others /\ write.row # None
  BY <1>1, RowIsSome
<1> HIDE DEF others
<1>6. rows' \in [Ids -> SoundRow \cup {None}]
  BY <1>1, <1>2, <1>3
<1>7. files' \in [Ids -> [Items -> Files \cup {None}]]
  BY <1>2, <1>3, <1>4
<1>8. \A i \in Ids : rows'[i] = None => files'[i] = NoFiles
  BY <1>2, <1>3, <1>5
<1> QED
  BY <1>6, <1>7, <1>8 DEF StoredOk

LEMMA ApplyItemOk ==
  ASSUME WorkspaceInv, NEW write \in Write, ApplyItem(write)
  PROVE  StoredOk'
<1>1. write.item \in Items /\ write.file \in Files \cup {None}
  BY DEF Write, ApplyItem
<1>2. /\ rows \in [Ids -> SoundRow \cup {None}]
      /\ files \in [Ids -> [Items -> Files \cup {None}]]
      /\ \A i \in Ids : rows[i] = None => files[i] = NoFiles
  BY DEF WorkspaceInv, StoredOk
<1>3. /\ files' = IF rows[write.id] = None THEN files
                  ELSE [files EXCEPT ![write.id][write.item] = write.file]
      /\ rows' = rows
  BY DEF ApplyItem
<1>4. files' \in [Ids -> [Items -> Files \cup {None}]]
  BY <1>1, <1>2, <1>3
<1>5. \A i \in Ids : rows'[i] = None => files'[i] = NoFiles
  BY <1>2, <1>3
<1> QED
  BY <1>2, <1>3, <1>4, <1>5 DEF StoredOk

LEMMA ApplyCleanupOk ==
  ASSUME WorkspaceInv, NEW write \in Write, ApplyCleanup(write)
  PROVE  StoredOk'
<1>1. /\ rows \in [Ids -> SoundRow \cup {None}]
      /\ files \in [Ids -> [Items -> Files \cup {None}]]
      /\ \A i \in Ids : rows[i] = None => files[i] = NoFiles
  BY DEF WorkspaceInv, StoredOk
<1>2. files' = [files EXCEPT ![write.id] = Kept(write)] /\ rows' = rows
  BY DEF ApplyCleanup
<1>3. write.id \in Ids => Kept(write) \in [Items -> Files \cup {None}]
  BY <1>1 DEF Kept
<1>4. files' \in [Ids -> [Items -> Files \cup {None}]]
  BY <1>1, <1>2, <1>3
<1>5. ASSUME NEW i \in Ids, rows[i] = None PROVE files'[i] = NoFiles
  <2>1. files[i] = NoFiles
    BY <1>1, <1>5
  <2>2. CASE i = write.id
    <3>1. Kept(write) = NoFiles
      BY <2>1, <2>2 DEF Kept, NoFiles
    <3> QED
      BY <1>1, <1>2, <2>2, <3>1
  <2>3. CASE i # write.id
    BY <1>1, <1>2, <2>1, <2>3
  <2> QED
    BY <2>2, <2>3
<1> QED
  BY <1>1, <1>2, <1>4, <1>5 DEF StoredOk

LEMMA ApplyNewOk ==
  ASSUME WorkspaceInv, NEW write, ApplyNew(write)
  PROVE  StoredOk' /\ NewRowId \in Ids
<1> DEFINE row == [location |-> None, pane |-> NoItems, session |-> 0]
<1>1. NewRowId \in Ids
  BY NewRowIdKnown DEF ApplyNew
<1>2. row \in SoundRow
  BY NoItemsSound, WorkspaceAssumption DEF SoundRow, Sessions
<1>3. rows' = [rows EXCEPT ![NewRowId] = row] /\ files' = files
  BY DEF ApplyNew
<1> HIDE DEF row
<1>4. row # None
  BY <1>2, RowIsSome
<1> QED
  BY <1>1, <1>2, <1>3, <1>4 DEF StoredOk, WorkspaceInv

LEMMA ApplyClearOk ==
  ASSUME NEW write, ApplyClear(write)
  PROVE  StoredOk'
<1>1. NoFiles \in [Items -> Files \cup {None}]
  BY DEF NoFiles
<1> QED
  BY <1>1 DEF StoredOk, ApplyClear

LEMMA WrittenOk == WorkspaceInv /\ Written => WorkspaceInv'
<1> SUFFICES ASSUME WorkspaceInv, Written PROVE WorkspaceInv'
  OBVIOUS
<1> DEFINE write == Head(queue)
<1>1. queue \in Seq(Write) /\ queue # <<>> /\ queue' = Tail(queue)
  BY DEF WorkspaceInv, QueueOk, Written
<1>2. write \in Write
  BY <1>1
<1>3. QueueOk'
  BY <1>1 DEF QueueOk
<1>4. StoredOk' /\ TasksOk'
  <2>1. TasksOk
    BY DEF WorkspaceInv
  <2> HIDE DEF write
  <2>2. CASE ApplySave(write) /\ UNCHANGED task
    BY <1>2, <2>1, <2>2, ApplySaveOk DEF TasksOk
  <2>3. CASE ApplyItem(write) /\ UNCHANGED task
    BY <1>2, <2>1, <2>3, ApplyItemOk DEF TasksOk
  <2>4. CASE ApplyCleanup(write) /\ UNCHANGED task
    BY <1>2, <2>1, <2>4, ApplyCleanupOk DEF TasksOk
  <2>5. CASE ApplyClear(write) /\ UNCHANGED task
    BY <2>1, <2>5, ApplyClearOk DEF TasksOk
  <2>6. CASE ApplyNew(write) /\ task' = [task EXCEPT ![write.by].id = NewRowId]
    <3>1. write.by \in AllTasks
      BY <1>2, <2>6 DEF ApplyNew, Write
    <3> DEFINE tk == [task[write.by] EXCEPT !.id = NewRowId]
    <3>2. StoredOk' /\ NewRowId \in Ids
      BY <2>6, ApplyNewOk
    <3>3. task[write.by] \in GoodTask
      BY <2>1, <3>1 DEF TasksOk
    <3>4. /\ tk \in TaskState /\ tk.stored = task[write.by].stored
          /\ tk.step = task[write.by].step /\ tk.kind = task[write.by].kind
          /\ tk.workspace = task[write.by].workspace /\ tk.file = task[write.by].file
          /\ tk.id = NewRowId
      BY <3>2, <3>3 DEF GoodTask, TaskState
    <3>5. task' = [task EXCEPT ![write.by] = tk]
      BY <2>6
    <3> HIDE DEF tk
    <3>6. tk \in GoodTask
      BY <3>2, <3>3, <3>4 DEF GoodTask, HasWorkspace
    <3> QED
      BY <3>2, <3>5, <3>6, TaskOk
  <2> QED
    BY <2>2, <2>3, <2>4, <2>5, <2>6 DEF Written, write
<1>5. UNCHANGED <<programVars, shown, workspace, fileOf, budget>>
  BY DEF Written
<1> QED
  BY <1>3, <1>4, <1>5, WorkspacesStayOk
  DEF WorkspaceInv, ProgramOk, FilesOk, programVars
-----------------------------------------------------------------------------
(* The commands.                                                           *)
LEMMA OnlyTaskOk ==
  ASSUME WorkspaceInv, NEW t, NEW tk, t \in AllTasks => tk \in GoodTask,
         task' = [task EXCEPT ![t] = tk], budget' \in [Kinds -> Nat],
         UNCHANGED <<dbVars, programVars, shown, workspace, fileOf>>
  PROVE  WorkspaceInv'
<1>1. TasksOk' /\ WorkspacesOk' /\ StoredOk'
  BY TaskOk, WorkspacesStayOk, StoredStaysOk DEF dbVars
<1> QED
  BY <1>1 DEF WorkspaceInv, QueueOk, ProgramOk, FilesOk, programVars, dbVars

LEMMA EndsOk ==
  ASSUME WorkspaceInv, NEW t, task' = [task EXCEPT ![t] = NoTask],
         UNCHANGED <<rows, files, queue, programVars, shown, fileOf, budget>>,
         workspace' = Surviving(workspace)
  PROVE  WorkspaceInv'
<1>1. TasksOk'
  BY TaskOk, NoTaskGood
<1>2. WorkspacesOk'
  BY SurvivingOk DEF WorkspaceInv, WorkspacesOk
<1> QED
  BY <1>1, <1>2, StoredStaysOk DEF WorkspaceInv, QueueOk, ProgramOk, FilesOk, programVars

LEMMA ShownKnown ==
  ASSUME WorkspaceInv, NEW w \in Windows, IsOpen(w)
  PROVE  shown[w] \in Handles
BY DEF WorkspaceInv, ProgramOk, IsOpen

LEMMA NoTaskTyped == NoTask \in TaskState /\ NoTask.stored \in SoundStored
BY NoTaskGood DEF GoodTask

LEMMA OpenProjectOk ==
  ASSUME WorkspaceInv, NEW t, NEW w \in Windows, NEW p \in Paths, NEW newWindow \in BOOLEAN,
         OpenProject(t, w, p, newWindow)
  PROVE  WorkspaceInv'
<1> DEFINE replaces == ~newWindow \/ workspace[shown[w]].path = None
           tk == [NoTask EXCEPT !.kind = "open", !.step = "lookup", !.window = w,
                                !.workspace = shown[w], !.path = p, !.replace = replaces]
<1>1. shown[w] \in Handles
  BY ShownKnown DEF OpenProject
<1>2. replaces \in BOOLEAN
  OBVIOUS
<1> HIDE DEF replaces
<1>3. /\ tk \in TaskState /\ tk.stored = NoTask.stored /\ tk.workspace = shown[w]
      /\ tk.step = "lookup"
  BY <1>1, <1>2, NoTaskTyped DEF TaskState
<1>4. task' = [task EXCEPT ![t] = tk]
  BY DEF OpenProject, replaces
<1> HIDE DEF tk
<1>5. tk \in GoodTask
  BY <1>1, <1>3, NoTaskTyped DEF GoodTask, HasWorkspace
<1>6. budget' \in [Kinds -> Nat]
  BY SpendOk DEF OpenProject
<1> QED
  BY <1>4, <1>5, <1>6, OnlyTaskOk DEF OpenProject

LEMMA CloseProjectOk ==
  ASSUME WorkspaceInv, NEW t, NEW w \in Windows, CloseProject(t, w)
  PROVE  WorkspaceInv'
<1> DEFINE tk == [NoTask EXCEPT !.kind = "closeProject", !.step = "prepare", !.window = w,
                                !.workspace = shown[w]]
<1>1. shown[w] \in Handles
  BY ShownKnown DEF CloseProject
<1>2. /\ tk \in TaskState /\ tk.stored = NoTask.stored /\ tk.workspace = shown[w]
      /\ tk.step = "prepare"
  BY <1>1, NoTaskTyped DEF TaskState
<1>3. task' = [task EXCEPT ![t] = tk]
  BY DEF CloseProject
<1> HIDE DEF tk
<1>4. tk \in GoodTask
  BY <1>1, <1>2, NoTaskTyped DEF GoodTask, HasWorkspace
<1>5. budget' \in [Kinds -> Nat]
  BY SpendOk DEF CloseProject
<1> QED
  BY <1>3, <1>4, <1>5, OnlyTaskOk DEF CloseProject

LEMMA CloseWindowOk ==
  ASSUME WorkspaceInv, NEW t, NEW w \in Windows, CloseWindow(t, w)
  PROVE  WorkspaceInv'
<1> DEFINE tk == [NoTask EXCEPT !.kind = "closeWindow", !.step = "prepare", !.window = w,
                                !.workspace = shown[w]]
<1>1. shown[w] \in Handles
  BY ShownKnown DEF CloseWindow
<1>2. /\ tk \in TaskState /\ tk.stored = NoTask.stored /\ tk.workspace = shown[w]
      /\ tk.step = "prepare"
  BY <1>1, NoTaskTyped DEF TaskState
<1>3. task' = [task EXCEPT ![t] = tk]
  BY DEF CloseWindow
<1> HIDE DEF tk
<1>4. tk \in GoodTask
  BY <1>1, <1>2, NoTaskTyped DEF GoodTask, HasWorkspace
<1>5. budget' \in [Kinds -> Nat]
  BY SpendOk DEF CloseWindow
<1> QED
  BY <1>3, <1>4, <1>5, OnlyTaskOk DEF CloseWindow

LEMMA QuitOk ==
  ASSUME WorkspaceInv, NEW t, Quit(t)
  PROVE  WorkspaceInv'
<1> DEFINE tk == [NoTask EXCEPT !.kind = "quit", !.step = "prepare", !.left = OpenWindows]
<1>1. OpenWindows \subseteq Windows
  BY DEF OpenWindows
<1>2. /\ tk \in TaskState /\ tk.stored = NoTask.stored /\ tk.kind = "quit"
      /\ tk.step = "prepare"
  BY <1>1, NoTaskTyped DEF TaskState
<1>3. task' = [task EXCEPT ![t] = tk]
  BY DEF Quit
<1> HIDE DEF tk
<1>4. tk \in GoodTask
  BY <1>2, NoTaskTyped DEF GoodTask, HasWorkspace
<1>5. budget' \in [Kinds -> Nat]
  BY SpendOk DEF Quit
<1> QED
  BY <1>3, <1>4, <1>5, OnlyTaskOk DEF Quit

LEMMA OpenFileOk ==
  ASSUME WorkspaceInv, NEW t, NEW w \in Windows, NEW f \in Files, NEW preview \in BOOLEAN,
         OpenFile(t, w, f, preview)
  PROVE  WorkspaceInv'
<1> DEFINE renewed == workspace[shown[w]].renewed
           tk == [NoTask EXCEPT !.kind = "file", !.step = "build", !.window = w,
                                !.workspace = shown[w], !.file = f, !.preview = preview,
                                !.renewed = renewed]
<1>1. shown[w] \in Handles
  BY ShownKnown DEF OpenFile
<1>2. renewed \in BOOLEAN
  BY <1>1, KnownWorkspace DEF WorkspaceState
<1> HIDE DEF renewed
<1>3. /\ tk \in TaskState /\ tk.stored = NoTask.stored /\ tk.workspace = shown[w]
      /\ tk.step = "build" /\ tk.file = f
  <2>1. NoTask \in TaskState
    BY NoTaskTyped
  <2>2. tk \in TaskState
    BY <1>1, <1>2, <2>1 DEF TaskState
  <2>3. /\ tk.stored = NoTask.stored /\ tk.workspace = shown[w]
        /\ tk.step = "build" /\ tk.file = f
    BY DEF NoTask
  <2> QED
    BY <2>2, <2>3
<1>4. task' = [task EXCEPT ![t] = tk]
  BY DEF OpenFile, renewed
<1> HIDE DEF tk
<1>5. tk \in GoodTask
  BY <1>1, <1>3, NoTaskTyped DEF GoodTask, HasWorkspace
<1>6. budget' \in [Kinds -> Nat]
  BY SpendOk DEF OpenFile
<1> QED
  BY <1>4, <1>5, <1>6, OnlyTaskOk DEF OpenFile
-----------------------------------------------------------------------------
(* The steps of a command up to the workspace it opens.                    *)
LEMMA PrepareOk ==
  ASSUME WorkspaceInv, NEW t \in AllTasks, NEW w \in Windows \cup {None}, NEW i \in Handles,
         Prepare(t, w, i)
  PROVE  WorkspaceInv'
<1> DEFINE closes == task[t].kind = "closeWindow"
           ws == [workspace[i] EXCEPT !.closing = workspace[i].closing \/ closes,
                                      !.scheduled = FALSE]
           flushed == [workspace EXCEPT ![i] = ws]
           preserve == Preserves(task[t].kind, Remaining(flushed))
           tk == [task[t] EXCEPT !.step = "flush", !.window = w, !.workspace = i,
                                 !.preserve = preserve]
<1>1. workspace[i] \in WorkspaceState /\ PaneOk(workspace[i].pane, fileOf)
  BY KnownWorkspace
<1>2. ws \in WorkspaceState /\ ws.pane = workspace[i].pane
  BY <1>1 DEF WorkspaceState
<1>3. /\ workspace' = flushed /\ queue' = queue \o Saves(workspace[i], t)
      /\ task' = [task EXCEPT ![t] = tk]
      /\ UNCHANGED <<rows, files, programVars, shown, fileOf, budget>>
  BY DEF Prepare
<1>4. preserve \in BOOLEAN
  BY DEF Preserves
<1> HIDE DEF preserve, ws
<1>5. WorkspacesOk'
  BY <1>1, <1>2, <1>3, ChangesOk
<1> HIDE DEF flushed
<1>6. task[t] \in TaskState /\ task[t].stored \in SoundStored
  BY KnownTask
<1>7. /\ tk \in TaskState /\ tk.stored = task[t].stored /\ tk.workspace = i
      /\ tk.step = "flush"
  <2>1. tk \in TaskState
    BY <1>4, <1>6 DEF TaskState
  <2>2. tk.stored = task[t].stored /\ tk.workspace = i /\ tk.step = "flush"
    BY <1>6 DEF TaskState
  <2> QED
    BY <2>1, <2>2
<1> HIDE DEF tk
<1>8. tk \in GoodTask
  BY <1>6, <1>7 DEF GoodTask
<1>9. TasksOk'
  BY <1>3, <1>8, TaskOk
<1>10. QueueOk'
  BY <1>1, <1>3, SavesOk
<1> QED
  BY <1>3, <1>5, <1>9, <1>10, StoredStaysOk DEF WorkspaceInv, ProgramOk, FilesOk, programVars

LEMMA PrepareToCloseOk ==
  ASSUME WorkspaceInv, NEW t \in AllTasks, PrepareToClose(t)
  PROVE  WorkspaceInv'
<1>1. task[t] \in TaskState /\ (HasWorkspace(task[t]) => task[t].workspace \in Handles)
  BY KnownTask
<1>2. HasWorkspace(task[t])
  BY DEF PrepareToClose, AsksToClose, HasWorkspace
<1>3. task[t].window \in Windows \cup {None}
  BY <1>1 DEF TaskState
<1> QED
  BY <1>1, <1>2, <1>3, PrepareOk DEF PrepareToClose

LEMMA QuitPreparesOk ==
  ASSUME WorkspaceInv, NEW t \in AllTasks, NEW w \in Windows, QuitPrepares(t, w)
  PROVE  WorkspaceInv'
<1>1. shown[w] \in Handles
  BY ShownKnown DEF QuitPrepares
<1> QED
  BY <1>1, PrepareOk DEF QuitPrepares

LEMMA RemoveFromSessionOk ==
  ASSUME WorkspaceInv, NEW t \in AllTasks, RemoveFromSession(t)
  PROVE  WorkspaceInv'
<1> DEFINE i == task[t].workspace
           ws == [workspace[i] EXCEPT !.inSession = FALSE]
           tk == [task[t] EXCEPT !.step = "unlisted"]
<1>1. task[t] \in GoodTask /\ task[t].workspace \in Handles
  BY KnownTask DEF RemoveFromSession, HasWorkspace
<1>2. workspace[i] \in WorkspaceState /\ PaneOk(workspace[i].pane, fileOf)
  BY <1>1, KnownWorkspace
<1>3. ws \in WorkspaceState /\ ws.pane = workspace[i].pane
  BY <1>2 DEF WorkspaceState
<1>4. /\ workspace' = [workspace EXCEPT ![i] = ws]
      /\ queue' = queue \o Saves([workspace EXCEPT ![i] = ws][i], t)
      /\ task' = [task EXCEPT ![t] = tk]
      /\ UNCHANGED <<rows, files, programVars, shown, fileOf, budget>>
  BY DEF RemoveFromSession
<1>5. [workspace EXCEPT ![i] = ws][i] = ws
  BY <1>1 DEF WorkspaceInv, WorkspacesOk, AreOk
<1>6. /\ tk \in TaskState /\ tk.stored = task[t].stored /\ tk.workspace = task[t].workspace
      /\ tk.step = "unlisted"
  BY <1>1 DEF TaskState, GoodTask
<1> HIDE DEF i, ws, tk
<1>7. WorkspacesOk'
  BY <1>2, <1>3, <1>4, ChangesOk
<1>8. tk \in GoodTask
  BY <1>1, <1>6 DEF GoodTask
<1>9. TasksOk'
  BY <1>4, <1>8, TaskOk
<1>10. QueueOk'
  BY <1>2, <1>3, <1>4, <1>5, SavesOk
<1> QED
  BY <1>4, <1>7, <1>9, <1>10, StoredStaysOk DEF WorkspaceInv, ProgramOk, FilesOk, programVars

LEMMA GiveUpOk ==
  ASSUME WorkspaceInv, NEW t, GiveUp(t) \/ FoundOpen(t)
  PROVE  WorkspaceInv'
BY EndsOk DEF GiveUp, FoundOpen, dbVars

(* A step that keeps the rest of the task and needs no workspace.          *)
LEMMA StepGood ==
  ASSUME WorkspaceInv, NEW t \in AllTasks, NEW step \in {"load", "id"}
  PROVE  [task[t] EXCEPT !.step = step] \in GoodTask
<1> DEFINE tk == [task[t] EXCEPT !.step = step]
<1>1. task[t] \in TaskState /\ task[t].stored \in SoundStored
  BY KnownTask
<1>2. tk \in TaskState /\ tk.stored = task[t].stored /\ tk.step = step
  BY <1>1 DEF TaskState
<1> HIDE DEF tk
<1>3. tk \in GoodTask
  BY <1>1, <1>2 DEF GoodTask, HasWorkspace
<1> QED
  BY <1>3 DEF tk

LEMMA StartLoadOk ==
  ASSUME WorkspaceInv, NEW t \in AllTasks, StartLoad(t)
  PROVE  WorkspaceInv'
<1> DEFINE tk == [task[t] EXCEPT !.step = "load"]
<1>1. tk \in GoodTask
  BY StepGood
<1>2. task' = [task EXCEPT ![t] = tk]
  BY DEF StartLoad
<1>3. budget' \in [Kinds -> Nat]
  BY DEF StartLoad, WorkspaceInv, ProgramOk
<1> HIDE DEF tk
<1> QED
  BY <1>1, <1>2, <1>3, OnlyTaskOk DEF StartLoad

(* A task asks for a new row.                                              *)
LEMMA AsksForRowOk ==
  ASSUME WorkspaceInv, NEW t \in AllTasks, Enqueued(NewWrite(t)),
         NEW tk \in GoodTask, task' = [task EXCEPT ![t] = tk],
         budget' \in [Kinds -> Nat],
         UNCHANGED <<rows, files, programVars, shown, fileOf>>, WorkspacesOk'
  PROVE  WorkspaceInv'
<1>1. QueueOk'
  BY NewWriteTyped, EnqueuedOk
<1>2. TasksOk'
  BY TaskOk
<1> QED
  BY <1>1, <1>2, StoredStaysOk DEF WorkspaceInv, ProgramOk, FilesOk, programVars

LEMMA LoadNewOk ==
  ASSUME WorkspaceInv, NEW t \in AllTasks, LoadNew(t) \/ ReplaceByEmpty(t)
  PROVE  WorkspaceInv'
<1> DEFINE tk == [task[t] EXCEPT !.step = "id"]
<1>1. tk \in GoodTask
  BY StepGood
<1>2. /\ task' = [task EXCEPT ![t] = tk] /\ Enqueued(NewWrite(t))
      /\ UNCHANGED <<rows, files, programVars, shown, workspace, fileOf, budget>>
  BY DEF LoadNew, ReplaceByEmpty
<1> HIDE DEF tk
<1>3. budget' \in [Kinds -> Nat] /\ WorkspacesOk'
  BY <1>2, WorkspacesStayOk DEF WorkspaceInv, ProgramOk
<1> QED
  BY <1>1, <1>2, <1>3, AsksForRowOk

LEMMA EmptyTaskGood ==
  [NoTask EXCEPT !.kind = "empty", !.step = "id"] \in GoodTask
<1> DEFINE tk == [NoTask EXCEPT !.kind = "empty", !.step = "id"]
<1>1. tk \in TaskState /\ tk.stored = NoTask.stored /\ tk.step = "id"
  BY NoTaskTyped DEF TaskState
<1> HIDE DEF tk
<1>2. tk \in GoodTask
  BY <1>1, NoTaskTyped DEF GoodTask, HasWorkspace
<1> QED
  BY <1>2 DEF tk

LEMMA LoadFailedOk ==
  ASSUME WorkspaceInv, NEW t \in AllTasks, LoadFailed(t)
  PROVE  WorkspaceInv'
<1>1. budget' \in [Kinds -> Nat]
  BY SpendOk DEF LoadFailed
<1>2. /\ UNCHANGED <<rows, files, programVars, shown, fileOf>>
      /\ workspace' = Surviving(workspace)
  BY DEF LoadFailed
<1>3. WorkspacesOk'
  BY <1>2, SurvivingOk DEF WorkspaceInv, WorkspacesOk
<1>4. CASE t = Boot /\ boot = {} /\ OpenWindows = {}
  <2> DEFINE tk == [NoTask EXCEPT !.kind = "empty", !.step = "id"]
  <2>1. Enqueued(NewWrite(t)) /\ task' = [task EXCEPT ![t] = tk]
    BY <1>4 DEF LoadFailed
  <2>2. tk \in GoodTask
    BY EmptyTaskGood
  <2> HIDE DEF tk
  <2> QED
    BY <1>1, <1>2, <1>3, <2>1, <2>2, AsksForRowOk
<1>5. CASE ~(t = Boot /\ boot = {} /\ OpenWindows = {})
  <2>1. task' = [task EXCEPT ![t] = NoTask] /\ UNCHANGED queue
    BY <1>5 DEF LoadFailed
  <2>2. TasksOk'
    BY <2>1, NoTaskGood, TaskOk
  <2> QED
    BY <1>1, <1>2, <1>3, <2>1, <2>2, StoredStaysOk
    DEF WorkspaceInv, QueueOk, ProgramOk, FilesOk, programVars
<1> QED
  BY <1>4, <1>5

LEMMA CreateOk ==
  ASSUME WorkspaceInv, NEW t \in AllTasks, NEW w \in Windows, NEW id \in Ids \cup {0},
         NEW path \in Paths \cup {None}, NEW then \in GoodTask, Create(t, w, id, path, then),
         UNCHANGED queue
  PROVE  WorkspaceInv'
<1> DEFINE fresh == FreeHandle
           ws == NewWorkspace(id, path)
           ws2 == [workspace EXCEPT ![fresh] = ws]
<1>1. fresh \in Handles
  BY DEF Create, FreeHandle, FreeHandles
<1>2. /\ shown' = [shown EXCEPT ![w] = fresh] /\ task' = [task EXCEPT ![t] = then]
      /\ UNCHANGED <<rows, files, programVars, fileOf, budget>>
      /\ workspace' = Surviving(ws2)
  BY DEF Create
<1>3. ws \in WorkspaceState /\ PaneOk(ws.pane, fileOf)
  BY NewWorkspaceOk
<1> HIDE DEF fresh, ws
<1>4. AreOk(ws2, fileOf)
  BY <1>3, ChangeOk DEF WorkspaceInv, WorkspacesOk
<1> HIDE DEF ws2
<1>5. WorkspacesOk' /\ TasksOk'
  BY <1>2, <1>4, SurvivingOk, TaskOk
<1>6. shown' \in [Windows -> Handles \cup {0}]
  BY <1>1, <1>2 DEF WorkspaceInv, ProgramOk
<1> QED
  BY <1>2, <1>5, <1>6, StoredStaysOk DEF WorkspaceInv, QueueOk, ProgramOk, FilesOk, programVars

LEMMA TargetsKnown ==
  ASSUME NEW t PROVE Targets(t) \subseteq Windows
BY DEF Targets, OpenWindows, NewWindows

LEMMA LoadKnownOk ==
  ASSUME WorkspaceInv, NEW t \in AllTasks, LoadKnown(t)
  PROVE  WorkspaceInv'
<1>1. PICK i \in RowsOf(task[t].path), w \in Targets(t) :
        Create(t, w, i, task[t].path,
               [task[t] EXCEPT !.step = "restore", !.window = w, !.workspace = FreeHandle,
                               !.id = i, !.stored = rows[i].pane])
  BY DEF LoadKnown
<1> DEFINE fresh == FreeHandle
           stored == rows[i].pane
           tk == [task[t] EXCEPT !.step = "restore", !.window = w, !.workspace = fresh,
                                 !.id = i, !.stored = stored]
<1>2. Create(t, w, i, task[t].path, tk)
  BY <1>1
<1>3. fresh \in Handles
  BY <1>1 DEF Create, FreeHandle, FreeHandles
<1>4. i \in Ids /\ w \in Windows /\ stored \in SoundStored
  <2>1. i \in Ids /\ rows[i] # None
    BY DEF RowsOf
  <2>2. rows[i] \in SoundRow
    BY <2>1 DEF WorkspaceInv, StoredOk
  <2> QED
    BY <2>1, <2>2, TargetsKnown DEF SoundRow
<1>5. task[t] \in TaskState
  BY KnownTask
<1> HIDE DEF fresh, stored
<1>6. /\ tk \in TaskState /\ tk.stored = stored /\ tk.workspace = fresh /\ tk.step = "restore"
      /\ tk.id = i
  <2>1. stored \in StoredPane
    BY <1>4 DEF SoundStored
  <2> QED
    BY <1>3, <1>4, <1>5, <2>1 DEF TaskState
<1> HIDE DEF tk
<1>7. tk \in GoodTask
  BY <1>3, <1>4, <1>6 DEF GoodTask
<1>8. UNCHANGED queue /\ task[t].path \in Paths \cup {None}
  BY <1>5 DEF LoadKnown, TaskState
<1> QED
  BY <1>2, <1>4, <1>7, <1>8, CreateOk

LEMMA IdArrivedOk ==
  ASSUME WorkspaceInv, NEW t \in AllTasks, IdArrived(t)
  PROVE  WorkspaceInv'
<1>1. PICK w \in Targets(t) : Create(t, w, task[t].id, task[t].path, NoTask)
  BY DEF IdArrived
<1>2. task[t].id \in Ids \cup {0} /\ task[t].path \in Paths \cup {None}
  BY KnownTask DEF TaskState
<1>3. w \in Windows
  BY TargetsKnown
<1> QED
  BY <1>1, <1>2, <1>3, NoTaskGood, CreateOk DEF IdArrived
-----------------------------------------------------------------------------
(* The restoring of a workspace.                                           *)
LEMMA ReadItemsOk ==
  ASSUME WorkspaceInv, NEW t \in AllTasks, ReadItems(t)
  PROVE  WorkspaceInv'
<1> DEFINE stored == task[t].stored.items
           read == [k \in DOMAIN stored |-> files[task[t].id][stored[k]]]
           tk == [task[t] EXCEPT !.step = "loaded", !.files = read]
<1>1. /\ task[t] \in TaskState /\ task[t].stored \in SoundStored
      /\ task[t].workspace \in Handles /\ task[t].id \in Ids
  BY KnownTask DEF ReadItems, HasWorkspace, GoodTask
<1>2. stored \in Seq(Items)
  BY <1>1 DEF SoundStored, StoredPane
<1> HIDE DEF stored
<1>3. read \in Seq(Files \cup {None})
  <2>1. files[task[t].id] \in [Items -> Files \cup {None}]
    BY <1>1 DEF WorkspaceInv, StoredOk
  <2>2. \A k \in DOMAIN stored : files[task[t].id][stored[k]] \in Files \cup {None}
    BY <1>2, <2>1
  <2> QED
    BY <1>2, <2>2
<1>4. task' = [task EXCEPT ![t] = tk]
  BY DEF ReadItems, stored
<1> HIDE DEF read
<1>5. /\ tk \in TaskState /\ tk.stored = task[t].stored /\ tk.workspace = task[t].workspace
      /\ tk.step = "loaded"
  BY <1>1, <1>3 DEF TaskState
<1> HIDE DEF tk
<1>6. tk \in GoodTask
  BY <1>1, <1>5 DEF GoodTask
<1>7. budget' \in [Kinds -> Nat]
  BY DEF ReadItems, WorkspaceInv, ProgramOk
<1> QED
  BY <1>4, <1>6, <1>7, OnlyTaskOk DEF ReadItems

(* Items that are built are in no pane.                                    *)
LEMMA OtherPanesOk ==
  ASSUME WorkspaceInv, NEW built \in SUBSET Items,
         \A n \in built : fileOf[n] = None,
         \A n \in Items \ built : fileOf'[n] = fileOf[n]
  PROVE  AreOk(workspace, fileOf')
<1> SUFFICES ASSUME NEW i \in Handles PROVE PaneOk(workspace[i].pane, fileOf')
  BY DEF AreOk, WorkspaceInv, WorkspacesOk
<1> DEFINE pane == workspace[i].pane
<1>1. PaneOk(pane, fileOf)
  BY KnownWorkspace
<1> HIDE DEF pane
<1>2. Tabs(pane) \subseteq Items
  BY <1>1 DEF PaneOk, Sound, PaneState, Tabs
<1>3. \A n \in Tabs(pane) : fileOf'[n] = fileOf[n]
  BY <1>1, <1>2 DEF PaneOk
<1> QED
  BY <1>1, <1>3, PaneStaysOk DEF pane

LEMMA FreshKnown ==
  ASSUME NEW count PROVE \A n \in FreshItems(count) : n \in Items /\ fileOf[n] = None
BY DEF FreshItems

LEMMA RestoreItemsOk ==
  ASSUME WorkspaceInv, NEW t \in AllTasks, RestoreItems(t)
  PROVE  WorkspaceInv'
<1>1. PICK gone \in SUBSET Files :
        /\ IF gone = {} THEN UNCHANGED budget ELSE Spend("fail")
        /\ LET loaded == {k \in 1 .. Len(task[t].files) :
                            task[t].files[k] \notin gone \cup {None}}
               i == task[t].workspace
           IN  IF loaded = {}
               THEN /\ queue' = queue \o Saves(workspace[i], None)
                    /\ task' = [task EXCEPT ![t] = NoTask]
                    /\ workspace' = Surviving(workspace)
                    /\ UNCHANGED fileOf
               ELSE \E ids \in [loaded -> FreshItems(Cardinality(loaded))] :
                      /\ \A j, k \in loaded : ids[j] = ids[k] => j = k
                      /\ fileOf' = [n \in Items |->
                           IF \E k \in loaded : ids[k] = n
                           THEN task[t].files[CHOOSE k \in loaded : ids[k] = n] ELSE fileOf[n]]
                      /\ LET items == {ids[k] : k \in loaded}
                         IN  /\ workspace' = [workspace EXCEPT ![i] =
                                  [@ EXCEPT !.pane = Deserialized(task[t].stored, ids, fileOf'),
                                            !.renewed = TRUE, !.scheduled = TRUE,
                                            !.unsent = workspace[i].unsent \cup items]]
                             /\ Enqueued(CleanupWrite(task[t].id, items, t))
                      /\ task' = [task EXCEPT ![t].step = "cleanup"]
  BY DEF RestoreItems
<1> DEFINE i == task[t].workspace
           loaded == {k \in 1 .. Len(task[t].files) : task[t].files[k] \notin gone \cup {None}}
<1>2. /\ task[t] \in TaskState /\ task[t] \in GoodTask /\ task[t].stored \in SoundStored
      /\ i \in Handles
  BY KnownTask DEF RestoreItems, HasWorkspace
<1>3. workspace[i] \in WorkspaceState /\ PaneOk(workspace[i].pane, fileOf)
  BY <1>2, KnownWorkspace
<1>4. UNCHANGED <<rows, files, programVars, shown>> /\ StoredOk'
  BY StoredStaysOk DEF RestoreItems
<1>5. budget' \in [Kinds -> Nat]
  BY <1>1, SpendOk DEF WorkspaceInv, ProgramOk
<1>6. CASE loaded = {}
  <2>1. /\ queue' = queue \o Saves(workspace[i], None)
        /\ task' = [task EXCEPT ![t] = NoTask]
        /\ workspace' = Surviving(workspace) /\ UNCHANGED fileOf
    BY <1>1, <1>6
  <2> HIDE DEF i
  <2>2. QueueOk'
    BY <1>3, <2>1, SavesOk
  <2>3. TasksOk' /\ WorkspacesOk'
    BY <2>1, NoTaskGood, TaskOk, SurvivingOk DEF WorkspaceInv, WorkspacesOk
  <2> QED
    BY <1>4, <1>5, <2>1, <2>2, <2>3 DEF WorkspaceInv, ProgramOk, FilesOk, programVars
<1>7. CASE loaded # {}
  <2>1. PICK ids \in [loaded -> FreshItems(Cardinality(loaded))] :
          /\ fileOf' = [n \in Items |->
               IF \E k \in loaded : ids[k] = n
               THEN task[t].files[CHOOSE k \in loaded : ids[k] = n] ELSE fileOf[n]]
          /\ workspace' = [workspace EXCEPT ![i] =
               [@ EXCEPT !.pane = Deserialized(task[t].stored, ids, fileOf'),
                         !.renewed = TRUE, !.scheduled = TRUE,
                         !.unsent = workspace[i].unsent \cup {ids[k] : k \in loaded}]]
          /\ Enqueued(CleanupWrite(task[t].id, {ids[k] : k \in loaded}, t))
          /\ task' = [task EXCEPT ![t].step = "cleanup"]
    BY <1>1, <1>7
  <2> DEFINE items == {ids[k] : k \in loaded}
             pane == Deserialized(task[t].stored, ids, fileOf')
             ws == [workspace[i] EXCEPT !.pane = pane, !.renewed = TRUE, !.scheduled = TRUE,
                                        !.unsent = workspace[i].unsent \cup items]
             tk == [task[t] EXCEPT !.step = "cleanup"]
  <2>2. \A k \in loaded : ids[k] \in Items /\ fileOf[ids[k]] = None
    BY FreshKnown
  <2>3. \A k \in loaded : task[t].files[k] \in Files /\ task[t].files[k] # None
    <3>1. task[t].files \in Seq(Files \cup {None})
      BY <1>2 DEF TaskState
    <3> QED
      BY <3>1
  <2>4. /\ workspace' = [workspace EXCEPT ![i] = ws]
        /\ Enqueued(CleanupWrite(task[t].id, items, t))
        /\ task' = [task EXCEPT ![t] = tk]
    BY <2>1
  <2>5. \A n \in Items :
          fileOf'[n] = IF \E k \in loaded : ids[k] = n
                       THEN task[t].files[CHOOSE k \in loaded : ids[k] = n] ELSE fileOf[n]
    BY <2>1
  <2>6. DOMAIN ids = loaded
    OBVIOUS
  <2> HIDE DEF loaded
  <2>7. ASSUME NEW n \in Items
        PROVE  /\ fileOf'[n] \in Files \cup {None}
               /\ n \in items => fileOf'[n] # None
               /\ n \notin items => fileOf'[n] = fileOf[n]
    <3>1. CASE n \in items
      <4> DEFINE k == CHOOSE k \in loaded : ids[k] = n
      <4>1. k \in loaded
        BY <3>1
      <4>2. fileOf'[n] = task[t].files[k]
        BY <2>5, <3>1
      <4> HIDE DEF k
      <4> QED
        BY <2>3, <3>1, <4>1, <4>2
    <3>2. CASE n \notin items
      <4>1. fileOf'[n] = fileOf[n]
        BY <2>5, <3>2
      <4> QED
        BY <3>2, <4>1 DEF WorkspaceInv, FilesOk
    <3> QED
      BY <3>1, <3>2
  <2>8. FilesOk'
    <3>1. fileOf' = [n \in Items |-> fileOf'[n]]
      BY <2>1
    <3> QED
      BY <2>7, <3>1 DEF FilesOk
  <2>9. items \subseteq Items /\ \A n \in items : fileOf[n] = None
    BY <2>2
  <2>10. PaneOk(pane, fileOf')
    <3>1. \A k \in DOMAIN ids : ids[k] \in Items /\ fileOf'[ids[k]] # None
      BY <2>2, <2>6, <2>7
    <3> QED
      BY <1>2, <3>1, DeserializedOk
  <2> HIDE DEF items, pane
  <2>11. AreOk(workspace, fileOf')
    BY <2>7, <2>9, OtherPanesOk
  <2>12. ws \in WorkspaceState /\ ws.pane = pane
    BY <1>3, <2>9, <2>10 DEF WorkspaceState, PaneOk, Sound
  <2> HIDE DEF ws, i
  <2>13. WorkspacesOk'
    BY <2>4, <2>10, <2>11, <2>12, ChangeOk DEF WorkspacesOk
  <2>14. /\ tk \in TaskState /\ tk.stored = task[t].stored /\ tk.step = "cleanup"
         /\ tk.workspace = task[t].workspace
    BY <1>2 DEF TaskState
  <2> HIDE DEF tk
  <2>15. tk \in GoodTask
    BY <1>2, <2>14 DEF GoodTask, i
  <2>16. TasksOk'
    BY <2>4, <2>15, TaskOk
  <2>17. QueueOk'
    <3>1. CleanupWrite(task[t].id, items, t) \in Write
      BY <1>2, <2>9 DEF CleanupWrite, Write, TaskState
    <3> QED
      BY <2>4, <3>1, EnqueuedOk
  <2> QED
    BY <1>4, <1>5, <2>8, <2>13, <2>16, <2>17 DEF WorkspaceInv, ProgramOk, programVars
<1> QED
  BY <1>6, <1>7

LEMMA RestoreEndOk ==
  ASSUME WorkspaceInv, NEW t \in AllTasks, RestoreEnd(t)
  PROVE  WorkspaceInv'
<1>1. task[t].workspace \in Handles
  BY KnownTask DEF RestoreEnd, HasWorkspace
<1>2. /\ workspace[task[t].workspace] \in WorkspaceState
      /\ PaneOk(workspace[task[t].workspace].pane, fileOf)
  BY <1>1, KnownWorkspace
<1>3. /\ queue' = queue \o Saves(workspace[task[t].workspace], None)
      /\ task' = [task EXCEPT ![t] = NoTask]
      /\ UNCHANGED <<rows, files, programVars, shown, fileOf, budget>>
      /\ workspace' = Surviving(workspace)
  BY DEF RestoreEnd
<1>4. QueueOk'
  BY <1>2, <1>3, SavesOk
<1>5. TasksOk' /\ WorkspacesOk'
  BY <1>3, NoTaskGood, TaskOk, SurvivingOk DEF WorkspaceInv, WorkspacesOk
<1> QED
  BY <1>3, <1>4, <1>5, StoredStaysOk DEF WorkspaceInv, ProgramOk, FilesOk, programVars
-----------------------------------------------------------------------------
(* The program starts and ends.                                            *)
LEMMA SessionPathsKnown ==
  ASSUME WorkspaceInv, NEW session
  PROVE  SessionPaths(session) \subseteq Paths
<1> SUFFICES ASSUME NEW i \in SessionRows(session) PROVE rows[i].location \in Paths
  BY DEF SessionPaths
<1>1. i \in Ids /\ rows[i] # None /\ rows[i].location # None
  BY DEF SessionRows
<1>2. rows[i] \in SoundRow
  BY <1>1 DEF WorkspaceInv, StoredOk
<1> QED
  BY <1>1, <1>2 DEF SoundRow

LEMMA StartOk ==
  ASSUME WorkspaceInv, Start
  PROVE  WorkspaceInv'
<1>1. /\ up' = TRUE /\ run' = run + 1 /\ boot' = SessionPaths(run) /\ run < MaxRuns
      /\ UNCHANGED <<rows, files, shown, workspace, fileOf, budget>>
  BY DEF Start
<1>2. run' \in Sessions
  BY <1>1, WorkspaceAssumption DEF WorkspaceInv, ProgramOk, Sessions
<1>3. ProgramOk'
  BY <1>1, <1>2, SessionPathsKnown DEF ProgramOk, WorkspaceInv
<1>4. QueueOk' /\ TasksOk'
  <2>1. CASE boot' = {}
    <3>1. Boot \in AllTasks
      BY DEF AllTasks
    <3>2. /\ Enqueued(NewWrite(Boot))
          /\ task' = [task EXCEPT ![Boot] = [NoTask EXCEPT !.kind = "empty", !.step = "id"]]
      BY <2>1 DEF Start
    <3>3. QueueOk'
      BY <3>1, <3>2, NewWriteTyped, EnqueuedOk
    <3>4. TasksOk'
      BY <3>2, EmptyTaskGood, TaskOk
    <3> QED
      BY <3>3, <3>4
  <2>2. CASE boot' # {}
    BY <2>2 DEF Start, WorkspaceInv, QueueOk, TasksOk
  <2> QED
    BY <2>1, <2>2
<1> QED
  BY <1>1, <1>3, <1>4, StoredStaysOk, WorkspacesStayOk DEF WorkspaceInv, FilesOk

LEMMA ReopenOk ==
  ASSUME WorkspaceInv, NEW p \in Paths, Reopen(p)
  PROVE  WorkspaceInv'
<1> DEFINE tk == [NoTask EXCEPT !.kind = "open", !.step = "load", !.path = p]
<1>1. tk \in TaskState /\ tk.stored = NoTask.stored /\ tk.step = "load"
  BY NoTaskTyped DEF TaskState
<1>2. /\ task' = [task EXCEPT ![Boot] = tk] /\ boot' \subseteq boot
      /\ UNCHANGED <<dbVars, up, run, shown, workspace, fileOf, budget>>
  BY DEF Reopen
<1> HIDE DEF tk
<1>3. tk \in GoodTask
  BY <1>1, NoTaskTyped DEF GoodTask, HasWorkspace
<1>4. TasksOk' /\ WorkspacesOk' /\ StoredOk'
  BY <1>2, <1>3, TaskOk, WorkspacesStayOk, StoredStaysOk DEF dbVars
<1>5. ProgramOk' /\ QueueOk' /\ FilesOk'
  BY <1>2 DEF WorkspaceInv, ProgramOk, QueueOk, FilesOk, dbVars
<1> QED
  BY <1>4, <1>5 DEF WorkspaceInv

LEMMA DownOk ==
  ASSUME WorkspaceInv, Down, budget' \in [Kinds -> Nat]
  PROVE  WorkspaceInv'
<1>1. /\ up' = FALSE /\ boot' = {} /\ shown' = [w \in Windows |-> 0]
      /\ workspace' = [i \in Handles |-> NoWorkspace]
      /\ task' = [t \in AllTasks |-> NoTask] /\ fileOf' = NoFiles /\ queue' = <<>>
      /\ UNCHANGED <<rows, files, run>>
  BY DEF Down
<1>2. ProgramOk'
  BY <1>1 DEF ProgramOk, WorkspaceInv
<1>3. TasksOk'
  BY <1>1, NoTaskGood DEF TasksOk
<1>4. WorkspacesOk'
  BY <1>1, NoWorkspaceOk DEF WorkspacesOk, AreOk
<1>5. FilesOk' /\ QueueOk'
  BY <1>1 DEF FilesOk, QueueOk, NoFiles
<1> QED
  BY <1>1, <1>2, <1>3, <1>4, <1>5, StoredStaysOk DEF WorkspaceInv

LEMMA CrashOk ==
  ASSUME WorkspaceInv, Crash
  PROVE  WorkspaceInv'
BY DownOk, SpendOk DEF Crash

LEMMA QuitEndsOk ==
  ASSUME WorkspaceInv, NEW t, QuitEnds(t)
  PROVE  WorkspaceInv'
BY DownOk DEF QuitEnds, WorkspaceInv, ProgramOk

LEMMA RemoveWindowOk ==
  ASSUME WorkspaceInv, NEW t \in AllTasks, RemoveWindow(t)
  PROVE  WorkspaceInv'
<1>1. UNCHANGED budget /\ budget' \in [Kinds -> Nat]
  BY DEF RemoveWindow, WorkspaceInv, ProgramOk
<1>2. CASE OpenWindows = {task[t].window}
  BY <1>1, <1>2, DownOk DEF RemoveWindow
<1>3. CASE OpenWindows # {task[t].window}
  <2>1. /\ shown' = [shown EXCEPT ![task[t].window] = 0]
        /\ task' = [task EXCEPT ![t] = NoTask]
        /\ UNCHANGED <<dbVars, programVars, fileOf>> /\ workspace' = Surviving(workspace)
    BY <1>3 DEF RemoveWindow
  <2>2. TasksOk' /\ WorkspacesOk' /\ StoredOk'
    BY <2>1, NoTaskGood, TaskOk, SurvivingOk, StoredStaysOk
    DEF WorkspaceInv, WorkspacesOk, dbVars
  <2>3. ProgramOk' /\ QueueOk' /\ FilesOk'
    BY <1>1, <2>1 DEF WorkspaceInv, ProgramOk, QueueOk, FilesOk, dbVars, programVars
  <2> QED
    BY <2>2, <2>3 DEF WorkspaceInv
<1> QED
  BY <1>2, <1>3

LEMMA QuitGoesOnOk ==
  ASSUME WorkspaceInv, NEW t \in AllTasks, QuitGoesOn(t)
  PROVE  WorkspaceInv'
<1> DEFINE left == task[t].left \ {task[t].window}
           tk == [task[t] EXCEPT !.step = "prepare", !.left = left]
<1>1. task[t] \in TaskState /\ task[t].stored \in SoundStored /\ task[t].kind = "quit"
  BY KnownTask DEF QuitGoesOn
<1>2. left \subseteq Windows
  BY <1>1 DEF TaskState
<1>3. task' = [task EXCEPT ![t] = tk]
  BY DEF QuitGoesOn
<1> HIDE DEF left
<1>4. /\ tk \in TaskState /\ tk.stored = task[t].stored /\ tk.step = "prepare"
      /\ tk.kind = "quit"
  BY <1>1, <1>2 DEF TaskState
<1> HIDE DEF tk
<1>5. tk \in GoodTask
  BY <1>1, <1>4 DEF GoodTask, HasWorkspace
<1>6. budget' \in [Kinds -> Nat]
  BY DEF QuitGoesOn, WorkspaceInv, ProgramOk
<1> QED
  BY <1>3, <1>5, <1>6, OnlyTaskOk DEF QuitGoesOn

LEMMA QuitAbortsOk ==
  ASSUME WorkspaceInv, NEW t, NEW w, QuitAborts(t, w)
  PROVE  WorkspaceInv'
<1>1. budget' \in [Kinds -> Nat]
  BY DEF QuitAborts, WorkspaceInv, ProgramOk
<1> QED
  BY <1>1, NoTaskGood, OnlyTaskOk DEF QuitAborts

LEMMA ClearRecentOk ==
  ASSUME WorkspaceInv, NEW w, ClearRecent(w)
  PROVE  WorkspaceInv'
<1>1. budget' \in [Kinds -> Nat] /\ QueueOk'
  BY SpendOk, ClearWriteTyped, EnqueuedOk DEF ClearRecent
<1>2. WorkspacesOk' /\ StoredOk'
  BY WorkspacesStayOk, StoredStaysOk DEF ClearRecent
<1>3. UNCHANGED <<programVars, shown, task, fileOf>>
  BY DEF ClearRecent
<1> QED
  BY <1>1, <1>2, <1>3 DEF WorkspaceInv, ProgramOk, TasksOk, FilesOk, programVars

-----------------------------------------------------------------------------
(* The items.                                                              *)
LEMMA FileBuiltOk ==
  ASSUME WorkspaceInv, NEW t \in AllTasks, FileBuilt(t)
  PROVE  WorkspaceInv'
<1> DEFINE i == task[t].workspace
           f == task[t].file
           pane == workspace[i].pane
           current == workspace[i].renewed = task[t].renewed
           showing == IF current THEN Showing(pane, f) ELSE {}
<1>1. /\ i \in Handles /\ f \in Files /\ task[t].preview \in BOOLEAN
  BY KnownTask DEF FileBuilt, HasWorkspace, GoodTask, TaskState
<1>2. workspace[i] \in WorkspaceState /\ PaneOk(pane, fileOf)
  BY <1>1, KnownWorkspace
<1>3. /\ task' = [task EXCEPT ![t] = NoTask]
      /\ UNCHANGED <<dbVars, programVars, shown, budget>>
      /\ IF ~Alive(i) THEN UNCHANGED <<workspace, fileOf>>
         ELSE IF showing # {}
         THEN /\ \E k \in showing :
                   workspace' = [workspace EXCEPT ![i] =
                     [@ EXCEPT !.scheduled = TRUE,
                               !.pane = OpenExisting(pane, pane.items[k], task[t].preview)]]
              /\ UNCHANGED fileOf
         ELSE \E n \in FreshItems(1) :
                /\ fileOf' = [fileOf EXCEPT ![n] = f]
                /\ workspace' = [workspace EXCEPT ![i] =
                     [@ EXCEPT !.scheduled = TRUE, !.unsent = workspace[i].unsent \cup {n},
                               !.pane = IF current THEN OpenNew(pane, n, fileOf', task[t].preview)
                                        ELSE pane]]
  BY DEF FileBuilt
<1>4. WorkspacesOk' /\ FilesOk'
  <2>1. CASE ~Alive(i)
    BY <1>3, <2>1, WorkspacesStayOk DEF WorkspaceInv, FilesOk
  <2>2. CASE Alive(i) /\ showing # {}
    <3>1. PICK k \in showing :
            workspace' = [workspace EXCEPT ![i] =
              [@ EXCEPT !.scheduled = TRUE,
                        !.pane = OpenExisting(pane, pane.items[k], task[t].preview)]]
      BY <1>3, <2>2
    <3>2. UNCHANGED fileOf
      BY <1>3, <2>2
    <3> DEFINE next == OpenExisting(pane, pane.items[k], task[t].preview)
               ws == [workspace[i] EXCEPT !.scheduled = TRUE, !.pane = next]
    <3>3. Has(pane, pane.items[k])
      BY DEF Showing, Has
    <3>4. workspace' = [workspace EXCEPT ![i] = ws]
      BY <3>1
    <3>5. PaneOk(next, fileOf)
      BY <1>2, <3>3, OpenExistingOk
    <3> HIDE DEF next, showing
    <3>6. ws \in WorkspaceState /\ ws.pane = next
      BY <1>2, <3>5 DEF WorkspaceState, PaneOk, Sound
    <3> HIDE DEF ws, i
    <3> QED
      BY <3>2, <3>4, <3>5, <3>6, ChangesOk DEF WorkspaceInv, FilesOk
  <2>3. CASE Alive(i) /\ showing = {}
    <3>1. PICK n \in FreshItems(1) :
            /\ fileOf' = [fileOf EXCEPT ![n] = f]
            /\ workspace' = [workspace EXCEPT ![i] =
                 [@ EXCEPT !.scheduled = TRUE, !.unsent = workspace[i].unsent \cup {n},
                           !.pane = IF current THEN OpenNew(pane, n, fileOf', task[t].preview)
                                    ELSE pane]]
      BY <1>3, <2>3
    <3> DEFINE next == IF current THEN OpenNew(pane, n, fileOf', task[t].preview) ELSE pane
               ws == [workspace[i] EXCEPT !.scheduled = TRUE,
                                          !.unsent = workspace[i].unsent \cup {n},
                                          !.pane = next]
    <3>2. n \in Items /\ fileOf[n] = None
      BY FreshKnown
    <3>3. /\ fileOf'[n] = f /\ f # None /\ FilesOk'
          /\ \A m \in Items \ {n} : fileOf'[m] = fileOf[m]
      BY <1>1, <3>1, <3>2, WorkspaceAssumption DEF WorkspaceInv, FilesOk
    <3>4. AreOk(workspace, fileOf')
      <4>1. {n} \in SUBSET Items /\ \A m \in {n} : fileOf[m] = None
        BY <3>2
      <4> QED
        BY <3>3, <4>1, OtherPanesOk
    <3>5. PaneOk(pane, fileOf')
      BY <1>1, <3>4 DEF AreOk
    <3>6. PaneOk(next, fileOf')
      <4>1. CASE current
        <5>1. \A k \in 1 .. Len(pane.items) : fileOf'[pane.items[k]] # fileOf'[n]
          <6> SUFFICES ASSUME NEW k \in 1 .. Len(pane.items)
                       PROVE  fileOf'[pane.items[k]] # f
            BY <3>3
          <6>1. fileOf[pane.items[k]] # f
            BY <2>3, <4>1 DEF Showing
          <6>2. pane.items[k] \in Items /\ fileOf[pane.items[k]] # None
            BY <1>2 DEF PaneOk, Sound, PaneState, Tabs
          <6> QED
            BY <3>2, <3>3, <6>1, <6>2
        <5> HIDE DEF pane
        <5>2. PaneOk(OpenNew(pane, n, fileOf', task[t].preview), fileOf')
          BY <1>1, <3>2, <3>3, <3>5, <5>1, OpenNewOk
        <5> QED
          BY <4>1, <5>2
      <4>2. CASE ~current
        BY <3>5, <4>2
      <4> QED
        BY <4>1, <4>2
    <3>7. workspace' = [workspace EXCEPT ![i] = ws]
      BY <3>1
    <3> HIDE DEF next, pane, showing, current
    <3>8. ws \in WorkspaceState /\ ws.pane = next
      BY <1>2, <3>2, <3>6 DEF WorkspaceState, PaneOk, Sound
    <3> HIDE DEF ws, i
    <3>9. WorkspacesOk'
      BY <3>4, <3>6, <3>7, <3>8, ChangeOk DEF WorkspacesOk
    <3> QED
      BY <3>3, <3>9
  <2> QED
    BY <2>1, <2>2, <2>3
<1>5. TasksOk' /\ StoredOk'
  BY <1>3, NoTaskGood, TaskOk, StoredStaysOk DEF dbVars
<1> QED
  BY <1>3, <1>4, <1>5 DEF WorkspaceInv, QueueOk, ProgramOk, dbVars, programVars

(* A tab step changes the pane of the workspace that a window shows.       *)
LEMMA PaneChangeOk ==
  ASSUME WorkspaceInv, NEW i \in Handles, NEW ws \in WorkspaceState, PaneOk(ws.pane, fileOf),
         workspace' = [workspace EXCEPT ![i] = ws], budget' \in [Kinds -> Nat],
         UNCHANGED <<dbVars, programVars, shown, task, fileOf>>
  PROVE  WorkspaceInv'
<1>1. WorkspacesOk' /\ StoredOk'
  BY ChangesOk, StoredStaysOk DEF dbVars
<1> QED
  BY <1>1 DEF WorkspaceInv, QueueOk, ProgramOk, TasksOk, FilesOk, dbVars, programVars

LEMMA ItemsOfKnown ==
  ASSUME WorkspaceInv, NEW w \in Windows, NEW n \in ItemsOf(w)
  PROVE  /\ shown[w] \in Handles /\ workspace[shown[w]] \in WorkspaceState
         /\ PaneOk(workspace[shown[w]].pane, fileOf) /\ n \in Items
         /\ Has(workspace[shown[w]].pane, n)
<1>1. IsOpen(w) /\ n \in Items /\ Has(workspace[shown[w]].pane, n)
  BY DEF ItemsOf
<1> QED
  BY <1>1, ShownKnown, KnownWorkspace

LEMMA PaneChangesOk ==
  ASSUME WorkspaceInv, NEW w \in Windows, NEW n \in ItemsOf(w), NEW pane, PaneOk(pane, fileOf),
         PaneChanges(w, pane), Spend("tab")
  PROVE  WorkspaceInv'
<1> DEFINE ws == [workspace[shown[w]] EXCEPT !.pane = pane, !.scheduled = TRUE]
<1>1. shown[w] \in Handles /\ workspace[shown[w]] \in WorkspaceState
  BY ItemsOfKnown
<1>2. ws \in WorkspaceState /\ ws.pane = pane
  BY <1>1 DEF WorkspaceState, PaneOk, Sound
<1>3. workspace' = [workspace EXCEPT ![shown[w]] = ws]
  BY DEF PaneChanges
<1> HIDE DEF ws
<1>4. budget' \in [Kinds -> Nat]
  BY SpendOk
<1> QED
  BY <1>1, <1>2, <1>3, <1>4, PaneChangeOk DEF PaneChanges

LEMMA TabStepOk ==
  ASSUME WorkspaceInv, NEW w \in Windows, TabStep(w)
  PROVE  WorkspaceInv'
<1> DEFINE pane == workspace[shown[w]].pane
<1>1. ASSUME NEW n \in Items, SelectTab(w, n) PROVE WorkspaceInv'
  <2>1. n \in ItemsOf(w) /\ Spend("tab") /\ PaneChanges(w, ActivateItem(pane, IndexOf(pane, n)))
    BY <1>1 DEF SelectTab
  <2>2. PaneOk(pane, fileOf) /\ Has(pane, n)
    BY <2>1, ItemsOfKnown
  <2> HIDE DEF pane
  <2>3. IndexOf(pane, n) \in Nat
    BY <2>2, IndexOfFacts DEF PaneOk, Sound, PaneState
  <2>4. PaneOk(ActivateItem(pane, IndexOf(pane, n)), fileOf)
    BY <2>2, <2>3, ActivateOk
  <2> QED
    BY <2>1, <2>4, PaneChangesOk
<1>2. ASSUME NEW n \in Items, CloseItem(w, n) PROVE WorkspaceInv'
  <2>1. n \in ItemsOf(w) /\ Spend("tab") /\ PaneChanges(w, RemoveItem(pane, n))
    BY <1>2 DEF CloseItem
  <2>2. PaneOk(pane, fileOf)
    BY <2>1, ItemsOfKnown
  <2> HIDE DEF pane
  <2>3. PaneOk(RemoveItem(pane, n), fileOf)
    BY <2>2, RemoveOk
  <2> QED
    BY <2>1, <2>3, PaneChangesOk
<1>3. ASSUME NEW n \in Items, NEW index \in 0 .. Cardinality(Items), DragTab(w, n, index)
      PROVE  WorkspaceInv'
  <2> DEFINE next == MoveTab(pane, n, fileOf, index)
             ws == [workspace[shown[w]] EXCEPT !.scheduled = TRUE,
                      !.unsent = workspace[shown[w]].unsent \cup {n}, !.pane = next]
  <2>1. /\ n \in ItemsOf(w) /\ workspace' = [workspace EXCEPT ![shown[w]] = ws]
        /\ UNCHANGED <<dbVars, programVars, shown, task, fileOf>>
    BY <1>3 DEF DragTab
  <2>2. /\ shown[w] \in Handles /\ workspace[shown[w]] \in WorkspaceState
        /\ PaneOk(pane, fileOf) /\ Has(pane, n)
    BY <2>1, ItemsOfKnown
  <2>3. index \in Nat
    BY <1>3
  <2> HIDE DEF pane
  <2>4. PaneOk(next, fileOf)
    BY <2>2, <2>3, MoveTabOk
  <2> HIDE DEF next
  <2>5. ws \in WorkspaceState /\ ws.pane = next
    BY <2>2, <2>4 DEF WorkspaceState, PaneOk, Sound
  <2> HIDE DEF ws
  <2>6. budget' \in [Kinds -> Nat]
    BY <1>3, SpendOk DEF DragTab
  <2> QED
    BY <2>1, <2>2, <2>4, <2>5, <2>6, PaneChangeOk
<1>4. ASSUME NEW heard \in BOOLEAN, KeepPreview(w, heard) PROVE WorkspaceInv'
  <2> DEFINE next == [pane EXCEPT !.preview = None]
             ws == [workspace[shown[w]] EXCEPT !.pane = next,
                      !.scheduled = workspace[shown[w]].scheduled \/ heard]
  <2>1. /\ workspace' = [workspace EXCEPT ![shown[w]] = ws]
        /\ UNCHANGED <<dbVars, programVars, shown, task, fileOf>> /\ IsOpen(w)
    BY <1>4 DEF KeepPreview
  <2>2. shown[w] \in Handles
    BY <2>1, ShownKnown
  <2>3. workspace[shown[w]] \in WorkspaceState /\ PaneOk(pane, fileOf)
    BY <2>2, KnownWorkspace
  <2> HIDE DEF pane
  <2>4. PaneOk(next, fileOf)
    <3>1. next = UnpreviewItem(pane, pane.preview)
      BY DEF UnpreviewItem
    <3> QED
      BY <2>3, <3>1, UnpreviewOk
  <2> HIDE DEF next
  <2>5. ws \in WorkspaceState /\ ws.pane = next
    BY <2>3, <2>4 DEF WorkspaceState, PaneOk, Sound
  <2> HIDE DEF ws
  <2>6. budget' \in [Kinds -> Nat]
    BY <1>4, SpendOk DEF KeepPreview
  <2> QED
    BY <2>1, <2>2, <2>4, <2>5, <2>6, PaneChangeOk
<1> QED
  BY <1>1, <1>2, <1>3, <1>4 DEF TabStep
-----------------------------------------------------------------------------
LEMMA InitOk == Init => WorkspaceInv
<1> SUFFICES ASSUME Init PROVE WorkspaceInv
  OBVIOUS
<1>1. StoredOk
  BY DEF Init, StoredOk, NoFiles
<1>2. QueueOk /\ FilesOk
  BY DEF Init, QueueOk, FilesOk, NoFiles
<1>3. ProgramOk
  <2>1. budget \in [Kinds -> Nat]
    BY WorkspaceAssumption DEF Init
  <2>2. 0 \in Sessions
    BY WorkspaceAssumption DEF Sessions
  <2> QED
    BY <2>1, <2>2 DEF Init, ProgramOk
<1>4. TasksOk
  BY NoTaskGood DEF Init, TasksOk
<1>5. WorkspacesOk
  BY NoWorkspaceOk DEF Init, WorkspacesOk, AreOk
<1> QED
  BY <1>1, <1>2, <1>3, <1>4, <1>5 DEF WorkspaceInv

LEMMA CommandStepOk ==
  ASSUME WorkspaceInv, NEW t \in Tasks, CommandStep(t)
  PROVE  WorkspaceInv'
<1>1. t \in AllTasks
  BY DEF AllTasks
<1> QED
  BY <1>1, CloseProjectOk, CloseWindowOk, QuitPreparesOk, QuitAbortsOk, OpenProjectOk,
     OpenFileOk, QuitOk DEF CommandStep

LEMMA TaskStepOk ==
  ASSUME WorkspaceInv, NEW t \in AllTasks, TaskStep(t)
  PROVE  WorkspaceInv'
<1>1. CASE PrepareToClose(t) \/ RemoveFromSession(t)
  BY <1>1, PrepareToCloseOk, RemoveFromSessionOk
<1>2. CASE GiveUp(t) \/ FoundOpen(t) \/ StartLoad(t)
  BY <1>2, GiveUpOk, StartLoadOk
<1>3. CASE LoadKnown(t) \/ LoadNew(t) \/ ReplaceByEmpty(t)
  BY <1>3, LoadKnownOk, LoadNewOk
<1>4. CASE IdArrived(t) \/ LoadFailed(t)
  BY <1>4, IdArrivedOk, LoadFailedOk
<1>5. CASE ReadItems(t) \/ RestoreItems(t) \/ RestoreEnd(t)
  BY <1>5, ReadItemsOk, RestoreItemsOk, RestoreEndOk
<1>6. CASE RemoveWindow(t) \/ QuitGoesOn(t) \/ QuitEnds(t) \/ FileBuilt(t)
  BY <1>6, RemoveWindowOk, QuitGoesOnOk, QuitEndsOk, FileBuiltOk
<1> QED
  BY <1>1, <1>2, <1>3, <1>4, <1>5, <1>6 DEF TaskStep

LEMMA NextOk == WorkspaceInv /\ [Next]_vars => WorkspaceInv'
<1> SUFFICES ASSUME WorkspaceInv, [Next]_vars PROVE WorkspaceInv'
  OBVIOUS
<1>1. CASE Start \/ Crash \/ Written
  BY <1>1, StartOk, CrashOk, WrittenOk
<1>2. CASE \E p \in Paths : Reopen(p)
  BY <1>2, ReopenOk
<1>3. CASE \E t \in Tasks : CommandStep(t)
  BY <1>3, CommandStepOk
<1>4. CASE \E t \in AllTasks : TaskStep(t)
  BY <1>4, TaskStepOk
<1>5. CASE \E i \in Handles : TimerSaves(i) \/ ItemsSent(i)
  BY <1>5, TimerSavesOk, ItemsSentOk
<1>6. CASE \E w \in Windows : ClearRecent(w) \/ TabStep(w)
  BY <1>6, ClearRecentOk, TabStepOk
<1>7. CASE UNCHANGED vars
  <2>1. UNCHANGED <<rows, files, queue, up, run, boot, shown, workspace, task, fileOf, budget>>
    BY <1>7 DEF vars, dbVars
  <2> QED
    BY <2>1, WorkspacesStayOk, StoredStaysOk DEF WorkspaceInv, QueueOk, ProgramOk, TasksOk, FilesOk
<1> QED
  BY <1>1, <1>2, <1>3, <1>4, <1>5, <1>6, <1>7 DEF Next

(* The invariant holds throughout, over any number of runs that end by     *)
(* quitting or by a crash.                                                 *)
THEOREM WorkspaceInvariant == Spec => []WorkspaceInv
BY InitOk, NextOk, PTL DEF Spec

(* The variables keep their types: what is stored, queued and read, the    *)
(* workspaces, the commands in progress (workspace.rs, persistence.rs).    *)
THEOREM WorkspaceTypes == Spec => []TypeOK
<1>1. WorkspaceInv => TypeOK
  <2> SUFFICES ASSUME WorkspaceInv PROVE TypeOK
    OBVIOUS
  <2>1. SoundRow \subseteq Row
    BY DEF SoundRow, Row, SoundStored
  <2>2. DbTypeOK
    BY <2>1 DEF WorkspaceInv, StoredOk, DbTypeOK
  <2>3. task \in [AllTasks -> TaskState]
    BY DEF WorkspaceInv, TasksOk, GoodTask
  <2> QED
    BY <2>2, <2>3 DEF WorkspaceInv, ProgramOk, FilesOk, WorkspacesOk, AreOk, TypeOK
<1> QED
  BY <1>1, WorkspaceInvariant, PTL

(* The panes that are shown stay sound, however their tabs were opened,    *)
(* moved, closed and restored, while other commands of the same workspace  *)
(* are at an await: a restored pane that replaces the one a file was asked *)
(* for, a file that is built after its pane is gone, two stored items of   *)
(* one file (pane.rs, deserialize_to, open_path_preview).                  *)
THEOREM PanesStaySound == Spec => []PanesSound
<1>1. WorkspaceInv => PanesSound
  <2> SUFFICES ASSUME WorkspaceInv, NEW w \in OpenWindows
               PROVE  PaneSound(workspace[shown[w]].pane, fileOf)
    BY DEF PanesSound
  <2>1. w \in Windows /\ IsOpen(w)
    BY DEF OpenWindows
  <2>2. PaneOk(workspace[shown[w]].pane, fileOf)
    BY <2>1, ShownKnown, KnownWorkspace
  <2> QED
    BY <2>2 DEF PaneOk, Sound
<1> QED
  BY <1>1, WorkspaceInvariant, PTL

-----------------------------------------------------------------------------
(***************************************************************************)
(* An id belongs to one workspace.  The argument is about what the rows,   *)
(* the queued saves and the workspaces that are alive know of each other:  *)
(* the ledger.  It is stated over its parts, so that a step which queues a *)
(* save and drops a workspace can be taken in two.                         *)
(*                                                                         *)
(* rs are the rows, q the queue, alive the workspaces, id and path what    *)
(* they were created for; drawn are the tasks whose new id has come, each  *)
(* with its own.                                                           *)
(***************************************************************************)
IsSave(q, k, n) == q[k].op = "save" /\ q[k].id = n
SavesAt(q, k, p) == q[k].op = "save" /\ q[k].row.location = p

(* Two workspaces that are alive have other ids and other directories.     *)
OneEach(alive, id, path) ==
  \A i, j \in alive : id[i] = id[j] \/ (path[i] # None /\ path[i] = path[j]) => i = j

(* Its row is there, and was never that of another directory.              *)
Listed(rs, alive, id, path) ==
  \A i \in alive : /\ id[i] \in Ids /\ rs[id[i]] # None
                   /\ rs[id[i]].location = None \/ rs[id[i]].location = path[i]

(* What is queued for its row is of its directory.                         *)
SavedThere(q, alive, id, path) ==
  \A i \in alive, k \in 1 .. Len(q) :
    IsSave(q, k, id[i]) => q[k].row.location = path[i]

(* Another row of its directory comes before its own is there.             *)
Superseded(rs, q, alive, id, path) ==
  \A i \in alive, k \in 1 .. Len(q) :
    SavesAt(q, k, path[i]) /\ q[k].id # id[i] =>
      /\ rs[id[i]].location = None
      /\ \A m \in 1 .. k - 1 : ~IsSave(q, m, id[i])

(* A queued save is that of a workspace, or stores its row once more.      *)
Again(rs, q, k) ==
  /\ q[k].id \in Ids /\ rs[q[k].id] # None /\ rs[q[k].id].location = q[k].row.location
  /\ \A m \in 1 .. k - 1 : SavesAt(q, m, q[k].row.location) => q[m].id = q[k].id
Owned(rs, q, alive, id) ==
  \A k \in 1 .. Len(q) :
    q[k].op = "save" => /\ q[k].row.location # None
                        /\ (\E i \in alive : id[i] = q[k].id) \/ Again(rs, q, k)

(* A new id is that of a row without a directory, and of no workspace.     *)
Reserved(rs, alive, id, drawn, drawnId) ==
  \A t \in drawn :
    /\ drawnId[t] \in Ids /\ rs[drawnId[t]] # None /\ rs[drawnId[t]].location = None
    /\ \A i \in alive : id[i] # drawnId[t]
    /\ \A u \in drawn : drawnId[u] = drawnId[t] => u = t

Ledger(rs, q, alive, id, path, drawn, drawnId) ==
  /\ \A k \in 1 .. Len(q) : q[k].op # "clear"
  /\ OneEach(alive, id, path)
  /\ Listed(rs, alive, id, path)
  /\ SavedThere(q, alive, id, path)
  /\ Superseded(rs, q, alive, id, path)
  /\ Owned(rs, q, alive, id)
  /\ Reserved(rs, alive, id, drawn, drawnId)

(* The row of a workspace has its directory.                               *)
IsStored(rs, id, path, i) == path[i] = None \/ (rs[id[i]] # None /\ rs[id[i]].location = path[i])
(* Workspaces are dropped once their rows are stored; ids are used up.     *)
LEMMA Dropping ==
  ASSUME NEW rs, NEW q, NEW alive, NEW id, NEW path, NEW drawn, NEW drawnId,
         Ledger(rs, q, alive, id, path, drawn, drawnId),
         NEW alive2 \in SUBSET alive, NEW id2, NEW path2,
         \A i \in alive2 : id2[i] = id[i] /\ path2[i] = path[i],
         NEW drawn2 \in SUBSET drawn, NEW drawnId2, \A t \in drawn2 : drawnId2[t] = drawnId[t],
         \A i \in alive \ alive2 : IsStored(rs, id, path, i)
  PROVE  Ledger(rs, q, alive2, id2, path2, drawn2, drawnId2)
<1>1. OneEach(alive2, id2, path2) /\ Listed(rs, alive2, id2, path2)
  BY DEF Ledger, OneEach, Listed
<1>2. SavedThere(q, alive2, id2, path2) /\ Superseded(rs, q, alive2, id2, path2)
  BY DEF Ledger, SavedThere, Superseded
<1>3. Reserved(rs, alive2, id2, drawn2, drawnId2)
  BY DEF Ledger, Reserved
<1>4. Owned(rs, q, alive2, id2)
  <2> SUFFICES ASSUME NEW k \in 1 .. Len(q), q[k].op = "save",
                      ~\E i \in alive2 : id2[i] = q[k].id
               PROVE  q[k].row.location # None /\ Again(rs, q, k)
    BY DEF Ledger, Owned
  <2>1. q[k].row.location # None /\ ((\E i \in alive : id[i] = q[k].id) \/ Again(rs, q, k))
    BY DEF Ledger, Owned
  <2>2. ASSUME NEW i \in alive, id[i] = q[k].id PROVE Again(rs, q, k)
    <3>1. q[k].row.location = path[i]
      BY <2>2 DEF Ledger, SavedThere, IsSave
    <3>2. rs[id[i]] # None /\ rs[id[i]].location = path[i]
      BY <2>1, <2>2, <3>1 DEF IsStored
    <3>3. ASSUME NEW m \in 1 .. k - 1, SavesAt(q, m, path[i]) PROVE q[m].id = id[i]
      <4>1. m \in 1 .. Len(q)
        OBVIOUS
      <4> QED
        BY <2>1, <3>1, <3>2, <3>3, <4>1 DEF Ledger, Superseded
    <3> QED
      BY <2>2, <3>1, <3>2, <3>3 DEF Again, Ledger, Listed
  <2> QED
    BY <2>1, <2>2
<1> QED
  BY <1>1, <1>2, <1>3, <1>4 DEF Ledger

(* Saves of workspaces that are alive are queued, and other writes.        *)
LEMMA Queueing ==
  ASSUME NEW rs, NEW q, NEW alive, NEW id, NEW path, NEW drawn, NEW drawnId,
         Ledger(rs, q, alive, id, path, drawn, drawnId),
         NEW q2, Len(q) \in Nat, Len(q2) \in Nat, Len(q) <= Len(q2),
         \A k \in 1 .. Len(q) : q2[k] = q[k],
         \A k \in Len(q) + 1 .. Len(q2) :
           /\ q2[k].op # "clear"
           /\ q2[k].op = "save" =>
                \E i \in alive : /\ q2[k].id = id[i] /\ q2[k].row.location = path[i]
                                 /\ path[i] # None
  PROVE  Ledger(rs, q2, alive, id, path, drawn, drawnId)
<1>1. \A k \in 1 .. Len(q2) : k \in 1 .. Len(q) \/ k \in Len(q) + 1 .. Len(q2)
  OBVIOUS
<1>2. \A k \in 1 .. Len(q2) : q2[k].op # "clear"
  BY <1>1 DEF Ledger
<1>3. SavedThere(q2, alive, id, path)
  <2> SUFFICES ASSUME NEW i \in alive, NEW k \in 1 .. Len(q2), IsSave(q2, k, id[i])
               PROVE  q2[k].row.location = path[i]
    BY DEF SavedThere
  <2>1. CASE k \in 1 .. Len(q)
    BY <2>1 DEF Ledger, SavedThere, IsSave
  <2>2. CASE k \in Len(q) + 1 .. Len(q2)
    BY <2>2 DEF Ledger, OneEach, IsSave
  <2> QED
    BY <1>1, <2>1, <2>2
<1>4. Superseded(rs, q2, alive, id, path)
  <2> SUFFICES ASSUME NEW i \in alive, NEW k \in 1 .. Len(q2), SavesAt(q2, k, path[i]),
                      q2[k].id # id[i]
               PROVE  /\ rs[id[i]].location = None
                      /\ \A m \in 1 .. k - 1 : ~IsSave(q2, m, id[i])
    BY DEF Superseded
  <2>1. CASE k \in 1 .. Len(q)
    <3>1. /\ rs[id[i]].location = None
          /\ \A m \in 1 .. k - 1 : ~IsSave(q, m, id[i])
      BY <2>1 DEF Ledger, Superseded, SavesAt
    <3>2. \A m \in 1 .. k - 1 : m \in 1 .. Len(q)
      BY <2>1
    <3> QED
      BY <3>1, <3>2 DEF IsSave
  <2>2. CASE k \in Len(q) + 1 .. Len(q2)
    <3>1. PICK j \in alive : q2[k].id = id[j] /\ q2[k].row.location = path[j] /\ path[j] # None
      BY <2>2 DEF SavesAt
    <3>2. i = j
      BY <3>1 DEF Ledger, OneEach, SavesAt
    <3> QED
      BY <3>1, <3>2
  <2> QED
    BY <1>1, <2>1, <2>2
<1>5. Owned(rs, q2, alive, id)
  <2> SUFFICES ASSUME NEW k \in 1 .. Len(q2), q2[k].op = "save"
               PROVE  /\ q2[k].row.location # None
                      /\ (\E i \in alive : id[i] = q2[k].id) \/ Again(rs, q2, k)
    BY DEF Owned
  <2>1. CASE k \in 1 .. Len(q)
    <3>1. q2[k].row.location # None /\ ((\E i \in alive : id[i] = q2[k].id) \/ Again(rs, q, k))
      BY <2>1 DEF Ledger, Owned
    <3>2. \A m \in 1 .. k - 1 : q2[m] = q[m]
      BY <2>1
    <3> QED
      BY <2>1, <3>1, <3>2 DEF Again, SavesAt
  <2>2. CASE k \in Len(q) + 1 .. Len(q2)
    BY <2>2
  <2> QED
    BY <1>1, <2>1, <2>2
<1> QED
  BY <1>2, <1>3, <1>4, <1>5 DEF Ledger
(* A workspace comes with an id that was drawn for it.                     *)
LEMMA ComingNew ==
  ASSUME NEW rs, NEW q, NEW alive, NEW id, NEW path, NEW drawn, NEW drawnId,
         Ledger(rs, q, alive, id, path, drawn, drawnId),
         NEW f, NEW t \in drawn, id[f] = drawnId[t], NEW drawn2, drawn2 = drawn \ {t},
         \A i \in alive : path[f] # None => path[i] # path[f]
  PROVE  Ledger(rs, q, alive \cup {f}, id, path, drawn2, drawnId)
<1> DEFINE alive2 == alive \cup {f}
<1>1. /\ id[f] \in Ids /\ rs[id[f]] # None /\ rs[id[f]].location = None
      /\ \A i \in alive : id[i] # id[f]
  BY DEF Ledger, Reserved
<1>2. ASSUME NEW k \in 1 .. Len(q) PROVE ~IsSave(q, k, id[f])
  BY <1>1, <1>2 DEF Ledger, Owned, Again, IsSave
<1>3. \A i \in alive2 : i \in alive \/ i = f
  OBVIOUS
<1> HIDE DEF alive2
<1>4. OneEach(alive2, id, path)
  BY <1>1, <1>3 DEF Ledger, OneEach
<1>5. Listed(rs, alive2, id, path)
  BY <1>1, <1>3 DEF Ledger, Listed
<1>6. SavedThere(q, alive2, id, path)
  BY <1>2, <1>3 DEF Ledger, SavedThere
<1>7. Superseded(rs, q, alive2, id, path)
  <2> SUFFICES ASSUME NEW i \in alive2, NEW k \in 1 .. Len(q), SavesAt(q, k, path[i]),
                      q[k].id # id[i]
               PROVE  /\ rs[id[i]].location = None
                      /\ \A m \in 1 .. k - 1 : ~IsSave(q, m, id[i])
    BY DEF Superseded
  <2>1. CASE i \in alive
    BY <2>1 DEF Ledger, Superseded
  <2>2. CASE i = f
    <3>1. \A m \in 1 .. k - 1 : m \in 1 .. Len(q)
      OBVIOUS
    <3> QED
      BY <1>1, <1>2, <2>2, <3>1
  <2> QED
    BY <1>3, <2>1, <2>2
<1>8. Owned(rs, q, alive2, id)
  BY DEF Ledger, Owned, alive2
<1>9. Reserved(rs, alive2, id, drawn2, drawnId)
  BY <1>1, <1>3 DEF Ledger, Reserved
<1> QED
  BY <1>4, <1>5, <1>6, <1>7, <1>8, <1>9 DEF Ledger, alive2

(* A workspace comes back for the row of its directory.                    *)
LEMMA ComingBack ==
  ASSUME NEW rs, NEW q, NEW alive, NEW id, NEW path, NEW drawn, NEW drawnId,
         Ledger(rs, q, alive, id, path, drawn, drawnId),
         NEW f, path[f] # None,
         id[f] \in Ids /\ rs[id[f]] # None /\ rs[id[f]].location = path[f],
         \A i \in Ids : rs[i] # None /\ rs[i].location = path[f] => i = id[f],
         \A i \in alive : path[i] # path[f]
  PROVE  Ledger(rs, q, alive \cup {f}, id, path, drawn, drawnId)
<1> DEFINE alive2 == alive \cup {f}
<1>1. \A i \in alive : id[i] # id[f]
  BY DEF Ledger, Listed
<1>2. \A i \in alive2 : i \in alive \/ i = f
  OBVIOUS
<1> HIDE DEF alive2
<1>3. OneEach(alive2, id, path)
  BY <1>1, <1>2 DEF Ledger, OneEach
<1>4. Listed(rs, alive2, id, path)
  BY <1>2 DEF Ledger, Listed
<1>5. ASSUME NEW k \in 1 .. Len(q), IsSave(q, k, id[f]) PROVE q[k].row.location = path[f]
  BY <1>1, <1>5 DEF Ledger, Owned, Again, IsSave
<1>6. SavedThere(q, alive2, id, path)
  BY <1>2, <1>5 DEF Ledger, SavedThere
<1>7. ASSUME NEW k \in 1 .. Len(q), SavesAt(q, k, path[f]) PROVE q[k].id = id[f]
  <2>1. (\E i \in alive : id[i] = q[k].id) \/ Again(rs, q, k)
    BY <1>7 DEF Ledger, Owned, SavesAt
  <2>2. ASSUME NEW i \in alive, id[i] = q[k].id PROVE FALSE
    <3>1. path[i] = q[k].row.location
      BY <1>7, <2>2 DEF Ledger, SavedThere, SavesAt, IsSave
    <3> QED
      BY <1>7, <3>1 DEF SavesAt
  <2> QED
    BY <1>7, <2>1, <2>2 DEF Again, SavesAt
<1>8. Superseded(rs, q, alive2, id, path)
  BY <1>2, <1>7 DEF Ledger, Superseded
<1>9. Owned(rs, q, alive2, id)
  BY DEF Ledger, Owned, alive2
<1>10. Reserved(rs, alive2, id, drawn, drawnId)
  BY <1>2 DEF Ledger, Reserved
<1> QED
  BY <1>3, <1>4, <1>6, <1>8, <1>9, <1>10 DEF Ledger, alive2

(* q is left with what follows its first, a save that made rs into rs2.    *)
StoresFirst(rs, q, rs2, q2) ==
  /\ Len(q) \in Nat \ {0} /\ q[1].op = "save" /\ (q[1].id \in Ids => q[1].row # None)
  /\ Len(q2) = Len(q) - 1 /\ \A k \in 1 .. Len(q2) : q2[k] = q[k + 1]
  /\ \A i \in Ids : rs2[i] = IF i = q[1].id THEN q[1].row
                              ELSE IF rs[i] # None /\ rs[i].location = q[1].row.location
                              THEN None ELSE rs[i]

(* The thread stores the first of the queue.                               *)
LEMMA Storing ==
  ASSUME NEW rs, NEW q, NEW alive, NEW id, NEW path, NEW drawn, NEW drawnId,
         Ledger(rs, q, alive, id, path, drawn, drawnId),
         NEW rs2, NEW q2, StoresFirst(rs, q, rs2, q2)
  PROVE  /\ Ledger(rs2, q2, alive, id, path, drawn, drawnId)
         /\ \A i \in alive : IsStored(rs, id, path, i) \/ q[1].id = id[i]
                               => IsStored(rs2, id, path, i)
<1>0. /\ Len(q) \in Nat \ {0} /\ q[1].op = "save" /\ (q[1].id \in Ids => q[1].row # None)
      /\ Len(q2) = Len(q) - 1 /\ \A k \in 1 .. Len(q2) : q2[k] = q[k + 1]
      /\ \A i \in Ids : rs2[i] = IF i = q[1].id THEN q[1].row
                                  ELSE IF rs[i] # None /\ rs[i].location = q[1].row.location
                                  THEN None ELSE rs[i]
  BY DEF StoresFirst
<1> USE <1>0
<1> DEFINE n == q[1].id
           p == q[1].row.location
<1>1. /\ 1 \in 1 .. Len(q) /\ SavesAt(q, 1, p) /\ IsSave(q, 1, n) /\ p # None
      /\ (\E i \in alive : id[i] = n) \/ Again(rs, q, 1)
  BY DEF Ledger, Owned, SavesAt, IsSave
<1>2. ASSUME NEW k \in 1 .. Len(q2)
      PROVE  k + 1 \in 1 .. Len(q) /\ 1 \in 1 .. (k + 1) - 1 /\ q2[k] = q[k + 1]
  OBVIOUS
<1>3. ASSUME NEW i \in alive, id[i] = n PROVE p = path[i]
  BY <1>1, <1>3 DEF Ledger, SavedThere
<1>4. ASSUME NEW i \in alive, id[i] # n, p = path[i] PROVE rs[id[i]].location = None
  BY <1>1, <1>4 DEF Ledger, Superseded
<1>5. ASSUME NEW i \in alive
      PROVE  /\ id[i] \in Ids
             /\ rs2[id[i]] = IF id[i] = n THEN q[1].row ELSE rs[id[i]]
  <2>1. id[i] \in Ids /\ (rs[id[i]].location = None \/ rs[id[i]].location = path[i])
    BY DEF Ledger, Listed
  <2> QED
    BY <1>1, <1>4, <2>1
<1>6. \A i \in alive : IsStored(rs, id, path, i) \/ q[1].id = id[i]
                         => IsStored(rs2, id, path, i)
  BY <1>3, <1>5 DEF IsStored
<1>7. ASSUME NEW t \in drawn
      PROVE  drawnId[t] \in Ids /\ drawnId[t] # n /\ rs2[drawnId[t]] = rs[drawnId[t]]
  <2>1. /\ drawnId[t] \in Ids /\ rs[drawnId[t]].location = None
        /\ \A i \in alive : id[i] # drawnId[t]
    BY DEF Ledger, Reserved
  <2>2. drawnId[t] # n
    BY <1>1, <2>1 DEF Again
  <2> QED
    BY <1>1, <2>1, <2>2
<1>8. ASSUME NEW i \in Ids, rs2[i] = None PROVE i # n
  BY <1>8
<1> HIDE DEF n, p
<1>9. Listed(rs2, alive, id, path)
  <2> SUFFICES ASSUME NEW i \in alive
               PROVE  /\ id[i] \in Ids /\ rs2[id[i]] # None
                      /\ rs2[id[i]].location = None \/ rs2[id[i]].location = path[i]
    BY DEF Listed
  <2>1. CASE id[i] = n
    BY <1>3, <1>5, <1>8, <2>1 DEF n, p
  <2>2. CASE id[i] # n
    BY <1>5, <2>2 DEF Ledger, Listed
  <2> QED
    BY <2>1, <2>2
<1>10. SavedThere(q2, alive, id, path)
  BY <1>2 DEF Ledger, SavedThere, IsSave
<1>11. Superseded(rs2, q2, alive, id, path)
  <2> SUFFICES ASSUME NEW i \in alive, NEW k \in 1 .. Len(q2), SavesAt(q2, k, path[i]),
                      q2[k].id # id[i]
               PROVE  /\ rs2[id[i]].location = None
                      /\ \A m \in 1 .. k - 1 : ~IsSave(q2, m, id[i])
    BY DEF Superseded
  <2>1. SavesAt(q, k + 1, path[i]) /\ q[k + 1].id # id[i] /\ k + 1 \in 1 .. Len(q)
    BY <1>2 DEF SavesAt
  <2>2. /\ rs[id[i]].location = None
        /\ \A m \in 1 .. (k + 1) - 1 : ~IsSave(q, m, id[i])
    BY <2>1 DEF Ledger, Superseded
  <2>3. id[i] # n
    BY <1>1, <1>2, <2>2
  <2>4. ASSUME NEW m \in 1 .. k - 1 PROVE ~IsSave(q2, m, id[i])
    <3>1. m + 1 \in 1 .. (k + 1) - 1 /\ m \in 1 .. Len(q2)
      OBVIOUS
    <3> QED
      BY <2>2, <3>1 DEF IsSave
  <2> QED
    BY <1>5, <2>2, <2>3, <2>4
<1>12. Owned(rs2, q2, alive, id)
  <2> SUFFICES ASSUME NEW k \in 1 .. Len(q2), q2[k].op = "save"
               PROVE  /\ q2[k].row.location # None
                      /\ (\E i \in alive : id[i] = q2[k].id) \/ Again(rs2, q2, k)
    BY DEF Owned
  <2>1. k + 1 \in 1 .. Len(q) /\ q2[k] = q[k + 1]
    BY <1>2
  <2>2. /\ q[k + 1].row.location # None
        /\ (\E i \in alive : id[i] = q[k + 1].id) \/ Again(rs, q, k + 1)
    BY <2>1 DEF Ledger, Owned
  <2>3. ASSUME Again(rs, q, k + 1), ~\E i \in alive : id[i] = q[k + 1].id
        PROVE  Again(rs2, q2, k)
    <3> DEFINE a == q2[k].id
    <3>1. /\ a \in Ids /\ rs[a] # None /\ rs[a].location = q2[k].row.location
          /\ \A m \in 1 .. (k + 1) - 1 : SavesAt(q, m, q2[k].row.location) => q[m].id = a
      BY <2>1, <2>3 DEF Again
    <3>2. rs2[a] # None /\ rs2[a].location = q2[k].row.location
      <4>1. CASE a = n
        <5>1. Again(rs, q, 1)
          BY <1>1, <2>1, <2>3, <4>1
        <5>2. rs[n].location = p
          BY <5>1 DEF Again, n, p
        <5> QED
          BY <3>1, <4>1, <5>2 DEF n, p
      <4>2. CASE a # n
        <5>1. q2[k].row.location # p
          BY <1>1, <1>2, <3>1, <4>2 DEF n
        <5> QED
          BY <3>1, <4>2, <5>1 DEF n, p
      <4> QED
        BY <4>1, <4>2
    <3>3. ASSUME NEW m \in 1 .. k - 1, SavesAt(q2, m, q2[k].row.location) PROVE q2[m].id = a
      <4>1. m + 1 \in 1 .. (k + 1) - 1 /\ m \in 1 .. Len(q2)
        OBVIOUS
      <4>2. q2[m] = q[m + 1]
        BY <1>2, <4>1
      <4>3. SavesAt(q, m + 1, q2[k].row.location)
        BY <3>3, <4>2 DEF SavesAt
      <4> QED
        BY <3>1, <4>1, <4>2, <4>3
    <3> QED
      BY <3>1, <3>2, <3>3 DEF Again
  <2> QED
    BY <2>1, <2>2, <2>3
<1>13. Reserved(rs2, alive, id, drawn, drawnId)
  BY <1>7 DEF Ledger, Reserved
<1>14. \A k \in 1 .. Len(q2) : q2[k].op # "clear"
  BY <1>2 DEF Ledger
<1> QED
  BY <1>6, <1>9, <1>10, <1>11, <1>12, <1>13, <1>14 DEF Ledger

(* The rest of the queue, when the first stores nothing of a workspace or  *)
(* a new row, perhaps for the id of a task.                                *)
LEMMA TakingNext ==
  ASSUME NEW rs, NEW q, NEW alive, NEW id, NEW path, NEW drawn, NEW drawnId,
         Ledger(rs, q, alive, id, path, drawn, drawnId),
         Len(q) \in Nat \ {0}, q[1].op # "save",
         NEW rs2, \A i \in Ids : rs[i] # None => rs2[i] = rs[i],
         NEW q2, Len(q2) = Len(q) - 1, \A k \in 1 .. Len(q2) : q2[k] = q[k + 1]
  PROVE  /\ Ledger(rs2, q2, alive, id, path, drawn, drawnId)
         /\ \A i \in alive : IsStored(rs, id, path, i) => IsStored(rs2, id, path, i)
<1>1. ASSUME NEW k \in 1 .. Len(q2)
      PROVE  k + 1 \in 1 .. Len(q) /\ q2[k] = q[k + 1]
  OBVIOUS
<1>2. ASSUME NEW i \in alive
      PROVE  id[i] \in Ids /\ rs[id[i]] # None /\ rs2[id[i]] = rs[id[i]]
  BY DEF Ledger, Listed
<1>3. \A i \in alive : IsStored(rs, id, path, i) => IsStored(rs2, id, path, i)
  BY <1>2 DEF IsStored
<1>4. Listed(rs2, alive, id, path)
  BY <1>2 DEF Ledger, Listed
<1>5. SavedThere(q2, alive, id, path)
  BY <1>1 DEF Ledger, SavedThere, IsSave
<1>6. ASSUME NEW k \in 1 .. Len(q2), NEW m \in 1 .. k - 1
      PROVE  m + 1 \in 1 .. (k + 1) - 1 /\ q2[m] = q[m + 1]
  OBVIOUS
<1>7. Superseded(rs2, q2, alive, id, path)
  <2> SUFFICES ASSUME NEW i \in alive, NEW k \in 1 .. Len(q2), SavesAt(q2, k, path[i]),
                      q2[k].id # id[i]
               PROVE  /\ rs2[id[i]].location = None
                      /\ \A m \in 1 .. k - 1 : ~IsSave(q2, m, id[i])
    BY DEF Superseded
  <2>1. SavesAt(q, k + 1, path[i]) /\ q[k + 1].id # id[i] /\ k + 1 \in 1 .. Len(q)
    BY <1>1 DEF SavesAt
  <2>2. /\ rs[id[i]].location = None
        /\ \A m \in 1 .. (k + 1) - 1 : ~IsSave(q, m, id[i])
    BY <2>1 DEF Ledger, Superseded
  <2>3. ASSUME NEW m \in 1 .. k - 1 PROVE ~IsSave(q2, m, id[i])
    BY <1>6, <2>2, <2>3 DEF IsSave
  <2> QED
    BY <1>2, <2>2, <2>3
<1>8. Owned(rs2, q2, alive, id)
  <2> SUFFICES ASSUME NEW k \in 1 .. Len(q2), q2[k].op = "save"
               PROVE  /\ q2[k].row.location # None
                      /\ (\E i \in alive : id[i] = q2[k].id) \/ Again(rs2, q2, k)
    BY DEF Owned
  <2>1. k + 1 \in 1 .. Len(q) /\ q2[k] = q[k + 1]
    BY <1>1
  <2>2. /\ q[k + 1].row.location # None
        /\ (\E i \in alive : id[i] = q[k + 1].id) \/ Again(rs, q, k + 1)
    BY <2>1 DEF Ledger, Owned
  <2>3. ASSUME Again(rs, q, k + 1) PROVE Again(rs2, q2, k)
    <3> DEFINE a == q2[k].id
    <3>1. /\ a \in Ids /\ rs[a] # None /\ rs[a].location = q2[k].row.location
          /\ \A m \in 1 .. (k + 1) - 1 : SavesAt(q, m, q2[k].row.location) => q[m].id = a
      BY <2>1, <2>3 DEF Again
    <3>2. ASSUME NEW m \in 1 .. k - 1, SavesAt(q2, m, q2[k].row.location) PROVE q2[m].id = a
      <4>1. m + 1 \in 1 .. (k + 1) - 1 /\ q2[m] = q[m + 1]
        BY <1>6
      <4>2. SavesAt(q, m + 1, q2[k].row.location)
        BY <3>2, <4>1 DEF SavesAt
      <4> QED
        BY <3>1, <4>1, <4>2
    <3> QED
      BY <3>1, <3>2 DEF Again
  <2> QED
    BY <2>1, <2>2, <2>3
<1>9. Reserved(rs2, alive, id, drawn, drawnId)
  BY DEF Ledger, Reserved
<1>10. \A k \in 1 .. Len(q2) : q2[k].op # "clear"
  BY <1>1 DEF Ledger
<1> QED
  BY <1>3, <1>4, <1>5, <1>7, <1>8, <1>9, <1>10 DEF Ledger

(* An id is drawn: the row is new.                                         *)
LEMMA Drawing ==
  ASSUME NEW rs, NEW q, NEW alive, NEW id, NEW path, NEW drawn, NEW drawnId,
         Ledger(rs, q, alive, id, path, drawn, drawnId),
         NEW n \in Ids, rs[n] = None, NEW rs2, rs2[n] # None, rs2[n].location = None,
         \A i \in Ids : rs[i] # None => rs2[i] = rs[i], Ledger(rs2, q, alive, id, path, drawn, drawnId),
         NEW t, NEW drawnId2, drawnId2[t] = n, \A u \in drawn \ {t} : drawnId2[u] = drawnId[u]
  PROVE  Ledger(rs2, q, alive, id, path, drawn \cup {t}, drawnId2)
<1>1. \A i \in alive : id[i] # n
  BY DEF Ledger, Listed
<1>2. \A u \in drawn : drawnId[u] # n
  BY DEF Ledger, Reserved
<1>3. Reserved(rs2, alive, id, drawn \cup {t}, drawnId2)
  BY <1>1, <1>2 DEF Ledger, Reserved
<1> QED
  BY <1>3 DEF Ledger
-----------------------------------------------------------------------------
(***************************************************************************)
(* The ledger of a state.  A workspace that has lost its window is stored, *)
(* so that it can be dropped; one that is being closed is stored before    *)
(* its window goes: the command awaits its save.                           *)
(***************************************************************************)
AliveNow == {i \in Handles : Alive(i)}
IdNow == [i \in Handles |-> workspace[i].id]
PathNow == [i \in Handles |-> workspace[i].path]
DrawnNow == {t \in AllTasks : task[t].step = "id" /\ ~Awaits(t)}
DrawnIdNow == [t \in AllTasks |-> task[t].id]
StoredNow(i) == IsStored(rows, IdNow, PathNow, i)

LedgerNow == Ledger(rows, queue, AliveNow, IdNow, PathNow, DrawnNow, DrawnIdNow)
ShownOrStored == \A i \in AliveNow : StoredNow(i) \/ \E w \in Windows : shown[w] = i
Closes(t) == Leaves(t, task[t].workspace)
AwaitsItsSave(t) ==
  /\ task[t].step \in {"flush", "unlisted"}
  /\ \E k \in 1 .. Len(queue) :
       queue[k].by = t /\ IsSave(queue, k, IdNow[task[t].workspace])
SavedToClose ==
  \A t \in AllTasks : Closes(t) =>
    /\ task[t].workspace \in Handles
    /\ StoredNow(task[t].workspace) \/ AwaitsItsSave(t)

(* Whose writes are queued: a task that awaits them, and for one new id.   *)
IsAwaitedAt(op, step) ==
  \/ op = "save" /\ step \in {"flush", "unlisted"}
  \/ op = "cleanup" /\ step = "cleanup"
  \/ op = "new" /\ step = "id"
QueueOwners ==
  \A k \in 1 .. Len(queue) : queue[k].by # None =>
    /\ IsAwaitedAt(queue[k].op, task[queue[k].by].step)
    /\ \A m \in 1 .. Len(queue) :
         queue[k].op = "new" /\ queue[m].op = "new" /\ queue[k].by = queue[m].by => k = m
KindOk(tk) ==
  /\ tk.kind = "none" <=> tk.step = "none"
  /\ tk.kind = "file" => tk.step = "build"
  /\ tk.kind = "quit" => tk.step = "prepare" \/ (tk.step = "flush" /\ tk.preserve)
  /\ tk.kind = "open" => tk.path # None
  /\ tk.step = "load" => tk.kind = "open"
KindsOk == \A t \in AllTasks : KindOk(task[t])
Stopped ==
  ~up => /\ queue = <<>> /\ boot = {} /\ task = [t \in AllTasks |-> NoTask]
         /\ shown = [w \in Windows |-> 0]

OwnersInv == QueueOwners /\ KindsOk /\ Stopped
IdsInv == LedgerNow /\ ShownOrStored /\ SavedToClose
(* A step that at most lets the task t go on, queues writes of its own and *)
(* saves of workspaces that are alive, and drops workspaces.               *)
GrowsBy(t) ==
  /\ Len(queue) <= Len(queue')
  /\ \A k \in 1 .. Len(queue) : queue'[k] = queue[k]
  /\ \A k \in Len(queue) + 1 .. Len(queue') :
       /\ \/ queue'[k].by = None
          \/ /\ queue'[k].by = t /\ k = Len(queue) + 1
             /\ IsAwaitedAt(queue'[k].op, task'[t].step)
       /\ queue'[k].op = "save" =>
            \E i \in AliveNow : /\ queue'[k].id = workspace[i].id
                                /\ queue'[k].row.location = workspace[i].path
                                /\ workspace[i].path # None

Quiet(t) ==
  /\ UNCHANGED rows /\ excuse \subseteq excuse'
  /\ t \in AllTasks => ~Awaits(t) /\ KindOk(task'[t])
  /\ \A u \in AllTasks : u # t => task'[u] = task[u]
  /\ \A w \in Windows : shown'[w] = shown[w] \/ shown'[w] = 0
  /\ \A i \in Handles : Alive(i)' => /\ Alive(i) /\ workspace'[i].id = workspace[i].id
                                     /\ workspace'[i].path = workspace[i].path
  /\ GrowsBy(t)

(* What it may do besides in a run in which nothing odd has happened.      *)
Careful(t) ==
  /\ \A k \in Len(queue) + 1 .. Len(queue') : queue'[k].op # "clear"
  /\ \A w \in Windows : shown'[w] # shown[w] => StoredNow(shown[w])
  /\ t \in AllTasks =>
       /\ task'[t].step = "id" => Awaits(t)'
       /\ Closes(t)' => /\ task'[t].workspace \in Handles
                        /\ StoredNow(task[t].workspace)' \/ AwaitsItsSave(t)'

LEMMA QueueTyped ==
  ASSUME WorkspaceInv
  PROVE  /\ queue \in Seq(Write) /\ Len(queue) \in Nat
         /\ \A k \in 1 .. Len(queue) : queue[k] \in Write /\ queue[k].by \in AllTasks \cup {None}
<1>1. queue \in Seq(Write)
  BY DEF WorkspaceInv, QueueOk
<1>2. \A write \in Write : write.by \in AllTasks \cup {None}
  BY DEF Write
<1> QED
  BY <1>1, <1>2

LEMMA QuietKeepsOwners ==
  ASSUME WorkspaceInv, WorkspaceInv', QueueOwners, KindsOk, NEW t, Quiet(t)
  PROVE  QueueOwners' /\ KindsOk'
<1>1. KindsOk'
  BY DEF Quiet, KindsOk
<1>2. ASSUME NEW k \in 1 .. Len(queue), queue[k].by # None
      PROVE  /\ queue[k].by \in AllTasks /\ queue[k].by # t
             /\ task'[queue[k].by] = task[queue[k].by]
  <2>1. queue[k].by \in AllTasks
    BY <1>2, QueueTyped
  <2>2. queue[k].by # t
    BY <2>1 DEF Quiet, Awaits
  <2> QED
    BY <2>1, <2>2 DEF Quiet
<1>3. Len(queue) \in Nat /\ Len(queue') \in Nat /\ Len(queue) <= Len(queue')
  <2>1. Len(queue')\in Nat
    BY QueueTyped DEF WorkspaceInv, QueueOk
  <2> QED
    BY <2>1, QueueTyped DEF Quiet, GrowsBy
<1>4. \A k \in 1 .. Len(queue') : k \in 1 .. Len(queue) \/ k \in Len(queue) + 1 .. Len(queue')
  BY <1>3
<1> SUFFICES ASSUME NEW k \in 1 .. Len(queue'), queue'[k].by # None
             PROVE  /\ IsAwaitedAt(queue'[k].op, task'[queue'[k].by].step)
                    /\ \A m \in 1 .. Len(queue') :
                         queue'[k].op = "new" /\ queue'[m].op = "new"
                         /\ queue'[k].by = queue'[m].by => k = m
  BY <1>1 DEF QueueOwners
<1>5. CASE k \in 1 .. Len(queue)
  <2>1. queue'[k] = queue[k]
    BY <1>5 DEF Quiet, GrowsBy
  <2>2. IsAwaitedAt(queue'[k].op, task'[queue'[k].by].step)
    BY <1>2, <1>5, <2>1 DEF QueueOwners
  <2>3. ASSUME NEW m \in 1 .. Len(queue'), queue'[k].op = "new", queue'[m].op = "new",
               queue'[k].by = queue'[m].by
        PROVE  k = m
    <3>1. CASE m \in 1 .. Len(queue)
      <4>1. queue'[m] = queue[m]
        BY <3>1 DEF Quiet, GrowsBy
      <4> QED
        BY <1>5, <2>1, <2>3, <3>1, <4>1 DEF QueueOwners
    <3>2. CASE m \in Len(queue) + 1 .. Len(queue')
      BY <1>2, <1>5, <2>1, <2>3, <3>2 DEF Quiet, GrowsBy
    <3> QED
      BY <1>4, <3>1, <3>2
  <2> QED
    BY <2>2, <2>3
<1>6. CASE k \in Len(queue) + 1 .. Len(queue')
  <2>1. /\ queue'[k].by = t /\ k = Len(queue) + 1
        /\ IsAwaitedAt(queue'[k].op, task'[t].step)
    BY <1>6 DEF Quiet, GrowsBy
  <2>2. ASSUME NEW m \in 1 .. Len(queue'), queue'[k].by = queue'[m].by
        PROVE  k = m
    <3>1. CASE m \in 1 .. Len(queue)
      <4>1. queue'[m] = queue[m]
        BY <3>1 DEF Quiet, GrowsBy
      <4> QED
        BY <1>2, <2>1, <2>2, <3>1, <4>1
    <3>2. CASE m \in Len(queue) + 1 .. Len(queue')
      BY <2>1, <2>2, <3>2 DEF Quiet, GrowsBy
    <3> QED
      BY <1>4, <3>1, <3>2
  <2> QED
    BY <2>1, <2>2
<1> QED
  BY <1>4, <1>5, <1>6

LEMMA AliveKnown ==
  /\ AliveNow \subseteq Handles
  /\ \A i \in Handles : IdNow[i] = workspace[i].id /\ PathNow[i] = workspace[i].path
  /\ \A t \in AllTasks : DrawnIdNow[t] = task[t].id
BY DEF AliveNow, IdNow, PathNow, DrawnIdNow

LEMMA QuietKeepsIds ==
  ASSUME WorkspaceInv, WorkspaceInv', IdsInv, NEW t, Quiet(t), Careful(t)
  PROVE  IdsInv'
<1>1. Len(queue) \in Nat /\ Len(queue') \in Nat /\ Len(queue) <= Len(queue')
  <2>1. Len(queue') \in Nat
    BY QueueTyped DEF WorkspaceInv, QueueOk
  <2> QED
    BY <2>1, QueueTyped DEF Quiet, GrowsBy
<1>2. /\ \A i \in AliveNow' : /\ i \in AliveNow /\ i \in Handles /\ IdNow'[i] = IdNow[i]
                              /\ PathNow'[i] = PathNow[i]
      /\ AliveNow \subseteq Handles /\ rows' = rows
  BY DEF AliveNow, IdNow, PathNow, Quiet
<1>3. Ledger(rows, queue', AliveNow, IdNow, PathNow, DrawnNow, DrawnIdNow)
  <2>1. \A k \in 1 .. Len(queue) : queue'[k] = queue[k]
    BY DEF Quiet, GrowsBy
  <2>2. \A k \in Len(queue) + 1 .. Len(queue') :
          /\ queue'[k].op # "clear"
          /\ queue'[k].op = "save" =>
               \E i \in AliveNow : /\ queue'[k].id = IdNow[i]
                                   /\ queue'[k].row.location = PathNow[i]
                                   /\ PathNow[i] # None
    BY AliveKnown DEF Quiet, GrowsBy, Careful
  <2> QED
    BY <1>1, <2>1, <2>2, Queueing DEF IdsInv, LedgerNow
<1>4. /\ \A u \in DrawnNow' : u \in DrawnNow /\ DrawnIdNow'[u] = DrawnIdNow[u]
  <2> SUFFICES ASSUME NEW u \in AllTasks, task'[u].step = "id", ~Awaits(u)'
               PROVE  u \in DrawnNow /\ DrawnIdNow'[u] = DrawnIdNow[u]
    BY DEF DrawnNow
  <2>1. u # t /\ task'[u] = task[u]
    BY DEF Careful, Quiet
  <2>2. \A k \in 1 .. Len(queue) : k \in 1 .. Len(queue') /\ queue'[k] = queue[k]
    BY <1>1 DEF Quiet, GrowsBy
  <2>3. ~Awaits(u)
    BY <2>2 DEF Awaits
  <2> QED
    BY <2>1, <2>3 DEF DrawnNow, DrawnIdNow
<1>5. ASSUME NEW i \in AliveNow, i \notin AliveNow' PROVE StoredNow(i)
  <2>1. ~Alive(i)' /\ i \in Handles
    BY <1>5 DEF AliveNow
  <2>2. \A w \in Windows : shown'[w] # i
    BY <2>1 DEF Alive, HeldBy
  <2> QED
    BY <2>2 DEF IdsInv, ShownOrStored, Careful
<1>6. LedgerNow'
  <2>1. Ledger(rows, queue', AliveNow', IdNow', PathNow', DrawnNow', DrawnIdNow')
    BY <1>2, <1>3, <1>4, <1>5, Dropping DEF StoredNow
  <2> QED
    BY <1>2, <2>1 DEF LedgerNow
<1>7. ASSUME NEW i \in AliveNow', StoredNow(i) PROVE StoredNow(i)'
  BY <1>2, <1>7 DEF StoredNow, IsStored
<1>8. ShownOrStored'
  <2> SUFFICES ASSUME NEW i \in AliveNow' PROVE StoredNow(i)' \/ \E w \in Windows : shown'[w] = i
    BY DEF ShownOrStored
  <2>1. StoredNow(i) \/ \E w \in Windows : shown[w] = i
    BY <1>2 DEF IdsInv, ShownOrStored
  <2> QED
    BY <1>7, <2>1 DEF Careful
<1>9. SavedToClose'
  <2> SUFFICES ASSUME NEW u \in AllTasks, Closes(u)'
               PROVE  /\ task'[u].workspace \in Handles
                      /\ StoredNow(task[u].workspace)' \/ AwaitsItsSave(u)'
    BY DEF SavedToClose
  <2>1. CASE u = t
    BY <2>1 DEF Careful
  <2>2. CASE u # t
    <3>1. task'[u] = task[u]
      BY <2>2 DEF Quiet
    <3>2. Closes(u)
      BY <3>1 DEF Closes, Leaves
    <3>3. /\ task[u].workspace \in Handles
          /\ StoredNow(task[u].workspace) \/ AwaitsItsSave(u)
      BY <3>2 DEF IdsInv, SavedToClose
    <3>4. task[u].workspace \in AliveNow'
      BY <2>2, <3>1, <3>2, <3>3 DEF AliveNow, Alive, HeldBy, Closes, Leaves
    <3>5. AwaitsItsSave(u) => AwaitsItsSave(u)'
      <4>1. \A k \in 1 .. Len(queue) : k \in 1 .. Len(queue') /\ queue'[k] = queue[k]
        BY <1>1 DEF Quiet, GrowsBy
      <4> QED
        BY <1>2, <3>1, <3>4, <4>1 DEF AwaitsItsSave, IsSave
    <3> QED
      BY <1>7, <3>1, <3>3, <3>4, <3>5
  <2> QED
    BY <2>1, <2>2
<1> QED
  BY <1>6, <1>8, <1>9 DEF IdsInv
(* How the queue grows.                                                    *)
LEMMA GrowsNot ==
  ASSUME WorkspaceInv, UNCHANGED queue, NEW t
  PROVE  GrowsBy(t) /\ \A k \in Len(queue) + 1 .. Len(queue') : queue'[k].op # "clear"
<1>1. Len(queue) \in Nat /\ Len(queue') = Len(queue)
  BY QueueTyped
<1> QED
  BY <1>1 DEF GrowsBy

LEMMA GrowsByOne ==
  ASSUME WorkspaceInv, NEW write, Enqueued(write), NEW t,
         \/ write.by = None
         \/ write.by = t /\ IsAwaitedAt(write.op, task'[t].step),
         write.op = "save" =>
           \E i \in AliveNow : /\ write.id = workspace[i].id /\ workspace[i].path # None
                               /\ write.row.location = workspace[i].path
  PROVE  /\ GrowsBy(t)
         /\ write.op # "clear" => \A k \in Len(queue) + 1 .. Len(queue') : queue'[k].op # "clear"
         /\ Len(queue') = Len(queue) + 1 /\ queue'[Len(queue')] = write
<1>1. queue \in Seq(Write) /\ queue' = Append(queue, write)
  BY QueueTyped DEF Enqueued
<1>2. /\ Len(queue) \in Nat /\ Len(queue') = Len(queue) + 1
      /\ \A k \in 1 .. Len(queue) : queue'[k] = queue[k]
      /\ queue'[Len(queue) + 1] = write
  BY <1>1
<1>3. \A k \in Len(queue) + 1 .. Len(queue') : k = Len(queue) + 1
  BY <1>2
<1> QED
  BY <1>2, <1>3 DEF GrowsBy

QueuesSave(t, by, ws) ==
  /\ GrowsBy(t)
  /\ \A k \in Len(queue) + 1 .. Len(queue') : queue'[k].op # "clear"
  /\ ws.path # None =>
       \E k \in 1 .. Len(queue') : queue'[k].by = by /\ IsSave(queue', k, ws.id)
LEMMA GrowsBySaves ==
  ASSUME WorkspaceInv, NEW t, NEW by,
         by = None \/ (by = t /\ task'[t].step \in {"flush", "unlisted"}),
         NEW i \in AliveNow, NEW ws, ws.id = workspace[i].id, ws.path = workspace[i].path,
         queue' = queue \o Saves(ws, by)
  PROVE  QueuesSave(t, by, ws)
<1>1. CASE ws.path = None
  <2>1. UNCHANGED queue
    BY <1>1, QueueTyped DEF Saves
  <2> QED
    BY <1>1, <2>1, GrowsNot DEF QueuesSave
<1>2. CASE ws.path # None
  <2> DEFINE write == SaveWrite(ws.id, ws.path, StoredOf(ws.pane),
                                IF ws.inSession THEN run ELSE 0, by)
  <2>1. Enqueued(write)
    BY <1>2, QueueTyped DEF Saves, Enqueued
  <2>2. /\ write.op = "save" /\ write.by = by /\ write.id = ws.id
        /\ write.row.location = ws.path
    BY DEF SaveWrite
  <2> HIDE DEF write
  <2>3. /\ GrowsBy(t)
        /\ \A k \in Len(queue) + 1 .. Len(queue') : queue'[k].op # "clear"
        /\ Len(queue') = Len(queue) + 1 /\ queue'[Len(queue')] = write
    <3>1. write.by = None \/ (write.by = t /\ IsAwaitedAt(write.op, task'[t].step))
      BY <2>2 DEF IsAwaitedAt
    <3>2. \E j \in AliveNow : /\ write.id = workspace[j].id /\ workspace[j].path # None
                              /\ write.row.location = workspace[j].path
      BY <1>2, <2>2
    <3> QED
      BY <2>1, <2>2, <3>1, <3>2, GrowsByOne
  <2>4. Len(queue') \in 1 .. Len(queue')
    BY <2>3, QueueTyped
  <2> QED
    BY <2>2, <2>3, <2>4 DEF IsSave, QueuesSave
<1> QED
  BY <1>1, <1>2

(* A task awaits no write but at four of its steps.                        *)
LEMMA AwaitsNot ==
  ASSUME WorkspaceInv, QueueOwners, NEW t \in AllTasks,
         task[t].step \notin {"flush", "unlisted", "cleanup", "id"}
  PROVE  ~Awaits(t)
<1>1. t # None
  BY WorkspaceAssumption DEF AllTasks
<1> QED
  BY <1>1 DEF QueueOwners, IsAwaitedAt, Awaits

LEMMA OthersWait ==
  ASSUME WorkspaceInv, NEW t, NEW tk, task' = [task EXCEPT ![t] = tk]
  PROVE  /\ \A u \in AllTasks : u # t => task'[u] = task[u]
         /\ t \in AllTasks => task'[t] = tk
BY DEF WorkspaceInv, TasksOk

(* The workspaces, when no window is given one: they are those of before,  *)
(* changed in neither their id nor their directory.                        *)
SameWorkspaces(ws2) ==
  \A i \in Handles : ws2[i].id = workspace[i].id /\ ws2[i].path = workspace[i].path

LEMMA AliveStay ==
  ASSUME WorkspaceInv, NEW t, \A u \in AllTasks : u # t => task'[u] = task[u],
         \A w \in Windows : shown'[w] = shown[w] \/ shown'[w] = 0,
         t \in AllTasks => \/ task'[t].kind \in {"quit", "file"}
                           \/ task'[t].workspace = 0
                           \/ task'[t].workspace \in AliveNow,
         NEW ws2, SameWorkspaces(ws2), workspace' = ws2 \/ workspace' = Surviving(ws2),
         NEW i \in Handles, Alive(i)'
  PROVE  /\ Alive(i) /\ workspace'[i].id = workspace[i].id
         /\ workspace'[i].path = workspace[i].path
<1>1. i # 0
  BY DEF Handles
<1>2. Alive(i)
  BY <1>1 DEF Alive, HeldBy, AliveNow
<1>3. HeldBy(i, shown', task')
  BY DEF Alive
<1>4. workspace'[i] = ws2[i]
  BY <1>3 DEF Surviving
<1> QED
  BY <1>2, <1>4 DEF SameWorkspaces

(* The step of one task.                                                   *)
LEMMA TaskQuiet ==
  ASSUME WorkspaceInv, NEW t \in AllTasks, NEW tk, task' = [task EXCEPT ![t] = tk],
         ~Awaits(t), KindOk(tk), UNCHANGED <<rows, shown>>, excuse \subseteq excuse',
         tk.kind \in {"quit", "file"} \/ tk.workspace = 0 \/ tk.workspace \in AliveNow,
         NEW ws2, SameWorkspaces(ws2), workspace' = ws2 \/ workspace' = Surviving(ws2),
         GrowsBy(t)
  PROVE  Quiet(t)
<1>1. (\A u \in AllTasks : u # t => task'[u] = task[u]) /\ task'[t] = tk
  BY OthersWait
<1>2. \A i \in Handles : Alive(i)' => /\ Alive(i) /\ workspace'[i].id = workspace[i].id
                                      /\ workspace'[i].path = workspace[i].path
  BY <1>1, AliveStay
<1> QED
  BY <1>1, <1>2 DEF Quiet

(* It ends, or goes on at a step at which it neither draws an id nor closes *)
(* a workspace.                                                            *)
OpenSteps == {"none", "lookup", "prepare", "restore", "loaded", "cleanup", "build"}

LEMMA TaskCareful ==
  ASSUME WorkspaceInv, NEW t \in AllTasks, NEW tk, task' = [task EXCEPT ![t] = tk],
         tk.step \in OpenSteps \/ tk.kind = "quit", tk.step # "id", UNCHANGED shown,
         \A k \in Len(queue) + 1 .. Len(queue') : queue'[k].op # "clear"
  PROVE  Careful(t)
<1>1. task'[t] = tk
  BY OthersWait
<1>2. ~Closes(t)'
  BY <1>1 DEF Closes, Leaves, OpenSteps
<1> QED
  BY <1>1, <1>2 DEF Careful, OpenSteps

LEMMA SurvivorsSame == SameWorkspaces(workspace)
BY DEF SameWorkspaces
-----------------------------------------------------------------------------
(* The steps, one by one.                                                  *)
Keeps == \E t \in AllTasks \cup {None} : Quiet(t) /\ (excuse' = {} => Careful(t))
Before == WorkspaceInv /\ QueueOwners /\ KindsOk /\ (excuse = {} => IdsInv)

LEMMA ShownAlive ==
  ASSUME WorkspaceInv, NEW w \in Windows, IsOpen(w)
  PROVE  shown[w] \in AliveNow
BY ShownKnown DEF AliveNow, Alive, HeldBy

LEMMA HeldAlive ==
  ASSUME WorkspaceInv, NEW t \in AllTasks, task[t].workspace \in Handles,
         task[t].kind \notin {"quit", "file"}
  PROVE  task[t].workspace \in AliveNow
BY DEF AliveNow, Alive, HeldBy

LEMMA NoTaskKind == KindOk(NoTask) /\ NoTask.step \in OpenSteps /\ NoTask.step # "id"
                    /\ NoTask.workspace = 0 /\ NoTask.kind = "none"
BY DEF KindOk, NoTask, OpenSteps

(* The commands of the user and the start of a reopening.                  *)
LEMMA BeginKeeps ==
  ASSUME Before, NEW t \in AllTasks, NEW tk, Idle(t), task' = [task EXCEPT ![t] = tk],
         UNCHANGED <<dbVars, shown, workspace, excuse>>,
         tk.kind \notin {"none", "file", "quit"} \/ (tk.kind = "file" /\ tk.step = "build")
         \/ (tk.kind = "quit" /\ tk.step = "prepare"),
         tk.step \in {"lookup", "prepare", "build"}, tk.kind = "open" => tk.path # None,
         tk.kind \in {"quit", "file"} \/ tk.workspace \in AliveNow
  PROVE  Keeps
<1>1. WorkspaceInv /\ QueueOwners /\ task[t].step = "none"
  BY DEF Before, KindsOk, KindOk, Idle
<1>2. ~Awaits(t)
  BY <1>1, AwaitsNot
<1>3. KindOk(tk)
  BY DEF KindOk
<1>4. GrowsBy(t) /\ \A k \in Len(queue) + 1 .. Len(queue') : queue'[k].op # "clear"
  BY <1>1, GrowsNot DEF dbVars
<1>5. Quiet(t)
  BY <1>1, <1>2, <1>3, <1>4, SurvivorsSame, TaskQuiet DEF dbVars
<1>6. Careful(t)
  BY <1>1, <1>4, TaskCareful DEF OpenSteps
<1> QED
  BY <1>5, <1>6 DEF Keeps

LEMMA CommandKeeps ==
  ASSUME Before, NEW t \in Tasks, CommandStep(t), ~\E w \in Windows : QuitPrepares(t, w)
  PROVE  Keeps
<1> USE DEF ghostVars, Begins
<1>1. WorkspaceInv /\ t \in AllTasks
  BY DEF Before, AllTasks
<1>2. ASSUME NEW w \in Windows, CloseProject(t, w) PROVE Keeps
  <2> DEFINE tk == [NoTask EXCEPT !.kind = "closeProject", !.step = "prepare", !.window = w,
                                  !.workspace = shown[w]]
  <2>1. task' = [task EXCEPT ![t] = tk] /\ UNCHANGED <<dbVars, shown, workspace, excuse>> /\ Idle(t)
    BY <1>2 DEF CloseProject
  <2>2. tk.kind = "closeProject" /\ tk.step = "prepare" /\ tk.workspace = shown[w]
    BY DEF NoTask
  <2>3. shown[w] \in AliveNow
    BY <1>1, <1>2, ShownAlive DEF CloseProject
  <2> HIDE DEF tk
  <2> QED
    BY <1>1, <2>1, <2>2, <2>3, BeginKeeps
<1>3. ASSUME NEW w \in Windows, CloseWindow(t, w) PROVE Keeps
  <2> DEFINE tk == [NoTask EXCEPT !.kind = "closeWindow", !.step = "prepare", !.window = w,
                                  !.workspace = shown[w]]
  <2>1. task' = [task EXCEPT ![t] = tk] /\ UNCHANGED <<dbVars, shown, workspace, excuse>> /\ Idle(t)
    BY <1>3 DEF CloseWindow
  <2>2. tk.kind = "closeWindow" /\ tk.step = "prepare" /\ tk.workspace = shown[w]
    BY DEF NoTask
  <2>3. shown[w] \in AliveNow
    BY <1>1, <1>3, ShownAlive DEF CloseWindow
  <2> HIDE DEF tk
  <2> QED
    BY <1>1, <2>1, <2>2, <2>3, BeginKeeps
<1>4. ASSUME NEW w \in Windows, NEW p \in Paths, NEW newWindow \in BOOLEAN,
             OpenProject(t, w, p, newWindow)
      PROVE  Keeps
  <2> DEFINE tk == [NoTask EXCEPT !.kind = "open", !.step = "lookup", !.window = w,
                                  !.workspace = shown[w], !.path = p,
                                  !.replace = ~newWindow \/ workspace[shown[w]].path = None]
  <2>1. task' = [task EXCEPT ![t] = tk] /\ UNCHANGED <<dbVars, shown, workspace, excuse>> /\ Idle(t)
    BY <1>4 DEF OpenProject
  <2>2. tk.kind = "open" /\ tk.step = "lookup" /\ tk.workspace = shown[w] /\ tk.path # None
    BY WorkspaceAssumption DEF NoTask
  <2>3. shown[w] \in AliveNow
    BY <1>1, <1>4, ShownAlive DEF OpenProject
  <2> HIDE DEF tk
  <2> QED
    BY <1>1, <2>1, <2>2, <2>3, BeginKeeps
<1>5. ASSUME NEW w \in Windows, NEW f \in Files, NEW preview \in BOOLEAN,
             OpenFile(t, w, f, preview)
      PROVE  Keeps
  <2> DEFINE tk == [NoTask EXCEPT !.kind = "file", !.step = "build", !.window = w,
                                  !.workspace = shown[w], !.file = f, !.preview = preview,
                                  !.renewed = workspace[shown[w]].renewed]
  <2>1. task' = [task EXCEPT ![t] = tk] /\ UNCHANGED <<dbVars, shown, workspace, excuse>> /\ Idle(t)
    BY <1>5 DEF OpenFile
  <2>2. tk.kind = "file" /\ tk.step = "build"
    BY DEF NoTask
  <2> HIDE DEF tk
  <2> QED
    BY <1>1, <2>1, <2>2, BeginKeeps
<1>6. CASE Quit(t)
  <2> DEFINE tk == [NoTask EXCEPT !.kind = "quit", !.step = "prepare", !.left = OpenWindows]
  <2>1. task' = [task EXCEPT ![t] = tk] /\ UNCHANGED <<dbVars, shown, workspace, excuse>> /\ Idle(t)
    BY <1>6 DEF Quit
  <2>2. tk.kind = "quit" /\ tk.step = "prepare"
    BY DEF NoTask
  <2> HIDE DEF tk
  <2> QED
    BY <1>1, <2>1, <2>2, BeginKeeps
<1>7. ASSUME NEW w \in Windows, QuitAborts(t, w) PROVE Keeps
  <2>1. /\ task' = [task EXCEPT ![t] = NoTask] /\ task[t].step = "prepare"
        /\ UNCHANGED <<rows, queue, shown, workspace, excuse>>
    BY <1>7 DEF QuitAborts, dbVars
  <2>2. ~Awaits(t) /\ GrowsBy(t)
        /\ \A k \in Len(queue) + 1 .. Len(queue') : queue'[k].op # "clear"
    BY <1>1, <2>1, AwaitsNot, GrowsNot DEF Before
  <2>3. Quiet(t)
    BY <1>1, <2>1, <2>2, NoTaskKind, SurvivorsSame, TaskQuiet
  <2>4. Careful(t)
    BY <1>1, <2>1, <2>2, NoTaskKind, TaskCareful
  <2> QED
    BY <1>1, <2>3, <2>4 DEF Keeps
<1> QED
  BY <1>2, <1>3, <1>4, <1>5, <1>6, <1>7 DEF CommandStep

LEMMA ReopenKeeps ==
  ASSUME Before, NEW p \in Paths, Reopen(p)
  PROVE  Keeps
<1> DEFINE tk == [NoTask EXCEPT !.kind = "open", !.step = "load", !.path = p]
<1>1. /\ task' = [task EXCEPT ![Boot] = tk] /\ WorkspaceInv /\ QueueOwners
      /\ UNCHANGED <<rows, queue, shown, workspace, excuse>> /\ Boot \in AllTasks
      /\ task[Boot].step = "none"
  BY DEF Reopen, dbVars, ghostVars, AllTasks, Before, KindsOk, KindOk, Idle
<1>2. /\ tk.kind = "open" /\ tk.step = "load" /\ tk.workspace = 0 /\ ~tk.replace
      /\ tk.path # None
  BY WorkspaceAssumption DEF NoTask
<1> HIDE DEF tk
<1>3. ~Awaits(Boot) /\ GrowsBy(Boot) /\ KindOk(tk)
      /\ \A k \in Len(queue) + 1 .. Len(queue') : queue'[k].op # "clear"
  BY <1>1, <1>2, AwaitsNot, GrowsNot DEF KindOk
<1>4. Quiet(Boot)
  BY <1>1, <1>2, <1>3, SurvivorsSame, TaskQuiet
<1>5. task'[Boot] = tk
  BY <1>1, OthersWait
<1>6. ~Closes(Boot)'
  BY <1>2, <1>5 DEF Closes, Leaves
<1>7. Careful(Boot)
  BY <1>1, <1>2, <1>3, <1>5, <1>6 DEF Careful
<1> QED
  BY <1>1, <1>4, <1>7 DEF Keeps

(* prepare_to_close: the save is queued and awaited.                       *)
LEMMA PrepareKeeps ==
  ASSUME Before, NEW t \in AllTasks, NEW w, NEW i \in AliveNow, Prepare(t, w, i),
         task[t].step \in {"prepare", "lookup"}, task[t].kind # "file"
  PROVE  Keeps
<1> DEFINE closes == task[t].kind = "closeWindow"
           ws == [workspace[i] EXCEPT !.closing = workspace[i].closing \/ closes,
                                      !.scheduled = FALSE]
           flushed == [workspace EXCEPT ![i] = ws]
           preserve == Preserves(task[t].kind, Remaining(flushed))
           tk == [task[t] EXCEPT !.step = "flush", !.window = w, !.workspace = i,
                                 !.preserve = preserve]
<1>1. /\ WorkspaceInv /\ QueueOwners /\ KindOk(task[t]) /\ i \in Handles /\ ~Awaits(t)
  BY AwaitsNot DEF Before, KindsOk, AliveNow
<1>2. workspace[i] \in WorkspaceState /\ task[t] \in TaskState
  BY <1>1, KnownWorkspace, KnownTask
<1>3. /\ workspace' = flushed /\ queue' = queue \o Saves(workspace[i], t)
      /\ task' = [task EXCEPT ![t] = tk] /\ UNCHANGED <<rows, shown>>
      /\ excuse \subseteq excuse'
  BY DEF Prepare
<1>4. /\ tk.step = "flush" /\ tk.workspace = i /\ tk.kind = task[t].kind
      /\ tk.preserve = preserve /\ tk.path = task[t].path
  BY <1>2 DEF TaskState
<1>5. ws.id = workspace[i].id /\ ws.path = workspace[i].path
  BY <1>2 DEF WorkspaceState
<1>6. task[t].kind = "quit" => preserve
  BY DEF Preserves
<1> HIDE DEF preserve, ws
<1>7. SameWorkspaces(flushed) /\ flushed[i] = ws
  BY <1>1, <1>5 DEF SameWorkspaces, WorkspaceInv, WorkspacesOk, AreOk
<1> HIDE DEF flushed, tk
<1>8. KindOk(tk)
  BY <1>1, <1>4, <1>6 DEF KindOk
<1>9. task'[t] = tk
  BY <1>1, <1>3, OthersWait
<1>10. /\ GrowsBy(t)
       /\ \A k \in Len(queue) + 1 .. Len(queue') : queue'[k].op # "clear"
       /\ workspace[i].path # None =>
            \E k \in 1 .. Len(queue') : queue'[k].by = t /\ IsSave(queue', k, workspace[i].id)
  <2>1. WorkspaceInv /\ queue' = queue \o Saves(workspace[i], t)
    BY <1>1, <1>3
  <2>2. task'[t].step \in {"flush", "unlisted"}
    BY <1>4, <1>9
  <2> QED
    <3>1. QueuesSave(t, t, workspace[i])
      BY <2>1, <2>2, GrowsBySaves
    <3> QED
      BY <3>1 DEF QueuesSave
<1>11. Quiet(t)
  BY <1>1, <1>3, <1>4, <1>7, <1>8, <1>10, TaskQuiet
<1>12. StoredNow(i)' \/ AwaitsItsSave(t)'
  <2>1. IdNow'[i] = workspace[i].id /\ PathNow'[i] = workspace[i].path
    BY <1>1, <1>3, <1>5, <1>7 DEF IdNow, PathNow
  <2>2. CASE workspace[i].path = None
    BY <2>1, <2>2 DEF StoredNow, IsStored
  <2>3. CASE workspace[i].path # None
    BY <1>4, <1>9, <1>10, <2>1, <2>3 DEF AwaitsItsSave
  <2> QED
    BY <2>2, <2>3
<1>13. Careful(t)
  BY <1>1, <1>3, <1>4, <1>9, <1>10, <1>12 DEF Careful
<1> QED
  BY <1>11, <1>13 DEF Keeps

LEMMA PrepareToCloseKeeps ==
  ASSUME Before, NEW t \in AllTasks, PrepareToClose(t)
  PROVE  Keeps
<1>1. /\ WorkspaceInv /\ KindOk(task[t]) /\ task[t].step \in {"prepare", "lookup"}
      /\ task[t].kind # "quit"
  BY DEF Before, KindsOk, PrepareToClose, AsksToClose
<1>2. task[t].kind # "file" /\ task[t].workspace \in Handles
  BY <1>1, KnownTask DEF KindOk, HasWorkspace
<1>3. task[t].workspace \in AliveNow
  BY <1>1, <1>2, HeldAlive
<1> QED
  BY <1>1, <1>2, <1>3, PrepareKeeps DEF PrepareToClose

LEMMA QuitPreparesKeeps ==
  ASSUME Before, NEW t \in AllTasks, NEW w \in Windows, QuitPrepares(t, w)
  PROVE  Keeps
<1>1. shown[w] \in AliveNow
  BY ShownAlive DEF Before, QuitPrepares
<1> QED
  BY <1>1, PrepareKeeps DEF QuitPrepares

(* remove_from_session: once more.                                         *)
LEMMA RemoveFromSessionKeeps ==
  ASSUME Before, NEW t \in AllTasks, RemoveFromSession(t)
  PROVE  Keeps
<1> SUFFICES ASSUME NEW i, i = task[t].workspace PROVE Keeps
  OBVIOUS
<1> DEFINE ws == [workspace[i] EXCEPT !.inSession = FALSE]
           unlisted == [workspace EXCEPT ![i] = ws]
           tk == [task[t] EXCEPT !.step = "unlisted"]
<1>1. /\ WorkspaceInv /\ KindOk(task[t]) /\ ~Awaits(t) /\ task[t].step = "flush"
      /\ ~task[t].preserve
  BY DEF Before, KindsOk, RemoveFromSession
<1>2. task[t].kind \notin {"quit", "file", "none"} /\ i \in Handles /\ task[t] \in TaskState
  BY <1>1, KnownTask DEF KindOk, HasWorkspace
<1>3. i \in AliveNow
  BY <1>1, <1>2, HeldAlive
<1>4. /\ workspace' = unlisted /\ queue' = queue \o Saves(unlisted[i], t)
      /\ task' = [task EXCEPT ![t] = tk] /\ UNCHANGED <<rows, shown, excuse>>
  BY DEF RemoveFromSession, ghostVars
<1>5. /\ tk.step = "unlisted" /\ tk.workspace = i /\ tk.kind = task[t].kind
      /\ tk.path = task[t].path
  BY <1>2 DEF TaskState
<1>6. ws.id = workspace[i].id /\ ws.path = workspace[i].path
  BY <1>1, <1>2, KnownWorkspace DEF WorkspaceState
<1> HIDE DEF ws
<1>7. SameWorkspaces(unlisted) /\ unlisted[i] = ws
  BY <1>1, <1>2, <1>6 DEF SameWorkspaces, WorkspaceInv, WorkspacesOk, AreOk
<1> HIDE DEF unlisted, tk
<1>8. KindOk(tk) /\ task'[t] = tk
  BY <1>1, <1>2, <1>4, <1>5, OthersWait DEF KindOk
<1>9. /\ GrowsBy(t)
      /\ \A k \in Len(queue) + 1 .. Len(queue') : queue'[k].op # "clear"
      /\ ws.path # None =>
           \E k \in 1 .. Len(queue') : queue'[k].by = t /\ IsSave(queue', k, ws.id)
  <2>1. WorkspaceInv /\ queue' = queue \o Saves(ws, t)
    BY <1>1, <1>4, <1>7
  <2>2. task'[t].step \in {"flush", "unlisted"}
    BY <1>5, <1>8
  <2> QED
    <3>1. QueuesSave(t, t, ws)
      BY <1>3, <1>6, <2>1, <2>2, GrowsBySaves
    <3> QED
      BY <3>1 DEF QueuesSave
<1>10. Quiet(t)
  BY <1>1, <1>3, <1>4, <1>5, <1>7, <1>8, <1>9, TaskQuiet
<1>11. StoredNow(i)' \/ AwaitsItsSave(t)'
  <2>1. IdNow'[i] = ws.id /\ PathNow'[i] = ws.path
    <3>1. i \in Handles /\ workspace'[i] = ws
      BY <1>2, <1>4, <1>7
    <3> QED
      BY <3>1 DEF IdNow, PathNow
  <2>2. CASE ws.path = None
    BY <2>1, <2>2 DEF StoredNow, IsStored
  <2>3. CASE ws.path # None
    BY <1>5, <1>8, <1>9, <2>1, <2>3 DEF AwaitsItsSave
  <2> QED
    BY <2>2, <2>3
<1>12. Careful(t)
  <2>1. \A k \in Len(queue) + 1 .. Len(queue') : queue'[k].op # "clear"
    BY <1>9
  <2>2. UNCHANGED shown
    BY <1>4
  <2>3. /\ task'[t].step = "unlisted" /\ task'[t].workspace = i /\ task[t].workspace = i
        /\ i \in Handles
    BY <1>2, <1>5, <1>8
  <2> QED
    BY <1>11, <2>1, <2>2, <2>3 DEF Careful
<1> QED
  BY <1>10, <1>12 DEF Keeps
(* A workspace that a command closes is stored once nothing is awaited.    *)
LEMMA ClosedIsStored ==
  ASSUME Before, excuse = {}, NEW t \in AllTasks, Closes(t), ~Awaits(t)
  PROVE  task[t].workspace \in Handles /\ StoredNow(task[t].workspace)
BY DEF Before, IdsInv, SavedToClose, AwaitsItsSave, Awaits

(* A command goes on to ask for the project or for a new row.              *)
LEMMA GoesOnKeeps ==
  ASSUME Before, NEW t \in AllTasks, NEW step \in {"load", "id"},
         task' = [task EXCEPT ![t] = [@ EXCEPT !.step = step]], ~Awaits(t),
         task[t].kind \notin {"none", "file", "quit"}, Closes(t)' => Closes(t),
         step = "load" => task[t].kind = "open",
         UNCHANGED <<rows, shown, workspace, excuse>>,
         \/ step = "load" /\ UNCHANGED queue
         \/ step = "id" /\ Enqueued(NewWrite(t))
  PROVE  Keeps
<1> DEFINE tk == [task[t] EXCEPT !.step = step]
<1>1. /\ WorkspaceInv /\ task[t] \in TaskState /\ task[t].workspace \in Handles \cup {0}
      /\ KindOk(task[t])
  BY KnownTask DEF Before, KindsOk, TaskState
<1>2. /\ tk.step = step /\ tk.workspace = task[t].workspace /\ tk.kind = task[t].kind
      /\ tk.path = task[t].path
  BY <1>1 DEF TaskState
<1>3. task' = [task EXCEPT ![t] = tk]
  OBVIOUS
<1> HIDE DEF tk
<1>4. KindOk(tk) /\ task'[t] = tk
  BY <1>1, <1>2, <1>3, OthersWait DEF KindOk
<1>5. tk.workspace = 0 \/ tk.workspace \in AliveNow
  BY <1>1, <1>2, HeldAlive
<1>6. /\ GrowsBy(t)
      /\ \A k \in Len(queue) + 1 .. Len(queue') : queue'[k].op # "clear"
      /\ step = "id" => Awaits(t)'
  <2>1. CASE step = "load"
    BY <1>1, <2>1, GrowsNot
  <2>2. CASE step = "id"
    <3> DEFINE write == NewWrite(t)
    <3>1. write.op = "new" /\ write.by = t
      BY DEF NewWrite
    <3>2. Enqueued(write)
      BY <2>2
    <3> HIDE DEF write
    <3>3. /\ GrowsBy(t)
          /\ write.op # "clear" => \A k \in Len(queue) + 1 .. Len(queue') : queue'[k].op # "clear"
          /\ Len(queue') = Len(queue) + 1 /\ queue'[Len(queue')] = write
      BY <1>1, <1>2, <1>4, <2>2, <3>1, <3>2, GrowsByOne DEF IsAwaitedAt
    <3>4. Len(queue') \in 1 .. Len(queue')
      BY <1>1, <3>3, QueueTyped
    <3> QED
      BY <3>1, <3>3, <3>4 DEF Awaits
  <2> QED
    BY <2>1, <2>2
<1>7. Quiet(t)
  BY <1>1, <1>3, <1>4, <1>5, <1>6, SurvivorsSame, TaskQuiet
<1>8. ASSUME excuse' = {}, Closes(t)'
      PROVE  /\ task'[t].workspace \in Handles
             /\ StoredNow(task[t].workspace)'
  <2>1. task[t].workspace \in Handles /\ StoredNow(task[t].workspace)
    BY <1>8, ClosedIsStored
  <2>2. task'[t].workspace = task[t].workspace /\ IdNow' = IdNow /\ PathNow' = PathNow
    BY <1>2, <1>4 DEF IdNow, PathNow
  <2> QED
    BY <2>1, <2>2 DEF StoredNow
<1>9. ASSUME excuse' = {} PROVE Careful(t)
  BY <1>2, <1>4, <1>6, <1>8, <1>9 DEF Careful
<1> QED
  BY <1>7, <1>9 DEF Keeps

LEMMA StartLoadKeeps ==
  ASSUME Before, NEW t \in AllTasks, StartLoad(t)
  PROVE  Keeps
<1>1. /\ WorkspaceInv /\ QueueOwners /\ task[t].kind = "open"
      /\ task' = [task EXCEPT ![t] = [@ EXCEPT !.step = "load"]]
      /\ UNCHANGED <<rows, queue, shown, workspace, excuse>>
      /\ (task[t].step = "lookup" /\ ~task[t].replace) \/ Prepared(t)
  BY DEF Before, StartLoad, dbVars, ghostVars
<1>2. ~Awaits(t)
  BY <1>1, AwaitsNot DEF Prepared
<1>3. Closes(t)' => Closes(t)
  <2>1. /\ task'[t].kind = "open" /\ task'[t].workspace = task[t].workspace
        /\ task'[t].step = "load" /\ task'[t].replace = task[t].replace
    BY <1>1, KnownTask DEF TaskState, WorkspaceInv, TasksOk
  <2> QED
    BY <1>1, <2>1 DEF Closes, Leaves, Prepared
<1> QED
  BY <1>1, <1>2, <1>3, GoesOnKeeps

LEMMA LoadNewKeeps ==
  ASSUME Before, NEW t \in AllTasks, LoadNew(t) \/ ReplaceByEmpty(t)
  PROVE  Keeps
<1>1. /\ WorkspaceInv /\ QueueOwners /\ KindOk(task[t])
      /\ task' = [task EXCEPT ![t] = [@ EXCEPT !.step = "id"]] /\ Enqueued(NewWrite(t))
      /\ UNCHANGED <<rows, shown, workspace, excuse>>
      /\ task[t].step = "load" \/ (Prepared(t) /\ task[t].kind = "closeProject")
  BY DEF Before, KindsOk, LoadNew, ReplaceByEmpty, ghostVars
<1>2. ~Awaits(t) /\ task[t].kind \notin {"none", "file", "quit"}
  BY <1>1, AwaitsNot DEF Prepared, KindOk
<1>3. Closes(t)' => Closes(t)
  <2>1. /\ task'[t].kind = task[t].kind /\ task'[t].workspace = task[t].workspace
        /\ task'[t].step = "id" /\ task'[t].replace = task[t].replace
    BY <1>1, KnownTask DEF TaskState, WorkspaceInv, TasksOk
  <2> QED
    BY <1>1, <1>2, <2>1 DEF Closes, Leaves, Prepared
<1> QED
  BY <1>1, <1>2, <1>3, GoesOnKeeps

(* A command that ends, and may save once more.                            *)
LEMMA EndKeeps ==
  ASSUME Before, NEW t \in AllTasks, task' = [task EXCEPT ![t] = NoTask], ~Awaits(t),
         UNCHANGED <<rows, shown>>, excuse \subseteq excuse',
         NEW ws2, SameWorkspaces(ws2), workspace' = ws2 \/ workspace' = Surviving(ws2),
         GrowsBy(t), \A k \in Len(queue) + 1 .. Len(queue') : queue'[k].op # "clear"
  PROVE  Keeps
<1>1. WorkspaceInv
  BY DEF Before
<1>2. Quiet(t)
  BY <1>1, NoTaskKind, TaskQuiet
<1>3. Careful(t)
  BY <1>1, NoTaskKind, TaskCareful
<1> QED
  BY <1>2, <1>3 DEF Keeps

LEMMA GiveUpKeeps ==
  ASSUME Before, NEW t \in AllTasks, GiveUp(t) \/ FoundOpen(t)
  PROVE  Keeps
<1>1. /\ WorkspaceInv /\ QueueOwners /\ task' = [task EXCEPT ![t] = NoTask]
      /\ workspace' = Surviving(workspace) /\ UNCHANGED <<rows, queue, shown, excuse>>
      /\ ~Awaits(t) \/ task[t].step = "lookup"
  BY DEF Before, GiveUp, FoundOpen, dbVars, ghostVars
<1>2. ~Awaits(t)
  BY <1>1, AwaitsNot
<1> QED
  BY <1>1, <1>2, GrowsNot, SurvivorsSame, EndKeeps

LEMMA QuitGoesOnKeeps ==
  ASSUME Before, NEW t \in AllTasks, QuitGoesOn(t)
  PROVE  Keeps
<1> DEFINE left == task[t].left \ {task[t].window}
           tk == [task[t] EXCEPT !.step = "prepare", !.left = left]
<1>1. /\ WorkspaceInv /\ task' = [task EXCEPT ![t] = tk] /\ task[t].kind = "quit"
      /\ UNCHANGED <<rows, queue, shown, workspace, excuse>> /\ ~Awaits(t)
  BY DEF Before, QuitGoesOn, Prepared, dbVars, ghostVars
<1>2. tk.kind = "quit" /\ tk.step = "prepare"
  BY <1>1, KnownTask DEF TaskState
<1> HIDE DEF tk
<1>3. KindOk(tk) /\ GrowsBy(t)
      /\ \A k \in Len(queue) + 1 .. Len(queue') : queue'[k].op # "clear"
  BY <1>1, <1>2, GrowsNot DEF KindOk
<1>4. Quiet(t)
  BY <1>1, <1>2, <1>3, SurvivorsSame, TaskQuiet
<1>5. Careful(t)
  BY <1>1, <1>2, <1>3, TaskCareful
<1> QED
  BY <1>4, <1>5 DEF Keeps

LEMMA LoadFailedKeeps ==
  ASSUME Before, NEW t \in AllTasks, LoadFailed(t)
  PROVE  Keeps
<1>1. /\ WorkspaceInv /\ QueueOwners /\ task[t].step = "load" /\ UNCHANGED <<rows, shown>>
      /\ workspace' = Surviving(workspace) /\ excuse \subseteq excuse'
  BY DEF Before, LoadFailed
<1>2. ~Awaits(t)
  BY <1>1, AwaitsNot
<1>3. CASE t = Boot /\ boot = {} /\ OpenWindows = {}
  <2> DEFINE tk == [NoTask EXCEPT !.kind = "empty", !.step = "id"]
             write == NewWrite(t)
  <2>1. Enqueued(write) /\ task' = [task EXCEPT ![t] = tk]
    BY <1>3 DEF LoadFailed
  <2>2. /\ tk.kind = "empty" /\ tk.step = "id" /\ tk.workspace = 0 /\ ~tk.replace
        /\ write.op = "new" /\ write.by = t
    BY DEF NoTask, NewWrite
  <2> HIDE DEF tk, write
  <2>3. KindOk(tk) /\ task'[t] = tk
    <3>1. KindOk(tk)
      BY <2>2 DEF KindOk
    <3> QED
      BY <1>1, <2>1, <3>1, OthersWait
  <2>4. /\ GrowsBy(t)
        /\ write.op # "clear" => \A k \in Len(queue) + 1 .. Len(queue') : queue'[k].op # "clear"
        /\ Len(queue') = Len(queue) + 1 /\ queue'[Len(queue')] = write
    BY <1>1, <2>1, <2>2, <2>3, GrowsByOne DEF IsAwaitedAt
  <2>5. Awaits(t)'
    <3>1. Len(queue') \in 1 .. Len(queue')
      BY <1>1, <2>4, QueueTyped
    <3> QED
      BY <2>2, <2>4, <3>1 DEF Awaits
  <2>6. Quiet(t)
    BY <1>1, <1>2, <2>1, <2>2, <2>3, <2>4, SurvivorsSame, TaskQuiet
  <2>7. ~Closes(t)'
    BY <2>2, <2>3 DEF Closes, Leaves
  <2>8. Careful(t)
    BY <1>1, <2>2, <2>4, <2>5, <2>7 DEF Careful
  <2> QED
    BY <2>6, <2>8 DEF Keeps
<1>4. CASE ~(t = Boot /\ boot = {} /\ OpenWindows = {})
  <2>1. task' = [task EXCEPT ![t] = NoTask] /\ UNCHANGED queue
    BY <1>4 DEF LoadFailed
  <2> QED
    BY <1>1, <1>2, <2>1, GrowsNot, SurvivorsSame, EndKeeps
<1> QED
  BY <1>3, <1>4

(* Restoring: a workspace that the task holds.                             *)
LEMMA RestorerHolds ==
  ASSUME Before, NEW t \in AllTasks, task[t].step \in {"restore", "loaded", "cleanup"}
  PROVE  /\ WorkspaceInv /\ task[t].workspace \in AliveNow /\ task[t].workspace \in Handles
         /\ KindOk(task[t])
         /\ task[t].kind \notin {"none", "quit", "file"} /\ task[t] \in TaskState
<1>1. WorkspaceInv /\ KindOk(task[t])
  BY DEF Before, KindsOk
<1>2. task[t].kind \notin {"none", "quit", "file"} /\ task[t].workspace \in Handles
  BY <1>1, KnownTask DEF KindOk, HasWorkspace
<1> QED
  BY <1>1, <1>2, KnownTask, HeldAlive

LEMMA ReadItemsKeeps ==
  ASSUME Before, NEW t \in AllTasks, ReadItems(t)
  PROVE  Keeps
<1> DEFINE stored == task[t].stored.items
           read == [k \in DOMAIN stored |-> files[task[t].id][stored[k]]]
           tk == [task[t] EXCEPT !.step = "loaded", !.files = read]
<1>1. /\ task[t].step = "restore" /\ task' = [task EXCEPT ![t] = tk]
      /\ UNCHANGED <<rows, queue, shown, workspace, excuse>> /\ QueueOwners
  BY DEF Before, ReadItems, dbVars, ghostVars
<1>2. /\ WorkspaceInv /\ task[t].workspace \in AliveNow /\ KindOk(task[t])
      /\ task[t].kind \notin {"none", "quit", "file"} /\ task[t] \in TaskState
  BY <1>1, RestorerHolds
<1> HIDE DEF read
<1>3. /\ tk.step = "loaded" /\ tk.workspace = task[t].workspace /\ tk.kind = task[t].kind
      /\ tk.path = task[t].path
  BY <1>2 DEF TaskState
<1> HIDE DEF tk
<1>4. KindOk(tk) /\ ~Awaits(t) /\ GrowsBy(t)
      /\ \A k \in Len(queue) + 1 .. Len(queue') : queue'[k].op # "clear"
  BY <1>1, <1>2, <1>3, GrowsNot, AwaitsNot DEF KindOk
<1>5. Quiet(t)
  BY <1>1, <1>2, <1>3, <1>4, SurvivorsSame, TaskQuiet
<1>6. Careful(t)
  BY <1>1, <1>2, <1>3, <1>4, TaskCareful DEF OpenSteps
<1> QED
  BY <1>5, <1>6 DEF Keeps

(* A change of a workspace that gives it no other id or directory.         *)
LEMMA ChangeSame ==
  ASSUME WorkspaceInv, NEW i, NEW ws,
         i \in Handles => ws.id = workspace[i].id /\ ws.path = workspace[i].path
  PROVE  SameWorkspaces([workspace EXCEPT ![i] = ws])
BY DEF SameWorkspaces, WorkspaceInv, WorkspacesOk, AreOk

LEMMA RestoreItemsKeeps ==
  ASSUME Before, NEW t \in AllTasks, RestoreItems(t)
  PROVE  Keeps
<1> DEFINE i == task[t].workspace
<1>1. task[t].step = "loaded" /\ UNCHANGED <<rows, shown, excuse>> /\ QueueOwners
  BY DEF Before, RestoreItems, ghostVars
<1>2. /\ WorkspaceInv /\ i \in AliveNow /\ i \in Handles /\ KindOk(task[t])
      /\ task[t].kind \notin {"none", "quit", "file"} /\ task[t] \in TaskState
  BY <1>1, RestorerHolds
<1>3. ~Awaits(t)
  BY <1>1, <1>2, AwaitsNot
<1>4. \/ /\ queue' = queue \o Saves(workspace[i], None)
         /\ task' = [task EXCEPT ![t] = NoTask]
         /\ workspace' = Surviving(workspace)
      \/ \E pane, items :
           /\ workspace' = [workspace EXCEPT ![i] =
                              [@ EXCEPT !.pane = pane, !.renewed = TRUE, !.scheduled = TRUE,
                                        !.unsent = workspace[i].unsent \cup items]]
           /\ Enqueued(CleanupWrite(task[t].id, items, t))
           /\ task' = [task EXCEPT ![t].step = "cleanup"]
  BY DEF RestoreItems
<1>5. CASE /\ queue' = queue \o Saves(workspace[i], None)
           /\ task' = [task EXCEPT ![t] = NoTask]
           /\ workspace' = Surviving(workspace)
  <2>1. GrowsBy(t) /\ \A k \in Len(queue) + 1 .. Len(queue') : queue'[k].op # "clear"
    <3>1. QueuesSave(t, None, workspace[i])
      BY <1>2, <1>5, GrowsBySaves
    <3> QED
      BY <3>1 DEF QueuesSave
  <2> QED
    BY <1>1, <1>3, <1>5, <2>1, SurvivorsSame, EndKeeps
<1>6. ASSUME NEW pane, NEW items,
             workspace' = [workspace EXCEPT ![i] =
                             [@ EXCEPT !.pane = pane, !.renewed = TRUE, !.scheduled = TRUE,
                                       !.unsent = workspace[i].unsent \cup items]],
             Enqueued(CleanupWrite(task[t].id, items, t)),
             task' = [task EXCEPT ![t].step = "cleanup"]
      PROVE  Keeps
  <2> DEFINE ws == [workspace[i] EXCEPT !.pane = pane, !.renewed = TRUE, !.scheduled = TRUE,
                                        !.unsent = workspace[i].unsent \cup items]
             ws2 == [workspace EXCEPT ![i] = ws]
             tk == [task[t] EXCEPT !.step = "cleanup"]
             write == CleanupWrite(task[t].id, items, t)
  <2>1. workspace' = ws2 /\ task' = [task EXCEPT ![t] = tk] /\ Enqueued(write)
    BY <1>6
  <2>2. ws.id = workspace[i].id /\ ws.path = workspace[i].path
    BY <1>2, KnownWorkspace DEF WorkspaceState
  <2>3. /\ tk.step = "cleanup" /\ tk.workspace = i /\ tk.kind = task[t].kind
        /\ tk.path = task[t].path
    BY <1>2 DEF TaskState
  <2>4. write.op = "cleanup" /\ write.by = t
    BY DEF CleanupWrite
  <2> HIDE DEF ws, tk, write
  <2>5. SameWorkspaces(ws2)
    BY <1>2, <2>2, ChangeSame
  <2>6. KindOk(tk) /\ task'[t] = tk
    BY <1>2, <2>1, <2>3, OthersWait DEF KindOk
  <2>7. GrowsBy(t) /\ \A k \in Len(queue) + 1 .. Len(queue') : queue'[k].op # "clear"
    BY <1>2, <2>1, <2>3, <2>4, <2>6, GrowsByOne DEF IsAwaitedAt
  <2> HIDE DEF ws2, i
  <2>8. Quiet(t)
    BY <1>1, <1>2, <1>3, <2>1, <2>3, <2>5, <2>6, <2>7, TaskQuiet
  <2>9. Careful(t)
    BY <1>1, <1>2, <2>1, <2>3, <2>7, TaskCareful DEF OpenSteps
  <2> QED
    BY <2>8, <2>9 DEF Keeps
<1> QED
  BY <1>4, <1>5, <1>6

LEMMA RestoreEndKeeps ==
  ASSUME Before, NEW t \in AllTasks, RestoreEnd(t)
  PROVE  Keeps
<1> DEFINE i == task[t].workspace
<1>1. /\ task[t].step = "cleanup" /\ UNCHANGED <<rows, shown, excuse>> /\ ~Awaits(t)
      /\ queue' = queue \o Saves(workspace[i], None) /\ workspace' = Surviving(workspace)
      /\ task' = [task EXCEPT ![t] = NoTask]
  BY DEF RestoreEnd, ghostVars
<1>2. WorkspaceInv /\ i \in AliveNow
  BY <1>1, RestorerHolds
<1>3. GrowsBy(t) /\ \A k \in Len(queue) + 1 .. Len(queue') : queue'[k].op # "clear"
  <2>1. QueuesSave(t, None, workspace[i])
    BY <1>1, <1>2, GrowsBySaves
  <2> QED
    BY <2>1 DEF QueuesSave
<1> QED
  BY <1>1, <1>3, SurvivorsSame, EndKeeps
LEMMA FileBuiltKeeps ==
  ASSUME Before, NEW t \in AllTasks, FileBuilt(t)
  PROVE  Keeps
<1> DEFINE i == task[t].workspace
<1>1. /\ WorkspaceInv /\ QueueOwners /\ task[t].step = "build"
      /\ UNCHANGED <<rows, queue, shown, excuse>> /\ task' = [task EXCEPT ![t] = NoTask]
  BY DEF Before, FileBuilt, dbVars, ghostVars
<1>2. ~Awaits(t) /\ GrowsBy(t)
      /\ \A k \in Len(queue) + 1 .. Len(queue') : queue'[k].op # "clear"
  BY <1>1, AwaitsNot, GrowsNot
<1>3. i \in Handles
  BY <1>1, KnownTask DEF HasWorkspace
<1>4. workspace[i] \in WorkspaceState
  BY <1>1, <1>3, KnownWorkspace
<1>5. \/ UNCHANGED workspace
      \/ \E pane : workspace' = [workspace EXCEPT ![i] = [@ EXCEPT !.scheduled = TRUE, !.pane = pane]]
      \/ \E pane, unsent : workspace' = [workspace EXCEPT ![i] =
                              [@ EXCEPT !.scheduled = TRUE, !.unsent = unsent, !.pane = pane]]
  BY DEF FileBuilt
<1>6. SameWorkspaces(workspace')
  <2>1. ASSUME NEW pane,
               workspace' = [workspace EXCEPT ![i] = [@ EXCEPT !.scheduled = TRUE, !.pane = pane]]
        PROVE  SameWorkspaces(workspace')
    <3> DEFINE ws == [workspace[i] EXCEPT !.scheduled = TRUE, !.pane = pane]
    <3>1. ws.id = workspace[i].id /\ ws.path = workspace[i].path
      BY <1>4 DEF WorkspaceState
    <3>2. workspace' = [workspace EXCEPT ![i] = ws]
      BY <2>1
    <3> HIDE DEF ws
    <3> QED
      BY <1>1, <3>1, <3>2, ChangeSame
  <2>2. ASSUME NEW pane, NEW unsent,
               workspace' = [workspace EXCEPT ![i] =
                               [@ EXCEPT !.scheduled = TRUE, !.unsent = unsent, !.pane = pane]]
        PROVE  SameWorkspaces(workspace')
    <3> DEFINE ws == [workspace[i] EXCEPT !.scheduled = TRUE, !.unsent = unsent, !.pane = pane]
    <3>1. ws.id = workspace[i].id /\ ws.path = workspace[i].path
      BY <1>4 DEF WorkspaceState
    <3>2. workspace' = [workspace EXCEPT ![i] = ws]
      BY <2>2
    <3> HIDE DEF ws
    <3> QED
      BY <1>1, <3>1, <3>2, ChangeSame
  <2>3. CASE UNCHANGED workspace
    BY <2>3, SurvivorsSame
  <2> QED
    BY <1>5, <2>1, <2>2, <2>3
<1> QED
  BY <1>1, <1>2, <1>6, EndKeeps

(* A window goes, and with it the workspace that was closed.               *)
LEMMA RemoveWindowKeeps ==
  ASSUME Before, NEW t \in AllTasks, RemoveWindow(t), OpenWindows # {task[t].window}
  PROVE  Keeps
<1> DEFINE win == task[t].window
           i == task[t].workspace
<1>1. /\ WorkspaceInv /\ task[t].kind = "closeWindow" /\ Prepared(t) /\ ~Awaits(t)
      /\ shown' = [shown EXCEPT ![win] = 0] /\ task' = [task EXCEPT ![t] = NoTask]
      /\ excuse' = excuse \cup (IF shown[win] # i THEN {"overtaken"} ELSE {})
      /\ UNCHANGED <<rows, queue>> /\ workspace' = Surviving(workspace)
  BY DEF Before, RemoveWindow, Prepared, dbVars
<1>2. /\ \A w \in Windows : shown'[w] = IF w = win THEN 0 ELSE shown[w]
      /\ \A u \in AllTasks : u # t => task'[u] = task[u]
      /\ task'[t] = NoTask
  BY <1>1, OthersWait DEF WorkspaceInv, ProgramOk
<1>3. GrowsBy(t) /\ \A k \in Len(queue) + 1 .. Len(queue') : queue'[k].op # "clear"
  BY <1>1, GrowsNot
<1>4. Quiet(t)
  <2>1. \A k \in Handles : Alive(k)' => /\ Alive(k) /\ workspace'[k].id = workspace[k].id
                                        /\ workspace'[k].path = workspace[k].path
    BY <1>1, <1>2, NoTaskKind, SurvivorsSame, AliveStay
  <2> QED
    BY <1>1, <1>2, <1>3, <2>1, NoTaskKind DEF Quiet
<1>5. ASSUME excuse' = {} PROVE Careful(t)
  <2>1. shown[win] = i /\ excuse = {}
    BY <1>1, <1>5
  <2>2. Closes(t)
    BY <1>1 DEF Closes, Leaves, Prepared
  <2>3. StoredNow(i)
    BY <1>1, <2>1, <2>2, ClosedIsStored
  <2>4. ~Closes(t)' /\ task'[t].step # "id"
    BY <1>2, NoTaskKind DEF Closes, Leaves, OpenSteps
  <2> QED
    BY <1>2, <1>3, <2>1, <2>3, <2>4 DEF Careful
<1> QED
  BY <1>4, <1>5 DEF Keeps

(* Steps of no task.                                                       *)
LEMMA NoTaskSteps ==
  ASSUME Before, UNCHANGED <<rows, shown, task>>, excuse \subseteq excuse',
         NEW ws2, SameWorkspaces(ws2), workspace' = ws2, GrowsBy(None),
         excuse' = {} => \A k \in Len(queue) + 1 .. Len(queue') : queue'[k].op # "clear"
  PROVE  Keeps
<1>1. WorkspaceInv /\ None \notin AllTasks
  BY WorkspaceAssumption DEF Before, AllTasks
<1>2. \A i \in Handles : Alive(i)' => /\ Alive(i) /\ workspace'[i].id = workspace[i].id
                                      /\ workspace'[i].path = workspace[i].path
  BY <1>1, AliveStay
<1>3. Quiet(None)
  BY <1>1, <1>2 DEF Quiet
<1>4. excuse' = {} => Careful(None)
  BY <1>1 DEF Careful
<1> QED
  BY <1>3, <1>4 DEF Keeps

LEMMA TimerSavesKeeps ==
  ASSUME Before, NEW i \in Handles, TimerSaves(i)
  PROVE  Keeps
<1> DEFINE ws == [workspace[i] EXCEPT !.scheduled = FALSE]
           ws2 == [workspace EXCEPT ![i] = ws]
<1>1. /\ WorkspaceInv /\ i \in AliveNow /\ queue' = queue \o Saves(workspace[i], None)
      /\ workspace' = ws2 /\ UNCHANGED <<rows, shown, task, excuse>>
  BY DEF Before, TimerSaves, AliveNow, ghostVars
<1>2. ws.id = workspace[i].id /\ ws.path = workspace[i].path
  BY <1>1, KnownWorkspace DEF WorkspaceState
<1> HIDE DEF ws
<1>3. SameWorkspaces(ws2)
  BY <1>1, <1>2, ChangeSame
<1>4. GrowsBy(None) /\ \A k \in Len(queue) + 1 .. Len(queue') : queue'[k].op # "clear"
  <2>1. QueuesSave(None, None, workspace[i])
    BY <1>1, GrowsBySaves
  <2> QED
    BY <2>1 DEF QueuesSave
<1> HIDE DEF ws2
<1> QED
  BY <1>1, <1>3, <1>4, NoTaskSteps

LEMMA ItemsSentKeeps ==
  ASSUME Before, WorkspaceInv', NEW i \in Handles, ItemsSent(i)
  PROVE  Keeps
<1> DEFINE ws == [workspace[i] EXCEPT !.unsent = {}]
           ws2 == [workspace EXCEPT ![i] = ws]
           count == Cardinality(workspace[i].unsent)
<1>1. /\ WorkspaceInv /\ workspace' = ws2 /\ UNCHANGED <<rows, shown, task, excuse>>
  BY DEF Before, ItemsSent, ghostVars
<1>2. workspace[i] \in WorkspaceState
  BY <1>1, KnownWorkspace
<1>3. ws.id = workspace[i].id /\ ws.path = workspace[i].path
  BY <1>2 DEF WorkspaceState
<1> HIDE DEF ws
<1>4. SameWorkspaces(ws2)
  BY <1>1, <1>3, ChangeSame
<1> HIDE DEF ws2
<1>5. PICK order \in [1 .. count -> workspace[i].unsent] :
        queue' = queue \o [k \in 1 .. count |->
                             ItemWrite(workspace[i].id, order[k], fileOf[order[k]])]
  BY DEF ItemsSent
<1>6. /\ GrowsBy(None)
      /\ \A k \in Len(queue) + 1 .. Len(queue') : queue'[k].op # "clear"
  <2> DEFINE sent == [k \in 1 .. count |->
                        ItemWrite(workspace[i].id, order[k], fileOf[order[k]])]
  <2>1. count \in Nat
    <3>1. workspace[i].unsent \subseteq Items
      BY <1>2 DEF WorkspaceState
    <3> QED
      BY <3>1, FS_Subset, FS_CardinalityType, WorkspaceAssumption
  <2>2. \A k \in 1 .. count : sent[k].op = "item" /\ sent[k].by = None
    BY DEF ItemWrite
  <2>3. queue' = queue \o sent /\ DOMAIN sent = 1 .. count /\ Len(sent) = count
    BY <1>5, <2>1
  <2>4. sent \in Seq({sent[k] : k \in 1 .. count})
    BY <2>1
  <2> HIDE DEF sent, count
  <2>5. /\ Len(queue) \in Nat /\ Len(queue') = Len(queue) + count
        /\ \A k \in 1 .. Len(queue) : queue'[k] = queue[k]
        /\ \A k \in Len(queue) + 1 .. Len(queue') : queue'[k] = sent[k - Len(queue)]
    <3>1. queue \in Seq(Write) /\ Len(queue) \in Nat
      BY <1>1, QueueTyped
    <3>2. Len(queue') = Len(queue) + Len(sent)
      BY <2>3, <2>4, <3>1
    <3>3. \A k \in 1 .. Len(queue) + Len(sent) :
            queue'[k] = IF k <= Len(queue) THEN queue[k] ELSE sent[k - Len(queue)]
      BY <2>3, <2>4, <3>1
    <3> QED
      BY <2>1, <2>3, <3>1, <3>2, <3>3
  <2>6. ASSUME NEW k \in Len(queue) + 1 .. Len(queue')
        PROVE  queue'[k].op = "item" /\ queue'[k].by = None
    <3>1. k - Len(queue) \in 1 .. count
      BY <2>1, <2>5
    <3> QED
      BY <2>2, <2>5, <3>1
  <2> QED
    BY <2>1, <2>5, <2>6 DEF GrowsBy
<1> QED
  BY <1>1, <1>4, <1>6, NoTaskSteps

LEMMA ClearRecentKeeps ==
  ASSUME Before, NEW w \in Windows, ClearRecent(w)
  PROVE  Keeps
<1> DEFINE write == ClearWrite
<1>1. /\ WorkspaceInv /\ Enqueued(write) /\ excuse \subseteq excuse' /\ excuse' # {}
      /\ UNCHANGED <<rows, shown, workspace, task>>
  BY DEF Before, ClearRecent
<1>2. write.op = "clear" /\ write.by = None
  BY DEF ClearWrite
<1> HIDE DEF write
<1>3. GrowsBy(None)
  BY <1>1, <1>2, GrowsByOne
<1> QED
  BY <1>1, <1>3, SurvivorsSame, NoTaskSteps

LEMMA TabStepKeeps ==
  ASSUME Before, NEW w \in Windows, TabStep(w)
  PROVE  Keeps
<1>1. WorkspaceInv
  BY DEF Before
<1>2. /\ UNCHANGED <<rows, queue, shown, task, excuse>> /\ IsOpen(w)
      /\ \/ \E pane : workspace' = [workspace EXCEPT ![shown[w]] =
                                      [@ EXCEPT !.pane = pane, !.scheduled = TRUE]]
         \/ \E pane, unsent : workspace' = [workspace EXCEPT ![shown[w]] =
                                 [@ EXCEPT !.scheduled = TRUE, !.unsent = unsent, !.pane = pane]]
         \/ \E pane, scheduled : workspace' = [workspace EXCEPT ![shown[w]] =
                                 [@ EXCEPT !.pane = pane, !.scheduled = scheduled]]
  <2>1. ASSUME NEW n \in Items, SelectTab(w, n) \/ CloseItem(w, n)
        PROVE  /\ UNCHANGED <<rows, queue, shown, task, excuse>> /\ IsOpen(w)
               /\ \E pane : workspace' = [workspace EXCEPT ![shown[w]] =
                                            [@ EXCEPT !.pane = pane, !.scheduled = TRUE]]
    BY <2>1 DEF SelectTab, CloseItem, PaneChanges, ItemsOf, dbVars, ghostVars
  <2>2. ASSUME NEW n \in Items, NEW index \in 0 .. Cardinality(Items), DragTab(w, n, index)
        PROVE  /\ UNCHANGED <<rows, queue, shown, task, excuse>> /\ IsOpen(w)
               /\ \E pane, unsent : workspace' = [workspace EXCEPT ![shown[w]] =
                                 [@ EXCEPT !.scheduled = TRUE, !.unsent = unsent, !.pane = pane]]
    BY <2>2 DEF DragTab, ItemsOf, dbVars, ghostVars
  <2>3. ASSUME NEW heard \in BOOLEAN, KeepPreview(w, heard)
        PROVE  /\ UNCHANGED <<rows, queue, shown, task, excuse>> /\ IsOpen(w)
               /\ \E pane, scheduled : workspace' = [workspace EXCEPT ![shown[w]] =
                                 [@ EXCEPT !.pane = pane, !.scheduled = scheduled]]
    BY <2>3 DEF KeepPreview, dbVars, ghostVars
  <2> QED
    BY <2>1, <2>2, <2>3 DEF TabStep
<1>3. shown[w] \in Handles /\ workspace[shown[w]] \in WorkspaceState
  BY <1>1, <1>2, ShownKnown, KnownWorkspace
<1>4. SameWorkspaces(workspace')
  <2>1. ASSUME NEW pane, NEW scheduled,
               workspace' = [workspace EXCEPT ![shown[w]] =
                               [@ EXCEPT !.pane = pane, !.scheduled = scheduled]]
        PROVE  SameWorkspaces(workspace')
    <3> DEFINE ws == [workspace[shown[w]] EXCEPT !.pane = pane, !.scheduled = scheduled]
    <3>1. ws.id = workspace[shown[w]].id /\ ws.path = workspace[shown[w]].path
      BY <1>3 DEF WorkspaceState
    <3>2. workspace' = [workspace EXCEPT ![shown[w]] = ws]
      BY <2>1
    <3> HIDE DEF ws
    <3> QED
      BY <1>1, <3>1, <3>2, ChangeSame
  <2>2. ASSUME NEW pane, NEW unsent,
               workspace' = [workspace EXCEPT ![shown[w]] =
                               [@ EXCEPT !.scheduled = TRUE, !.unsent = unsent, !.pane = pane]]
        PROVE  SameWorkspaces(workspace')
    <3> DEFINE ws == [workspace[shown[w]] EXCEPT !.scheduled = TRUE, !.unsent = unsent,
                                                 !.pane = pane]
    <3>1. ws.id = workspace[shown[w]].id /\ ws.path = workspace[shown[w]].path
      BY <1>3 DEF WorkspaceState
    <3>2. workspace' = [workspace EXCEPT ![shown[w]] = ws]
      BY <2>2
    <3> HIDE DEF ws
    <3> QED
      BY <1>1, <3>1, <3>2, ChangeSame
  <2> QED
    BY <1>2, <2>1, <2>2
<1> QED
  BY <1>1, <1>2, <1>4, GrowsNot, NoTaskSteps
(* A workspace is created, perhaps in place of the one that was closed.    *)
LEMMA OwnersStay ==
  ASSUME WorkspaceInv, QueueOwners, KindsOk, UNCHANGED queue, NEW t \in AllTasks, ~Awaits(t),
         \A u \in AllTasks : u # t => task'[u] = task[u], KindOk(task'[t])
  PROVE  QueueOwners' /\ KindsOk'
<1>1. KindsOk'
  BY DEF KindsOk
<1>2. ASSUME NEW k \in 1 .. Len(queue), queue[k].by # None
      PROVE  queue[k].by \in AllTasks /\ queue[k].by # t
  BY <1>2, QueueTyped DEF Awaits
<1> QED
  BY <1>1, <1>2 DEF QueueOwners

LEMMA CreateKeepsIds ==
  ASSUME Before, WorkspaceInv', NEW t \in AllTasks, NEW w \in Targets(t), NEW id, NEW path,
         NEW then, Create(t, w, id, path, then), UNCHANGED queue, excuse' = {}, ~Awaits(t),
         task[t].step \in {"load", "id"}, then.step \in {"none", "restore"},
         then.workspace \in {0, FreeHandle},
         \/ task[t].step = "id" /\ id = task[t].id
         \/ /\ path # None /\ id \in Ids /\ rows[id] # None /\ rows[id].location = path
            /\ \A i \in Ids : rows[i] # None /\ rows[i].location = path => i = id
  PROVE  IdsInv'
<1> DEFINE f == FreeHandle
           left == AliveNow' \ {f}
           given == NewWorkspace(id, path)
<1>1. /\ shown' = [shown EXCEPT ![w] = f] /\ task' = [task EXCEPT ![t] = then]
      /\ excuse' = excuse \cup Oddities(t, w, path) /\ UNCHANGED rows
      /\ workspace' = Surviving([workspace EXCEPT ![f] = given])
      /\ f \in Handles /\ ~Alive(f) /\ \A u \in AllTasks : task[u].workspace # f
  BY DEF Create, FreeHandle, FreeHandles
<1>2. /\ WorkspaceInv /\ QueueOwners /\ KindOk(task[t]) /\ excuse = {} /\ IdsInv
      /\ Oddities(t, w, path) = {} /\ w \in Windows
  BY <1>1, TargetsKnown DEF Before, KindsOk
<1>3. given.id = id /\ given.path = path
  BY DEF NewWorkspace
<1> HIDE DEF f, given
<1>4. /\ \A v \in Windows : shown'[v] = IF v = w THEN f ELSE shown[v]
      /\ \A u \in AllTasks : u # t => task'[u] = task[u]
      /\ task'[t] = then
  BY <1>1, <1>2, OthersWait DEF WorkspaceInv, ProgramOk
<1>5. \A i \in AliveNow' : /\ workspace'[i] = [workspace EXCEPT ![f] = given][i]
                           /\ i \in Handles /\ i # 0
  BY <1>1 DEF Surviving, AliveNow, Alive, Handles
<1>6. f \in AliveNow'
  BY <1>1, <1>2, <1>4 DEF AliveNow, Alive, HeldBy
<1>7. IdNow'[f] = id /\ PathNow'[f] = path
  <2>1. [workspace EXCEPT ![f] = given][f] = given
    BY <1>1, <1>2 DEF WorkspaceInv, WorkspacesOk, AreOk
  <2> QED
    BY <1>1, <1>3, <1>5, <1>6, <2>1 DEF IdNow, PathNow
<1>8. ASSUME NEW i \in left
      PROVE  /\ i \in AliveNow /\ i \in Handles /\ IdNow'[i] = IdNow[i]
             /\ PathNow'[i] = PathNow[i]
  <2>1. i \in Handles /\ i # 0 /\ i # f /\ HeldBy(i, shown', task')
    BY <1>5 DEF AliveNow, Alive
  <2>2. Alive(i)
    BY <1>4, <2>1 DEF Alive, HeldBy, f
  <2>3. workspace'[i] = workspace[i]
    BY <1>5, <2>1 DEF WorkspaceInv, WorkspacesOk, AreOk
  <2> QED
    BY <2>1, <2>2, <2>3 DEF AliveNow, IdNow, PathNow
<1>9. ASSUME NEW i \in AliveNow, shown[w] = i PROVE StoredNow(i)
  <2>1. IsOpen(w) /\ w \in OpenWindows
    BY <1>2, <1>9 DEF IsOpen, OpenWindows, AliveNow, Handles
  <2>2. shown[w] = task[t].workspace
    BY <1>2, <2>1 DEF Oddities
  <2>3. task[t].replace \/ task[t].kind = "closeProject"
    BY <2>1 DEF Targets, NewWindows
  <2>4. Closes(t)
    BY <1>2, <2>3 DEF Closes, Leaves, KindOk
  <2> QED
    BY <1>2, <1>9, <2>2, <2>4, ClosedIsStored
<1>10. ASSUME NEW i \in AliveNow, i \notin left PROVE StoredNow(i)
  <2>1. i \in Handles /\ i # f
    BY <1>1, <1>10 DEF AliveNow
  <2>2. ~Alive(i)'
    BY <1>10, <2>1 DEF AliveNow
  <2>3. \A v \in Windows : shown[v] = i => v = w
    BY <1>4, <2>2 DEF Alive, HeldBy
  <2> QED
    BY <1>2, <1>9, <2>3 DEF IdsInv, ShownOrStored
<1>11. ASSUME NEW i \in left, path # None PROVE PathNow[i] # path
  <2>1. ~\E j \in Handles : Alive(j) /\ path # None /\ workspace[j].path = path
    BY <1>2 DEF Oddities
  <2> QED
    BY <1>8, <1>11, <2>1 DEF AliveNow, PathNow
<1>12. /\ DrawnNow' = DrawnNow \ {t}
       /\ \A u \in DrawnNow' : DrawnIdNow'[u] = DrawnIdNow[u]
  <2>1. \A u \in AllTasks : Awaits(u)' <=> Awaits(u)
    BY DEF Awaits
  <2> QED
    BY <1>4, <2>1 DEF DrawnNow, DrawnIdNow
<1>13. Ledger(rows, queue, AliveNow, IdNow, PathNow, DrawnNow, DrawnIdNow)
  BY <1>2 DEF IdsInv, LedgerNow
<1>14. left \cup {f} = AliveNow' /\ left \subseteq AliveNow
  BY <1>6, <1>8
<1> HIDE DEF left
<1>15. Ledger(rows, queue, AliveNow', IdNow', PathNow', DrawnNow', DrawnIdNow')
  <2>1. CASE task[t].step = "id" /\ id = task[t].id
    <3>1. Ledger(rows, queue, left, IdNow', PathNow', DrawnNow, DrawnIdNow)
      BY <1>8, <1>10, <1>13, <1>14, Dropping DEF StoredNow
    <3>2. t \in DrawnNow /\ IdNow'[f] = DrawnIdNow[t]
      BY <1>7, <2>1 DEF DrawnNow, DrawnIdNow
    <3>3. Ledger(rows, queue, left \cup {f}, IdNow', PathNow', DrawnNow', DrawnIdNow)
      BY <1>7, <1>8, <1>11, <1>12, <3>1, <3>2, ComingNew
    <3>4. DrawnNow' \subseteq DrawnNow'
      OBVIOUS
    <3> QED
      BY <1>12, <1>14, <3>3, <3>4, Dropping
  <2>2. CASE /\ path # None /\ id \in Ids /\ rows[id] # None /\ rows[id].location = path
             /\ \A i \in Ids : rows[i] # None /\ rows[i].location = path => i = id
    <3>1. DrawnNow' \subseteq DrawnNow
      BY <1>12
    <3>2. Ledger(rows, queue, left, IdNow', PathNow', DrawnNow', DrawnIdNow')
      BY <1>8, <1>10, <1>12, <1>13, <1>14, <3>1, Dropping DEF StoredNow
    <3>3. \A i \in left : PathNow'[i] # PathNow'[f]
      BY <1>7, <1>8, <1>11, <2>2
    <3>4. Ledger(rows, queue, left \cup {f}, IdNow', PathNow', DrawnNow', DrawnIdNow')
      BY <1>7, <2>2, <3>2, <3>3, ComingBack
    <3> QED
      BY <1>14, <3>4
  <2> QED
    BY <2>1, <2>2
<1>16. ASSUME NEW i \in left, StoredNow(i) PROVE StoredNow(i)'
  BY <1>1, <1>8, <1>16 DEF StoredNow, IsStored
<1>17. ShownOrStored'
  <2> SUFFICES ASSUME NEW i \in AliveNow' PROVE StoredNow(i)' \/ \E v \in Windows : shown'[v] = i
    BY DEF ShownOrStored
  <2>1. CASE i = f
    BY <1>2, <1>4, <2>1
  <2>2. CASE i \in left
    <3>1. i \in AliveNow
      BY <1>8, <2>2
    <3>2. StoredNow(i) \/ \E v \in Windows : shown[v] = i /\ v # w
      BY <1>2, <1>9, <3>1 DEF IdsInv, ShownOrStored
    <3> QED
      BY <1>4, <1>16, <2>2, <3>2
  <2> QED
    BY <1>14, <2>1, <2>2
<1>18. SavedToClose'
  <2> SUFFICES ASSUME NEW u \in AllTasks, Closes(u)'
               PROVE  /\ task'[u].workspace \in Handles
                      /\ StoredNow(task[u].workspace)' \/ AwaitsItsSave(u)'
    BY DEF SavedToClose
  <2>1. u # t /\ task'[u] = task[u]
    BY <1>4 DEF Closes, Leaves
  <2>2. Closes(u)
    BY <2>1 DEF Closes, Leaves
  <2>3. /\ task[u].workspace \in Handles
        /\ StoredNow(task[u].workspace) \/ AwaitsItsSave(u)
    BY <1>2, <2>2 DEF IdsInv, SavedToClose
  <2>4. task[u].workspace \in left
    BY <1>1, <2>1, <2>2, <2>3 DEF AliveNow, Alive, HeldBy, Closes, Leaves, left
  <2>5. AwaitsItsSave(u) => AwaitsItsSave(u)'
    BY <1>8, <2>1, <2>4 DEF AwaitsItsSave, IsSave
  <2> QED
    BY <1>16, <2>1, <2>3, <2>4, <2>5
<1> QED
  BY <1>1, <1>15, <1>17, <1>18 DEF IdsInv, LedgerNow

LEMMA CreateKeepsAll ==
  ASSUME Before, LocationUnique, WorkspaceInv', NEW t \in AllTasks, LoadKnown(t) \/ IdArrived(t)
  PROVE  QueueOwners' /\ KindsOk' /\ (excuse' = {} => IdsInv')
<1>1. WorkspaceInv /\ QueueOwners /\ KindsOk /\ KindOk(task[t]) /\ task[t] \in TaskState
  BY KnownTask DEF Before, KindsOk
<1>2. CASE LoadKnown(t)
  <2>1. PICK i \in RowsOf(task[t].path), w \in Targets(t) :
          Create(t, w, i, task[t].path,
                 [task[t] EXCEPT !.step = "restore", !.window = w, !.workspace = FreeHandle,
                                 !.id = i, !.stored = rows[i].pane])
    BY <1>2 DEF LoadKnown
  <2> DEFINE fresh == FreeHandle
             tk == [task[t] EXCEPT !.step = "restore", !.window = w, !.workspace = fresh,
                                   !.id = i, !.stored = rows[i].pane]
  <2>2. Create(t, w, i, task[t].path, tk) /\ UNCHANGED queue /\ task[t].step = "load"
    BY <1>2, <2>1 DEF LoadKnown
  <2>3. /\ tk.step = "restore" /\ tk.workspace = fresh /\ tk.kind = task[t].kind
        /\ tk.path = task[t].path
    BY <1>1 DEF TaskState
  <2> HIDE DEF tk
  <2>4. task'[t] = tk /\ \A u \in AllTasks : u # t => task'[u] = task[u]
    BY <1>1, <2>2, OthersWait DEF Create
  <2>5. ~Awaits(t) /\ task[t].path # None /\ task[t].path \in Paths
    BY <1>1, <2>2, AwaitsNot DEF KindOk, TaskState
  <2>6. KindOk(tk)
    BY <1>1, <2>2, <2>3, <2>5 DEF KindOk
  <2>7. /\ i \in Ids /\ rows[i] # None /\ rows[i].location = task[t].path
        /\ \A j \in Ids : rows[j] # None /\ rows[j].location = task[t].path => j = i
    BY <2>5 DEF LocationUnique, RowsOf
  <2>8. excuse' = {} => IdsInv'
    BY <2>2, <2>3, <2>5, <2>7, CreateKeepsIds
  <2> QED
    BY <1>1, <2>2, <2>4, <2>5, <2>6, <2>8, OwnersStay
<1>3. CASE IdArrived(t)
  <2>1. PICK w \in Targets(t) : Create(t, w, task[t].id, task[t].path, NoTask)
    BY <1>3 DEF IdArrived
  <2>2. /\ UNCHANGED queue /\ task[t].step = "id" /\ ~Awaits(t)
        /\ task' = [task EXCEPT ![t] = NoTask]
    BY <1>3, <2>1 DEF IdArrived, Create
  <2>3. NoTask.step = "none"
    BY DEF NoTask
  <2>4. excuse' = {} => IdsInv'
    BY <2>1, <2>2, <2>3, NoTaskKind, CreateKeepsIds
  <2> QED
    BY <1>1, <2>2, <2>4, NoTaskKind, OthersWait, OwnersStay
<1> QED
  BY <1>2, <1>3
(* The writing thread: an awaited write is done, and what it says stored.  *)
LEMMA WrittenKeepsAll ==
  ASSUME Before, WorkspaceInv', Written
  PROVE  QueueOwners' /\ KindsOk' /\ (excuse' = {} => IdsInv')
<1> DEFINE first == Head(queue)
<1>1. /\ WorkspaceInv /\ QueueOwners /\ KindsOk /\ queue # <<>> /\ queue' = Tail(queue)
      /\ UNCHANGED <<shown, workspace, excuse>>
  BY DEF Before, Written, ghostVars
<1>2. /\ queue \in Seq(Write) /\ Len(queue) \in Nat \ {0} /\ first = queue[1]
      /\ Len(queue') = Len(queue) - 1 /\ first \in Write
      /\ \A k \in 1 .. Len(queue') : queue'[k] = queue[k + 1]
  BY <1>1, QueueTyped
<1>3. \A k \in 1 .. Len(queue') : k + 1 \in 1 .. Len(queue)
  BY <1>2
<1>4. \/ ApplySave(first) /\ UNCHANGED task
      \/ (ApplyItem(first) \/ ApplyCleanup(first)) /\ UNCHANGED task
      \/ ApplyClear(first) /\ UNCHANGED task
      \/ ApplyNew(first) /\ task' = [task EXCEPT ![first.by].id = NewRowId]
  BY DEF Written
<1>5. first.op = "new" => first.by \in AllTasks
  BY <1>2 DEF Write
<1> HIDE DEF first
<1>6. ASSUME NEW u \in AllTasks
      PROVE  /\ task'[u].step = task[u].step /\ task'[u].kind = task[u].kind
             /\ task'[u].workspace = task[u].workspace /\ task'[u].preserve = task[u].preserve
             /\ task'[u].replace = task[u].replace /\ task'[u].path = task[u].path
             /\ (first.op # "new" \/ u # first.by) => task'[u].id = task[u].id
             /\ first.op = "new" /\ u = first.by => task'[u].id = NewRowId
  <2>1. task[u] \in TaskState
    BY <1>1, KnownTask
  <2>2. CASE UNCHANGED task /\ first.op # "new"
    BY <2>2
  <2>3. CASE first.op = "new" /\ task' = [task EXCEPT ![first.by].id = NewRowId]
    <3>1. CASE u # first.by
      BY <1>1, <2>3, <3>1 DEF WorkspaceInv, TasksOk
    <3>2. CASE u = first.by
      <4>1. task'[u] = [task[u] EXCEPT !.id = NewRowId]
        BY <1>1, <2>3, <3>2 DEF WorkspaceInv, TasksOk
      <4> QED
        BY <2>1, <2>3, <3>2, <4>1 DEF TaskState
    <3> QED
      BY <3>1, <3>2
  <2> QED
    BY <1>4, <2>2, <2>3 DEF ApplySave, ApplyItem, ApplyCleanup, ApplyClear, ApplyNew
<1>7. KindsOk'
  BY <1>1, <1>6 DEF KindsOk, KindOk
<1>8. QueueOwners'
  <2> SUFFICES ASSUME NEW k \in 1 .. Len(queue'), queue'[k].by # None
               PROVE  /\ IsAwaitedAt(queue'[k].op, task'[queue'[k].by].step)
                      /\ \A m \in 1 .. Len(queue') :
                           queue'[k].op = "new" /\ queue'[m].op = "new"
                           /\ queue'[k].by = queue'[m].by => k = m
    BY DEF QueueOwners
  <2>1. k + 1 \in 1 .. Len(queue) /\ queue'[k] = queue[k + 1]
    BY <1>2, <1>3
  <2>2. queue[k + 1].by \in AllTasks
    BY <1>1, <2>1, QueueTyped
  <2>3. IsAwaitedAt(queue'[k].op, task'[queue'[k].by].step)
    BY <1>1, <1>6, <2>1, <2>2 DEF QueueOwners
  <2>4. ASSUME NEW m \in 1 .. Len(queue'), queue'[k].op = "new", queue'[m].op = "new",
               queue'[k].by = queue'[m].by
        PROVE  k = m
    <3>1. m + 1 \in 1 .. Len(queue) /\ queue'[m] = queue[m + 1]
      BY <1>2, <1>3
    <3>2. k + 1 = m + 1
      BY <1>1, <2>1, <2>4, <3>1 DEF QueueOwners
    <3> QED
      BY <3>2
  <2> QED
    BY <2>3, <2>4
<1> SUFFICES ASSUME excuse' = {} PROVE IdsInv'
  BY <1>7, <1>8
<1>9. IdsInv /\ Ledger(rows, queue, AliveNow, IdNow, PathNow, DrawnNow, DrawnIdNow)
  BY <1>1 DEF Before, IdsInv, LedgerNow
<1>10. AliveNow' = AliveNow /\ IdNow' = IdNow /\ PathNow' = PathNow
  <2>1. \A i \in Handles : Alive(i)' <=> Alive(i)
    BY <1>1, <1>6 DEF Alive, HeldBy
  <2> QED
    BY <1>1, <2>1 DEF AliveNow, IdNow, PathNow
<1>11. ASSUME NEW u \in AllTasks, task[u].step = "id", first.op # "new" \/ u # first.by
       PROVE  Awaits(u)' <=> Awaits(u)
  <2>1. Awaits(u)' => Awaits(u)
    BY <1>2, <1>3 DEF Awaits
  <2>2. ASSUME NEW k \in 1 .. Len(queue), queue[k].by = u PROVE Awaits(u)'
    <3>1. u # None
      BY WorkspaceAssumption DEF AllTasks
    <3>2. k # 1
      BY <1>1, <1>2, <1>11, <2>2, <3>1 DEF QueueOwners, IsAwaitedAt
    <3>3. k - 1 \in 1 .. Len(queue') /\ queue'[k - 1] = queue[k]
      BY <1>2, <3>2
    <3> QED
      BY <2>2, <3>3 DEF Awaits
  <2> QED
    BY <2>1, <2>2 DEF Awaits
<1>12. /\ \A u \in DrawnNow' : u \in DrawnNow \/ (first.op = "new" /\ u = first.by)
       /\ \A u \in AllTasks : first.op # "new" \/ u # first.by => DrawnIdNow'[u] = DrawnIdNow[u]
  BY <1>6, <1>11 DEF DrawnNow, DrawnIdNow
(* The ledger, and what stays stored.                                      *)
<1>13. /\ LedgerNow'
       /\ \A i \in AliveNow : StoredNow(i) => StoredNow(i)'
       /\ first.op = "save" => \A i \in AliveNow : first.id = IdNow[i] => StoredNow(i)'
  <2>1. CASE first.op = "save"
    <3>1. ApplySave(first)
      BY <1>4, <2>1 DEF ApplyItem, ApplyCleanup, ApplyClear, ApplyNew
    <3>2. first.row # None
      BY <1>2, <2>1, RowIsSome DEF Write
    <3>3. \A i \in Ids : rows'[i] = IF i = first.id THEN first.row
                                    ELSE IF rows[i] # None /\ rows[i].location = first.row.location
                                    THEN None ELSE rows[i]
      BY <3>1 DEF ApplySave, RowsOf
    <3>4. /\ Ledger(rows', queue', AliveNow, IdNow, PathNow, DrawnNow, DrawnIdNow)
          /\ \A i \in AliveNow : IsStored(rows, IdNow, PathNow, i) \/ first.id = IdNow[i]
                                   => IsStored(rows', IdNow, PathNow, i)
      <4>1. StoresFirst(rows, queue, rows', queue')
        BY <1>2, <2>1, <3>2, <3>3 DEF StoresFirst
      <4>2. /\ Ledger(rows', queue', AliveNow, IdNow, PathNow, DrawnNow, DrawnIdNow)
            /\ \A i \in AliveNow : IsStored(rows, IdNow, PathNow, i) \/ queue[1].id = IdNow[i]
                                     => IsStored(rows', IdNow, PathNow, i)
        BY <1>9, <4>1, Storing
      <4> QED
        BY <1>2, <4>2
    <3>5. DrawnNow' \subseteq DrawnNow /\ \A u \in DrawnNow' : DrawnIdNow'[u] = DrawnIdNow[u]
      BY <1>12, <2>1 DEF DrawnNow
    <3>6. Ledger(rows', queue', AliveNow, IdNow, PathNow, DrawnNow', DrawnIdNow')
      BY <3>4, <3>5, Dropping
    <3> QED
      BY <1>10, <3>4, <3>6 DEF LedgerNow, StoredNow
  <2>2. CASE first.op \in {"item", "cleanup"}
    <3>1. UNCHANGED rows
      BY <1>4, <2>2 DEF ApplySave, ApplyItem, ApplyCleanup, ApplyClear, ApplyNew
    <3>2. Ledger(rows, queue', AliveNow, IdNow, PathNow, DrawnNow, DrawnIdNow)
      BY <1>2, <1>9, <2>2, TakingNext
    <3>3. DrawnNow' \subseteq DrawnNow /\ \A u \in DrawnNow' : DrawnIdNow'[u] = DrawnIdNow[u]
      BY <1>12, <2>2 DEF DrawnNow
    <3>4. Ledger(rows, queue', AliveNow, IdNow, PathNow, DrawnNow', DrawnIdNow')
      BY <3>2, <3>3, Dropping
    <3> QED
      BY <1>10, <2>2, <3>1, <3>4 DEF LedgerNow, StoredNow
  <2>3. CASE first.op = "new"
    <3> DEFINE n == NewRowId
    <3>1. /\ n <= MaxId
          /\ rows' = [rows EXCEPT ![n] = [location |-> None, pane |-> NoItems, session |-> 0]]
      BY <1>4, <2>3 DEF ApplySave, ApplyItem, ApplyCleanup, ApplyClear, ApplyNew
    <3>2. n \in Ids /\ rows[n] = None
      BY <3>1, NewRowIdKnown
    <3>3. rows'[n] = [location |-> None, pane |-> NoItems, session |-> 0]
      BY <1>1, <3>1, <3>2 DEF WorkspaceInv, StoredOk
    <3>4. rows'[n].location = None /\ rows'[n] # None
      <4>1. [location |-> None, pane |-> NoItems, session |-> 0] \in SoundRow
        BY NoItemsSound, WorkspaceAssumption DEF SoundRow, Sessions
      <4> QED
        BY <3>3, <4>1, RowIsSome
    <3>5. \A i \in Ids : rows[i] # None => rows'[i] = rows[i]
      BY <1>1, <3>1, <3>2 DEF WorkspaceInv, StoredOk
    <3>6. /\ Ledger(rows', queue', AliveNow, IdNow, PathNow, DrawnNow, DrawnIdNow)
          /\ \A i \in AliveNow : IsStored(rows, IdNow, PathNow, i)
                                   => IsStored(rows', IdNow, PathNow, i)
      <4>1. Len(queue) \in Nat \ {0} /\ queue[1].op # "save"
        BY <1>2, <2>3
      <4>2. Len(queue') = Len(queue) - 1 /\ \A k \in 1 .. Len(queue') : queue'[k] = queue[k + 1]
        BY <1>2
      <4> QED
        BY <1>9, <3>5, <4>1, <4>2, TakingNext
    <3>7. Ledger(rows, queue', AliveNow, IdNow, PathNow, DrawnNow, DrawnIdNow)
      BY <1>2, <1>9, <2>3, TakingNext
    <3>8. first.by \in AllTasks /\ DrawnIdNow'[first.by] = n
      BY <1>5, <1>6, <2>3 DEF DrawnIdNow
    <3>9. \A u \in DrawnNow \ {first.by} : DrawnIdNow'[u] = DrawnIdNow[u]
      BY <1>12 DEF DrawnNow
    <3> HIDE DEF n
    <3>10. Ledger(rows', queue', AliveNow, IdNow, PathNow, DrawnNow \cup {first.by}, DrawnIdNow')
      BY <3>2, <3>4, <3>5, <3>6, <3>7, <3>8, <3>9, Drawing
    <3>11. DrawnNow' \subseteq DrawnNow \cup {first.by}
      BY <1>12
    <3>12. Ledger(rows', queue', AliveNow, IdNow, PathNow, DrawnNow', DrawnIdNow')
      BY <3>10, <3>11, Dropping
    <3> QED
      BY <1>10, <2>3, <3>6, <3>12 DEF LedgerNow, StoredNow
  <2>4. first.op # "clear"
    BY <1>2, <1>9 DEF Ledger
  <2> QED
    BY <1>4, <2>1, <2>2, <2>3, <2>4 DEF ApplySave, ApplyItem, ApplyCleanup, ApplyClear, ApplyNew
<1>14. ShownOrStored'
  BY <1>1, <1>9, <1>10, <1>13 DEF IdsInv, ShownOrStored
<1>15. SavedToClose'
  <2> SUFFICES ASSUME NEW u \in AllTasks, Closes(u)'
               PROVE  /\ task'[u].workspace \in Handles
                      /\ StoredNow(task[u].workspace)' \/ AwaitsItsSave(u)'
    BY DEF SavedToClose
  <2> DEFINE i == task[u].workspace
  <2>1. task'[u].workspace = i /\ Closes(u)
    BY <1>6 DEF Closes, Leaves
  <2>2. i \in Handles /\ (StoredNow(i) \/ AwaitsItsSave(u))
    BY <1>9, <2>1 DEF IdsInv, SavedToClose
  <2>3. i \in AliveNow
    BY <2>1, <2>2 DEF AliveNow, Alive, HeldBy, Closes, Leaves
  <2>4. CASE StoredNow(i)
    BY <1>13, <2>1, <2>2, <2>3, <2>4
  <2>5. CASE AwaitsItsSave(u)
    <3>1. PICK k \in 1 .. Len(queue) : queue[k].by = u /\ IsSave(queue, k, IdNow[i])
      BY <2>5 DEF AwaitsItsSave
    <3>2. CASE k = 1
      BY <1>2, <1>13, <2>1, <2>2, <2>3, <3>1, <3>2 DEF IsSave
    <3>3. CASE k # 1
      <4>1. k - 1 \in 1 .. Len(queue') /\ queue'[k - 1] = queue[k]
        BY <1>2, <3>3
      <4>2. AwaitsItsSave(u)'
        BY <1>6, <1>10, <2>1, <2>5, <3>1, <4>1 DEF AwaitsItsSave, IsSave
      <4> QED
        BY <2>1, <2>2, <4>2
    <3> QED
      BY <3>2, <3>3
  <2> QED
    BY <2>2, <2>4, <2>5
<1> QED
  BY <1>13, <1>14, <1>15 DEF IdsInv

(* The program starts and ends with nothing alive and nothing queued.      *)
LEMMA NothingAlive ==
  ASSUME shown' = [w \in Windows |-> 0], \A t \in AllTasks : task'[t].workspace = 0,
         \A t \in AllTasks : ~Closes(t)' /\ (task'[t].step = "id" => Awaits(t)'),
         \A k \in 1 .. Len(queue') : queue'[k].op \notin {"save", "clear"}
  PROVE  IdsInv'
<1>1. AliveNow' = {} /\ DrawnNow' = {}
  BY DEF AliveNow, Alive, HeldBy, Handles, DrawnNow
<1>2. /\ OneEach({}, IdNow', PathNow') /\ Listed(rows', {}, IdNow', PathNow')
      /\ SavedThere(queue', {}, IdNow', PathNow')
      /\ Superseded(rows', queue', {}, IdNow', PathNow')
      /\ Owned(rows', queue', {}, IdNow') /\ Reserved(rows', {}, IdNow', {}, DrawnIdNow')
  BY DEF OneEach, Listed, SavedThere, Superseded, Owned, Reserved
<1>3. LedgerNow'
  BY <1>1, <1>2 DEF LedgerNow, Ledger
<1> QED
  BY <1>1, <1>3 DEF IdsInv, ShownOrStored, SavedToClose

LEMMA DownKeepsAll ==
  ASSUME Down
  PROVE  OwnersInv' /\ IdsInv'
<1>1. /\ up' = FALSE /\ boot' = {} /\ shown' = [w \in Windows |-> 0]
      /\ task' = [t \in AllTasks |-> NoTask] /\ queue' = <<>>
  BY DEF Down
<1>2. \A t \in AllTasks : task'[t] = NoTask
  BY <1>1
<1>3. OwnersInv'
  BY <1>1, <1>2, NoTaskKind DEF OwnersInv, QueueOwners, KindsOk, Stopped
<1>4. /\ NoTask.workspace = 0 /\ NoTask.step = "none"
  BY DEF NoTask
<1>5. IdsInv'
  BY <1>1, <1>2, <1>4, NothingAlive DEF Closes, Leaves
<1> QED
  BY <1>3, <1>5

LEMMA StartKeepsAll ==
  ASSUME WorkspaceInv, OwnersInv, Start
  PROVE  OwnersInv' /\ IdsInv'
<1>1. /\ queue = <<>> /\ task = [t \in AllTasks |-> NoTask] /\ shown' = [w \in Windows |-> 0]
      /\ up' = TRUE /\ Boot \in AllTasks
  BY DEF OwnersInv, Stopped, Start, AllTasks
<1>2. NoTask.workspace = 0 /\ NoTask.step = "none"
  BY DEF NoTask
<1>3. CASE boot' # {}
  <2>1. UNCHANGED <<queue, task>>
    BY <1>3 DEF Start
  <2>2. \A t \in AllTasks : task'[t] = NoTask
    BY <1>1, <2>1
  <2>3. IdsInv'
    BY <1>1, <1>2, <2>1, <2>2, NothingAlive DEF Closes, Leaves
  <2>4. OwnersInv'
    BY <1>1, <2>1, <2>2, NoTaskKind DEF OwnersInv, QueueOwners, KindsOk, Stopped
  <2> QED
    BY <2>3, <2>4
<1>4. CASE boot' = {}
  <2> DEFINE tk == [NoTask EXCEPT !.kind = "empty", !.step = "id"]
             write == NewWrite(Boot)
  <2>1. task' = [task EXCEPT ![Boot] = tk] /\ Enqueued(write)
    BY <1>4 DEF Start
  <2>2. /\ tk.kind = "empty" /\ tk.step = "id" /\ tk.workspace = 0 /\ ~tk.replace
        /\ write.op = "new" /\ write.by = Boot
    BY DEF NoTask, NewWrite
  <2> HIDE DEF tk, write
  <2>3. queue' = <<write>> /\ Len(queue') = 1 /\ queue'[1] = write
    BY <1>1, <2>1 DEF Enqueued
  <2>4. task'[Boot] = tk /\ \A t \in AllTasks : t # Boot => task'[t] = NoTask
    BY <1>1, <2>1
  <2>5. Awaits(Boot)'
    BY <2>2, <2>3 DEF Awaits
  <2>6. KindOk(tk)
    BY <2>2 DEF KindOk
  <2>7. OwnersInv'
    BY <1>1, <2>2, <2>3, <2>4, <2>6, NoTaskKind
    DEF OwnersInv, QueueOwners, IsAwaitedAt, KindsOk, Stopped
  <2>8. IdsInv'
    BY <1>1, <1>2, <2>2, <2>3, <2>4, <2>5, NothingAlive DEF Closes, Leaves
  <2> QED
    BY <2>7, <2>8
<1> QED
  BY <1>3, <1>4

(* A program that does not run can only start.                             *)
LEMMA OnlyStarts ==
  ASSUME WorkspaceInv, OwnersInv, ~up, Next
  PROVE  Start
<1>1. /\ queue = <<>> /\ boot = {} /\ \A w \in Windows : ~IsOpen(w)
      /\ \A t \in AllTasks : task[t] = NoTask
  BY DEF OwnersInv, Stopped, IsOpen
<1>2. /\ NoTask.step = "none" /\ NoTask.kind = "none" /\ NoTask.workspace = 0
  BY DEF NoTask
<1>3. \A i \in Handles : ~Alive(i)
  BY <1>1, <1>2 DEF Alive, HeldBy, IsOpen, Handles
<1>4. ~Crash /\ ~Written /\ ~\E p \in Paths : Reopen(p)
  BY <1>1 DEF Crash, Written, Reopen
<1>5. ~\E t \in Tasks : CommandStep(t)
  BY <1>1, <1>2 DEF CommandStep, CloseProject, CloseWindow, QuitPrepares, QuitAborts, OpenProject,
                    OpenFile, Quit, Begins, AllTasks
<1>6. ~\E t \in AllTasks : TaskStep(t)
  <2> SUFFICES ASSUME NEW t \in AllTasks, TaskStep(t) PROVE FALSE
    OBVIOUS
  <2>1. task[t].step = "none" /\ task[t].kind = "none"
    BY <1>1, <1>2
  <2>2. ~PrepareToClose(t) /\ ~RemoveFromSession(t) /\ ~GiveUp(t) /\ ~FoundOpen(t)
    BY <2>1 DEF PrepareToClose, AsksToClose, RemoveFromSession, GiveUp, NeedsWindow, FoundOpen
  <2>3. ~StartLoad(t) /\ ~LoadKnown(t) /\ ~LoadNew(t) /\ ~IdArrived(t) /\ ~LoadFailed(t)
    BY <2>1 DEF StartLoad, LoadKnown, LoadNew, IdArrived, LoadFailed
  <2>4. ~ReadItems(t) /\ ~RestoreItems(t) /\ ~RestoreEnd(t) /\ ~ReplaceByEmpty(t)
    BY <2>1 DEF ReadItems, RestoreItems, RestoreEnd, ReplaceByEmpty
  <2>5. ~RemoveWindow(t) /\ ~QuitGoesOn(t) /\ ~QuitEnds(t) /\ ~FileBuilt(t)
    BY <2>1 DEF RemoveWindow, QuitGoesOn, QuitEnds, FileBuilt
  <2> QED
    BY <2>2, <2>3, <2>4, <2>5 DEF TaskStep
<1>7. ~\E i \in Handles : TimerSaves(i) \/ ItemsSent(i)
  BY <1>3 DEF TimerSaves, ItemsSent
<1>8. ~\E w \in Windows : ClearRecent(w) \/ TabStep(w)
  BY <1>1 DEF ClearRecent, TabStep, SelectTab, CloseItem, DragTab, KeepPreview, ItemsOf
<1> QED
  BY <1>4, <1>5, <1>6, <1>7, <1>8 DEF Next

(* The program ends by a crash, by Quit or with its last window.           *)
LEMMA OnlyEnds ==
  ASSUME Next, up, ~up'
  PROVE  \/ Crash
         \/ \E t \in AllTasks : QuitEnds(t) \/ (RemoveWindow(t) /\ OpenWindows = {task[t].window})
<1> USE DEF programVars
<1>1. ~Start /\ ~Written /\ ~\E p \in Paths : Reopen(p)
  BY DEF Start, Written, Reopen
<1>2. ASSUME NEW t \in Tasks PROVE ~CommandStep(t)
  <2>1. ~\E w \in Windows : CloseProject(t, w) \/ CloseWindow(t, w)
    BY DEF CloseProject, CloseWindow
  <2>2. ~\E w \in Windows : QuitPrepares(t, w) \/ QuitAborts(t, w)
    BY DEF QuitPrepares, QuitAborts, Prepare
  <2>3. ~\E w \in Windows, p \in Paths, newWindow \in BOOLEAN : OpenProject(t, w, p, newWindow)
    BY DEF OpenProject
  <2>4. ~\E w \in Windows, f \in Files, preview \in BOOLEAN : OpenFile(t, w, f, preview)
    BY DEF OpenFile
  <2>5. ~Quit(t)
    BY DEF Quit
  <2> QED
    BY <2>1, <2>2, <2>3, <2>4, <2>5 DEF CommandStep
<1>3. ASSUME NEW t \in AllTasks, TaskStep(t)
      PROVE  QuitEnds(t) \/ (RemoveWindow(t) /\ OpenWindows = {task[t].window})
  <2>1. ~PrepareToClose(t) /\ ~RemoveFromSession(t) /\ ~GiveUp(t)
    BY DEF PrepareToClose, Prepare, RemoveFromSession, GiveUp
  <2>2. ~FoundOpen(t) /\ ~StartLoad(t) /\ ~LoadKnown(t) /\ ~LoadNew(t) /\ ~IdArrived(t)
    BY DEF FoundOpen, StartLoad, LoadKnown, LoadNew, IdArrived, Create
  <2>3. ~LoadFailed(t) /\ ~ReadItems(t) /\ ~RestoreItems(t) /\ ~RestoreEnd(t)
    BY DEF LoadFailed, ReadItems, RestoreItems, RestoreEnd
  <2>4. ~ReplaceByEmpty(t) /\ ~QuitGoesOn(t) /\ ~FileBuilt(t)
    BY DEF ReplaceByEmpty, QuitGoesOn, FileBuilt
  <2>5. RemoveWindow(t) => OpenWindows = {task[t].window}
    BY DEF RemoveWindow
  <2> QED
    BY <1>3, <2>1, <2>2, <2>3, <2>4, <2>5 DEF TaskStep
<1>4. ~\E i \in Handles : TimerSaves(i) \/ ItemsSent(i)
  BY DEF TimerSaves, ItemsSent
<1>5. ~\E w \in Windows : ClearRecent(w) \/ TabStep(w)
  BY DEF ClearRecent, TabStep, SelectTab, CloseItem, DragTab, KeepPreview, PaneChanges
<1> QED
  BY <1>1, <1>2, <1>3, <1>4, <1>5 DEF Next

LEMMA StaysUp ==
  ASSUME Next, up, ~Down
  PROVE  up'
BY OnlyEnds DEF Crash, QuitEnds, RemoveWindow

LEMMA KeepsAll ==
  ASSUME Before, WorkspaceInv', Keeps
  PROVE  QueueOwners' /\ KindsOk' /\ (excuse' = {} => IdsInv')
<1>1. PICK t \in AllTasks \cup {None} : Quiet(t) /\ (excuse' = {} => Careful(t))
  BY DEF Keeps
<1>2. excuse' = {} => excuse = {}
  BY <1>1 DEF Quiet
<1>3. QueueOwners' /\ KindsOk'
  BY <1>1, QuietKeepsOwners DEF Before
<1>4. ASSUME excuse' = {} PROVE IdsInv'
  BY <1>1, <1>2, <1>4, QuietKeepsIds DEF Before
<1> QED
  BY <1>3, <1>4

LEMMA TaskStepKeeps ==
  ASSUME Before, NEW t \in AllTasks, TaskStep(t), ~Down, ~LoadKnown(t), ~IdArrived(t)
  PROVE  Keeps
<1>1. CASE PrepareToClose(t) \/ RemoveFromSession(t) \/ GiveUp(t) \/ FoundOpen(t)
  BY <1>1, PrepareToCloseKeeps, RemoveFromSessionKeeps, GiveUpKeeps
<1>2. CASE StartLoad(t) \/ LoadNew(t) \/ ReplaceByEmpty(t) \/ LoadFailed(t)
  BY <1>2, StartLoadKeeps, LoadNewKeeps, LoadFailedKeeps
<1>3. CASE ReadItems(t) \/ RestoreItems(t) \/ RestoreEnd(t)
  BY <1>3, ReadItemsKeeps, RestoreItemsKeeps, RestoreEndKeeps
<1>4. CASE RemoveWindow(t)
  <2>1. OpenWindows # {task[t].window}
    BY <1>4 DEF RemoveWindow
  <2> QED
    BY <1>4, <2>1, RemoveWindowKeeps
<1>5. CASE QuitGoesOn(t) \/ QuitEnds(t) \/ FileBuilt(t)
  BY <1>5, QuitGoesOnKeeps, FileBuiltKeeps DEF QuitEnds
<1> QED
  BY <1>1, <1>2, <1>3, <1>4, <1>5 DEF TaskStep

IdsInductive ==
  WorkspaceInv /\ StoreInv /\ OwnersInv /\ (excuse = {} => IdsInv)

LEMMA NextKeepsIds == IdsInductive /\ [Next]_vars => IdsInductive'
<1> SUFFICES ASSUME IdsInductive, [Next]_vars PROVE IdsInductive'
  OBVIOUS
<1>1. Before /\ WorkspaceInv /\ OwnersInv /\ LocationUnique
  BY DEF IdsInductive, Before, OwnersInv, StoreInv
<1>2. WorkspaceInv'
  BY <1>1, NextOk
<1>3. StoreInv'
  <2>1. CASE Written
    BY <2>1, WrittenKeepsOne DEF IdsInductive
  <2>2. CASE UNCHANGED rows
    BY <2>2 DEF IdsInductive, StoreInv, RowsAreIndexed, LocationUnique, RowsOf
  <2> QED
    BY <2>1, <2>2, OthersOnlyEnqueue DEF vars, dbVars
<1>4. CASE Start
  BY <1>1, <1>2, <1>3, <1>4, StartKeepsAll DEF IdsInductive
<1>5. CASE Down
  BY <1>2, <1>3, <1>5, DownKeepsAll DEF IdsInductive
<1>6. CASE UNCHANGED vars
  <2>1. UNCHANGED <<rows, queue, up, boot, shown, workspace, task, excuse>>
    BY <1>6 DEF vars, dbVars
  <2>2. OwnersInv'
    BY <1>1, <2>1 DEF OwnersInv, QueueOwners, KindsOk, Stopped
  <2>3. IdsInv => IdsInv'
    <3>1. /\ AliveNow' = AliveNow /\ IdNow' = IdNow /\ PathNow' = PathNow
          /\ DrawnNow' = DrawnNow /\ DrawnIdNow' = DrawnIdNow
      BY <2>1 DEF AliveNow, Alive, IdNow, PathNow, DrawnNow, DrawnIdNow, Awaits
    <3> QED
      BY <2>1, <3>1 DEF IdsInv, LedgerNow, ShownOrStored, SavedToClose, StoredNow, Closes, Leaves,
                        AwaitsItsSave
  <2> QED
    BY <1>2, <1>3, <2>1, <2>2, <2>3 DEF IdsInductive
<1>7. CASE Next /\ ~Start /\ ~Down
  <2>1. up
    BY <1>1, <1>7, OnlyStarts
  <2>2. Stopped'
    BY <1>7, <2>1, StaysUp DEF Stopped
  <2>3. Keeps => QueueOwners' /\ KindsOk' /\ (excuse' = {} => IdsInv')
    BY <1>1, <1>2, KeepsAll
  <2>4. CASE Written
    BY <1>1, <1>2, <1>3, <2>2, <2>4, WrittenKeepsAll DEF IdsInductive, OwnersInv
  <2>5. ASSUME NEW t \in AllTasks, TaskStep(t) PROVE IdsInductive'
    <3>1. CASE LoadKnown(t) \/ IdArrived(t)
      BY <1>1, <1>2, <1>3, <2>2, <3>1, CreateKeepsAll DEF IdsInductive, OwnersInv
    <3>2. CASE ~LoadKnown(t) /\ ~IdArrived(t)
      BY <1>1, <1>2, <1>3, <1>7, <2>2, <2>3, <2>5, <3>2, TaskStepKeeps
      DEF IdsInductive, OwnersInv
    <3> QED
      BY <3>1, <3>2
  <2>6. ASSUME NEW t \in Tasks, CommandStep(t) PROVE Keeps
    <3>1. t \in AllTasks
      BY DEF AllTasks
    <3> QED
      BY <1>1, <2>6, <3>1, CommandKeeps, QuitPreparesKeeps
  <2>7. ASSUME NEW p \in Paths, Reopen(p) PROVE Keeps
    BY <1>1, <2>7, ReopenKeeps
  <2>8. ASSUME NEW i \in Handles, TimerSaves(i) \/ ItemsSent(i) PROVE Keeps
    BY <1>1, <1>2, <2>8, TimerSavesKeeps, ItemsSentKeeps
  <2>9. ASSUME NEW w \in Windows, ClearRecent(w) \/ TabStep(w) PROVE Keeps
    BY <1>1, <2>9, ClearRecentKeeps, TabStepKeeps
  <2>10. Keeps => IdsInductive'
    BY <1>2, <1>3, <2>2, <2>3 DEF IdsInductive, OwnersInv
  <2>11. ~Crash
    BY <1>7 DEF Crash
  <2> QED
    BY <1>7, <2>4, <2>5, <2>6, <2>7, <2>8, <2>9, <2>10, <2>11 DEF Next
<1> QED
  BY <1>4, <1>5, <1>6, <1>7

LEMMA InitIds == Init => IdsInductive
<1> SUFFICES ASSUME Init PROVE IdsInductive
  OBVIOUS
<1>1. /\ queue = <<>> /\ up = FALSE /\ boot = {} /\ shown = [w \in Windows |-> 0]
      /\ task = [t \in AllTasks |-> NoTask]
  BY DEF Init
<1>2. \A t \in AllTasks : task[t] = NoTask
  BY <1>1
<1>3. OwnersInv
  BY <1>1, <1>2, NoTaskKind DEF OwnersInv, QueueOwners, KindsOk, Stopped
<1>4. NoTask.workspace = 0 /\ NoTask.step = "none"
  BY DEF NoTask
<1>5. AliveNow = {} /\ DrawnNow = {}
  BY <1>1, <1>2, <1>4 DEF AliveNow, Alive, HeldBy, Handles, DrawnNow
<1>6. LedgerNow
  BY <1>1, <1>5 DEF LedgerNow, Ledger, OneEach, Listed, SavedThere, Superseded, Owned, Reserved
<1>7. IdsInv
  BY <1>2, <1>4, <1>5, <1>6 DEF IdsInv, ShownOrStored, SavedToClose, Closes, Leaves
<1> QED
  BY <1>3, <1>7, InitOk, InitStore DEF IdsInductive

(* What has to hold with IdsDistinct for a step to keep it: who holds an   *)
(* id (an open workspace, the writing thread for a task, a task that drew  *)
(* it), what the queue still does to each row, and that a workspace nobody *)
(* awaits to close keeps its row, or a save of it, or a task to store it.  *)
(* It is demanded only while nothing odd has happened (next_id, the task   *)
(* of serialize_workspace_internal, save_workspace, open_workspace).       *)
THEOREM IdsInvariant == Spec => []IdsInductive
BY InitIds, NextKeepsIds, PTL DEF Spec

(* While nothing odd has happened in a run of the program, an id belongs   *)
(* to one open workspace, so no two of them save to one row: however opens,*)
(* closings, timers and the writing thread take turns, a new id is drawn   *)
(* for one task, a workspace is dropped only when its row is stored, and   *)
(* the row that a save deletes is no other workspace's (next_id,           *)
(* save_workspace, workspace_for_path).                                    *)
THEOREM IdsStayDistinct == Spec => []IdsDistinct
<1>1. IdsInductive => IdsDistinct
  BY DEF IdsInductive, IdsInv, LedgerNow, Ledger, OneEach, AliveNow, IdNow, IdsDistinct
<1> QED
  BY <1>1, IdsInvariant, PTL
-----------------------------------------------------------------------------
(***************************************************************************)
(* The session is what is open.  What a row will say of the session is     *)
(* followed through the queue: rs are the rows, q the queue, p a directory *)
(* and s a session.                                                        *)
(***************************************************************************)
StoredAs(rs, p, s) == \E i \in Ids : rs[i] # None /\ rs[i].location = p /\ rs[i].session = s

(* From k on, what is queued of the directory says s.                      *)
SayFrom(q, k, p, s) ==
  \A m \in 1 .. Len(q) : m >= k /\ SavesAt(q, m, p) => q[m].row.session = s
Settled(rs, q, p, s) == StoredAs(rs, p, s) /\ SayFrom(q, 1, p, s)
Queued(q, p, s) == \E k \in 1 .. Len(q) : SavesAt(q, k, p) /\ SayFrom(q, k, p, s)
AwaitedAs(q, t, p, s) ==
  \E k \in 1 .. Len(q) : q[k].by = t /\ SavesAt(q, k, p) /\ SayFrom(q, k, p, s)
Touched(rs, q, p, s) ==
  StoredAs(rs, p, s) \/ \E k \in 1 .. Len(q) : SavesAt(q, k, p) /\ q[k].row.session = s

(* q2 is q and what was queued since.                                      *)
Prolongs(q, q2) ==
  /\ Len(q) \in Nat /\ Len(q2) \in Nat /\ Len(q) <= Len(q2)
  /\ \A k \in 1 .. Len(q) : q2[k] = q[k]
SaysSince(q, q2, p, s) ==
  \A k \in Len(q) + 1 .. Len(q2) : SavesAt(q2, k, p) => q2[k].row.session = s

LEMMA ProlongedSays ==
  ASSUME NEW q, NEW q2, NEW p, NEW s, Prolongs(q, q2), SaysSince(q, q2, p, s),
         NEW k, SayFrom(q, k, p, s)
  PROVE  SayFrom(q2, k, p, s)
<1> SUFFICES ASSUME NEW m \in 1 .. Len(q2), m >= k, SavesAt(q2, m, p)
             PROVE  q2[m].row.session = s
  BY DEF SayFrom
<1>1. CASE m \in 1 .. Len(q)
  <2>1. q2[m] = q[m]
    BY <1>1 DEF Prolongs
  <2> QED
    BY <1>1, <2>1 DEF SayFrom, SavesAt
<1>2. CASE m \in Len(q) + 1 .. Len(q2)
  BY <1>2 DEF SaysSince
<1>3. m \in 1 .. Len(q) \/ m \in Len(q) + 1 .. Len(q2)
  BY DEF Prolongs
<1> QED
  BY <1>1, <1>2, <1>3

LEMMA ProlongedStays ==
  ASSUME NEW rs, NEW q, NEW q2, NEW p, NEW s, Prolongs(q, q2), SaysSince(q, q2, p, s)
  PROVE  /\ Settled(rs, q, p, s) => Settled(rs, q2, p, s)
         /\ Queued(q, p, s) => Queued(q2, p, s)
         /\ \A t : AwaitedAs(q, t, p, s) => AwaitedAs(q2, t, p, s)
<1>1. ASSUME NEW k \in 1 .. Len(q) PROVE k \in 1 .. Len(q2) /\ q2[k] = q[k]
  BY DEF Prolongs
<1>2. Settled(rs, q, p, s) => Settled(rs, q2, p, s)
  BY ProlongedSays DEF Settled
<1>3. ASSUME NEW k \in 1 .. Len(q), SavesAt(q, k, p), SayFrom(q, k, p, s)
      PROVE  k \in 1 .. Len(q2) /\ SavesAt(q2, k, p) /\ SayFrom(q2, k, p, s)
  <2>1. SayFrom(q2, k, p, s)
    BY <1>3, ProlongedSays
  <2> QED
    BY <1>1, <1>3, <2>1 DEF SavesAt
<1>4. Queued(q, p, s) => Queued(q2, p, s)
  BY <1>3 DEF Queued
<1>5. ASSUME NEW t, AwaitedAs(q, t, p, s) PROVE AwaitedAs(q2, t, p, s)
  BY <1>1, <1>3, <1>5 DEF AwaitedAs
<1> QED
  BY <1>2, <1>4, <1>5

(* The last that is queued is the one that will be said.                   *)
LEMMA LastSays ==
  ASSUME NEW q, NEW p, NEW s, Len(q) \in Nat \ {0}, SavesAt(q, Len(q), p),
         q[Len(q)].row.session = s
  PROVE  Queued(q, p, s) /\ AwaitedAs(q, q[Len(q)].by, p, s)
<1>1. Len(q) \in 1 .. Len(q)
  OBVIOUS
<1>2. SayFrom(q, Len(q), p, s)
  BY DEF SayFrom
<1> QED
  BY <1>1, <1>2 DEF Queued, AwaitedAs

(* What is settled on one session has nothing of another.                  *)
LEMMA SettledOnOne ==
  ASSUME LocationUnique, NEW p \in Paths, NEW s, NEW other, s # other,
         Settled(rows, queue, p, s), Len(queue) \in Nat
  PROVE  ~Touched(rows, queue, p, other)
<1>1. ~StoredAs(rows, p, other)
  BY DEF LocationUnique, RowsOf, Settled, StoredAs
<1>2. ASSUME NEW k \in 1 .. Len(queue), SavesAt(queue, k, p) PROVE queue[k].row.session = s
  BY <1>2 DEF Settled, SayFrom
<1> QED
  BY <1>1, <1>2 DEF Touched

(* The thread takes the first of the queue, and the rows of the directory  *)
(* are those of before, or what the first says of it.                      *)
Takes(rs, q, rs2, q2, p) ==
  /\ Len(q) \in Nat \ {0} /\ Len(q2) = Len(q) - 1 /\ \A k \in 1 .. Len(q2) : q2[k] = q[k + 1]
  /\ \/ /\ SavesAt(q, 1, p) /\ q[1].id \in Ids /\ rs2[q[1].id] = q[1].row /\ q[1].row # None
        /\ \A i \in Ids : i # q[1].id /\ rs2[i] # None => rs2[i].location # p
     \/ /\ ~SavesAt(q, 1, p)
        /\ \A i \in Ids : /\ rs[i] # None /\ rs[i].location = p => rs2[i] = rs[i]
                          /\ rs2[i] # None /\ rs2[i].location = p => rs2[i] = rs[i]

LEMMA TakenSays ==
  ASSUME NEW rs, NEW q, NEW rs2, NEW q2, NEW p, Takes(rs, q, rs2, q2, p), NEW s
  PROVE  /\ Settled(rs, q, p, s) => Settled(rs2, q2, p, s)
         /\ Queued(q, p, s) => Queued(q2, p, s) \/ Settled(rs2, q2, p, s)
         /\ \A t : AwaitedAs(q, t, p, s) => AwaitedAs(q2, t, p, s) \/ Settled(rs2, q2, p, s)
         /\ Touched(rs2, q2, p, s) => Touched(rs, q, p, s)
<1>1. /\ Len(q) \in Nat \ {0} /\ Len(q2) = Len(q) - 1 /\ 1 \in 1 .. Len(q)
      /\ \A k \in 1 .. Len(q2) : k + 1 \in 1 .. Len(q) /\ q2[k] = q[k + 1]
  BY DEF Takes
<1>2. ASSUME NEW k, SayFrom(q, k, p, s) PROVE k = 1 => SayFrom(q2, 1, p, s)
  BY <1>1, <1>2 DEF SayFrom, SavesAt
<1>3. ASSUME NEW k \in 1 .. Len(q), k # 1, SayFrom(q, k, p, s), SavesAt(q, k, p)
      PROVE  /\ k - 1 \in 1 .. Len(q2) /\ SavesAt(q2, k - 1, p) /\ q2[k - 1] = q[k]
             /\ SayFrom(q2, k - 1, p, s)
  <2>1. k - 1 \in 1 .. Len(q2) /\ (k - 1) + 1 = k
    BY <1>1, <1>3
  <2>2. q2[k - 1] = q[k] /\ SavesAt(q2, k - 1, p)
    BY <1>1, <1>3, <2>1 DEF SavesAt
  <2>3. ASSUME NEW m \in 1 .. Len(q2), m >= k - 1, SavesAt(q2, m, p)
        PROVE  q2[m].row.session = s
    <3>1. m + 1 \in 1 .. Len(q) /\ m + 1 >= k /\ q2[m] = q[m + 1]
      BY <1>1, <2>3
    <3>2. SavesAt(q, m + 1, p)
      BY <2>3, <3>1 DEF SavesAt
    <3> QED
      BY <1>3, <3>1, <3>2 DEF SayFrom
  <2> QED
    BY <2>1, <2>2, <2>3 DEF SayFrom
<1>4. ASSUME SavesAt(q, 1, p), SayFrom(q, 1, p, s) PROVE Settled(rs2, q2, p, s)
  <2>1. q[1].row.session = s /\ q[1].row.location = p
    BY <1>1, <1>4 DEF SayFrom, SavesAt
  <2>2. StoredAs(rs2, p, s)
    BY <1>4, <2>1 DEF Takes, StoredAs
  <2> QED
    BY <1>2, <1>4, <2>2 DEF Settled
<1>5. Settled(rs, q, p, s) => Settled(rs2, q2, p, s)
  <2>1. CASE SavesAt(q, 1, p)
    BY <1>4, <2>1 DEF Settled
  <2>2. CASE ~SavesAt(q, 1, p)
    <3>1. StoredAs(rs, p, s) => StoredAs(rs2, p, s)
      BY <2>2 DEF Takes, StoredAs
    <3> QED
      BY <1>2, <3>1 DEF Settled
  <2> QED
    BY <2>1, <2>2
<1>6. Queued(q, p, s) => Queued(q2, p, s) \/ Settled(rs2, q2, p, s)
  BY <1>3, <1>4 DEF Queued
<1>7. ASSUME NEW t, AwaitedAs(q, t, p, s)
      PROVE  AwaitedAs(q2, t, p, s) \/ Settled(rs2, q2, p, s)
  <2>1. PICK k \in 1 .. Len(q) : q[k].by = t /\ SavesAt(q, k, p) /\ SayFrom(q, k, p, s)
    BY <1>7 DEF AwaitedAs
  <2>2. CASE k = 1
    BY <1>4, <2>1, <2>2
  <2>3. CASE k # 1
    BY <1>3, <2>1, <2>3 DEF AwaitedAs
  <2> QED
    BY <2>2, <2>3
<1>8. Touched(rs2, q2, p, s) => Touched(rs, q, p, s)
  <2>1. ASSUME StoredAs(rs2, p, s) PROVE Touched(rs, q, p, s)
    <3>1. CASE SavesAt(q, 1, p)
      BY <1>1, <2>1, <3>1 DEF Takes, StoredAs, Touched
    <3>2. CASE ~SavesAt(q, 1, p)
      BY <2>1, <3>2 DEF Takes, StoredAs, Touched
    <3> QED
      BY <3>1, <3>2
  <2>2. ASSUME NEW k \in 1 .. Len(q2), SavesAt(q2, k, p), q2[k].row.session = s
        PROVE  Touched(rs, q, p, s)
    BY <1>1, <2>2 DEF SavesAt, Touched
  <2> QED
    BY <2>1, <2>2 DEF Touched
<1> QED
  BY <1>5, <1>6, <1>7, <1>8
-----------------------------------------------------------------------------
(***************************************************************************)
(* What commands leave of the session.  A command that closes a workspace  *)
(* is the only one that does, and the workspace is that of its window;     *)
(* once all windows are closing, the one asked last stays in the session.  *)
(***************************************************************************)
IsShown(i) == \E w \in Windows : shown[w] = i
Ending == OpenWindows # {} /\ Remaining(workspace) = {}
Preserving(t) == task[t].kind = "closeWindow" /\ task[t].step = "flush" /\ task[t].preserve

(* What a command never asks for.                                          *)
CommandOk(t) ==
  /\ task[t].kind \in {"none", "open", "closeProject", "empty"} => ~task[t].preserve
  /\ task[t].kind = "open" => /\ task[t].step # "prepare"
                              /\ task[t].step \in {"flush", "unlisted"} => task[t].replace
  /\ task[t].kind = "quit" => t \in Tasks
  /\ task[t].step \in {"lookup", "prepare"} /\ task[t].kind # "quit" => task[t].window \in Windows

OneLeaves ==
  \A t, u \in AllTasks :
    Closes(t) /\ Closes(u) /\ task[t].workspace = task[u].workspace => t = u
LeftIsShown ==
  \A t \in AllTasks : Closes(t) =>
    /\ task[t].workspace \in Handles /\ task[t].window \in Windows
    /\ shown[task[t].window] = task[t].workspace
    /\ task[t].step # "flush" => ~workspace[task[t].workspace].inSession
    /\ task[t].kind = "closeWindow" => workspace[task[t].workspace].closing
ShownOnce == \A v, w \in Windows : IsOpen(v) /\ shown[v] = shown[w] => v = w
UnlistedIsLeft ==
  \A i \in Handles : IsShown(i) /\ ~workspace[i].inSession => \E t \in AllTasks : Leaves(t, i)
ClosingIsLeft ==
  \A i \in Handles : IsShown(i) /\ workspace[i].closing =>
    \E t \in AllTasks : Leaves(t, i) /\ task[t].kind = "closeWindow"
HiddenIsLast ==
  \A i \in AliveNow : ~IsShown(i) /\ workspace[i].inSession =>
    Ending /\ workspace[i].path = lastClosed
PreservedIsLast ==
  \A t \in AllTasks : Preserving(t) =>
    Ending /\ workspace[task[t].workspace].path = lastClosed
LastIsListed ==
  Ending /\ lastClosed # None =>
    \A i \in AliveNow : workspace[i].path = lastClosed =>
      /\ workspace[i].inSession
      /\ \A t \in AllTasks : Leaves(t, i) => task[t].preserve

CommandsInv ==
  /\ \A t \in AllTasks : CommandOk(t)
  /\ OneLeaves /\ LeftIsShown /\ ShownOnce /\ UnlistedIsLeft /\ ClosingIsLeft
  /\ HiddenIsLast /\ PreservedIsLast /\ LastIsListed

(* What is stored or queued of each directory follows what is open.        *)
WillBe(p, s) == Settled(rows, queue, p, s) \/ Queued(queue, p, s)
OnItsWay(t, p, s) == Settled(rows, queue, p, s) \/ AwaitedAs(queue, t, p, s)

SavedAsListed ==
  \A i \in AliveNow :
    workspace[i].path # None /\ workspace[i].inSession /\ ~workspace[i].scheduled =>
      WillBe(workspace[i].path, run)
TouchedIsShown ==
  \A p \in Paths : Touched(rows, queue, p, run) => Shows(p) \/ (Ending /\ p = lastClosed)
LeftIsOut ==
  \A t \in AllTasks : Closes(t) /\ workspace[task[t].workspace].path # None =>
    /\ task[t].step = "unlisted" => OnItsWay(t, workspace[task[t].workspace].path, 0)
    /\ task[t].step \in {"load", "id"} =>
         Settled(rows, queue, workspace[task[t].workspace].path, 0)
LastIsSaved ==
  Ending /\ lastClosed # None =>
    \/ Settled(rows, queue, lastClosed, run)
    \/ \E t \in AllTasks : Preserving(t) /\ AwaitedAs(queue, t, lastClosed, run)
QuitSaved(t) ==
  /\ \A w \in OpenWindows \ task[t].left :
       workspace[shown[w]].path # None /\ workspace[shown[w]].inSession =>
         Settled(rows, queue, workspace[shown[w]].path, run)
  /\ task[t].step = "flush" =>
       /\ task[t].window \in Windows /\ shown[task[t].window] \in {0, task[t].workspace}
       /\ IsOpen(task[t].window) /\ workspace[task[t].workspace].path # None
          /\ workspace[task[t].workspace].inSession =>
            OnItsWay(t, workspace[task[t].workspace].path, run)
QuitIsSaved == \A t \in AllTasks : task[t].kind = "quit" => QuitSaved(t)

SessionsInv == SavedAsListed /\ TouchedIsShown /\ LeftIsOut /\ LastIsSaved /\ QuitIsSaved

(* No row and no save is of a session to come.                             *)
NoneToCome ==
  /\ up => run # 0
  /\ \A i \in Ids : rows[i] # None => rows[i].session <= run
  /\ \A k \in 1 .. Len(queue) : queue[k].op = "save" => queue[k].row.session \in {0, run}

SessionInductive ==
  /\ IdsInductive /\ NoneToCome
  /\ up /\ excuse = {} => CommandsInv /\ SessionsInv
  /\ ~up /\ expected # None => SessionPaths(run) = expected
-----------------------------------------------------------------------------
(* A step after which a command closes what it closed before.              *)
StaysAs(t) ==
  /\ Closes(t)' <=> Closes(t)
  /\ Closes(t) => /\ task'[t].kind = task[t].kind /\ task'[t].workspace = task[t].workspace
                  /\ task'[t].window = task[t].window /\ task'[t].preserve = task[t].preserve
                  /\ task'[t].step = "flush" <=> task[t].step = "flush"
SameListed ==
  \A i \in Handles : Alive(i)' => /\ Alive(i) /\ workspace'[i].path = workspace[i].path
                                  /\ workspace'[i].inSession = workspace[i].inSession
SameClosing == \A i \in Handles : Alive(i)' => workspace'[i].closing = workspace[i].closing

LEMMA ShownIsAlive ==
  ASSUME WorkspaceInv
  PROVE  /\ \A i \in Handles : IsShown(i) => Alive(i)
         /\ \A w \in Windows : IsOpen(w) => shown[w] \in Handles /\ Alive(shown[w])
         /\ \A w \in Windows : shown[w] \in Handles => IsOpen(w)
<1>1. \A w \in Windows : shown[w] \in Handles => IsOpen(w)
  BY DEF IsOpen, Handles
<1> QED
  BY <1>1, ShownKnown DEF IsShown, Alive, HeldBy

LEMMA LeavesCloses ==
  /\ \A t, i : Leaves(t, i) <=> Closes(t) /\ task[t].workspace = i
  /\ \A t : Preserving(t) => Closes(t)
BY DEF Leaves, Closes, Preserving

LEMMA SteadyEnding ==
  ASSUME WorkspaceInv, WorkspaceInv', UNCHANGED shown, SameClosing
  PROVE  Ending' <=> Ending
<1>1. OpenWindows' = OpenWindows
  BY DEF OpenWindows, IsOpen
<1>2. \A w \in OpenWindows : workspace'[shown[w]].closing = workspace[shown[w]].closing
  <2> SUFFICES ASSUME NEW w \in OpenWindows
               PROVE  shown[w] \in Handles /\ Alive(shown[w])'
    BY DEF SameClosing
  <2> QED
    BY ShownIsAlive DEF OpenWindows, IsOpen, Alive, HeldBy
<1> QED
  BY <1>1, <1>2 DEF Ending, Remaining

LEMMA StayingLeaves ==
  ASSUME NEW t, StaysAs(t)
  PROVE  /\ \A i : Leaves(t, i)' <=> Leaves(t, i)
         /\ Preserving(t)' <=> Preserving(t)
<1>1. \A i : Leaves(t, i)' <=> (Closes(t)' /\ task'[t].workspace = i)
  BY DEF Leaves, Closes
<1>2. Preserving(t)' => Closes(t)'
  BY DEF Preserving, Leaves, Closes
<1> QED
  BY <1>1, <1>2, LeavesCloses DEF StaysAs, Preserving

LEMMA SteadyCommands ==
  ASSUME WorkspaceInv, WorkspaceInv', CommandsInv, UNCHANGED <<shown, lastClosed>>, SameListed,
         SameClosing, \A u \in AllTasks : StaysAs(u) /\ CommandOk(u)'
  PROVE  CommandsInv'
<1>1. Ending' <=> Ending
  BY SteadyEnding
<1>2. \A u \in AllTasks : /\ \A i : Leaves(u, i)' <=> Leaves(u, i)
                          /\ Preserving(u)' <=> Preserving(u)
  BY StayingLeaves
<1>3. \A i \in Handles : IsShown(i)' <=> IsShown(i)
  BY DEF IsShown
<1>4. \A i \in Handles : IsShown(i) => Alive(i)'
  BY <1>3, ShownIsAlive DEF IsShown, Alive, HeldBy
<1>5. ASSUME NEW u \in AllTasks, Closes(u)
      PROVE  /\ Closes(u)' /\ task'[u].workspace = task[u].workspace
             /\ task[u].workspace \in Handles /\ Alive(task[u].workspace)'
  <2>1. /\ Closes(u)' /\ task'[u].workspace = task[u].workspace /\ task[u].workspace \in Handles
        /\ IsShown(task[u].workspace)
    BY <1>5 DEF StaysAs, CommandsInv, LeftIsShown, IsShown
  <2> QED
    BY <1>4, <2>1
<1>6. OneLeaves' /\ ShownOnce'
  <2>1. OneLeaves'
    BY DEF StaysAs, CommandsInv, OneLeaves
  <2>2. ShownOnce'
    BY DEF CommandsInv, ShownOnce, IsOpen
  <2> QED
    BY <2>1, <2>2
<1>7. LeftIsShown'
  BY <1>5 DEF StaysAs, SameListed, SameClosing, CommandsInv, LeftIsShown
<1>8. UnlistedIsLeft'
  BY <1>2, <1>3, <1>4 DEF SameListed, CommandsInv, UnlistedIsLeft
<1>9. ClosingIsLeft'
  <2> SUFFICES ASSUME NEW i \in Handles, IsShown(i)', workspace'[i].closing
               PROVE  \E u \in AllTasks : Leaves(u, i)' /\ task'[u].kind = "closeWindow"
    BY DEF ClosingIsLeft
  <2>1. PICK u \in AllTasks : Leaves(u, i) /\ task[u].kind = "closeWindow"
    BY <1>3, <1>4 DEF SameClosing, CommandsInv, ClosingIsLeft
  <2> QED
    BY <1>2, <2>1, LeavesCloses DEF StaysAs
<1>10. HiddenIsLast'
  BY <1>1, <1>3, AliveKnown DEF AliveNow, SameListed, CommandsInv, HiddenIsLast
<1>11. PreservedIsLast'
  <2> SUFFICES ASSUME NEW u \in AllTasks, Preserving(u)'
               PROVE  Ending' /\ workspace'[task'[u].workspace].path = lastClosed'
    BY DEF PreservedIsLast
  <2>1. Preserving(u) /\ Closes(u)
    BY <1>2, LeavesCloses
  <2> QED
    BY <1>1, <1>5, <2>1 DEF SameListed, CommandsInv, PreservedIsLast
<1>12. LastIsListed'
  <2> SUFFICES ASSUME Ending', lastClosed' # None, NEW i \in AliveNow',
                      workspace'[i].path = lastClosed'
               PROVE  /\ workspace'[i].inSession
                      /\ \A u \in AllTasks : Leaves(u, i)' => task'[u].preserve
    BY DEF LastIsListed
  <2>1. /\ i \in AliveNow /\ workspace[i].path = lastClosed
        /\ workspace'[i].inSession = workspace[i].inSession
    BY DEF AliveNow, SameListed
  <2>2. /\ workspace[i].inSession
        /\ \A u \in AllTasks : Leaves(u, i) => task[u].preserve
    BY <1>1, <2>1 DEF CommandsInv, LastIsListed
  <2> QED
    BY <1>2, <2>1, <2>2, LeavesCloses DEF StaysAs
<1> QED
  BY <1>6, <1>7, <1>8, <1>9, <1>10, <1>11, <1>12 DEF CommandsInv
-----------------------------------------------------------------------------
(* How saves are queued: each says of its workspace whether it is listed.  *)
ListedNow == [i \in Handles |-> workspace[i].inSession]
SessionOf(listed, i) == IF listed[i] THEN run ELSE 0

Saving(listed) ==
  /\ Prolongs(queue, queue')
  /\ \A k \in Len(queue) + 1 .. Len(queue') : queue'[k].op = "save" =>
       \E i \in AliveNow : /\ workspace[i].path # None
                           /\ queue'[k].row.location = workspace[i].path
                           /\ queue'[k].row.session = SessionOf(listed, i)
Flushes(i) == \E k \in Len(queue) + 1 .. Len(queue') : SavesAt(queue', k, workspace[i].path)
SavesIt(listed, i, by) ==
  /\ Saving(listed)
  /\ workspace[i].path # None =>
       Flushes(i) /\ AwaitedAs(queue', by, workspace[i].path, SessionOf(listed, i))

LEMMA SavesSay ==
  ASSUME LedgerNow, NEW listed, Saving(listed), NEW i \in AliveNow, workspace[i].path # None
  PROVE  SaysSince(queue, queue', workspace[i].path, SessionOf(listed, i))
<1> SUFFICES ASSUME NEW k \in Len(queue) + 1 .. Len(queue'),
                    SavesAt(queue', k, workspace[i].path)
             PROVE  queue'[k].row.session = SessionOf(listed, i)
  BY DEF SaysSince
<1>1. PICK j \in AliveNow : /\ queue'[k].row.location = workspace[j].path
                            /\ queue'[k].row.session = SessionOf(listed, j)
  BY DEF Saving, SavesAt
<1>2. PathNow[i] = workspace[i].path /\ PathNow[j] = workspace[j].path
  BY DEF PathNow, AliveNow
<1>3. PathNow[i] = PathNow[j]
  BY <1>1, <1>2 DEF SavesAt
<1>4. OneEach(AliveNow, IdNow, PathNow)
  BY DEF LedgerNow, Ledger
<1>5. j = i
  BY <1>2, <1>3, <1>4 DEF OneEach
<1> QED
  BY <1>1, <1>5

LEMMA SavesNothing ==
  ASSUME WorkspaceInv, UNCHANGED queue, NEW listed
  PROVE  Saving(listed)
<1>1. Len(queue) \in Nat /\ Len(queue') = Len(queue)
  BY QueueTyped
<1> QED
  BY <1>1 DEF Saving, Prolongs

LEMMA SavesNot ==
  ASSUME WorkspaceInv, NEW write, Enqueued(write), write.op # "save", NEW listed
  PROVE  Saving(listed)
<1>1. queue \in Seq(Write) /\ queue' = Append(queue, write)
  BY QueueTyped DEF Enqueued
<1>2. /\ Len(queue) \in Nat /\ Len(queue') = Len(queue) + 1
      /\ \A k \in 1 .. Len(queue) : queue'[k] = queue[k]
      /\ queue'[Len(queue) + 1] = write
  BY <1>1
<1>3. \A k \in Len(queue) + 1 .. Len(queue') : k = Len(queue) + 1
  BY <1>2
<1> QED
  BY <1>2, <1>3 DEF Saving, Prolongs

LEMMA SavesOne ==
  ASSUME WorkspaceInv, NEW listed, NEW i \in AliveNow, NEW ws, NEW by,
         ws.path = workspace[i].path, ws.inSession = listed[i],
         queue' = queue \o Saves(ws, by)
  PROVE  SavesIt(listed, i, by)
<1>1. CASE ws.path = None
  <2>1. UNCHANGED queue
    BY <1>1, QueueTyped DEF Saves
  <2> QED
    BY <1>1, <2>1, SavesNothing DEF SavesIt
<1>2. CASE ws.path # None
  <2> DEFINE write == SaveWrite(ws.id, ws.path, StoredOf(ws.pane),
                                IF ws.inSession THEN run ELSE 0, by)
  <2>1. queue \in Seq(Write) /\ queue' = Append(queue, write)
    BY <1>2, QueueTyped DEF Saves
  <2>2. /\ write.op = "save" /\ write.by = by /\ write.row.location = workspace[i].path
        /\ write.row.session = SessionOf(listed, i)
    BY DEF SaveWrite, SessionOf
  <2> HIDE DEF write
  <2>3. /\ Len(queue) \in Nat /\ Len(queue') = Len(queue) + 1
        /\ \A k \in 1 .. Len(queue) : queue'[k] = queue[k]
        /\ queue'[Len(queue')] = write
    BY <2>1
  <2>4. \A k \in Len(queue) + 1 .. Len(queue') : k = Len(queue')
    BY <2>3
  <2>5. Len(queue') \in Nat \ {0} /\ Len(queue') \in Len(queue) + 1 .. Len(queue')
    BY <2>3
  <2>6. SavesAt(queue', Len(queue'), workspace[i].path)
    BY <2>2, <2>3 DEF SavesAt
  <2>7. Saving(listed)
    BY <1>2, <2>2, <2>3, <2>4 DEF Saving, Prolongs
  <2>8. AwaitedAs(queue', by, workspace[i].path, SessionOf(listed, i))
    BY <2>2, <2>3, <2>5, <2>6, LastSays
  <2> QED
    BY <2>5, <2>6, <2>7, <2>8 DEF SavesIt, Flushes
<1> QED
  BY <1>1, <1>2

(* A step that takes no workspace out of the session.                      *)
SameScheduled ==
  \A i \in Handles :
    Alive(i)' /\ workspace[i].path # None /\ workspace[i].scheduled =>
      workspace'[i].scheduled \/ Flushes(i)
StepsOn(t) ==
  Closes(t)' =>
    \/ task'[t].step = "flush"
    \/ /\ Closes(t) /\ task'[t].workspace = task[t].workspace
       /\ task'[t].step = "unlisted" => task[t].step = "unlisted"
       /\ task'[t].step \in {"load", "id"} =>
            task[t].step \in {"load", "id"} \/ (task[t].step = "unlisted" /\ ~Awaits(t))
EndStays == Ending => Ending' /\ lastClosed' = lastClosed
Minor(t) ==
  /\ UNCHANGED <<rows, shown, run>>
  /\ SameListed /\ SameScheduled /\ Saving(ListedNow)
  /\ \A u \in AllTasks : u # t => task'[u] = task[u]
  /\ t \in AllTasks => StepsOn(t) /\ (task'[t].kind = "quit" => QuitSaved(t)')

LEMMA ListedSay ==
  ASSUME LedgerNow, NEW listed, Saving(listed), NEW i \in AliveNow, workspace[i].path # None,
         NEW s, s = IF listed[i] THEN run ELSE 0
  PROVE  SaysSince(queue, queue', workspace[i].path, s)
BY SavesSay DEF SessionOf

(* The same of a step after which only the listed are in the session.      *)
MinorAs(t, listed) ==
  /\ UNCHANGED <<rows, shown, run>>
  /\ \A i \in Handles :
       /\ listed[i] => workspace[i].inSession
       /\ Alive(i)' => /\ Alive(i) /\ workspace'[i].path = workspace[i].path
                       /\ workspace'[i].inSession = listed[i]
  /\ SameScheduled /\ Saving(listed)
  /\ \A u \in AllTasks : u # t => task'[u] = task[u]
  /\ t \in AllTasks =>
       /\ StepsOn(t) \/ /\ task'[t].step = "unlisted"
                        /\ workspace'[task'[t].workspace].path # None =>
                             AwaitedAs(queue', t, workspace'[task'[t].workspace].path, 0)
       /\ task'[t].kind = "quit" => QuitSaved(t)'

LEMMA MinorSavesAs ==
  ASSUME WorkspaceInv, WorkspaceInv', LedgerNow, run # 0, CommandsInv, CommandsInv',
         SessionsInv, EndStays, NEW t, NEW listed, MinorAs(t, listed)
  PROVE  SavedAsListed' /\ TouchedIsShown' /\ LeftIsOut' /\ QuitIsSaved'
<1>1. /\ Prolongs(queue, queue') /\ AliveNow \subseteq Handles
      /\ rows' = rows /\ shown' = shown /\ run' = run
  BY AliveKnown DEF MinorAs, Saving
<1>2. \A i \in AliveNow' : /\ i \in AliveNow /\ i \in Handles
                           /\ workspace'[i].path = workspace[i].path
                           /\ workspace'[i].inSession = listed[i]
                           /\ listed[i] => workspace[i].inSession
  BY DEF AliveNow, MinorAs
<1>3. \A i \in Handles : (IsShown(i)' <=> IsShown(i)) /\ (IsShown(i) => i \in AliveNow')
  BY <1>1, ShownIsAlive DEF IsShown, AliveNow, Alive, HeldBy
<1>4. SavedAsListed'
  <2> SUFFICES ASSUME NEW i \in AliveNow', NEW p, p = workspace'[i].path, p # None,
                      workspace'[i].inSession, ~workspace'[i].scheduled
               PROVE  WillBe(p, run)'
    BY DEF SavedAsListed, WillBe
  <2>1. /\ i \in AliveNow /\ i \in Handles /\ Alive(i)' /\ p = workspace[i].path
        /\ workspace[i].inSession /\ listed[i]
    BY <1>2 DEF AliveNow
  <2>2. SaysSince(queue, queue', p, run)
    BY <2>1, ListedSay DEF MinorAs
  <2>3. CASE ~workspace[i].scheduled
    <3>1. WillBe(p, run)
      BY <2>1, <2>3 DEF SessionsInv, SavedAsListed
    <3> QED
      BY <1>1, <2>2, <3>1, ProlongedStays DEF WillBe
  <2>4. CASE workspace[i].scheduled
    <3>1. PICK k \in Len(queue) + 1 .. Len(queue') : SavesAt(queue', k, p)
      BY <2>1, <2>4 DEF MinorAs, SameScheduled, Flushes
    <3>2. k \in 1 .. Len(queue') /\ \A m \in 1 .. Len(queue') : m >= k => m \in Len(queue) + 1 .. Len(queue')
      BY <1>1 DEF Prolongs
    <3>3. SayFrom(queue', k, p, run)
      BY <2>2, <3>2 DEF SayFrom, SaysSince
    <3>4. Queued(queue', p, run')
      BY <1>1, <3>1, <3>2, <3>3 DEF Queued
    <3> QED
      BY <3>4 DEF WillBe
  <2> QED
    BY <2>3, <2>4
<1>5. ASSUME NEW p, Shows(p) PROVE Shows(p)'
  <2>1. PICK w \in Windows : IsOpen(w) /\ workspace[shown[w]].path = p
    BY <1>5 DEF Shows, OpenWindows
  <2>2. shown[w] \in Handles /\ IsShown(shown[w])
    BY <2>1, ShownIsAlive DEF IsShown
  <2>3. workspace'[shown'[w]].path = p /\ shown'[w] # 0
    BY <1>1, <1>2, <1>3, <2>1, <2>2 DEF IsOpen
  <2> QED
    BY <2>3 DEF Shows, OpenWindows, IsOpen
<1>6. TouchedIsShown'
  <2> SUFFICES ASSUME NEW p \in Paths, Touched(rows', queue', p, run')
               PROVE  Shows(p)' \/ (Ending' /\ p = lastClosed')
    BY DEF TouchedIsShown
  <2>1. CASE Touched(rows, queue, p, run)
    BY <1>5, <2>1 DEF SessionsInv, TouchedIsShown, EndStays
  <2>2. CASE ~Touched(rows, queue, p, run)
    <3>1. PICK k \in 1 .. Len(queue') : SavesAt(queue', k, p) /\ queue'[k].row.session = run
      BY <1>1, <2>2 DEF Touched
    <3>2. k \notin 1 .. Len(queue)
      <4>1. k \in 1 .. Len(queue) => queue'[k] = queue[k]
        BY <1>1 DEF Prolongs
      <4> QED
        BY <2>2, <3>1, <4>1 DEF Touched, SavesAt
    <3>3. k \in Len(queue) + 1 .. Len(queue')
      BY <1>1, <3>2 DEF Prolongs
    <3>4. PICK i \in AliveNow : workspace[i].path = p /\ SessionOf(listed, i) = run
      BY <3>1, <3>3 DEF MinorAs, Saving, SavesAt
    <3>5. i \in Handles /\ workspace[i].inSession
      BY <1>1, <3>4 DEF SessionOf, MinorAs
    <3>6. CASE IsShown(i)
      <4>1. Shows(p)
        BY <3>4, <3>5, <3>6, ShownIsAlive DEF IsShown, Shows, OpenWindows
      <4> QED
        BY <1>5, <4>1
    <3>7. CASE ~IsShown(i)
      BY <3>4, <3>5, <3>7 DEF CommandsInv, HiddenIsLast, EndStays
    <3> QED
      BY <3>6, <3>7
  <2> QED
    BY <2>1, <2>2
<1>7. LeftIsOut'
  <2> SUFFICES ASSUME NEW u \in AllTasks, Closes(u)', NEW p,
                      p = workspace'[task'[u].workspace].path, p # None
               PROVE  /\ task'[u].step = "unlisted" => OnItsWay(u, p, 0)'
                      /\ task'[u].step \in {"load", "id"} => Settled(rows', queue', p, 0)
    BY DEF LeftIsOut, OnItsWay
  <2>1. CASE task'[u].step = "flush" \/ (task'[u].step = "unlisted" /\ AwaitedAs(queue', u, p, 0))
    BY <2>1 DEF OnItsWay
  <2>2. CASE /\ task'[u].step # "flush"
             /\ ~(task'[u].step = "unlisted" /\ AwaitedAs(queue', u, p, 0))
    <3> SUFFICES ASSUME NEW i, i = task'[u].workspace
                 PROVE  /\ task'[u].step = "unlisted" => OnItsWay(u, p, 0)'
                        /\ task'[u].step \in {"load", "id"} => Settled(rows', queue', p, 0)
      OBVIOUS
    <3>1. /\ Closes(u) /\ task[u].workspace = i
          /\ task'[u].step = "unlisted" => task[u].step = "unlisted"
          /\ task'[u].step \in {"load", "id"} =>
               task[u].step \in {"load", "id"} \/ (task[u].step = "unlisted" /\ ~Awaits(u))
      <4>1. CASE u # t
        BY <4>1 DEF MinorAs, Closes, Leaves
      <4>2. CASE u = t
        <5>1. StepsOn(t)
          BY <2>2, <4>2 DEF MinorAs
        <5> QED
          BY <2>2, <4>2, <5>1 DEF StepsOn
      <4> QED
        BY <4>1, <4>2
    <3>2. i \in AliveNow' /\ ~workspace'[i].inSession
      BY <1>3, <2>2 DEF CommandsInv, LeftIsShown, IsShown
    <3>3. i \in AliveNow /\ p = workspace[i].path /\ ~listed[i]
      BY <1>2, <3>2
    <3>4. SaysSince(queue, queue', p, 0)
      BY <3>3, ListedSay DEF MinorAs
    <3>5. /\ task[u].step = "unlisted" => OnItsWay(u, p, 0)
          /\ task[u].step \in {"load", "id"} => Settled(rows, queue, p, 0)
      BY <3>1, <3>3 DEF SessionsInv, LeftIsOut
    <3>6. OnItsWay(u, p, 0) /\ ~Awaits(u) => Settled(rows, queue, p, 0)
      BY DEF OnItsWay, AwaitedAs, Awaits
    <3> QED
      BY <1>1, <3>1, <3>4, <3>5, <3>6, ProlongedStays DEF OnItsWay
  <2> QED
    BY <2>1, <2>2
<1>8. QuitIsSaved'
  <2> SUFFICES ASSUME NEW u \in AllTasks, task'[u].kind = "quit", u # t
               PROVE  QuitSaved(u)'
    BY DEF QuitIsSaved, MinorAs
  <2>1. task'[u] = task[u] /\ QuitSaved(u)
    BY DEF MinorAs, SessionsInv, QuitIsSaved
  <2>2. ASSUME NEW w \in Windows, IsOpen(w), NEW p, p = workspace[shown[w]].path, p # None,
               listed[shown[w]]
        PROVE  /\ Settled(rows, queue, p, run) => Settled(rows', queue', p, run')
               /\ OnItsWay(u, p, run) => OnItsWay(u, p, run)'
    <3>1. shown[w] \in AliveNow
      BY <2>2, ShownIsAlive DEF AliveNow
    <3>2. SaysSince(queue, queue', p, run)
      BY <2>2, <3>1, ListedSay DEF MinorAs
    <3> QED
      BY <1>1, <3>2, ProlongedStays DEF OnItsWay
  <2>3. ASSUME NEW w \in Windows, IsOpen(w)
        PROVE  /\ workspace'[shown[w]].path = workspace[shown[w]].path
               /\ workspace'[shown[w]].inSession = listed[shown[w]]
               /\ listed[shown[w]] => workspace[shown[w]].inSession
    BY <1>2, <1>3, <2>3, ShownIsAlive DEF IsShown
  <2>4. OpenWindows' = OpenWindows /\ \A w \in Windows : IsOpen(w)' <=> IsOpen(w)
    BY <1>1 DEF OpenWindows, IsOpen
  <2>5. ASSUME NEW w \in OpenWindows \ task[u].left, NEW p, p = workspace[shown[w]].path,
               p # None, listed[shown[w]]
        PROVE  Settled(rows', queue', p, run')
    BY <2>1, <2>2, <2>3, <2>5 DEF QuitSaved, OpenWindows
  <2>6. ASSUME task[u].step = "flush", NEW p, p = workspace[task[u].workspace].path, p # None,
               IsOpen(task[u].window), listed[task[u].workspace]
        PROVE  OnItsWay(u, p, run)' /\ task[u].workspace = shown[task[u].window]
    BY <2>1, <2>2, <2>3, <2>6 DEF QuitSaved, IsOpen
  <2>7. ASSUME NEW w \in OpenWindows' \ task'[u].left,
               workspace'[shown'[w]].path # None /\ workspace'[shown'[w]].inSession
        PROVE  Settled(rows', queue', workspace'[shown'[w]].path, run')
    <3>1. w \in OpenWindows \ task[u].left /\ w \in Windows /\ IsOpen(w)
      BY <2>1, <2>4, <2>7 DEF OpenWindows
    <3> QED
      BY <1>1, <2>3, <2>5, <2>7, <3>1
  <2>8. ASSUME task'[u].step = "flush"
        PROVE  /\ task'[u].window \in Windows /\ shown'[task'[u].window] \in {0, task'[u].workspace}
               /\ \A p : IsOpen(task[u].window)' /\ p = workspace'[task'[u].workspace].path
                         /\ p # None /\ workspace'[task'[u].workspace].inSession
                           => OnItsWay(u, p, run)'
    <3>1. /\ task[u].step = "flush" /\ task[u].window \in Windows
          /\ shown[task[u].window] \in {0, task[u].workspace}
      BY <2>1, <2>8 DEF QuitSaved
    <3>2. ASSUME NEW p, IsOpen(task[u].window)', p = workspace'[task'[u].workspace].path,
                 p # None, workspace'[task'[u].workspace].inSession
          PROVE  OnItsWay(u, p, run)'
      <4>1. IsOpen(task[u].window) /\ shown[task[u].window] = task[u].workspace
        BY <1>1, <2>1, <3>1, <3>2 DEF IsOpen
      <4>2. p = workspace[task[u].workspace].path /\ listed[task[u].workspace]
        BY <2>1, <2>3, <3>1, <3>2, <4>1
      <4> QED
        BY <2>6, <3>1, <3>2, <4>1, <4>2
    <3>3. task'[u].window \in Windows /\ shown'[task'[u].window] \in {0, task'[u].workspace}
      BY <1>1, <2>1, <3>1
    <3> QED
      BY <3>2, <3>3
  <2> QED
    BY <2>7, <2>8 DEF QuitSaved, OnItsWay
<1> QED
  BY <1>4, <1>6, <1>7, <1>8

LEMMA MinorSaves ==
  ASSUME WorkspaceInv, WorkspaceInv', LedgerNow, run # 0, CommandsInv, CommandsInv',
         SessionsInv, EndStays, NEW t, Minor(t)
  PROVE  SavedAsListed' /\ TouchedIsShown' /\ LeftIsOut' /\ QuitIsSaved'
<1>1. \A i \in Handles : ListedNow[i] = workspace[i].inSession
  BY DEF ListedNow
<1>2. MinorAs(t, ListedNow)
  BY <1>1 DEF Minor, MinorAs, SameListed
<1> QED
  BY <1>2, MinorSavesAs

LEMMA LastStaysSaved ==
  ASSUME CommandsInv, LastIsSaved, UNCHANGED <<rows, run, lastClosed>>, NEW listed, Saving(listed),
         \A i \in AliveNow :
           Ending /\ lastClosed # None /\ workspace[i].path = lastClosed => listed[i],
         Ending' => Ending, \A u \in AllTasks : Preserving(u) => Preserving(u)' \/ ~Awaits(u)
  PROVE  LastIsSaved'
<1> SUFFICES ASSUME Ending, NEW p, p = lastClosed, p # None
             PROVE  \/ Settled(rows', queue', p, run')
                    \/ \E u \in AllTasks : Preserving(u)' /\ AwaitedAs(queue', u, p, run')
  BY DEF LastIsSaved
<1>1. SaysSince(queue, queue', p, run)
  <2> SUFFICES ASSUME NEW k \in Len(queue) + 1 .. Len(queue'), SavesAt(queue', k, p)
               PROVE  queue'[k].row.session = run
    BY DEF SaysSince
  <2>1. PICK i \in AliveNow : /\ workspace[i].path = p
                              /\ queue'[k].row.session = SessionOf(listed, i)
    BY DEF Saving, SavesAt
  <2> QED
    BY <2>1 DEF SessionOf
<1>2. Prolongs(queue, queue') /\ rows' = rows /\ run' = run
  BY DEF Saving
<1>3. CASE Settled(rows, queue, p, run)
  BY <1>1, <1>2, <1>3, ProlongedStays
<1>4. CASE ~Settled(rows, queue, p, run)
  <2>1. PICK u \in AllTasks : Preserving(u) /\ AwaitedAs(queue, u, p, run)
    BY <1>4 DEF LastIsSaved
  <2>2. Preserving(u)'
    BY <2>1 DEF AwaitedAs, Awaits
  <2>3. AwaitedAs(queue', u, p, run)
    BY <1>1, <1>2, <2>1, ProlongedStays
  <2> QED
    BY <1>2, <2>2, <2>3
<1> QED
  BY <1>3, <1>4

Steady(t) ==
  /\ Minor(t) /\ SameClosing /\ UNCHANGED lastClosed
  /\ t \in AllTasks => StaysAs(t) /\ CommandOk(t)'

Within == WorkspaceInv /\ QueueOwners /\ KindsOk /\ IdsInv /\ up /\ run # 0 /\ CommandsInv /\ SessionsInv

LEMMA SteadyKeeps ==
  ASSUME Within, WorkspaceInv', NEW t, Steady(t)
  PROVE  CommandsInv' /\ SessionsInv'
<1>1. \A u \in AllTasks : StaysAs(u) /\ CommandOk(u)'
  <2> SUFFICES ASSUME NEW u \in AllTasks, u # t PROVE StaysAs(u) /\ CommandOk(u)'
    BY DEF Steady
  <2>1. task'[u] = task[u] /\ CommandOk(u)
    BY DEF Steady, Minor, Within, CommandsInv
  <2> QED
    BY <2>1 DEF StaysAs, Closes, Leaves, CommandOk
<1>2. CommandsInv'
  BY <1>1, SteadyCommands DEF Within, Steady, Minor
<1>3. Ending' <=> Ending
  BY SteadyEnding DEF Within, Steady, Minor
<1>4. SavedAsListed' /\ TouchedIsShown' /\ LeftIsOut' /\ QuitIsSaved'
  BY <1>2, <1>3, MinorSaves DEF Within, IdsInv, Steady, EndStays
<1>5. LastIsSaved'
  <2>1. \A i \in AliveNow :
          Ending /\ lastClosed # None /\ workspace[i].path = lastClosed => ListedNow[i]
    BY AliveKnown DEF Within, CommandsInv, LastIsListed, ListedNow
  <2> QED
    BY <1>1, <1>3, <2>1, StayingLeaves, LastStaysSaved DEF Within, SessionsInv, Steady, Minor
<1> QED
  BY <1>2, <1>4, <1>5 DEF SessionsInv
-----------------------------------------------------------------------------
(* The steps, one by one: those that close no workspace first.             *)
LEMMA StepAlive ==
  ASSUME WorkspaceInv, NEW t, \A u \in AllTasks : u # t => task'[u] = task[u],
         \A w \in Windows : shown'[w] = shown[w] \/ shown'[w] = 0,
         t \in AllTasks => \/ task'[t].kind \in {"quit", "file"}
                           \/ task'[t].workspace = 0
                           \/ task'[t].workspace \in AliveNow,
         NEW ws2, workspace' = ws2 \/ workspace' = Surviving(ws2),
         NEW i \in Handles, Alive(i)'
  PROVE  Alive(i) /\ workspace'[i] = ws2[i]
<1>1. i # 0
  BY DEF Handles
<1>2. Alive(i)
  BY <1>1 DEF Alive, HeldBy, AliveNow
<1>3. HeldBy(i, shown', task')
  BY DEF Alive
<1> QED
  BY <1>2, <1>3 DEF Surviving

SameFlags(ws2) ==
  \A i \in Handles :
    /\ ws2[i].path = workspace[i].path /\ ws2[i].inSession = workspace[i].inSession
    /\ ws2[i].closing = workspace[i].closing
    /\ workspace[i].path # None /\ workspace[i].scheduled => ws2[i].scheduled \/ Flushes(i)

LEMMA TaskSteady ==
  ASSUME WorkspaceInv, NEW t \in AllTasks, NEW tk, task' = [task EXCEPT ![t] = tk],
         UNCHANGED <<rows, shown, run, lastClosed>>,
         tk.kind \in {"quit", "file"} \/ tk.workspace = 0 \/ tk.workspace \in AliveNow,
         NEW ws2, SameFlags(ws2), workspace' = ws2 \/ workspace' = Surviving(ws2),
         Saving(ListedNow), StaysAs(t), StepsOn(t), CommandOk(t)',
         tk.kind = "quit" => QuitSaved(t)'
  PROVE  Steady(t)
<1>1. (\A u \in AllTasks : u # t => task'[u] = task[u]) /\ task'[t] = tk
  BY OthersWait
<1>2. \A i \in Handles : Alive(i)' => Alive(i) /\ workspace'[i] = ws2[i]
  BY <1>1, StepAlive
<1>3. SameListed /\ SameClosing /\ SameScheduled
  BY <1>2 DEF SameFlags, SameListed, SameClosing, SameScheduled
<1> QED
  BY <1>1, <1>3 DEF Steady, Minor

LEMMA FlagsSame == SameFlags(workspace)
BY DEF SameFlags

(* The task that steps closes nothing, before and after.                   *)
LEMMA ApartStays ==
  ASSUME NEW t, ~Closes(t), ~Closes(t)'
  PROVE  StaysAs(t) /\ StepsOn(t)
BY DEF StaysAs, StepsOn

LEMMA OpenIsApart ==
  ASSUME NEW t, task[t].step \in OpenSteps \/ task[t].kind \in {"quit", "file"}
  PROVE  ~Closes(t)
BY DEF Closes, Leaves, OpenSteps

LEMMA NoTaskCommand ==
  ASSUME NEW t, task'[t] = NoTask
  PROVE  CommandOk(t)' /\ ~Closes(t)' /\ task'[t].kind # "quit" /\ NoTask.kind # "quit"
BY DEF CommandOk, NoTask, Closes, Leaves

(* A command that closes nothing ends.                                     *)
LEMMA EndSteady ==
  ASSUME WorkspaceInv, NEW t \in AllTasks, task' = [task EXCEPT ![t] = NoTask],
         UNCHANGED <<rows, shown, run, lastClosed>>,
         NEW ws2, SameFlags(ws2), workspace' = ws2 \/ workspace' = Surviving(ws2),
         Saving(ListedNow), ~Closes(t)
  PROVE  Steady(t)
<1>1. task'[t] = NoTask /\ NoTask.workspace = 0
  BY OthersWait, NoTaskKind
<1>2. StaysAs(t) /\ StepsOn(t) /\ CommandOk(t)' /\ NoTask.kind # "quit"
  BY <1>1, NoTaskCommand, ApartStays
<1> QED
  BY <1>1, <1>2, TaskSteady

LEMMA BeginSteady ==
  ASSUME WorkspaceInv, KindsOk, NEW t \in AllTasks, NEW tk, Idle(t),
         task' = [task EXCEPT ![t] = tk],
         UNCHANGED <<dbVars, shown, workspace, run, lastClosed>>,
         tk.step \in OpenSteps \/ (tk.step = "load" /\ tk.kind = "open" /\ ~tk.replace), ~tk.preserve,
         tk.kind = "open" => tk.step # "prepare",
         tk.step \in {"lookup", "prepare"} /\ tk.kind # "quit" => tk.window \in Windows,
         tk.kind \in {"quit", "file"} \/ tk.workspace = 0 \/ tk.workspace \in AliveNow,
         tk.kind = "quit" => t \in Tasks /\ tk.step = "prepare" /\ tk.left = OpenWindows
  PROVE  Steady(t)
<1>1. task[t].step = "none" /\ task'[t] = tk
  BY OthersWait DEF KindsOk, KindOk, Idle
<1>2. ~Closes(t) /\ ~Closes(t)'
  BY <1>1 DEF Closes, Leaves, OpenSteps
<1>3. StaysAs(t) /\ StepsOn(t) /\ Saving(ListedNow)
  BY <1>2, ApartStays, SavesNothing DEF dbVars
<1>4. CommandOk(t)'
  BY <1>1 DEF CommandOk, OpenSteps
<1>5. tk.kind = "quit" => QuitSaved(t)'
  <2>1. OpenWindows' = OpenWindows
    BY DEF OpenWindows, IsOpen
  <2> QED
    BY <1>1, <2>1 DEF QuitSaved
<1> QED
  BY <1>3, <1>4, <1>5, FlagsSame, TaskSteady DEF dbVars
LEMMA CommandSteady ==
  ASSUME Within, NEW t \in Tasks, CommandStep(t), ~\E w \in Windows : QuitPrepares(t, w)
  PROVE  Steady(t)
<1> USE DEF ghostVars, programVars, Begins
<1>1. WorkspaceInv /\ KindsOk /\ t \in AllTasks
  BY DEF Within, AllTasks
<1>2. ASSUME NEW w \in Windows, CloseProject(t, w) \/ CloseWindow(t, w) PROVE Steady(t)
  <2>1. PICK kind \in {"closeProject", "closeWindow"} :
          task' = [task EXCEPT ![t] = [NoTask EXCEPT !.kind = kind, !.step = "prepare",
                                                     !.window = w, !.workspace = shown[w]]]
    BY <1>2 DEF CloseProject, CloseWindow
  <2> DEFINE tk == [NoTask EXCEPT !.kind = kind, !.step = "prepare", !.window = w,
                                  !.workspace = shown[w]]
  <2>2. Idle(t) /\ IsOpen(w) /\ UNCHANGED <<dbVars, shown, workspace, run, lastClosed>>
    BY <1>2 DEF CloseProject, CloseWindow
  <2>3. /\ tk.kind \in {"closeProject", "closeWindow"} /\ tk.step = "prepare"
        /\ tk.workspace = shown[w] /\ tk.window = w /\ ~tk.preserve
    BY DEF NoTask
  <2>4. shown[w] \in AliveNow
    BY <1>1, <2>2, ShownAlive
  <2>5. task' = [task EXCEPT ![t] = tk]
    BY <2>1
  <2> HIDE DEF tk
  <2> QED
    BY <1>1, <2>2, <2>3, <2>4, <2>5, BeginSteady DEF OpenSteps
<1>3. ASSUME NEW w \in Windows, NEW p \in Paths, NEW newWindow \in BOOLEAN,
             OpenProject(t, w, p, newWindow)
      PROVE  Steady(t)
  <2> DEFINE tk == [NoTask EXCEPT !.kind = "open", !.step = "lookup", !.window = w,
                                  !.workspace = shown[w], !.path = p,
                                  !.replace = ~newWindow \/ workspace[shown[w]].path = None]
  <2>1. /\ task' = [task EXCEPT ![t] = tk] /\ Idle(t) /\ IsOpen(w)
        /\ UNCHANGED <<dbVars, shown, workspace, run, lastClosed>>
    BY <1>3 DEF OpenProject
  <2>2. /\ tk.kind = "open" /\ tk.step = "lookup" /\ tk.workspace = shown[w] /\ tk.window = w
        /\ ~tk.preserve
    BY DEF NoTask
  <2>3. shown[w] \in AliveNow
    BY <1>1, <2>1, ShownAlive
  <2> HIDE DEF tk
  <2> QED
    BY <1>1, <2>1, <2>2, <2>3, BeginSteady DEF OpenSteps
<1>4. ASSUME NEW w \in Windows, NEW f \in Files, NEW preview \in BOOLEAN,
             OpenFile(t, w, f, preview)
      PROVE  Steady(t)
  <2> DEFINE tk == [NoTask EXCEPT !.kind = "file", !.step = "build", !.window = w,
                                  !.workspace = shown[w], !.file = f, !.preview = preview,
                                  !.renewed = workspace[shown[w]].renewed]
  <2>1. /\ task' = [task EXCEPT ![t] = tk] /\ Idle(t)
        /\ UNCHANGED <<dbVars, shown, workspace, run, lastClosed>>
    BY <1>4 DEF OpenFile
  <2>2. tk.kind = "file" /\ tk.step = "build" /\ ~tk.preserve
    BY DEF NoTask
  <2> HIDE DEF tk
  <2> QED
    BY <1>1, <2>1, <2>2, BeginSteady DEF OpenSteps
<1>5. CASE Quit(t)
  <2> DEFINE tk == [NoTask EXCEPT !.kind = "quit", !.step = "prepare", !.left = OpenWindows]
  <2>1. /\ task' = [task EXCEPT ![t] = tk] /\ Idle(t)
        /\ UNCHANGED <<dbVars, shown, workspace, run, lastClosed>>
    BY <1>5 DEF Quit
  <2>2. tk.kind = "quit" /\ tk.step = "prepare" /\ tk.left = OpenWindows /\ ~tk.preserve
    BY DEF NoTask
  <2> HIDE DEF tk
  <2> QED
    BY <1>1, <2>1, <2>2, BeginSteady DEF OpenSteps
<1>6. ASSUME NEW w \in Windows, QuitAborts(t, w) PROVE Steady(t)
  <2>1. /\ task' = [task EXCEPT ![t] = NoTask] /\ task[t].kind = "quit"
        /\ UNCHANGED <<rows, queue, shown, workspace, run, lastClosed>>
    BY <1>6 DEF QuitAborts, dbVars
  <2>2. Saving(ListedNow) /\ ~Closes(t)
    BY <1>1, <2>1, SavesNothing, OpenIsApart
  <2> QED
    BY <1>1, <2>1, <2>2, FlagsSame, EndSteady
<1> QED
  BY <1>2, <1>3, <1>4, <1>5, <1>6 DEF CommandStep

LEMMA ReopenSteady ==
  ASSUME Within, NEW p \in Paths, Reopen(p)
  PROVE  Steady(Boot)
<1> DEFINE tk == [NoTask EXCEPT !.kind = "open", !.step = "load", !.path = p]
<1>1. /\ WorkspaceInv /\ KindsOk /\ Boot \in AllTasks /\ Idle(Boot)
      /\ task' = [task EXCEPT ![Boot] = tk]
      /\ UNCHANGED <<dbVars, shown, workspace, run, lastClosed>>
  BY DEF Within, Reopen, ghostVars, AllTasks
<1>2. tk.kind = "open" /\ tk.step = "load" /\ tk.workspace = 0 /\ ~tk.replace /\ ~tk.preserve
  BY DEF NoTask
<1> HIDE DEF tk
<1> QED
  BY <1>1, <1>2, BeginSteady

(* A command goes on with what it closes.                                  *)
LEMMA GoesOnSteady ==
  ASSUME Within, NEW t \in AllTasks, NEW step \in {"load", "id"},
         task' = [task EXCEPT ![t] = [@ EXCEPT !.step = step]],
         UNCHANGED <<rows, shown, workspace, run, lastClosed>>,
         task[t].kind \notin {"none", "quit", "file"}, Saving(ListedNow),
         \/ Prepared(t) /\ ~task[t].preserve /\ (task[t].replace \/ task[t].kind = "closeProject")
         \/ task[t].step = "load"
         \/ task[t].step = "lookup" /\ ~task[t].replace /\ task[t].kind # "closeProject"
  PROVE  Steady(t)
<1> DEFINE tk == [task[t] EXCEPT !.step = step]
<1>1. /\ WorkspaceInv /\ task[t] \in TaskState /\ CommandOk(t) /\ task' = [task EXCEPT ![t] = tk]
  BY KnownTask DEF Within, CommandsInv
<1>2. /\ tk.step = step /\ tk.workspace = task[t].workspace /\ tk.kind = task[t].kind
      /\ tk.window = task[t].window /\ tk.preserve = task[t].preserve
      /\ tk.replace = task[t].replace
  BY <1>1 DEF TaskState
<1> HIDE DEF tk
<1>3. task'[t] = tk
  BY <1>1, OthersWait
<1>4. tk.workspace = 0 \/ tk.workspace \in AliveNow
  BY <1>1, <1>2, HeldAlive DEF TaskState
<1>5. Closes(t)' <=> Closes(t)
  BY <1>2, <1>3 DEF Closes, Leaves, Prepared
<1>6. /\ task[t].step \in {"unlisted", "load", "lookup"}
      /\ task[t].step = "unlisted" => ~Awaits(t)
      /\ Closes(t) => task[t].step # "lookup"
  BY DEF Prepared, Closes, Leaves
<1>7. StaysAs(t) /\ StepsOn(t)
  BY <1>2, <1>3, <1>5, <1>6 DEF StaysAs, StepsOn
<1>8. CommandOk(t)'
  BY <1>1, <1>2, <1>3 DEF CommandOk
<1> QED
  BY <1>1, <1>2, <1>3, <1>4, <1>7, <1>8, FlagsSame, TaskSteady

LEMMA StartLoadSteady ==
  ASSUME Within, NEW t \in AllTasks, StartLoad(t)
  PROVE  Steady(t)
<1>1. /\ WorkspaceInv /\ CommandOk(t) /\ task[t].kind = "open"
      /\ task' = [task EXCEPT ![t] = [@ EXCEPT !.step = "load"]]
      /\ UNCHANGED <<rows, queue, shown, workspace, run, lastClosed>>
      /\ (task[t].step = "lookup" /\ ~task[t].replace) \/ Prepared(t)
  BY DEF Within, CommandsInv, StartLoad, dbVars, ghostVars, programVars
<1>2. Saving(ListedNow)
  BY <1>1, SavesNothing
<1>3. ~task[t].preserve /\ (Prepared(t) => task[t].replace)
  BY <1>1 DEF CommandOk, Prepared
<1> QED
  BY <1>1, <1>2, <1>3, GoesOnSteady

LEMMA LoadNewSteady ==
  ASSUME Within, NEW t \in AllTasks, LoadNew(t) \/ ReplaceByEmpty(t)
  PROVE  Steady(t)
<1>1. /\ WorkspaceInv /\ CommandOk(t) /\ KindOk(task[t])
      /\ task' = [task EXCEPT ![t] = [@ EXCEPT !.step = "id"]] /\ Enqueued(NewWrite(t))
      /\ UNCHANGED <<rows, shown, workspace, run, lastClosed>>
      /\ task[t].step = "load" \/ (Prepared(t) /\ task[t].kind = "closeProject")
  BY DEF Within, CommandsInv, KindsOk, LoadNew, ReplaceByEmpty, ghostVars, programVars
<1>2. Saving(ListedNow)
  <2>1. NewWrite(t).op # "save"
    BY DEF NewWrite
  <2> QED
    BY <1>1, <2>1, SavesNot
<1>3. task[t].kind \notin {"none", "quit", "file"} /\ (Prepared(t) => ~task[t].preserve)
  BY <1>1 DEF CommandOk, KindOk, Prepared
<1> QED
  BY <1>1, <1>2, <1>3, GoesOnSteady
LEMMA GiveUpSteady ==
  ASSUME Within, NEW t \in AllTasks, GiveUp(t) \/ FoundOpen(t)
  PROVE  Steady(t)
<1>1. /\ WorkspaceInv /\ task' = [task EXCEPT ![t] = NoTask] /\ workspace' = Surviving(workspace)
      /\ UNCHANGED <<rows, queue, shown, run, lastClosed>>
      /\ ~IsOpen(task[t].window) \/ task[t].step = "lookup"
  BY DEF Within, GiveUp, FoundOpen, dbVars, ghostVars, programVars
<1>2. ~Closes(t)
  <2>1. Closes(t) => IsOpen(task[t].window)
    BY ShownIsAlive DEF Within, CommandsInv, LeftIsShown
  <2> QED
    BY <1>1, <2>1, OpenIsApart DEF OpenSteps
<1> QED
  BY <1>1, <1>2, SavesNothing, FlagsSame, EndSteady

LEMMA QuitGoesOnSteady ==
  ASSUME Within, NEW t \in AllTasks, QuitGoesOn(t)
  PROVE  Steady(t)
<1> DEFINE left == task[t].left \ {task[t].window}
           tk == [task[t] EXCEPT !.step = "prepare", !.left = left]
<1>1. /\ WorkspaceInv /\ task' = [task EXCEPT ![t] = tk] /\ task[t].kind = "quit"
      /\ UNCHANGED <<rows, queue, shown, workspace, run, lastClosed>> /\ ~Awaits(t)
      /\ task[t].step = "unlisted" \/ task[t].step = "flush"
  BY DEF Within, QuitGoesOn, Prepared, dbVars, ghostVars, programVars
<1>2. /\ tk.kind = "quit" /\ tk.step = "prepare" /\ tk.left = left
      /\ tk.preserve = task[t].preserve
  BY <1>1, KnownTask DEF TaskState
<1> HIDE DEF tk
<1>3. task'[t] = tk /\ CommandOk(t) /\ QuitSaved(t) /\ task[t].step = "flush"
  BY <1>1, OthersWait DEF Within, CommandsInv, SessionsInv, QuitIsSaved, KindsOk, KindOk
<1>4. CommandOk(t)'
  BY <1>1, <1>2, <1>3 DEF CommandOk
<1>5. StaysAs(t) /\ StepsOn(t) /\ Saving(ListedNow)
  <2>1. ~Closes(t) /\ ~Closes(t)'
    BY <1>1, <1>2, <1>3 DEF Closes, Leaves
  <2> QED
    BY <1>1, <2>1, ApartStays, SavesNothing
<1>6. QuitSaved(t)'
  <2> SUFFICES ASSUME NEW w \in OpenWindows, w \notin left, NEW p, p = workspace[shown[w]].path,
                      p # None, workspace[shown[w]].inSession
               PROVE  Settled(rows, queue, p, run)
    BY <1>1, <1>2, <1>3 DEF QuitSaved, OpenWindows, IsOpen
  <2>1. CASE w \notin task[t].left
    BY <1>3, <2>1 DEF QuitSaved
  <2>2. CASE w = task[t].window
    <3>1. shown[w] = task[t].workspace
      BY <1>3, <2>2 DEF QuitSaved, OpenWindows, IsOpen
    <3>2. OnItsWay(t, p, run)
      BY <1>3, <2>2, <3>1 DEF QuitSaved, OpenWindows
    <3> QED
      BY <1>1, <3>2 DEF OnItsWay, AwaitedAs, Awaits
  <2> QED
    BY <2>1, <2>2 DEF left
<1> QED
  BY <1>1, <1>2, <1>4, <1>5, <1>6, FlagsSame, TaskSteady

LEMMA LoadFailedSteady ==
  ASSUME Within, NEW t \in AllTasks, LoadFailed(t), excuse' = {}
  PROVE  Steady(t)
<1>1. /\ WorkspaceInv /\ task[t].step = "load" /\ UNCHANGED <<rows, shown, run, lastClosed>>
      /\ workspace' = Surviving(workspace) /\ ~task[t].replace /\ KindOk(task[t])
  BY DEF Within, KindsOk, LoadFailed, programVars
<1>2. ~Closes(t)
  BY <1>1 DEF Closes, Leaves, KindOk
<1>3. CASE t = Boot /\ boot = {} /\ OpenWindows = {}
  <2> DEFINE tk == [NoTask EXCEPT !.kind = "empty", !.step = "id"]
             write == NewWrite(t)
  <2>1. Enqueued(write) /\ task' = [task EXCEPT ![t] = tk]
    BY <1>3 DEF LoadFailed
  <2>2. /\ tk.kind = "empty" /\ tk.step = "id" /\ tk.workspace = 0 /\ ~tk.replace
        /\ ~tk.preserve /\ write.op # "save"
    BY DEF NoTask, NewWrite
  <2> HIDE DEF tk, write
  <2>3. task'[t] = tk
    BY <1>1, <2>1, OthersWait
  <2>4. ~Closes(t)' /\ CommandOk(t)'
    BY <2>2, <2>3 DEF Closes, Leaves, CommandOk
  <2> QED
    BY <1>1, <1>2, <2>1, <2>2, <2>4, ApartStays, SavesNot, FlagsSame, TaskSteady
<1>4. CASE ~(t = Boot /\ boot = {} /\ OpenWindows = {})
  <2>1. task' = [task EXCEPT ![t] = NoTask] /\ UNCHANGED queue
    BY <1>4 DEF LoadFailed
  <2> QED
    BY <1>1, <1>2, <2>1, SavesNothing, FlagsSame, EndSteady
<1> QED
  BY <1>3, <1>4

LEMMA RestorerIs ==
  ASSUME Within, NEW t \in AllTasks, task[t].step \in {"restore", "loaded", "cleanup"}
  PROVE  /\ WorkspaceInv /\ task[t].workspace \in AliveNow /\ task[t].workspace \in Handles
         /\ task[t].kind \notin {"none", "quit", "file"} /\ task[t] \in TaskState
         /\ CommandOk(t) /\ ~Closes(t)
<1>1. Before
  BY DEF Within, Before
<1>2. ~Closes(t)
  BY OpenIsApart DEF OpenSteps
<1> QED
  BY <1>1, <1>2, RestorerHolds DEF Within, CommandsInv

(* A restoring command goes on.                                            *)
LEMMA RestorerSteady ==
  ASSUME Within, NEW t \in AllTasks, task[t].step \in {"restore", "loaded", "cleanup"},
         NEW tk, task' = [task EXCEPT ![t] = tk], tk.step \in {"loaded", "cleanup"},
         tk.kind = task[t].kind, tk.workspace = task[t].workspace,
         tk.preserve = task[t].preserve,
         UNCHANGED <<rows, shown, run, lastClosed>>, Saving(ListedNow),
         NEW ws2, SameFlags(ws2), workspace' = ws2
  PROVE  Steady(t)
<1>1. /\ WorkspaceInv /\ task[t].workspace \in AliveNow /\ CommandOk(t) /\ ~Closes(t)
      /\ task[t].kind # "quit"
  BY RestorerIs
<1>2. task'[t] = tk
  BY <1>1, OthersWait
<1>3. ~Closes(t)' /\ CommandOk(t)'
  BY <1>1, <1>2 DEF Closes, Leaves, CommandOk
<1> QED
  BY <1>1, <1>2, <1>3, ApartStays, TaskSteady

LEMMA ChangeFlags ==
  ASSUME WorkspaceInv, NEW i, NEW ws,
         i \in Handles => /\ ws.path = workspace[i].path /\ ws.inSession = workspace[i].inSession
                          /\ ws.closing = workspace[i].closing
                          /\ workspace[i].path # None /\ workspace[i].scheduled
                               => ws.scheduled \/ Flushes(i)
  PROVE  SameFlags([workspace EXCEPT ![i] = ws])
BY DEF SameFlags, WorkspaceInv, WorkspacesOk, AreOk

LEMMA ReadItemsSteady ==
  ASSUME Within, NEW t \in AllTasks, ReadItems(t)
  PROVE  Steady(t)
<1> DEFINE stored == task[t].stored.items
           read == [k \in DOMAIN stored |-> files[task[t].id][stored[k]]]
           tk == [task[t] EXCEPT !.step = "loaded", !.files = read]
<1>1. /\ task[t].step = "restore" /\ task' = [task EXCEPT ![t] = tk]
      /\ UNCHANGED <<rows, queue, shown, workspace, run, lastClosed>>
  BY DEF ReadItems, dbVars, ghostVars, programVars
<1>2. WorkspaceInv /\ task[t] \in TaskState
  BY <1>1, RestorerIs
<1> HIDE DEF read
<1>3. /\ tk.step = "loaded" /\ tk.workspace = task[t].workspace /\ tk.kind = task[t].kind
      /\ tk.preserve = task[t].preserve
  BY <1>2 DEF TaskState
<1> HIDE DEF tk
<1> QED
  BY <1>1, <1>2, <1>3, SavesNothing, FlagsSame, RestorerSteady

LEMMA SavesAsListed ==
  ASSUME WorkspaceInv, NEW i \in AliveNow, NEW by, queue' = queue \o Saves(workspace[i], by)
  PROVE  SavesIt(ListedNow, i, by)
BY SavesOne, AliveKnown DEF ListedNow

LEMMA RestoreItemsSteady ==
  ASSUME Within, NEW t \in AllTasks, RestoreItems(t)
  PROVE  Steady(t)
<1> SUFFICES ASSUME NEW i, i = task[t].workspace PROVE Steady(t)
  OBVIOUS
<1>1. task[t].step = "loaded" /\ UNCHANGED <<rows, shown, run, lastClosed>>
  BY DEF RestoreItems, ghostVars, programVars
<1>2. /\ WorkspaceInv /\ i \in AliveNow /\ i \in Handles /\ ~Closes(t) /\ task[t] \in TaskState
  BY <1>1, RestorerIs
<1>3. \/ /\ queue' = queue \o Saves(workspace[i], None)
         /\ task' = [task EXCEPT ![t] = NoTask]
         /\ workspace' = Surviving(workspace)
      \/ \E pane, items :
           /\ workspace' = [workspace EXCEPT ![i] =
                              [@ EXCEPT !.pane = pane, !.renewed = TRUE, !.scheduled = TRUE,
                                        !.unsent = workspace[i].unsent \cup items]]
           /\ Enqueued(CleanupWrite(task[t].id, items, t))
           /\ task' = [task EXCEPT ![t].step = "cleanup"]
  BY DEF RestoreItems
<1>4. CASE /\ queue' = queue \o Saves(workspace[i], None)
           /\ task' = [task EXCEPT ![t] = NoTask]
           /\ workspace' = Surviving(workspace)
  <2>1. Saving(ListedNow)
    BY <1>2, <1>4, SavesAsListed DEF SavesIt
  <2> QED
    BY <1>1, <1>2, <1>4, <2>1, FlagsSame, EndSteady
<1>5. ASSUME NEW pane, NEW items,
             workspace' = [workspace EXCEPT ![i] =
                             [@ EXCEPT !.pane = pane, !.renewed = TRUE, !.scheduled = TRUE,
                                       !.unsent = workspace[i].unsent \cup items]],
             Enqueued(CleanupWrite(task[t].id, items, t)),
             task' = [task EXCEPT ![t].step = "cleanup"]
      PROVE  Steady(t)
  <2> DEFINE ws == [workspace[i] EXCEPT !.pane = pane, !.renewed = TRUE, !.scheduled = TRUE,
                                        !.unsent = workspace[i].unsent \cup items]
             tk == [task[t] EXCEPT !.step = "cleanup"]
             write == CleanupWrite(task[t].id, items, t)
  <2>1. /\ workspace' = [workspace EXCEPT ![i] = ws] /\ task' = [task EXCEPT ![t] = tk]
        /\ Enqueued(write)
    BY <1>5
  <2>2. /\ ws.path = workspace[i].path /\ ws.inSession = workspace[i].inSession
        /\ ws.closing = workspace[i].closing /\ ws.scheduled
    BY <1>2, KnownWorkspace DEF WorkspaceState
  <2>3. /\ tk.step = "cleanup" /\ tk.workspace = task[t].workspace /\ tk.kind = task[t].kind
        /\ tk.preserve = task[t].preserve
    BY <1>2 DEF TaskState
  <2>4. write.op # "save"
    BY DEF CleanupWrite
  <2> HIDE DEF ws, tk, write
  <2>5. SameFlags([workspace EXCEPT ![i] = ws]) /\ Saving(ListedNow)
    BY <1>2, <2>1, <2>2, <2>4, ChangeFlags, SavesNot
  <2> QED
    BY <1>1, <2>1, <2>3, <2>5, RestorerSteady
<1> QED
  BY <1>3, <1>4, <1>5

LEMMA RestoreEndSteady ==
  ASSUME Within, NEW t \in AllTasks, RestoreEnd(t)
  PROVE  Steady(t)
<1>1. /\ task[t].step = "cleanup" /\ UNCHANGED <<rows, shown, run, lastClosed>>
      /\ queue' = queue \o Saves(workspace[task[t].workspace], None)
      /\ workspace' = Surviving(workspace) /\ task' = [task EXCEPT ![t] = NoTask]
  BY DEF RestoreEnd, ghostVars, programVars
<1>2. WorkspaceInv /\ task[t].workspace \in AliveNow /\ ~Closes(t)
  BY <1>1, RestorerIs
<1>3. Saving(ListedNow)
  BY <1>1, <1>2, SavesAsListed DEF SavesIt
<1> QED
  BY <1>1, <1>2, <1>3, FlagsSame, EndSteady
(* The workspace of the task is changed in its items only.                 *)
LEMMA FileBuiltSteady ==
  ASSUME Within, NEW t \in AllTasks, FileBuilt(t)
  PROVE  Steady(t)
<1> SUFFICES ASSUME NEW i, i = task[t].workspace PROVE Steady(t)
  OBVIOUS
<1>1. /\ WorkspaceInv /\ task[t].step = "build" /\ task' = [task EXCEPT ![t] = NoTask]
      /\ UNCHANGED <<rows, queue, shown, run, lastClosed>>
  BY DEF Within, FileBuilt, dbVars, ghostVars, programVars
<1>2. ~Closes(t) /\ Saving(ListedNow)
  BY <1>1, OpenIsApart, SavesNothing DEF OpenSteps
<1>3. i \in Handles
  BY <1>1, KnownTask DEF HasWorkspace
<1>4. workspace[i] \in WorkspaceState
  BY <1>1, <1>3, KnownWorkspace
<1>5. \/ UNCHANGED workspace
      \/ \E pane : workspace' = [workspace EXCEPT ![i] = [@ EXCEPT !.scheduled = TRUE, !.pane = pane]]
      \/ \E pane, unsent : workspace' = [workspace EXCEPT ![i] =
                              [@ EXCEPT !.scheduled = TRUE, !.unsent = unsent, !.pane = pane]]
  BY DEF FileBuilt
<1>6. SameFlags(workspace')
  <2>1. ASSUME NEW pane,
               workspace' = [workspace EXCEPT ![i] = [@ EXCEPT !.scheduled = TRUE, !.pane = pane]]
        PROVE  SameFlags(workspace')
    <3> DEFINE ws == [workspace[i] EXCEPT !.scheduled = TRUE, !.pane = pane]
    <3>1. /\ ws.path = workspace[i].path /\ ws.inSession = workspace[i].inSession
          /\ ws.closing = workspace[i].closing /\ ws.scheduled
      BY <1>4 DEF WorkspaceState
    <3>2. workspace' = [workspace EXCEPT ![i] = ws]
      BY <2>1
    <3> HIDE DEF ws
    <3> QED
      BY <1>1, <3>1, <3>2, ChangeFlags
  <2>2. ASSUME NEW pane, NEW unsent,
               workspace' = [workspace EXCEPT ![i] =
                               [@ EXCEPT !.scheduled = TRUE, !.unsent = unsent, !.pane = pane]]
        PROVE  SameFlags(workspace')
    <3> DEFINE ws == [workspace[i] EXCEPT !.scheduled = TRUE, !.unsent = unsent, !.pane = pane]
    <3>1. /\ ws.path = workspace[i].path /\ ws.inSession = workspace[i].inSession
          /\ ws.closing = workspace[i].closing /\ ws.scheduled
      BY <1>4 DEF WorkspaceState
    <3>2. workspace' = [workspace EXCEPT ![i] = ws]
      BY <2>2
    <3> HIDE DEF ws
    <3> QED
      BY <1>1, <3>1, <3>2, ChangeFlags
  <2>3. CASE UNCHANGED workspace
    BY <2>3, FlagsSame
  <2> QED
    BY <1>5, <2>1, <2>2, <2>3
<1> QED
  BY <1>1, <1>2, <1>6, EndSteady

(* Steps of no task.                                                       *)
LEMMA NoTaskSteady ==
  ASSUME WorkspaceInv, UNCHANGED <<rows, shown, task, run, lastClosed>>, NEW ws2,
         SameFlags(ws2), workspace' = ws2, Saving(ListedNow)
  PROVE  Steady(None)
<1>1. None \notin AllTasks
  BY WorkspaceAssumption DEF AllTasks
<1>2. \A i \in Handles : Alive(i)' => Alive(i) /\ workspace'[i] = ws2[i]
  BY <1>1, StepAlive
<1>3. SameListed /\ SameClosing /\ SameScheduled
  BY <1>2 DEF SameFlags, SameListed, SameClosing, SameScheduled
<1> QED
  BY <1>1, <1>3 DEF Steady, Minor

LEMMA TimerSavesSteady ==
  ASSUME Within, NEW i \in Handles, TimerSaves(i)
  PROVE  Steady(None)
<1> DEFINE ws == [workspace[i] EXCEPT !.scheduled = FALSE]
           ws2 == [workspace EXCEPT ![i] = ws]
<1>1. /\ WorkspaceInv /\ i \in AliveNow /\ queue' = queue \o Saves(workspace[i], None)
      /\ workspace' = ws2 /\ UNCHANGED <<rows, shown, task, run, lastClosed>>
  BY DEF Within, TimerSaves, AliveNow, ghostVars, programVars
<1>2. SavesIt(ListedNow, i, None)
  BY <1>1, SavesAsListed
<1>3. /\ ws.path = workspace[i].path /\ ws.inSession = workspace[i].inSession
      /\ ws.closing = workspace[i].closing
  BY <1>1, KnownWorkspace DEF WorkspaceState
<1> HIDE DEF ws
<1>4. SameFlags(ws2)
  BY <1>1, <1>2, <1>3, ChangeFlags DEF SavesIt
<1> HIDE DEF ws2
<1> QED
  BY <1>1, <1>2, <1>4, NoTaskSteady DEF SavesIt

(* What is sent of the items holds no save.                                *)
LEMMA ItemsSentGrows ==
  ASSUME WorkspaceInv, NEW i \in Handles, ItemsSent(i)
  PROVE  /\ Prolongs(queue, queue')
         /\ \A k \in Len(queue) + 1 .. Len(queue') : queue'[k].op = "item"
<1> DEFINE count == Cardinality(workspace[i].unsent)
<1>1. PICK order \in [1 .. count -> workspace[i].unsent] :
        queue' = queue \o [k \in 1 .. count |->
                             ItemWrite(workspace[i].id, order[k], fileOf[order[k]])]
  BY DEF ItemsSent
<1> DEFINE sent == [k \in 1 .. count |->
                      ItemWrite(workspace[i].id, order[k], fileOf[order[k]])]
<1>2. count \in Nat
  <2>1. workspace[i].unsent \subseteq Items
    BY KnownWorkspace DEF WorkspaceState
  <2> QED
    BY <2>1, FS_Subset, FS_CardinalityType, WorkspaceAssumption
<1>3. \A k \in 1 .. count : sent[k].op = "item"
  BY DEF ItemWrite
<1>4. queue' = queue \o sent /\ DOMAIN sent = 1 .. count /\ Len(sent) = count
  BY <1>1, <1>2
<1>5. sent \in Seq({sent[k] : k \in 1 .. count})
  BY <1>2
<1> HIDE DEF sent, count
<1>6. queue \in Seq(Write) /\ Len(queue) \in Nat
  BY QueueTyped
<1>7. Len(queue') = Len(queue) + Len(sent)
  BY <1>4, <1>5, <1>6
<1>8. \A k \in 1 .. Len(queue) + Len(sent) :
        queue'[k] = IF k <= Len(queue) THEN queue[k] ELSE sent[k - Len(queue)]
  BY <1>4, <1>5, <1>6
<1>9. ASSUME NEW k \in Len(queue) + 1 .. Len(queue') PROVE queue'[k].op = "item"
  <2>1. k - Len(queue) \in 1 .. count /\ k \in 1 .. Len(queue) + Len(sent) /\ ~(k <= Len(queue))
    BY <1>2, <1>4, <1>6, <1>7
  <2> QED
    BY <1>3, <1>8, <2>1
<1>10. Prolongs(queue, queue')
  BY <1>2, <1>4, <1>6, <1>7, <1>8 DEF Prolongs
<1> QED
  BY <1>9, <1>10

LEMMA ItemsSentSteady ==
  ASSUME Within, NEW i \in Handles, ItemsSent(i)
  PROVE  Steady(None)
<1> DEFINE ws == [workspace[i] EXCEPT !.unsent = {}]
           ws2 == [workspace EXCEPT ![i] = ws]
<1>1. /\ WorkspaceInv /\ workspace' = ws2 /\ UNCHANGED <<rows, shown, task, run, lastClosed>>
  BY DEF Within, ItemsSent, ghostVars, programVars
<1>2. /\ ws.path = workspace[i].path /\ ws.inSession = workspace[i].inSession
      /\ ws.closing = workspace[i].closing /\ ws.scheduled = workspace[i].scheduled
  BY <1>1, KnownWorkspace DEF WorkspaceState
<1> HIDE DEF ws
<1>3. SameFlags(ws2)
  BY <1>1, <1>2, ChangeFlags
<1> HIDE DEF ws2
<1>4. Saving(ListedNow)
  BY <1>1, ItemsSentGrows DEF Saving
<1> QED
  BY <1>1, <1>3, <1>4, NoTaskSteady

LEMMA TabStepSteady ==
  ASSUME Within, NEW w \in Windows, TabStep(w)
  PROVE  Steady(None)
<1> SUFFICES ASSUME NEW i, i = shown[w] PROVE Steady(None)
  OBVIOUS
<1>1. WorkspaceInv
  BY DEF Within
<1>2. /\ UNCHANGED <<rows, queue, shown, task, run, lastClosed>> /\ IsOpen(w)
      /\ \/ \E pane : workspace' = [workspace EXCEPT ![i] =
                                      [@ EXCEPT !.pane = pane, !.scheduled = TRUE]]
         \/ \E pane, unsent : workspace' = [workspace EXCEPT ![i] =
                                 [@ EXCEPT !.scheduled = TRUE, !.unsent = unsent, !.pane = pane]]
         \/ \E pane, heard : workspace' = [workspace EXCEPT ![i] =
                       [@ EXCEPT !.pane = pane, !.scheduled = workspace[i].scheduled \/ heard]]
  <2>1. ASSUME NEW n \in Items, SelectTab(w, n) \/ CloseItem(w, n)
        PROVE  /\ UNCHANGED <<rows, queue, shown, task, run, lastClosed>> /\ IsOpen(w)
               /\ \E pane : workspace' = [workspace EXCEPT ![i] =
                                            [@ EXCEPT !.pane = pane, !.scheduled = TRUE]]
    BY <2>1 DEF SelectTab, CloseItem, PaneChanges, ItemsOf, dbVars, ghostVars, programVars
  <2>2. ASSUME NEW n \in Items, NEW index \in 0 .. Cardinality(Items), DragTab(w, n, index)
        PROVE  /\ UNCHANGED <<rows, queue, shown, task, run, lastClosed>> /\ IsOpen(w)
               /\ \E pane, unsent : workspace' = [workspace EXCEPT ![i] =
                                 [@ EXCEPT !.scheduled = TRUE, !.unsent = unsent, !.pane = pane]]
    BY <2>2 DEF DragTab, ItemsOf, dbVars, ghostVars, programVars
  <2>3. ASSUME NEW heard \in BOOLEAN, KeepPreview(w, heard)
        PROVE  /\ UNCHANGED <<rows, queue, shown, task, run, lastClosed>> /\ IsOpen(w)
               /\ \E pane, h : workspace' = [workspace EXCEPT ![i] =
                           [@ EXCEPT !.pane = pane, !.scheduled = workspace[i].scheduled \/ h]]
    BY <2>3 DEF KeepPreview, dbVars, ghostVars, programVars
  <2> QED
    BY <2>1, <2>2, <2>3 DEF TabStep
<1>3. i \in Handles /\ workspace[i] \in WorkspaceState
  BY <1>1, <1>2, ShownKnown, KnownWorkspace
<1>4. SameFlags(workspace')
  <2>1. ASSUME NEW pane, NEW scheduled, workspace[i].scheduled => scheduled,
               workspace' = [workspace EXCEPT ![i] =
                               [@ EXCEPT !.pane = pane, !.scheduled = scheduled]]
        PROVE  SameFlags(workspace')
    <3> DEFINE ws == [workspace[i] EXCEPT !.pane = pane, !.scheduled = scheduled]
    <3>1. /\ ws.path = workspace[i].path /\ ws.inSession = workspace[i].inSession
          /\ ws.closing = workspace[i].closing /\ ws.scheduled = scheduled
      BY <1>3 DEF WorkspaceState
    <3>2. workspace' = [workspace EXCEPT ![i] = ws]
      BY <2>1
    <3> HIDE DEF ws
    <3>3. workspace[i].scheduled => ws.scheduled
      BY <2>1, <3>1
    <3> QED
      BY <1>1, <3>1, <3>2, <3>3, ChangeFlags
  <2>2. ASSUME NEW pane, NEW unsent,
               workspace' = [workspace EXCEPT ![i] =
                               [@ EXCEPT !.scheduled = TRUE, !.unsent = unsent, !.pane = pane]]
        PROVE  SameFlags(workspace')
    <3> DEFINE ws == [workspace[i] EXCEPT !.scheduled = TRUE, !.unsent = unsent, !.pane = pane]
    <3>1. /\ ws.path = workspace[i].path /\ ws.inSession = workspace[i].inSession
          /\ ws.closing = workspace[i].closing /\ ws.scheduled
      BY <1>3 DEF WorkspaceState
    <3>2. workspace' = [workspace EXCEPT ![i] = ws]
      BY <2>2
    <3> HIDE DEF ws
    <3> QED
      BY <1>1, <3>1, <3>2, ChangeFlags
  <2>3. CASE \E pane : workspace' = [workspace EXCEPT ![i] =
                                       [@ EXCEPT !.pane = pane, !.scheduled = TRUE]]
    <3>1. PICK pane : workspace' = [workspace EXCEPT ![i] =
                                      [@ EXCEPT !.pane = pane, !.scheduled = TRUE]]
      BY <2>3
    <3>2. workspace[i].scheduled => TRUE
      OBVIOUS
    <3> QED
      BY <2>1, <3>1, <3>2
  <2>4. CASE \E pane, heard : workspace' = [workspace EXCEPT ![i] =
                       [@ EXCEPT !.pane = pane, !.scheduled = workspace[i].scheduled \/ heard]]
    <3>1. PICK pane, heard : workspace' = [workspace EXCEPT ![i] =
                       [@ EXCEPT !.pane = pane, !.scheduled = workspace[i].scheduled \/ heard]]
      BY <2>4
    <3>2. workspace[i].scheduled => workspace[i].scheduled \/ heard
      OBVIOUS
    <3> QED
      BY <2>1, <3>1, <3>2
  <2> QED
    BY <1>2, <2>2, <2>3, <2>4
<1> QED
  BY <1>1, <1>2, <1>4, SavesNothing, NoTaskSteady
-----------------------------------------------------------------------------
(* A command that prepares to close.                                       *)
PreparesNow(t, w, i) ==
  /\ UNCHANGED <<rows, shown, run>>
  /\ \A u \in AllTasks : u # t => task'[u] = task[u]
  /\ task'[t].step = "flush" /\ task'[t].window = w /\ task'[t].workspace = i
  /\ task'[t].kind = task[t].kind /\ task'[t].replace = task[t].replace
  /\ task'[t].left = task[t].left
  /\ \A j \in Handles : /\ workspace'[j].path = workspace[j].path
                        /\ workspace'[j].inSession = workspace[j].inSession
                        /\ j # i => workspace'[j].closing = workspace[j].closing
  /\ workspace'[i].closing <=> workspace[i].closing \/ task[t].kind = "closeWindow"
  /\ task[t].kind # "closeWindow" => workspace'[i].closing = workspace[i].closing
  /\ lastClosed' = IF task[t].kind = "closeWindow" THEN workspace[i].path ELSE lastClosed
  /\ task'[t].preserve <=>
       task[t].kind = "quit" \/ (task[t].kind = "closeWindow" /\ Remaining(workspace)' = {})
  /\ SameListed /\ SameScheduled
  /\ SavesIt(ListedNow, i, t)

LEMMA PrepareChanges ==
  ASSUME WorkspaceInv, NEW t \in AllTasks, NEW w \in Windows, NEW i \in AliveNow, Prepare(t, w, i)
  PROVE  PreparesNow(t, w, i)
<1> DEFINE closes == task[t].kind = "closeWindow"
           ws == [workspace[i] EXCEPT !.closing = workspace[i].closing \/ closes,
                                      !.scheduled = FALSE]
           flushed == [workspace EXCEPT ![i] = ws]
           preserve == Preserves(task[t].kind, Remaining(flushed))
           tk == [task[t] EXCEPT !.step = "flush", !.window = w, !.workspace = i,
                                 !.preserve = preserve]
<1>1. i \in Handles /\ workspace[i] \in WorkspaceState /\ task[t] \in TaskState
  BY AliveKnown, KnownWorkspace, KnownTask
<1>2. /\ workspace' = flushed /\ queue' = queue \o Saves(workspace[i], t)
      /\ task' = [task EXCEPT ![t] = tk] /\ UNCHANGED <<rows, shown, run>>
      /\ lastClosed' = IF closes THEN workspace[i].path ELSE lastClosed
  BY DEF Prepare, programVars
<1>3. /\ tk.step = "flush" /\ tk.window = w /\ tk.workspace = i /\ tk.kind = task[t].kind
      /\ tk.replace = task[t].replace /\ tk.left = task[t].left /\ tk.preserve = preserve
  BY <1>1 DEF TaskState
<1>4. /\ ws.path = workspace[i].path /\ ws.inSession = workspace[i].inSession
      /\ ws.closing = (workspace[i].closing \/ closes) /\ workspace[i].closing \in BOOLEAN
  BY <1>1 DEF WorkspaceState
<1>5. preserve <=> task[t].kind = "quit" \/ (closes /\ Remaining(workspace)' = {})
  <2>1. OpenWindows' = OpenWindows /\ shown' = shown /\ workspace' = flushed
    BY <1>2 DEF OpenWindows, IsOpen
  <2>2. Remaining(workspace)' = Remaining(flushed)
    BY <2>1 DEF Remaining
  <2> QED
    BY <2>2 DEF Preserves
<1> HIDE DEF ws, preserve
<1>6. flushed[i] = ws /\ \A j \in Handles : j # i => flushed[j] = workspace[j]
  BY <1>1 DEF WorkspaceInv, WorkspacesOk, AreOk
<1> HIDE DEF flushed, tk
<1>7. task'[t] = tk /\ \A u \in AllTasks : u # t => task'[u] = task[u]
  BY <1>2, OthersWait
<1>8. \A j \in Handles : Alive(j)' => Alive(j)
  BY <1>2, <1>3, <1>7, StepAlive
<1>9. SavesIt(ListedNow, i, t)
  BY <1>2, SavesAsListed
<1>10. \A j \in Handles : /\ workspace'[j].path = workspace[j].path
                          /\ workspace'[j].inSession = workspace[j].inSession
                          /\ j # i => workspace'[j].closing = workspace[j].closing
                          /\ j # i => workspace'[j].scheduled = workspace[j].scheduled
  BY <1>2, <1>4, <1>6
<1>11. SameListed
  BY <1>8, <1>10 DEF SameListed
<1>12. SameScheduled
  BY <1>9, <1>10 DEF SameScheduled, SavesIt
<1>13. /\ workspace'[i].closing <=> workspace[i].closing \/ closes
       /\ ~closes => workspace'[i].closing = workspace[i].closing
  <2>1. workspace'[i].closing = (workspace[i].closing \/ closes)
    BY <1>1, <1>2, <1>4, <1>6
  <2> QED
    BY <1>4, <2>1
<1> QED
  BY <1>2, <1>3, <1>5, <1>7, <1>9, <1>10, <1>11, <1>12, <1>13 DEF PreparesNow

LEMMA QuitPreparesSteady ==
  ASSUME Within, NEW t \in Tasks, NEW w \in Windows, QuitPrepares(t, w)
  PROVE  Steady(t)
<1> SUFFICES ASSUME NEW i, i = shown[w] PROVE Steady(t)
  OBVIOUS
<1>1. /\ WorkspaceInv /\ t \in AllTasks /\ IsOpen(w) /\ task[t].kind = "quit"
      /\ task[t].step = "prepare" /\ LedgerNow /\ QuitSaved(t) /\ Prepare(t, w, i)
  BY DEF Within, AllTasks, QuitPrepares, IdsInv, SessionsInv, QuitIsSaved
<1>2. i \in AliveNow /\ i \in Handles
  BY <1>1, ShownAlive, AliveKnown
<1>3. PreparesNow(t, w, i)
  BY <1>1, <1>2, PrepareChanges
<1>4. /\ UNCHANGED <<rows, shown, run>> /\ SavesIt(ListedNow, i, t)
      /\ task'[t].kind = "quit" /\ task'[t].step = "flush" /\ task'[t].window = w
      /\ task'[t].workspace = i /\ task'[t].left = task[t].left
      /\ \A j \in Handles : /\ workspace'[j].path = workspace[j].path
                            /\ workspace'[j].inSession = workspace[j].inSession
  BY <1>1, <1>3 DEF PreparesNow
<1>5. Prolongs(queue, queue') /\ Saving(ListedNow)
  BY <1>4 DEF SavesIt, Saving
<1>6. ASSUME NEW v \in OpenWindows', v \notin task[t].left, NEW p, p = workspace'[shown'[v]].path,
             p # None, workspace'[shown'[v]].inSession
      PROVE  Settled(rows', queue', p, run')
  <2>1. v \in OpenWindows /\ v \in Windows /\ IsOpen(v)
    BY <1>4, <1>6 DEF OpenWindows, IsOpen
  <2>2. shown[v] \in AliveNow /\ shown[v] \in Handles
    BY <1>1, <2>1, ShownAlive, AliveKnown
  <2>3. p = workspace[shown[v]].path /\ workspace[shown[v]].inSession
    BY <1>4, <1>6, <2>2
  <2>4. Settled(rows, queue, p, run)
    BY <1>1, <1>6, <2>1, <2>3 DEF QuitSaved
  <2>5. SaysSince(queue, queue', p, run)
    BY <1>1, <1>5, <1>6, <2>2, <2>3, ListedSay DEF ListedNow
  <2> QED
    BY <1>4, <1>5, <2>4, <2>5, ProlongedStays
<1>7. ASSUME NEW p, p = workspace'[i].path, p # None, workspace'[i].inSession
      PROVE  AwaitedAs(queue', t, p, run')
  <2>1. p = workspace[i].path /\ ListedNow[i]
    BY <1>2, <1>4, <1>7 DEF ListedNow
  <2> QED
    BY <1>4, <1>7, <2>1 DEF SavesIt, SessionOf
<1>8. QuitSaved(t)'
  BY <1>4, <1>6, <1>7 DEF QuitSaved, OnItsWay
<1>9. StaysAs(t) /\ StepsOn(t)
  BY <1>1, <1>4, ApartStays DEF Closes, Leaves
<1>10. SameClosing /\ UNCHANGED lastClosed /\ CommandOk(t)'
  <2>1. task[t].kind # "closeWindow" /\ CommandOk(t)
    BY <1>1 DEF Within, CommandsInv
  <2>2. SameClosing /\ UNCHANGED lastClosed
    BY <1>3, <2>1 DEF PreparesNow, SameClosing
  <2>3. CommandOk(t)'
    BY <1>1, <1>4, <2>1 DEF CommandOk
  <2> QED
    BY <2>2, <2>3
<1> QED
  BY <1>3, <1>5, <1>8, <1>9, <1>10 DEF Steady, Minor, PreparesNow

(* The last window that is asked is the one that stays in the session; a   *)
(* command that asks while windows are closing would be the second to      *)
(* close its workspace.                                                    *)
LEMMA PrepareToCloseSession ==
  ASSUME Within, WorkspaceInv', NEW t \in AllTasks, PrepareToClose(t), excuse' = {}
  PROVE  CommandsInv' /\ SessionsInv'
<1> SUFFICES ASSUME NEW i, i = task[t].workspace, NEW w, w = task[t].window
             PROVE  CommandsInv' /\ SessionsInv'
  OBVIOUS
<1> DEFINE kind == task[t].kind
<1>1. /\ WorkspaceInv /\ LedgerNow /\ CommandsInv /\ SessionsInv /\ CommandOk(t) /\ run # 0
      /\ KindOk(task[t])
  BY DEF Within, IdsInv, CommandsInv, KindsOk
<1>2. /\ task[t].step \in {"prepare", "lookup"} /\ IsOpen(w) /\ Prepare(t, w, i)
      /\ kind \notin {"quit", "file", "none"} /\ (task[t].step = "lookup" => task[t].replace)
  BY <1>1 DEF PrepareToClose, AsksToClose, KindOk
<1>3. i \in Handles /\ i \in AliveNow /\ w \in Windows
  <2>1. i \in Handles
    BY <1>1, <1>2, KnownTask DEF HasWorkspace
  <2>2. w \in Windows
    BY <1>1, <1>2 DEF CommandOk
  <2> QED
    BY <1>1, <1>2, <2>1, <2>2, HeldAlive
<1>4. PreparesNow(t, w, i) /\ ~Closes(t)
  BY <1>1, <1>2, <1>3, PrepareChanges DEF Closes, Leaves
(* Its window shows it, and no other command closes it.                    *)
<1>5. shown[w] = i /\ \A u \in AllTasks : ~Leaves(u, i)
  <2>1. shown[w] = i /\ ~\E u \in AllTasks \ {t} : Leaves(u, i)
    BY <1>2 DEF Prepare
  <2> QED
    BY <1>4, <2>1 DEF Closes
<1>6. IsShown(i) /\ workspace[i].inSession /\ ~workspace[i].closing
  BY <1>1, <1>3, <1>5 DEF IsShown, CommandsInv, UnlistedIsLeft, ClosingIsLeft
<1>7. ~Ending
  BY <1>2, <1>3, <1>5, <1>6 DEF Ending, Remaining, OpenWindows
<1>8. /\ UNCHANGED <<rows, shown, run>> /\ \A u \in AllTasks : u # t => task'[u] = task[u]
      /\ task'[t].step = "flush" /\ task'[t].window = w /\ task'[t].workspace = i
      /\ task'[t].kind = kind /\ task'[t].replace = task[t].replace
      /\ \A j \in Handles : /\ workspace'[j].path = workspace[j].path
                            /\ workspace'[j].inSession = workspace[j].inSession
                            /\ j # i => workspace'[j].closing = workspace[j].closing
      /\ workspace'[i].closing <=> kind = "closeWindow"
      /\ lastClosed' = IF kind = "closeWindow" THEN workspace[i].path ELSE lastClosed
  BY <1>4, <1>6 DEF PreparesNow
<1>9. OpenWindows' = OpenWindows /\ w \in OpenWindows
  BY <1>2, <1>3, <1>8 DEF OpenWindows, IsOpen
<1>10. task'[t].preserve <=> kind = "closeWindow" /\ Ending'
  BY <1>2, <1>4, <1>9 DEF PreparesNow, Ending
<1>11. Ending' => kind = "closeWindow"
  <2>1. CASE kind # "closeWindow"
    <3>1. ~workspace'[shown'[w]].closing
      BY <1>5, <1>8, <2>1
    <3> QED
      BY <1>9, <3>1 DEF Ending, Remaining
  <2> QED
    BY <2>1
<1>12. ASSUME NEW u \in AllTasks, Closes(u)'
       PROVE  u = t \/ (task'[u] = task[u] /\ Closes(u) /\ task[u].workspace # i)
  BY <1>5, <1>8, <1>12 DEF Closes, Leaves
<1>13. ASSUME NEW u \in AllTasks, NEW j, Leaves(u, j)
       PROVE  u # t /\ j # i /\ Leaves(u, j)' /\ task'[u].kind = task[u].kind
  BY <1>4, <1>5, <1>8, <1>13 DEF Closes, Leaves
<1>14. Leaves(t, i)' /\ AliveNow' \subseteq AliveNow
  BY <1>2, <1>4, <1>8 DEF Leaves, AliveNow, PreparesNow, SameListed
<1>15. ASSUME NEW u \in AllTasks, Leaves(u, i)' PROVE u = t
  BY <1>8, <1>12, <1>15, LeavesCloses DEF Leaves, Closes
(* The commands.                                                           *)
<1>16. \A u \in AllTasks : CommandOk(u)'
  <2>1. CommandOk(t)'
    BY <1>1, <1>2, <1>8, <1>10 DEF CommandOk
  <2> QED
    BY <1>1, <1>8, <2>1 DEF CommandsInv, CommandOk
<1>17. OneLeaves'
  BY <1>1, <1>8, <1>12 DEF CommandsInv, OneLeaves
<1>18. LeftIsShown'
  <2> SUFFICES ASSUME NEW u \in AllTasks, Closes(u)', NEW j, j = task'[u].workspace
               PROVE  /\ j \in Handles /\ task'[u].window \in Windows
                      /\ shown'[task'[u].window] = j
                      /\ task'[u].step # "flush" => ~workspace'[j].inSession
                      /\ task'[u].kind = "closeWindow" => workspace'[j].closing
    BY DEF LeftIsShown
  <2>1. CASE u = t
    BY <1>3, <1>5, <1>8, <2>1
  <2>2. CASE u # t
    BY <1>1, <1>8, <1>12, <2>2 DEF CommandsInv, LeftIsShown
  <2> QED
    BY <2>1, <2>2
<1>19. ShownOnce' /\ UnlistedIsLeft'
  <2>1. ShownOnce'
    BY <1>1, <1>8 DEF CommandsInv, ShownOnce, IsOpen
  <2>2. UnlistedIsLeft'
    BY <1>1, <1>8, <1>13 DEF CommandsInv, UnlistedIsLeft, IsShown
  <2> QED
    BY <2>1, <2>2
<1>20. ClosingIsLeft'
  <2> SUFFICES ASSUME NEW j \in Handles, IsShown(j)', workspace'[j].closing
               PROVE  \E u \in AllTasks : Leaves(u, j)' /\ task'[u].kind = "closeWindow"
    BY DEF ClosingIsLeft
  <2>1. CASE j = i
    BY <1>8, <1>14, <2>1
  <2>2. CASE j # i
    <3>1. PICK u \in AllTasks : Leaves(u, j) /\ task[u].kind = "closeWindow"
      BY <1>1, <1>8, <2>2 DEF CommandsInv, ClosingIsLeft, IsShown
    <3> QED
      BY <1>13, <3>1
  <2> QED
    BY <2>1, <2>2
<1>21. HiddenIsLast'
  BY <1>1, <1>7, <1>8, <1>14, AliveKnown DEF CommandsInv, HiddenIsLast, IsShown
<1>22. PreservedIsLast'
  <2> SUFFICES ASSUME NEW u \in AllTasks, Preserving(u)'
               PROVE  Ending' /\ workspace'[task'[u].workspace].path = lastClosed'
    BY DEF PreservedIsLast
  <2>1. CASE u = t
    BY <1>3, <1>8, <1>10, <2>1 DEF Preserving
  <2>2. CASE u # t
    BY <1>1, <1>7, <1>8, <2>2 DEF Preserving, CommandsInv, PreservedIsLast
  <2> QED
    BY <2>1, <2>2
<1>23. LastIsListed'
  <2> SUFFICES ASSUME Ending', lastClosed' # None, NEW j \in AliveNow',
                      workspace'[j].path = lastClosed'
               PROVE  /\ workspace'[j].inSession
                      /\ \A u \in AllTasks : Leaves(u, j)' => task'[u].preserve
    BY DEF LastIsListed
  <2>1. j \in AliveNow /\ j \in Handles /\ workspace[j].path = workspace[i].path
        /\ workspace[i].path # None
    BY <1>8, <1>11, <1>14, AliveKnown
  <2>2. j = i
    BY <1>1, <1>3, <2>1, AliveKnown DEF LedgerNow, Ledger, OneEach
  <2> QED
    BY <1>3, <1>6, <1>8, <1>10, <1>11, <1>15, <2>2
<1>24. CommandsInv'
  BY <1>16, <1>17, <1>18, <1>19, <1>20, <1>21, <1>22, <1>23 DEF CommandsInv
(* What is stored.                                                         *)
<1>25. Minor(t)
  BY <1>2, <1>4, <1>8 DEF Minor, PreparesNow, SavesIt, StepsOn
<1>26. SavedAsListed' /\ TouchedIsShown' /\ LeftIsOut' /\ QuitIsSaved'
  BY <1>1, <1>7, <1>24, <1>25, MinorSaves DEF EndStays
<1>27. LastIsSaved'
  <2> SUFFICES ASSUME Ending', lastClosed' # None
               PROVE  Preserving(t)' /\ AwaitedAs(queue', t, lastClosed', run')
    BY DEF LastIsSaved
  <2>1. kind = "closeWindow" /\ lastClosed' = workspace[i].path /\ workspace[i].path # None
    BY <1>8, <1>11
  <2>2. AwaitedAs(queue', t, workspace[i].path, run)
    BY <1>3, <1>4, <1>6, <2>1 DEF PreparesNow, SavesIt, SessionOf, ListedNow
  <2> QED
    BY <1>8, <1>10, <2>1, <2>2 DEF Preserving
<1> QED
  BY <1>24, <1>26, <1>27 DEF SessionsInv
(* A workspace leaves the session.                                         *)
LEMMA RemoveFromSessionSession ==
  ASSUME Within, WorkspaceInv', NEW t \in AllTasks, RemoveFromSession(t)
  PROVE  CommandsInv' /\ SessionsInv'
<1> SUFFICES ASSUME NEW i, i = task[t].workspace PROVE CommandsInv' /\ SessionsInv'
  OBVIOUS
<1> DEFINE ws == [workspace[i] EXCEPT !.inSession = FALSE]
           unlisted == [workspace EXCEPT ![i] = ws]
           tk == [task[t] EXCEPT !.step = "unlisted"]
           listed == [ListedNow EXCEPT ![i] = FALSE]
<1>1. /\ WorkspaceInv /\ LedgerNow /\ CommandsInv /\ SessionsInv /\ CommandOk(t) /\ run # 0
      /\ KindOk(task[t]) /\ task[t].step = "flush" /\ ~task[t].preserve
  BY DEF Within, IdsInv, CommandsInv, KindsOk, RemoveFromSession
<1>2. task[t].kind \notin {"quit", "file", "none"} /\ task[t] \in TaskState /\ i \in Handles
  BY <1>1, KnownTask DEF KindOk, HasWorkspace
<1>3. i \in AliveNow /\ workspace[i] \in WorkspaceState /\ Closes(t)
  BY <1>1, <1>2, HeldAlive, KnownWorkspace DEF Closes, Leaves
<1>4. /\ workspace' = unlisted /\ queue' = queue \o Saves(unlisted[i], t)
      /\ task' = [task EXCEPT ![t] = tk] /\ UNCHANGED <<rows, shown, run, lastClosed>>
  BY DEF RemoveFromSession, ghostVars, programVars
<1>5. /\ tk.step = "unlisted" /\ tk.workspace = i /\ tk.kind = task[t].kind
      /\ tk.window = task[t].window /\ tk.preserve = task[t].preserve
      /\ tk.replace = task[t].replace
  BY <1>2 DEF TaskState
<1>6. /\ ws.path = workspace[i].path /\ ws.closing = workspace[i].closing /\ ~ws.inSession
      /\ ws.scheduled = workspace[i].scheduled /\ ws.inSession = FALSE
  BY <1>3 DEF WorkspaceState
<1>7. listed[i] = FALSE /\ \A j \in Handles : j # i => listed[j] = workspace[j].inSession
  BY <1>2 DEF ListedNow
<1> HIDE DEF ws, listed
<1>8. unlisted[i] = ws /\ \A j \in Handles : j # i => unlisted[j] = workspace[j]
  BY <1>1, <1>2 DEF WorkspaceInv, WorkspacesOk, AreOk
<1> HIDE DEF unlisted, tk
<1>9. task'[t] = tk /\ \A u \in AllTasks : u # t => task'[u] = task[u]
  BY <1>1, <1>4, OthersWait
<1>10. \A j \in Handles : Alive(j)' => Alive(j)
  BY <1>1, <1>2, <1>3, <1>4, <1>5, <1>9, StepAlive
<1>11. \A j \in Handles : /\ workspace'[j].path = workspace[j].path
                          /\ workspace'[j].closing = workspace[j].closing
                          /\ workspace'[j].scheduled = workspace[j].scheduled
                          /\ workspace'[j].inSession = listed[j]
                          /\ j # i => workspace'[j].inSession = workspace[j].inSession
                          /\ listed[j] => workspace[j].inSession
  BY <1>2, <1>4, <1>6, <1>7, <1>8
<1>12. SavesIt(listed, i, t)
  <2>1. /\ queue' = queue \o Saves(ws, t) /\ ws.path = workspace[i].path
        /\ ws.inSession = listed[i]
    BY <1>4, <1>6, <1>7, <1>8
  <2> QED
    BY <1>1, <1>3, <2>1, SavesOne
<1>13. Ending' <=> Ending
  BY <1>1, <1>4, <1>10, <1>11, SteadyEnding DEF SameClosing
<1>14. ASSUME NEW u \in AllTasks
       PROVE  /\ Closes(u)' <=> Closes(u)
              /\ task'[u].workspace = task[u].workspace /\ task'[u].kind = task[u].kind
              /\ task'[u].window = task[u].window /\ task'[u].preserve = task[u].preserve
              /\ Preserving(u)' <=> Preserving(u)
              /\ \A j : Leaves(u, j)' <=> Leaves(u, j)
  <2>1. CASE u # t
    BY <1>9, <2>1 DEF Closes, Leaves, Preserving
  <2>2. CASE u = t
    BY <1>1, <1>2, <1>3, <1>5, <1>9, <2>2 DEF Closes, Leaves, Preserving
  <2> QED
    BY <2>1, <2>2
<1>15. /\ \A j \in Handles : IsShown(j)' <=> IsShown(j)
       /\ AliveNow' \subseteq AliveNow /\ AliveNow \subseteq Handles
  BY <1>4, <1>10, AliveKnown DEF IsShown, AliveNow
(* It is not the one that stays.                                           *)
<1>16. Ending /\ lastClosed # None => workspace[i].path # lastClosed
  BY <1>1, <1>3 DEF CommandsInv, LastIsListed, Closes
<1>17. \A u \in AllTasks : CommandOk(u)'
  <2>1. CommandOk(t)'
    BY <1>1, <1>5, <1>9 DEF CommandOk
  <2> QED
    BY <1>1, <1>9, <2>1 DEF CommandsInv, CommandOk
<1>18. OneLeaves' /\ ShownOnce'
  <2>1. OneLeaves'
    BY <1>1, <1>14 DEF CommandsInv, OneLeaves
  <2>2. ShownOnce'
    BY <1>1, <1>4 DEF CommandsInv, ShownOnce, IsOpen
  <2> QED
    BY <2>1, <2>2
<1>19. LeftIsShown'
  <2> SUFFICES ASSUME NEW u \in AllTasks, Closes(u)', NEW j, j = task'[u].workspace
               PROVE  /\ j \in Handles /\ task'[u].window \in Windows
                      /\ shown'[task'[u].window] = j
                      /\ task'[u].step # "flush" => ~workspace'[j].inSession
                      /\ task'[u].kind = "closeWindow" => workspace'[j].closing
    BY DEF LeftIsShown
  <2>1. /\ j \in Handles /\ task'[u].window \in Windows /\ shown'[task'[u].window] = j
        /\ task'[u].kind = "closeWindow" => workspace'[j].closing
    BY <1>1, <1>4, <1>11, <1>14 DEF CommandsInv, LeftIsShown
  <2>2. task'[u].step # "flush" => ~workspace'[j].inSession
    <3>1. CASE u = t
      BY <1>2, <1>7, <1>11, <1>14, <3>1
    <3>2. CASE u # t
      BY <1>1, <1>9, <1>11, <1>14, <2>1, <3>2 DEF CommandsInv, LeftIsShown
    <3> QED
      BY <3>1, <3>2
  <2> QED
    BY <2>1, <2>2
<1>20. UnlistedIsLeft'
  <2> SUFFICES ASSUME NEW j \in Handles, IsShown(j)', ~workspace'[j].inSession
               PROVE  \E u \in AllTasks : Leaves(u, j)
    BY <1>14 DEF UnlistedIsLeft
  <2>1. CASE j = i
    BY <1>3, <2>1 DEF Closes
  <2>2. CASE j # i
    BY <1>1, <1>11, <1>15, <2>2 DEF CommandsInv, UnlistedIsLeft
  <2> QED
    BY <2>1, <2>2
<1>21. ClosingIsLeft'
  BY <1>1, <1>11, <1>14, <1>15 DEF CommandsInv, ClosingIsLeft
<1>22. HiddenIsLast'
  BY <1>1, <1>4, <1>11, <1>13, <1>15 DEF CommandsInv, HiddenIsLast
<1>23. PreservedIsLast'
  <2> SUFFICES ASSUME NEW u \in AllTasks, Preserving(u)'
               PROVE  Ending' /\ workspace'[task'[u].workspace].path = lastClosed'
    BY DEF PreservedIsLast
  <2>1. Preserving(u) /\ Closes(u)
    BY <1>14, LeavesCloses
  <2> QED
    BY <1>1, <1>4, <1>11, <1>13, <1>14, <2>1 DEF CommandsInv, PreservedIsLast, LeftIsShown
<1>24. LastIsListed'
  <2> SUFFICES ASSUME Ending', lastClosed' # None, NEW j \in AliveNow',
                      workspace'[j].path = lastClosed'
               PROVE  /\ workspace'[j].inSession
                      /\ \A u \in AllTasks : Leaves(u, j)' => task'[u].preserve
    BY DEF LastIsListed
  <2>1. j \in AliveNow /\ j \in Handles /\ workspace[j].path = lastClosed /\ j # i
    BY <1>4, <1>11, <1>13, <1>15, <1>16
  <2> QED
    BY <1>1, <1>4, <1>11, <1>13, <1>14, <2>1 DEF CommandsInv, LastIsListed
<1>25. CommandsInv'
  BY <1>17, <1>18, <1>19, <1>20, <1>21, <1>22, <1>23, <1>24 DEF CommandsInv
<1>26. MinorAs(t, listed)
  <2>1. SameScheduled
    BY <1>11 DEF SameScheduled
  <2>2. /\ task'[t].step = "unlisted" /\ task'[t].kind # "quit"
        /\ workspace'[task'[t].workspace].path # None =>
             AwaitedAs(queue', t, workspace'[task'[t].workspace].path, 0)
    BY <1>2, <1>5, <1>7, <1>9, <1>11, <1>12 DEF SavesIt, SessionOf
  <2> QED
    BY <1>4, <1>9, <1>10, <1>11, <1>12, <2>1, <2>2 DEF MinorAs, SavesIt
<1>27. SavedAsListed' /\ TouchedIsShown' /\ LeftIsOut' /\ QuitIsSaved'
  BY <1>1, <1>4, <1>13, <1>25, <1>26, MinorSavesAs DEF EndStays
<1>28. LastIsSaved'
  <2>1. \A j \in AliveNow :
          Ending /\ lastClosed # None /\ workspace[j].path = lastClosed => listed[j]
    BY <1>1, <1>7, <1>15, <1>16 DEF CommandsInv, LastIsListed
  <2> QED
    BY <1>1, <1>4, <1>12, <1>13, <1>14, <2>1, LastStaysSaved DEF SessionsInv, SavesIt
<1> QED
  BY <1>25, <1>27, <1>28 DEF SessionsInv

(* A window goes, and with it the workspace that left the session or is    *)
(* the last.                                                               *)
LEMMA RemoveWindowSession ==
  ASSUME Within, LocationUnique, WorkspaceInv', NEW t \in AllTasks, RemoveWindow(t),
         OpenWindows # {task[t].window}, excuse' = {}
  PROVE  CommandsInv' /\ SessionsInv'
<1> SUFFICES ASSUME NEW i, i = task[t].workspace, NEW w, w = task[t].window
             PROVE  CommandsInv' /\ SessionsInv'
  OBVIOUS
<1>1. /\ WorkspaceInv /\ CommandsInv /\ SessionsInv /\ run # 0
      /\ task[t].kind = "closeWindow" /\ ~Awaits(t) /\ Len(queue) \in Nat
      /\ task[t].step = "unlisted" \/ (task[t].step = "flush" /\ task[t].preserve)
  BY QueueTyped DEF Within, RemoveWindow, Prepared
<1>2. /\ shown' = [shown EXCEPT ![w] = 0] /\ task' = [task EXCEPT ![t] = NoTask]
      /\ UNCHANGED <<rows, queue, run, lastClosed>> /\ workspace' = Surviving(workspace)
      /\ IsOpen(w) /\ shown[w] = i
  BY DEF RemoveWindow, dbVars, programVars
<1>3. /\ Closes(t) /\ i \in Handles /\ w \in Windows /\ workspace[i].closing
      /\ task[t].step # "flush" => ~workspace[i].inSession
  <2>1. Closes(t)
    BY <1>1 DEF Closes, Leaves
  <2> QED
    BY <1>1, <2>1 DEF CommandsInv, LeftIsShown
<1>4. /\ \A v \in Windows : shown'[v] = IF v = w THEN 0 ELSE shown[v]
      /\ \A u \in AllTasks : u # t => task'[u] = task[u]
      /\ task'[t] = NoTask
  BY <1>1, <1>2, OthersWait DEF WorkspaceInv, ProgramOk
<1>5. ASSUME NEW j \in Handles, Alive(j)' PROVE Alive(j) /\ workspace'[j] = workspace[j]
  BY <1>1, <1>2, <1>4, <1>5, NoTaskKind, StepAlive
<1>6. \A j \in AliveNow' : j \in AliveNow /\ j \in Handles /\ workspace'[j] = workspace[j]
  BY <1>5 DEF AliveNow
<1>7. ~IsShown(i)' /\ \A j \in Handles : IsShown(j)' <=> IsShown(j) /\ j # i
  <2>1. \A v \in Windows : IsOpen(v) /\ shown[v] = i => v = w
    BY <1>1, <1>2, <1>3 DEF CommandsInv, ShownOnce
  <2>2. \A v \in Windows : shown[v] \in Handles => IsOpen(v)
    BY <1>1, ShownIsAlive
  <2>3. i # 0 /\ 0 \notin Handles
    BY <1>3 DEF Handles
  <2> QED
    BY <1>2, <1>3, <1>4, <2>1, <2>2, <2>3 DEF IsShown
<1>8. \A j \in Handles : IsShown(j)' => j \in AliveNow'
  BY DEF IsShown, AliveNow, Alive, HeldBy
<1>9. /\ OpenWindows' = OpenWindows \ {w} /\ OpenWindows' # {}
      /\ \A v \in OpenWindows' : shown'[v] = shown[v] /\ shown[v] \in Handles /\ shown[v] # i
  <2>1. OpenWindows' = OpenWindows \ {w} /\ w \in OpenWindows
    BY <1>2, <1>3, <1>4 DEF OpenWindows, IsOpen
  <2>2. OpenWindows' # {}
    BY <2>1
  <2> QED
    BY <1>1, <1>2, <1>3, <1>4, <2>1, <2>2, ShownIsAlive
    DEF OpenWindows, CommandsInv, ShownOnce
<1>10. Ending' <=> Ending
  <2>1. \A v \in OpenWindows' : workspace'[shown'[v]] = workspace[shown[v]]
    <3> SUFFICES ASSUME NEW v \in OpenWindows' PROVE IsShown(shown[v])'
      BY <1>6, <1>8, <1>9
    <3> QED
      BY <1>9 DEF IsShown, OpenWindows
  <2>2. Remaining(workspace)' = Remaining(workspace)
    BY <1>2, <1>3, <1>9, <2>1 DEF Remaining
  <2> QED
    BY <1>9, <2>2 DEF Ending
<1>11. ASSUME NEW u \in AllTasks
       PROVE  /\ u = t => ~Closes(u)' /\ ~Preserving(u)'
              /\ u # t => /\ Closes(u)' <=> Closes(u)
                          /\ Preserving(u)' <=> Preserving(u)
                          /\ \A j : Leaves(u, j)' <=> Leaves(u, j)
              /\ \A j : Leaves(u, j)' => Leaves(u, j) /\ u # t
  <2>1. CASE u = t
    BY <1>4, <2>1, NoTaskCommand DEF Closes, Leaves, Preserving, NoTask
  <2>2. CASE u # t
    BY <1>4, <2>2 DEF Closes, Leaves, Preserving
  <2> QED
    BY <2>1, <2>2
<1>12. ASSUME NEW u \in AllTasks, Closes(u)', NEW j, j = task'[u].workspace
       PROVE  /\ u # t /\ task'[u] = task[u] /\ Closes(u) /\ j # i /\ j \in Handles
              /\ task[u].window \in Windows /\ shown'[task[u].window] = j
              /\ j \in AliveNow' /\ workspace'[j] = workspace[j]
  <2>1. u # t /\ task'[u] = task[u] /\ Closes(u)
    BY <1>4, <1>11, <1>12
  <2>2. j # i
    BY <1>1, <1>3, <1>12, <2>1 DEF CommandsInv, OneLeaves
  <2>3. j \in Handles /\ task[u].window \in Windows /\ shown[task[u].window] = j
    BY <1>1, <1>12, <2>1 DEF CommandsInv, LeftIsShown
  <2>4. shown'[task[u].window] = j
    BY <1>2, <1>4, <2>2, <2>3
  <2>5. j \in AliveNow'
    BY <1>8, <2>3, <2>4 DEF IsShown
  <2> QED
    BY <1>6, <2>1, <2>2, <2>3, <2>4, <2>5
(* The commands.                                                           *)
<1>13. \A u \in AllTasks : CommandOk(u)'
  BY <1>1, <1>4, NoTaskCommand DEF CommandsInv, CommandOk
<1>14. OneLeaves' /\ ShownOnce'
  <2>1. OneLeaves'
    BY <1>1, <1>12 DEF CommandsInv, OneLeaves
  <2>2. ShownOnce'
    BY <1>1, <1>4 DEF CommandsInv, ShownOnce, IsOpen
  <2> QED
    BY <2>1, <2>2
<1>15. LeftIsShown'
  <2> SUFFICES ASSUME NEW u \in AllTasks, Closes(u)', NEW j, j = task'[u].workspace
               PROVE  /\ j \in Handles /\ task'[u].window \in Windows
                      /\ shown'[task'[u].window] = j
                      /\ task'[u].step # "flush" => ~workspace'[j].inSession
                      /\ task'[u].kind = "closeWindow" => workspace'[j].closing
    BY DEF LeftIsShown
  <2>1. /\ task'[u] = task[u] /\ Closes(u) /\ j \in Handles /\ task[u].window \in Windows
        /\ shown'[task[u].window] = j /\ workspace'[j] = workspace[j]
    BY <1>12
  <2> QED
    BY <1>1, <2>1 DEF CommandsInv, LeftIsShown
<1>16. UnlistedIsLeft'
  <2> SUFFICES ASSUME NEW j \in Handles, IsShown(j)', ~workspace'[j].inSession
               PROVE  \E u \in AllTasks : Leaves(u, j)'
    BY DEF UnlistedIsLeft
  <2>1. j # i /\ IsShown(j) /\ ~workspace[j].inSession
    BY <1>6, <1>7, <1>8
  <2>2. PICK u \in AllTasks : Leaves(u, j)
    BY <1>1, <2>1 DEF CommandsInv, UnlistedIsLeft
  <2>3. u # t
    BY <2>1, <2>2 DEF Leaves
  <2> QED
    BY <1>11, <2>2, <2>3
<1>17. ClosingIsLeft'
  <2> SUFFICES ASSUME NEW j \in Handles, IsShown(j)', workspace'[j].closing
               PROVE  \E u \in AllTasks : Leaves(u, j)' /\ task'[u].kind = "closeWindow"
    BY DEF ClosingIsLeft
  <2>1. j # i /\ IsShown(j) /\ workspace[j].closing
    BY <1>6, <1>7, <1>8
  <2>2. PICK u \in AllTasks : Leaves(u, j) /\ task[u].kind = "closeWindow"
    BY <1>1, <2>1 DEF CommandsInv, ClosingIsLeft
  <2>3. u # t
    BY <2>1, <2>2 DEF Leaves
  <2> QED
    BY <1>4, <1>11, <2>2, <2>3
<1>18. task[t].step = "flush" => Preserving(t) /\ Ending /\ workspace[i].path = lastClosed
  BY <1>1 DEF Preserving, CommandsInv, PreservedIsLast
<1>19. HiddenIsLast'
  <2> SUFFICES ASSUME NEW j \in AliveNow', ~IsShown(j)', workspace'[j].inSession
               PROVE  Ending' /\ workspace'[j].path = lastClosed'
    BY DEF HiddenIsLast
  <2>1. j \in AliveNow /\ j \in Handles /\ workspace'[j] = workspace[j]
    BY <1>6
  <2>2. CASE IsShown(j)
    <3>1. j = i
      BY <1>7, <2>1, <2>2
    <3> QED
      BY <1>1, <1>2, <1>3, <1>10, <1>18, <2>1, <3>1
  <2>3. CASE ~IsShown(j)
    BY <1>1, <1>2, <1>10, <2>1, <2>3 DEF CommandsInv, HiddenIsLast
  <2> QED
    BY <2>2, <2>3
<1>20. PreservedIsLast'
  <2> SUFFICES ASSUME NEW u \in AllTasks, Preserving(u)', NEW j, j = task'[u].workspace
               PROVE  Ending' /\ workspace'[j].path = lastClosed'
    BY DEF PreservedIsLast
  <2>1. Closes(u)' /\ u # t /\ Preserving(u)
    BY <1>11 DEF Preserving, Closes, Leaves
  <2>2. task'[u] = task[u] /\ workspace'[j] = workspace[j]
    BY <1>12, <2>1
  <2> QED
    BY <1>1, <1>2, <1>10, <2>1, <2>2 DEF CommandsInv, PreservedIsLast
<1>21. LastIsListed'
  <2> SUFFICES ASSUME Ending', lastClosed' # None, NEW j \in AliveNow',
                      workspace'[j].path = lastClosed'
               PROVE  /\ workspace'[j].inSession
                      /\ \A u \in AllTasks : Leaves(u, j)' => task'[u].preserve
    BY DEF LastIsListed
  <2>1. j \in AliveNow /\ workspace'[j] = workspace[j]
    BY <1>6
  <2> QED
    BY <1>1, <1>2, <1>4, <1>10, <1>11, <2>1 DEF CommandsInv, LastIsListed
<1>22. CommandsInv'
  BY <1>13, <1>14, <1>15, <1>16, <1>17, <1>19, <1>20, <1>21 DEF CommandsInv
(* What is stored.                                                         *)
<1>23. SavedAsListed'
  BY <1>1, <1>2, <1>6 DEF SessionsInv, SavedAsListed, WillBe
<1>24. ASSUME workspace[i].path \in Paths, task[t].step = "unlisted"
       PROVE  ~Touched(rows, queue, workspace[i].path, run)
  <2> SUFFICES ASSUME NEW p \in Paths, p = workspace[i].path PROVE ~Touched(rows, queue, p, run)
    BY <1>24
  <2>1. p # None
    BY WorkspaceAssumption
  <2>2. OnItsWay(t, p, 0)
    BY <1>1, <1>3, <1>24, <2>1 DEF SessionsInv, LeftIsOut
  <2>3. Settled(rows, queue, p, 0)
    BY <1>1, <2>2 DEF OnItsWay, AwaitedAs, Awaits
  <2> QED
    BY <1>1, <2>3, SettledOnOne
<1>25. TouchedIsShown'
  <2> SUFFICES ASSUME NEW p \in Paths, Touched(rows, queue, p, run)
               PROVE  Shows(p)' \/ (Ending' /\ p = lastClosed')
    BY <1>2 DEF TouchedIsShown
  <2>1. CASE Ending /\ p = lastClosed
    BY <1>2, <1>10, <2>1
  <2>2. CASE ~(Ending /\ p = lastClosed)
    <3>1. PICK v \in OpenWindows : workspace[shown[v]].path = p
      BY <1>1, <2>2 DEF SessionsInv, TouchedIsShown, Shows
    <3>2. CASE v = w
      BY <1>1, <1>2, <1>18, <1>24, <2>2, <3>1, <3>2
    <3>3. CASE v # w
      <4>1. v \in OpenWindows' /\ shown'[v] = shown[v] /\ shown[v] \in Handles
        BY <1>9, <3>1, <3>3
      <4>2. shown[v] \in AliveNow'
        BY <1>8, <4>1 DEF IsShown, OpenWindows
      <4>3. workspace'[shown'[v]].path = p
        BY <1>6, <3>1, <4>1, <4>2
      <4> QED
        BY <4>1, <4>3 DEF Shows
    <3> QED
      BY <3>2, <3>3
  <2> QED
    BY <2>1, <2>2
<1>26. LeftIsOut'
  <2> SUFFICES ASSUME NEW u \in AllTasks, Closes(u)', NEW p,
                      p = workspace'[task'[u].workspace].path, p # None
               PROVE  /\ task'[u].step = "unlisted" => OnItsWay(u, p, 0)'
                      /\ task'[u].step \in {"load", "id"} => Settled(rows', queue', p, 0)
    BY DEF LeftIsOut, OnItsWay
  <2>1. task'[u] = task[u] /\ Closes(u) /\ p = workspace[task[u].workspace].path
    BY <1>12
  <2>2. /\ task[u].step = "unlisted" => OnItsWay(u, p, 0)
        /\ task[u].step \in {"load", "id"} => Settled(rows, queue, p, 0)
    BY <1>1, <2>1 DEF SessionsInv, LeftIsOut
  <2> QED
    BY <1>2, <2>1, <2>2 DEF OnItsWay
<1>27. LastIsSaved'
  <2> SUFFICES ASSUME Ending, NEW p, p = lastClosed, p # None
               PROVE  \/ Settled(rows, queue, p, run)
                      \/ \E u \in AllTasks : Preserving(u)' /\ AwaitedAs(queue, u, p, run)
    BY <1>2, <1>10 DEF LastIsSaved
  <2>1. ~AwaitedAs(queue, t, p, run)
    BY <1>1 DEF AwaitedAs, Awaits
  <2> QED
    BY <1>1, <1>11, <2>1 DEF SessionsInv, LastIsSaved
<1>28. QuitIsSaved'
  <2> SUFFICES ASSUME NEW u \in AllTasks, task'[u].kind = "quit" PROVE QuitSaved(u)'
    BY DEF QuitIsSaved
  <2>1. task'[u] = task[u] /\ QuitSaved(u)
    BY <1>1, <1>4, NoTaskKind DEF SessionsInv, QuitIsSaved
  <2>2. ASSUME NEW v \in OpenWindows'
        PROVE  v \in OpenWindows /\ shown'[v] = shown[v] /\ workspace'[shown'[v]] = workspace[shown[v]]
    <3>1. v \in Windows /\ v \in OpenWindows /\ shown'[v] = shown[v] /\ shown[v] \in Handles
      BY <1>9 DEF OpenWindows
    <3>2. shown[v] \in AliveNow'
      BY <1>8, <3>1 DEF IsShown
    <3> QED
      BY <1>6, <3>1, <3>2
  <2>3. ASSUME NEW v \in OpenWindows', v \notin task'[u].left,
               workspace'[shown'[v]].path # None, workspace'[shown'[v]].inSession
        PROVE  Settled(rows', queue', workspace'[shown'[v]].path, run')
    BY <1>2, <2>1, <2>2, <2>3 DEF QuitSaved
  <2>4. ASSUME task[u].step = "flush", NEW v, v = task[u].window
        PROVE  /\ v \in Windows /\ shown'[v] \in {0, task[u].workspace}
               /\ shown'[v] # 0 => v \in OpenWindows' /\ IsOpen(v) /\ shown'[v] = task[u].workspace
    BY <1>4, <2>1, <2>4 DEF QuitSaved, OpenWindows, IsOpen
  <2>5. ASSUME task[u].step = "flush", IsOpen(task[u].window)', NEW p,
               p = workspace'[task[u].workspace].path, p # None,
               workspace'[task[u].workspace].inSession
        PROVE  OnItsWay(u, p, run)'
    <3>1. workspace'[task[u].workspace] = workspace[task[u].workspace] /\ IsOpen(task[u].window)
      <4> DEFINE v == task[u].window
      <4>1. shown'[v] # 0
        BY <2>1, <2>5 DEF IsOpen
      <4>2. v \in OpenWindows' /\ IsOpen(v) /\ shown'[v] = task[u].workspace
        BY <2>4, <2>5, <4>1
      <4> QED
        BY <2>2, <4>2
    <3>2. OnItsWay(u, p, run)
      BY <2>1, <2>5, <3>1 DEF QuitSaved
    <3> QED
      BY <1>2, <3>2 DEF OnItsWay
  <2>6. task[u].step = "flush" => /\ task[u].window \in Windows
                                  /\ shown'[task[u].window] \in {0, task[u].workspace}
    BY <2>4
  <2> QED
    BY <2>1, <2>3, <2>5, <2>6 DEF QuitSaved, OnItsWay
<1> QED
  BY <1>22, <1>23, <1>25, <1>26, <1>27, <1>28 DEF SessionsInv
(* A workspace comes, perhaps in place of one that left the session: no    *)
(* window is closing as the last, and the program does not quit.           *)
LEMMA CreateSession ==
  ASSUME Within, LocationUnique, WorkspaceInv', NEW t \in AllTasks, NEW w \in Targets(t), NEW id,
         NEW path, NEW then, Create(t, w, id, path, then), UNCHANGED queue, excuse' = {},
         task[t].step \in {"load", "id"}, then.step \in {"none", "restore"},
         then.kind \in {"none", "open"}, ~then.preserve, then.workspace \in {0, FreeHandle}
  PROVE  CommandsInv' /\ SessionsInv'
<1> SUFFICES ASSUME NEW f, f = FreeHandle PROVE CommandsInv' /\ SessionsInv'
  OBVIOUS
<1> DEFINE given == NewWorkspace(id, path)
<1>1. /\ WorkspaceInv /\ KindOk(task[t]) /\ CommandsInv /\ SessionsInv /\ w \in Windows
      /\ run # 0 /\ Len(queue) \in Nat
  BY TargetsKnown, QueueTyped DEF Within, KindsOk
<1>2. /\ shown' = [shown EXCEPT ![w] = f] /\ task' = [task EXCEPT ![t] = then]
      /\ UNCHANGED <<rows, run, lastClosed>> /\ Oddities(t, w, path) = {}
      /\ workspace' = Surviving([workspace EXCEPT ![f] = given])
      /\ f \in Handles /\ ~Alive(f) /\ \A u \in AllTasks : task[u].workspace # f
  BY DEF Create, FreeHandle, FreeHandles, programVars
<1>3. /\ given.path = path /\ given.inSession /\ ~given.closing
      /\ path # None => given.scheduled
  BY DEF NewWorkspace
<1> HIDE DEF given
<1>4. /\ \A v \in Windows : shown'[v] = IF v = w THEN f ELSE shown[v]
      /\ \A u \in AllTasks : u # t => task'[u] = task[u]
      /\ task'[t] = then
  BY <1>1, <1>2, OthersWait DEF WorkspaceInv, ProgramOk
<1>5. /\ \A u \in Tasks : task[u].kind # "quit"
      /\ ~Ending
      /\ IsOpen(w) => shown[w] = task[t].workspace
  BY <1>2 DEF Oddities, Ending
<1>6. \A i \in Handles : Alive(i)' => workspace'[i] = [workspace EXCEPT ![f] = given][i]
  BY <1>2 DEF Surviving, Alive
<1>7. /\ f \in AliveNow' /\ workspace'[f] = given /\ IsShown(f)' /\ ~IsShown(f)
  <2>1. IsShown(f)' /\ ~IsShown(f)
    <3>1. shown'[w] = f
      BY <1>1, <1>4
    <3>2. \A v \in Windows : shown[v] # f
      BY <1>2 DEF Alive, HeldBy
    <3> QED
      BY <1>1, <3>1, <3>2 DEF IsShown
  <2>2. Alive(f)'
    BY <2>1 DEF IsShown, Alive, HeldBy
  <2>3. [workspace EXCEPT ![f] = given][f] = given
    BY <1>1, <1>2 DEF WorkspaceInv, WorkspacesOk, AreOk
  <2> QED
    BY <1>2, <1>6, <2>1, <2>2, <2>3 DEF AliveNow
<1>8. ASSUME NEW i \in AliveNow', i # f
      PROVE  i \in AliveNow /\ i \in Handles /\ workspace'[i] = workspace[i]
  <2>1. i \in Handles /\ i # 0 /\ HeldBy(i, shown', task')
    BY DEF AliveNow, Alive, Handles
  <2>2. Alive(i)
    BY <1>4, <1>8, <2>1 DEF Alive, HeldBy
  <2>3. workspace'[i] = workspace[i]
    BY <1>1, <1>6, <1>8, <2>1 DEF WorkspaceInv, WorkspacesOk, AreOk, Alive
  <2> QED
    BY <2>1, <2>2, <2>3 DEF AliveNow
<1>9. /\ \A i \in Handles : IsShown(i)' => i \in AliveNow' /\ (i = f \/ IsShown(i))
      /\ \A i \in Handles : IsShown(i) /\ shown[w] # i => IsShown(i)'
  BY <1>4 DEF IsShown, AliveNow, Alive, HeldBy
(* What the window showed is what the task closes.                         *)
<1>10. IsOpen(w) => /\ Closes(t) /\ task[t].window = w /\ shown[w] = task[t].workspace
                    /\ shown[w] \in Handles /\ ~workspace[shown[w]].inSession
  <2> SUFFICES ASSUME IsOpen(w)
               PROVE  /\ Closes(t) /\ task[t].window = w /\ shown[w] = task[t].workspace
                      /\ shown[w] \in Handles /\ ~workspace[shown[w]].inSession
    OBVIOUS
  <2>1. w \in OpenWindows
    BY <1>1 DEF OpenWindows
  <2>2. task[t].window = w /\ (task[t].replace \/ task[t].kind = "closeProject")
    BY <2>1 DEF Targets, NewWindows
  <2>3. Closes(t)
    BY <1>1, <2>2 DEF Closes, Leaves, KindOk
  <2>4. task[t].step # "flush"
    OBVIOUS
  <2> QED
    BY <1>1, <1>5, <2>2, <2>3, <2>4 DEF CommandsInv, LeftIsShown
<1>11. Closes(t) => IsOpen(w) /\ task[t].window = w
  BY <1>1 DEF Closes, Leaves, Targets, OpenWindows
<1>12. ASSUME NEW i \in Handles, IsShown(i)', i # f
       PROVE  ~Leaves(t, i) /\ IsShown(i)
  <2>1. PICK v \in Windows : v # w /\ shown[v] = i
    BY <1>4, <1>12 DEF IsShown
  <2>2. IsShown(i) /\ IsOpen(v)
    BY <1>1, <2>1, ShownIsAlive DEF IsShown
  <2>3. ASSUME Leaves(t, i) PROVE FALSE
    <3>1. Closes(t) /\ task[t].workspace = i
      BY <2>3, LeavesCloses
    <3>2. shown[w] = i
      BY <1>5, <1>11, <3>1
    <3> QED
      BY <1>1, <2>1, <2>2, <3>2 DEF CommandsInv, ShownOnce
  <2> QED
    BY <2>2, <2>3
<1>13. ASSUME NEW u \in AllTasks, Closes(u)', NEW i, i = task'[u].workspace
       PROVE  /\ u # t /\ task'[u] = task[u] /\ Closes(u) /\ i # f /\ i \in Handles
              /\ task[u].window \in Windows /\ shown'[task[u].window] = i
              /\ i \in AliveNow' /\ workspace'[i] = workspace[i]
  <2>1. u # t /\ task'[u] = task[u] /\ Closes(u)
    BY <1>4, <1>13 DEF Closes, Leaves
  <2>2. /\ i \in Handles /\ task[u].window \in Windows /\ shown[task[u].window] = i
        /\ i = task[u].workspace /\ i # f
    BY <1>1, <1>2, <1>13, <2>1 DEF CommandsInv, LeftIsShown
  <2>3. task[u].window # w
    <3>1. ASSUME task[u].window = w PROVE FALSE
      <4>1. IsOpen(w)
        BY <1>1, <2>2, <3>1, ShownIsAlive
      <4>2. Closes(t) /\ task[t].workspace = i
        BY <1>10, <2>2, <3>1, <4>1
      <4> QED
        BY <1>1, <2>1, <2>2, <4>2 DEF CommandsInv, OneLeaves
    <3> QED
      BY <3>1
  <2>4. shown'[task[u].window] = i
    BY <1>4, <2>2, <2>3
  <2>5. i \in AliveNow'
    BY <1>9, <2>2, <2>4 DEF IsShown
  <2> QED
    BY <1>8, <2>1, <2>2, <2>4, <2>5
<1>14. ASSUME NEW u \in AllTasks, u # t
       PROVE  \A j : Leaves(u, j)' <=> Leaves(u, j)
  BY <1>4, <1>14 DEF Leaves
<1>15. ~Ending'
  <2>1. w \in OpenWindows' /\ shown'[w] = f
    BY <1>1, <1>2, <1>4 DEF OpenWindows, IsOpen, Handles
  <2> QED
    BY <1>3, <1>7, <2>1 DEF Ending, Remaining
(* The commands.                                                           *)
<1>16. \A u \in AllTasks : CommandOk(u)'
  <2>1. CommandOk(t)'
    BY <1>4 DEF CommandOk
  <2> QED
    BY <1>1, <1>4, <2>1 DEF CommandsInv, CommandOk
<1>17. OneLeaves' /\ ShownOnce'
  <2>1. OneLeaves'
    BY <1>1, <1>13 DEF CommandsInv, OneLeaves
  <2>2. \A v \in Windows : shown[v] # f
    BY <1>7 DEF IsShown
  <2>3. ShownOnce'
    BY <1>1, <1>4, <2>2 DEF CommandsInv, ShownOnce, IsOpen
  <2> QED
    BY <2>1, <2>3
<1>18. LeftIsShown'
  <2> SUFFICES ASSUME NEW u \in AllTasks, Closes(u)', NEW j, j = task'[u].workspace
               PROVE  /\ j \in Handles /\ task'[u].window \in Windows
                      /\ shown'[task'[u].window] = j
                      /\ task'[u].step # "flush" => ~workspace'[j].inSession
                      /\ task'[u].kind = "closeWindow" => workspace'[j].closing
    BY DEF LeftIsShown
  <2>1. /\ task'[u] = task[u] /\ Closes(u) /\ j \in Handles /\ task[u].window \in Windows
        /\ shown'[task[u].window] = j /\ workspace'[j] = workspace[j]
    BY <1>13
  <2> QED
    BY <1>1, <2>1 DEF CommandsInv, LeftIsShown
<1>19. UnlistedIsLeft'
  <2> SUFFICES ASSUME NEW j \in Handles, IsShown(j)', ~workspace'[j].inSession
               PROVE  \E u \in AllTasks : Leaves(u, j)'
    BY DEF UnlistedIsLeft
  <2>1. j # f /\ IsShown(j) /\ ~workspace[j].inSession /\ ~Leaves(t, j)
    BY <1>3, <1>7, <1>8, <1>9, <1>12
  <2>2. PICK u \in AllTasks : Leaves(u, j)
    BY <1>1, <2>1 DEF CommandsInv, UnlistedIsLeft
  <2> QED
    BY <1>14, <2>1, <2>2
<1>20. ClosingIsLeft'
  <2> SUFFICES ASSUME NEW j \in Handles, IsShown(j)', workspace'[j].closing
               PROVE  \E u \in AllTasks : Leaves(u, j)' /\ task'[u].kind = "closeWindow"
    BY DEF ClosingIsLeft
  <2>1. j # f /\ IsShown(j) /\ workspace[j].closing /\ ~Leaves(t, j)
    BY <1>3, <1>7, <1>8, <1>9, <1>12
  <2>2. PICK u \in AllTasks : Leaves(u, j) /\ task[u].kind = "closeWindow"
    BY <1>1, <2>1 DEF CommandsInv, ClosingIsLeft
  <2> QED
    BY <1>4, <1>14, <2>1, <2>2
<1>21. HiddenIsLast'
  <2> SUFFICES ASSUME NEW j \in AliveNow', ~IsShown(j)', workspace'[j].inSession
               PROVE  FALSE
    BY DEF HiddenIsLast
  <2>1. j # f /\ j \in AliveNow /\ j \in Handles /\ workspace[j].inSession
    BY <1>7, <1>8
  <2>2. IsShown(j)
    BY <1>1, <1>5, <2>1 DEF CommandsInv, HiddenIsLast
  <2>3. shown[w] = j
    BY <1>9, <2>1, <2>2
  <2>4. IsOpen(w)
    BY <1>1, <2>1, <2>3, ShownIsAlive
  <2> QED
    BY <1>10, <2>1, <2>3, <2>4
<1>22. PreservedIsLast' /\ LastIsListed'
  <2>1. \A u \in AllTasks : ~Preserving(u)
    BY <1>1, <1>5 DEF CommandsInv, PreservedIsLast
  <2>2. \A u \in AllTasks : ~Preserving(u)'
    BY <1>4, <2>1 DEF Preserving
  <2> QED
    BY <1>15, <2>2 DEF PreservedIsLast, LastIsListed
<1>23. CommandsInv'
  BY <1>16, <1>17, <1>18, <1>19, <1>20, <1>21, <1>22 DEF CommandsInv
(* What is stored.                                                         *)
<1>24. SavedAsListed'
  BY <1>1, <1>2, <1>3, <1>7, <1>8 DEF SessionsInv, SavedAsListed, WillBe
<1>25. TouchedIsShown'
  <2> SUFFICES ASSUME NEW p \in Paths, Touched(rows, queue, p, run) PROVE Shows(p)'
    BY <1>2 DEF TouchedIsShown
  <2>1. PICK v \in OpenWindows : workspace[shown[v]].path = p
    BY <1>1, <1>5 DEF SessionsInv, TouchedIsShown, Shows
  <2>2. v \in Windows /\ IsOpen(v) /\ shown[v] \in Handles /\ shown[v] # f
    BY <1>1, <1>7, ShownIsAlive DEF OpenWindows, IsShown
  <2>3. CASE v = w
    <3>1. /\ Closes(t) /\ task[t].workspace = shown[w] /\ task[t].step \in {"load", "id"}
          /\ p # None
      BY <1>10, <2>2, <2>3, WorkspaceAssumption
    <3>2. Settled(rows, queue, p, 0)
      BY <1>1, <2>1, <2>3, <3>1 DEF SessionsInv, LeftIsOut
    <3> QED
      BY <1>1, <3>2, SettledOnOne
  <2>4. CASE v # w
    <3>1. shown'[v] = shown[v] /\ v \in OpenWindows'
      BY <1>4, <2>2, <2>4 DEF OpenWindows, IsOpen
    <3>2. shown[v] \in AliveNow'
      BY <1>9, <2>2, <3>1 DEF IsShown
    <3>3. workspace'[shown'[v]].path = p
      BY <1>8, <2>1, <2>2, <3>1, <3>2
    <3> QED
      BY <3>1, <3>3 DEF Shows
  <2> QED
    BY <2>3, <2>4
<1>26. LeftIsOut'
  <2> SUFFICES ASSUME NEW u \in AllTasks, Closes(u)', NEW p,
                      p = workspace'[task'[u].workspace].path, p # None
               PROVE  /\ task'[u].step = "unlisted" => OnItsWay(u, p, 0)'
                      /\ task'[u].step \in {"load", "id"} => Settled(rows', queue', p, 0)
    BY DEF LeftIsOut, OnItsWay
  <2>1. task'[u] = task[u] /\ Closes(u) /\ p = workspace[task[u].workspace].path
    BY <1>13
  <2>2. /\ task[u].step = "unlisted" => OnItsWay(u, p, 0)
        /\ task[u].step \in {"load", "id"} => Settled(rows, queue, p, 0)
    BY <1>1, <2>1 DEF SessionsInv, LeftIsOut
  <2> QED
    BY <1>2, <2>1, <2>2 DEF OnItsWay
<1>27. LastIsSaved'
  BY <1>15 DEF LastIsSaved
<1>28. QuitIsSaved'
  <2>1. \A u \in AllTasks : task[u].kind # "quit"
    BY <1>1, <1>5 DEF CommandsInv, CommandOk
  <2> QED
    BY <1>4, <2>1 DEF QuitIsSaved
<1> QED
  BY <1>23, <1>24, <1>25, <1>26, <1>27, <1>28 DEF SessionsInv

LEMMA CreatesSession ==
  ASSUME Within, LocationUnique, WorkspaceInv', NEW t \in AllTasks, LoadKnown(t) \/ IdArrived(t),
         excuse' = {}
  PROVE  CommandsInv' /\ SessionsInv'
<1>1. WorkspaceInv /\ KindOk(task[t]) /\ task[t] \in TaskState /\ CommandOk(t)
  BY KnownTask DEF Within, KindsOk, CommandsInv
<1>2. CASE LoadKnown(t)
  <2>1. PICK i \in RowsOf(task[t].path), w \in Targets(t) :
          Create(t, w, i, task[t].path,
                 [task[t] EXCEPT !.step = "restore", !.window = w, !.workspace = FreeHandle,
                                 !.id = i, !.stored = rows[i].pane])
    BY <1>2 DEF LoadKnown
  <2> DEFINE fresh == FreeHandle
             tk == [task[t] EXCEPT !.step = "restore", !.window = w, !.workspace = fresh,
                                   !.id = i, !.stored = rows[i].pane]
  <2>2. Create(t, w, i, task[t].path, tk) /\ UNCHANGED queue /\ task[t].step = "load"
    BY <1>2, <2>1 DEF LoadKnown
  <2>3. /\ tk.step = "restore" /\ tk.workspace = fresh /\ tk.kind = task[t].kind
        /\ tk.preserve = task[t].preserve
    BY <1>1 DEF TaskState
  <2> HIDE DEF tk
  <2>4. tk.kind = "open" /\ ~tk.preserve
    BY <1>1, <2>2, <2>3 DEF KindOk, CommandOk
  <2> QED
    BY <2>2, <2>3, <2>4, CreateSession
<1>3. CASE IdArrived(t)
  <2>1. PICK w \in Targets(t) : Create(t, w, task[t].id, task[t].path, NoTask)
    BY <1>3 DEF IdArrived
  <2>2. UNCHANGED queue /\ task[t].step = "id"
    BY <1>3 DEF IdArrived
  <2>3. NoTask.step = "none" /\ NoTask.kind = "none" /\ ~NoTask.preserve /\ NoTask.workspace = 0
    BY DEF NoTask
  <2> QED
    BY <2>1, <2>2, <2>3, CreateSession
<1> QED
  BY <1>2, <1>3
-----------------------------------------------------------------------------
(* The writing thread does what was queued.                                *)
LEMMA WrittenTakes ==
  ASSUME WorkspaceInv, LedgerNow, Written, NEW p, p # None
  PROVE  Takes(rows, queue, rows', queue', p)
<1> SUFFICES ASSUME NEW first, first = Head(queue) PROVE Takes(rows, queue, rows', queue', p)
  OBVIOUS
<1>1. /\ Len(queue) \in Nat \ {0} /\ first = queue[1] /\ first \in Write /\ 1 \in 1 .. Len(queue)
      /\ Len(queue') = Len(queue) - 1 /\ \A k \in 1 .. Len(queue') : queue'[k] = queue[k + 1]
  BY QueueTyped DEF Written
<1>2. \/ ApplySave(first) \/ ApplyItem(first) \/ ApplyCleanup(first) \/ ApplyClear(first)
      \/ ApplyNew(first)
  BY DEF Written
<1>3. first.op # "clear"
  BY <1>1 DEF LedgerNow, Ledger
<1>4. CASE first.op = "save"
  <2> SUFFICES ASSUME NEW n, n = first.id, NEW location, location = first.row.location
               PROVE  Takes(rows, queue, rows', queue', p)
    OBVIOUS
  <2>1. ApplySave(first)
    BY <1>2, <1>4 DEF ApplyItem, ApplyCleanup, ApplyClear, ApplyNew
  <2>2. first.row # None
    BY <1>1, <1>4, RowIsSome DEF Write
  <2>3. \A i \in Ids : rows'[i] = IF i = n THEN first.row
                                  ELSE IF rows[i] # None /\ rows[i].location = location
                                  THEN None ELSE rows[i]
    BY <2>1 DEF ApplySave, RowsOf
  <2>4. (\E i \in AliveNow : IdNow[i] = n) \/ Again(rows, queue, 1)
    BY <1>1, <1>4 DEF LedgerNow, Ledger, Owned
  <2>5. n \in Ids /\ (rows[n].location = None \/ rows[n].location = location)
    <3>1. CASE Again(rows, queue, 1)
      BY <1>1, <3>1 DEF Again
    <3>2. ASSUME NEW i \in AliveNow, IdNow[i] = n
          PROVE  n \in Ids /\ (rows[n].location = None \/ rows[n].location = location)
      <4>1. n \in Ids /\ (rows[n].location = None \/ rows[n].location = PathNow[i])
        BY <3>2 DEF LedgerNow, Ledger, Listed
      <4>2. location = PathNow[i]
        BY <1>1, <1>4, <3>2 DEF LedgerNow, Ledger, SavedThere, IsSave
      <4> QED
        BY <4>1, <4>2
    <3> QED
      BY <2>4, <3>1, <3>2
  <2>6. CASE location = p
    <3>1. ASSUME NEW i \in Ids, i # n, rows'[i] # None PROVE rows'[i].location # p
      BY <2>3, <2>6, <3>1
    <3>2. rows'[n] = first.row
      BY <2>3, <2>5
    <3> QED
      BY <1>1, <1>4, <2>2, <2>5, <2>6, <3>1, <3>2 DEF Takes, SavesAt
  <2>7. CASE location # p
    <3>1. ASSUME NEW i \in Ids, rows[i] # None, rows[i].location = p PROVE rows'[i] = rows[i]
      BY <2>3, <2>5, <2>7, <3>1
    <3>2. ASSUME NEW i \in Ids, rows'[i] # None, rows'[i].location = p PROVE rows'[i] = rows[i]
      BY <2>3, <2>7, <3>2
    <3> QED
      BY <1>1, <2>7, <3>1, <3>2 DEF Takes, SavesAt
  <2> QED
    BY <2>6, <2>7
<1>5. CASE first.op = "new"
  <2> DEFINE n == NewRowId
             fresh == [location |-> None, pane |-> NoItems, session |-> 0]
  <2>1. n <= MaxId /\ rows' = [rows EXCEPT ![n] = fresh]
    BY <1>2, <1>5 DEF ApplySave, ApplyItem, ApplyCleanup, ApplyClear, ApplyNew
  <2>2. n \in Ids /\ rows[n] = None
    BY <2>1, NewRowIdKnown
  <2>3. fresh.location # p
    OBVIOUS
  <2> HIDE DEF n, fresh
  <2>4. \A i \in Ids : rows'[i] = IF i = n THEN fresh ELSE rows[i]
    BY <2>1 DEF WorkspaceInv, StoredOk
  <2> QED
    BY <1>1, <1>5, <2>2, <2>3, <2>4 DEF Takes, SavesAt
<1>6. CASE first.op \in {"item", "cleanup"}
  <2>1. UNCHANGED rows
    BY <1>2, <1>6 DEF ApplySave, ApplyItem, ApplyCleanup, ApplyClear, ApplyNew
  <2> QED
    BY <1>1, <1>6, <2>1 DEF Takes, SavesAt
<1> QED
  BY <1>2, <1>3, <1>4, <1>5, <1>6 DEF ApplySave, ApplyItem, ApplyCleanup, ApplyClear, ApplyNew

LEMMA WrittenTask ==
  ASSUME WorkspaceInv, Written, NEW t \in AllTasks
  PROVE  /\ task'[t].step = task[t].step /\ task'[t].kind = task[t].kind
         /\ task'[t].workspace = task[t].workspace /\ task'[t].window = task[t].window
         /\ task'[t].preserve = task[t].preserve /\ task'[t].replace = task[t].replace
         /\ task'[t].left = task[t].left
<1>1. task[t] \in TaskState
  BY KnownTask
<1>2. UNCHANGED task \/ \E u, n : task' = [task EXCEPT ![u].id = n]
  BY DEF Written
<1>3. ASSUME NEW u, NEW n, task' = [task EXCEPT ![u].id = n]
      PROVE  task'[t] = task[t] \/ task'[t] = [task[t] EXCEPT !.id = n]
  BY <1>3 DEF WorkspaceInv, TasksOk
<1>4. CASE task'[t] = task[t]
  BY <1>4
<1>5. ASSUME NEW n, task'[t] = [task[t] EXCEPT !.id = n]
      PROVE  /\ task'[t].step = task[t].step /\ task'[t].kind = task[t].kind
             /\ task'[t].workspace = task[t].workspace /\ task'[t].window = task[t].window
             /\ task'[t].preserve = task[t].preserve /\ task'[t].replace = task[t].replace
             /\ task'[t].left = task[t].left
  BY <1>1, <1>5 DEF TaskState
<1>6. CASE UNCHANGED task
  BY <1>4, <1>6
<1> QED
  BY <1>2, <1>3, <1>4, <1>5, <1>6

LEMMA WrittenSession ==
  ASSUME Within, WorkspaceInv', Written
  PROVE  CommandsInv' /\ SessionsInv'
<1>1. /\ WorkspaceInv /\ LedgerNow /\ CommandsInv /\ SessionsInv
      /\ UNCHANGED <<shown, workspace, run, lastClosed>>
  BY DEF Within, IdsInv, Written, programVars, ghostVars
<1>2. \A t \in AllTasks :
        /\ task'[t].step = task[t].step /\ task'[t].kind = task[t].kind
        /\ task'[t].workspace = task[t].workspace /\ task'[t].window = task[t].window
        /\ task'[t].preserve = task[t].preserve /\ task'[t].replace = task[t].replace
        /\ task'[t].left = task[t].left
  BY <1>1, WrittenTask
<1>3. \A p : p # None => Takes(rows, queue, rows', queue', p)
  BY <1>1, WrittenTakes
<1>4. \A i \in Handles : Alive(i)' <=> Alive(i)
  BY <1>1, <1>2 DEF Alive, HeldBy
<1>5. \A t \in AllTasks : StaysAs(t) /\ CommandOk(t)' /\ (Preserving(t)' <=> Preserving(t))
  BY <1>1, <1>2 DEF StaysAs, Closes, Leaves, CommandsInv, CommandOk, Preserving
<1>6. CommandsInv'
  <2>1. SameListed /\ SameClosing
    BY <1>1, <1>4 DEF SameListed, SameClosing
  <2> QED
    BY <1>1, <1>5, <2>1, SteadyCommands
<1>7. Ending' <=> Ending
  BY <1>1 DEF Ending, Remaining, OpenWindows, IsOpen
<1>8. ASSUME NEW p, p # None, NEW s
      PROVE  /\ Settled(rows, queue, p, s) => Settled(rows', queue', p, s)
             /\ Queued(queue, p, s) => Queued(queue', p, s) \/ Settled(rows', queue', p, s)
             /\ \A t : AwaitedAs(queue, t, p, s)
                         => AwaitedAs(queue', t, p, s) \/ Settled(rows', queue', p, s)
             /\ Touched(rows', queue', p, s) => Touched(rows, queue, p, s)
  BY <1>3, <1>8, TakenSays
<1>9. SavedAsListed'
  <2> SUFFICES ASSUME NEW i \in AliveNow', NEW p, p = workspace'[i].path, p # None,
                      workspace'[i].inSession, ~workspace'[i].scheduled
               PROVE  Settled(rows', queue', p, run) \/ Queued(queue', p, run)
    BY <1>1 DEF SavedAsListed, WillBe
  <2>1. i \in AliveNow
    BY <1>4 DEF AliveNow
  <2>2. Settled(rows, queue, p, run) \/ Queued(queue, p, run)
    BY <1>1, <2>1 DEF SessionsInv, SavedAsListed, WillBe
  <2> QED
    BY <1>8, <2>2
<1>10. TouchedIsShown'
  <2> SUFFICES ASSUME NEW p \in Paths, Touched(rows', queue', p, run)
               PROVE  Shows(p)' \/ (Ending' /\ p = lastClosed')
    BY <1>1 DEF TouchedIsShown
  <2>1. Touched(rows, queue, p, run)
    BY <1>8, WorkspaceAssumption
  <2>2. Shows(p) \/ (Ending /\ p = lastClosed)
    BY <1>1, <2>1 DEF SessionsInv, TouchedIsShown
  <2>3. Shows(p) => Shows(p)'
    BY <1>1 DEF Shows, OpenWindows, IsOpen
  <2> QED
    BY <1>1, <1>7, <2>2, <2>3
<1>11. LeftIsOut'
  <2> SUFFICES ASSUME NEW t \in AllTasks, Closes(t)', NEW p,
                      p = workspace'[task'[t].workspace].path, p # None
               PROVE  /\ task'[t].step = "unlisted" =>
                           Settled(rows', queue', p, 0) \/ AwaitedAs(queue', t, p, 0)
                      /\ task'[t].step \in {"load", "id"} => Settled(rows', queue', p, 0)
    BY DEF LeftIsOut, OnItsWay
  <2>1. Closes(t) /\ task'[t].step = task[t].step /\ p = workspace[task[t].workspace].path
    BY <1>1, <1>2, <1>5 DEF StaysAs
  <2>2. /\ task[t].step = "unlisted" =>
             Settled(rows, queue, p, 0) \/ AwaitedAs(queue, t, p, 0)
        /\ task[t].step \in {"load", "id"} => Settled(rows, queue, p, 0)
    BY <1>1, <2>1 DEF SessionsInv, LeftIsOut, OnItsWay
  <2> QED
    BY <1>8, <2>1, <2>2
<1>12. LastIsSaved'
  <2> SUFFICES ASSUME Ending', NEW p, p = lastClosed', p # None
               PROVE  \/ Settled(rows', queue', p, run)
                      \/ \E t \in AllTasks : Preserving(t)' /\ AwaitedAs(queue', t, p, run)
    BY <1>1 DEF LastIsSaved
  <2>1. \/ Settled(rows, queue, p, run)
        \/ \E t \in AllTasks : Preserving(t) /\ AwaitedAs(queue, t, p, run)
    BY <1>1, <1>7 DEF SessionsInv, LastIsSaved
  <2> QED
    BY <1>5, <1>8, <2>1
<1>13. QuitIsSaved'
  <2> SUFFICES ASSUME NEW t \in AllTasks, task'[t].kind = "quit" PROVE QuitSaved(t)'
    BY DEF QuitIsSaved
  <2>1. QuitSaved(t)
    BY <1>1, <1>2 DEF SessionsInv, QuitIsSaved
  <2>2. OpenWindows' = OpenWindows
    BY <1>1 DEF OpenWindows, IsOpen
  <2>3. ASSUME NEW w \in OpenWindows \ task[t].left, NEW p, p = workspace[shown[w]].path,
               p # None, workspace[shown[w]].inSession
        PROVE  Settled(rows', queue', p, run)
    BY <1>8, <2>1, <2>3 DEF QuitSaved
  <2>4. ASSUME task[t].step = "flush", IsOpen(task[t].window), NEW p,
               p = workspace[task[t].workspace].path, p # None,
               workspace[task[t].workspace].inSession
        PROVE  Settled(rows', queue', p, run) \/ AwaitedAs(queue', t, p, run)
    BY <1>8, <2>1, <2>4 DEF QuitSaved, OnItsWay
  <2> QED
    BY <1>1, <1>2, <2>1, <2>2, <2>3, <2>4 DEF QuitSaved, OnItsWay, IsOpen
<1> QED
  BY <1>6, <1>9, <1>10, <1>11, <1>12, <1>13 DEF SessionsInv
-----------------------------------------------------------------------------
(* A run begins with no row of its session.                                *)
LEMMA StartSession ==
  ASSUME WorkspaceInv, OwnersInv, NoneToCome, Start
  PROVE  CommandsInv' /\ SessionsInv'
<1>1. /\ queue = <<>> /\ task = [t \in AllTasks |-> NoTask] /\ shown' = [w \in Windows |-> 0]
      /\ Boot \in AllTasks /\ rows' = rows /\ run' = run + 1 /\ run \in Nat
  BY WorkspaceAssumption DEF OwnersInv, Stopped, Start, AllTasks, WorkspaceInv, ProgramOk, Sessions
<1>2. ASSUME NEW t \in AllTasks
      PROVE  /\ task'[t].workspace = 0 /\ task'[t].kind \in {"none", "empty"}
             /\ task'[t].step \in {"none", "id"} /\ ~task'[t].preserve /\ ~task'[t].replace
  <2>1. CASE task'[t] = NoTask
    BY <2>1 DEF NoTask
  <2>2. CASE task'[t] = [NoTask EXCEPT !.kind = "empty", !.step = "id"]
    BY <2>2 DEF NoTask
  <2> QED
    BY <1>1, <2>1, <2>2 DEF Start
<1>3. \A k \in 1 .. Len(queue') : queue'[k].op # "save"
  <2>1. CASE Enqueued(NewWrite(Boot))
    <3>1. queue' = <<NewWrite(Boot)>>
      BY <1>1, <2>1 DEF Enqueued
    <3> QED
      BY <3>1 DEF NewWrite
  <2>2. CASE UNCHANGED queue
    BY <1>1, <2>2
  <2> QED
    BY <2>1, <2>2 DEF Start
<1>4. /\ AliveNow' = {} /\ OpenWindows' = {} /\ ~Ending' /\ \A i \in Handles : ~IsShown(i)'
      /\ \A t \in AllTasks : ~Closes(t)' /\ ~Preserving(t)' /\ CommandOk(t)'
  <2>1. AliveNow' = {} /\ OpenWindows' = {} /\ \A i \in Handles : ~IsShown(i)'
    BY <1>1, <1>2 DEF AliveNow, Alive, HeldBy, Handles, OpenWindows, IsOpen, IsShown
  <2>2. ASSUME NEW t \in AllTasks PROVE ~Closes(t)' /\ ~Preserving(t)' /\ CommandOk(t)'
    BY <1>2 DEF Closes, Leaves, Preserving, CommandOk
  <2> QED
    BY <2>1, <2>2 DEF Ending
<1>5. CommandsInv'
  <2>1. OneLeaves' /\ LeftIsShown' /\ UnlistedIsLeft' /\ ClosingIsLeft' /\ HiddenIsLast'
        /\ PreservedIsLast' /\ LastIsListed'
    BY <1>4 DEF OneLeaves, LeftIsShown, UnlistedIsLeft, ClosingIsLeft, HiddenIsLast,
                PreservedIsLast, LastIsListed
  <2>2. ShownOnce'
    BY <1>1 DEF ShownOnce, IsOpen
  <2> QED
    BY <1>4, <2>1, <2>2 DEF CommandsInv
<1>6. TouchedIsShown'
  <2> SUFFICES ASSUME NEW p \in Paths, Touched(rows', queue', p, run') PROVE FALSE
    BY DEF TouchedIsShown
  <2>1. PICK i \in Ids : rows[i] # None /\ rows[i].session = run + 1
    BY <1>1, <1>3 DEF Touched, StoredAs, SavesAt
  <2> QED
    BY <1>1, <2>1 DEF NoneToCome
<1>7. SavedAsListed' /\ LeftIsOut' /\ LastIsSaved' /\ QuitIsSaved'
  BY <1>2, <1>4 DEF SavedAsListed, LeftIsOut, LastIsSaved, QuitIsSaved
<1> QED
  BY <1>5, <1>6, <1>7 DEF SessionsInv
-----------------------------------------------------------------------------
(* What is stored once nobody closes a workspace, or the last one closes.  *)
LEMMA PathsOfSession ==
  ASSUME WorkspaceInv, NEW s
  PROVE  \A p : p \in SessionPaths(s) <=> p \in Paths /\ StoredAs(rows, p, s)
<1>1. ASSUME NEW i \in SessionRows(s) PROVE rows[i].location \in Paths
  BY <1>1, SessionPathsKnown DEF SessionPaths
<1>2. ASSUME NEW p \in SessionPaths(s) PROVE p \in Paths /\ StoredAs(rows, p, s)
  BY <1>1, <1>2 DEF SessionPaths, SessionRows, StoredAs
<1>3. ASSUME NEW p \in Paths, StoredAs(rows, p, s) PROVE p \in SessionPaths(s)
  BY <1>3, WorkspaceAssumption DEF SessionPaths, SessionRows, StoredAs
<1> QED
  BY <1>2, <1>3

LEMMA NobodyCloses ==
  ASSUME WorkspaceInv, CommandsInv, \A t \in AllTasks : ~Closes(t)
  PROVE  ~Ending /\ \A w \in OpenWindows : workspace[shown[w]].inSession
<1>1. \A w \in OpenWindows : shown[w] \in Handles /\ IsShown(shown[w])
  BY ShownIsAlive DEF OpenWindows, IsShown
<1>2. \A w \in OpenWindows : workspace[shown[w]].inSession /\ ~workspace[shown[w]].closing
  BY <1>1, LeavesCloses DEF CommandsInv, UnlistedIsLeft, ClosingIsLeft
<1> QED
  BY <1>2 DEF Ending, Remaining

(* All that is shown is stored: the session is what is shown.              *)
LEMMA AllIsStored ==
  ASSUME WorkspaceInv, SessionsInv, ~Ending,
         \A w \in OpenWindows : workspace[shown[w]].path # None =>
           Settled(rows, queue, workspace[shown[w]].path, run)
  PROVE  SessionPaths(run) = ShownPaths
<1>1. ASSUME NEW p \in Paths, StoredAs(rows, p, run) PROVE p \in ShownPaths
  BY <1>1, WorkspaceAssumption DEF SessionsInv, TouchedIsShown, Touched, Shows, ShownPaths
<1>2. ASSUME NEW w \in OpenWindows, workspace[shown[w]].path # None
      PROVE  workspace[shown[w]].path \in Paths /\ StoredAs(rows, workspace[shown[w]].path, run)
  <2>1. shown[w] \in Handles
    BY ShownIsAlive DEF OpenWindows
  <2>2. workspace[shown[w]] \in WorkspaceState
    BY <2>1, KnownWorkspace
  <2> QED
    BY <1>2, <2>2 DEF WorkspaceState, Settled
<1>3. \A p : p \in ShownPaths <=> p \in Paths /\ StoredAs(rows, p, run)
  BY <1>1, <1>2 DEF ShownPaths
<1> QED
  BY <1>3, PathsOfSession

LEMMA RestingSession ==
  ASSUME WorkspaceInv, KindsOk, CommandsInv, SessionsInv, AtRest
  PROVE  SessionPaths(run) = ShownPaths
<1>1. \A t \in AllTasks : ~Closes(t)
  BY DEF AtRest, Idle, KindsOk, KindOk, Closes, Leaves
<1>2. ~Ending /\ \A w \in OpenWindows : workspace[shown[w]].inSession
  BY <1>1, NobodyCloses
<1>3. ASSUME NEW w \in OpenWindows, workspace[shown[w]].path # None
      PROVE  Settled(rows, queue, workspace[shown[w]].path, run)
  <2>1. shown[w] \in Handles /\ Alive(shown[w]) /\ shown[w] \in AliveNow
    BY ShownIsAlive DEF OpenWindows, AliveNow
  <2>2. WillBe(workspace[shown[w]].path, run)
    BY <1>2, <1>3, <2>1 DEF AtRest, SessionsInv, SavedAsListed
  <2> QED
    BY <2>2 DEF AtRest, WillBe, Queued
<1> QED
  BY <1>2, <1>3, AllIsStored

LEMMA QuitSession ==
  ASSUME WorkspaceInv, KindsOk, CommandsInv, SessionsInv, NEW t \in AllTasks, QuitEnds(t), Calm(t)
  PROVE  SessionPaths(run) = ShownPaths
<1>1. task[t].kind = "quit" /\ task[t].left = {} /\ QuitSaved(t)
  BY DEF QuitEnds, SessionsInv, QuitIsSaved
<1>2. \A u \in AllTasks : ~Closes(u)
  BY <1>1 DEF Calm, Idle, KindsOk, KindOk, Closes, Leaves
<1>3. ~Ending /\ \A w \in OpenWindows : workspace[shown[w]].inSession
  BY <1>2, NobodyCloses
<1>4. \A w \in OpenWindows : workspace[shown[w]].path # None =>
        Settled(rows, queue, workspace[shown[w]].path, run)
  BY <1>1, <1>3 DEF QuitSaved
<1> QED
  BY <1>3, <1>4, AllIsStored

LEMMA LastWindowSession ==
  ASSUME WorkspaceInv, LocationUnique, KindsOk, CommandsInv, SessionsInv, run # 0,
         NEW t \in AllTasks, RemoveWindow(t), Calm(t), OpenWindows = {task[t].window},
         shown[task[t].window] = task[t].workspace
  PROVE  SessionPaths(run) = {lastClosed} \ {None}
<1> SUFFICES ASSUME NEW i, i = task[t].workspace, NEW w, w = task[t].window
             PROVE  SessionPaths(run) = {lastClosed} \ {None}
  OBVIOUS
<1>1. /\ task[t].kind = "closeWindow" /\ Prepared(t) /\ ~Awaits(t) /\ Closes(t)
      /\ shown[w] = i /\ OpenWindows = {w} /\ Len(queue) \in Nat
      /\ i \in Handles /\ workspace[i].closing
  BY QueueTyped DEF RemoveWindow, Prepared, Closes, Leaves, CommandsInv, LeftIsShown
<1>2. Ending
  BY <1>1 DEF Ending, Remaining
<1>3. ASSUME NEW p, NEW s PROVE ~AwaitedAs(queue, t, p, s)
  BY <1>1 DEF AwaitedAs, Awaits
<1>4. \A u \in AllTasks \ {t} : ~Preserving(u)
  BY DEF Calm, Idle, Preserving
<1>5. lastClosed # None => Settled(rows, queue, lastClosed, run)
  BY <1>2, <1>3, <1>4 DEF SessionsInv, LastIsSaved
<1>6. ASSUME NEW p \in Paths, StoredAs(rows, p, run) PROVE p = lastClosed
  <2>1. Touched(rows, queue, p, run) /\ p # None
    BY <1>6, WorkspaceAssumption DEF Touched
  <2>2. p = workspace[i].path \/ p = lastClosed
    BY <1>1, <2>1 DEF SessionsInv, TouchedIsShown, Shows
  <2>3. CASE Preserving(t)
    BY <2>2, <2>3 DEF CommandsInv, PreservedIsLast
  <2>4. CASE task[t].step = "unlisted"
    <3>1. p = workspace[i].path => Settled(rows, queue, p, 0)
      BY <1>1, <1>3, <2>1, <2>4 DEF SessionsInv, LeftIsOut, OnItsWay
    <3>2. p # workspace[i].path
      BY <1>1, <2>1, <3>1, SettledOnOne
    <3> QED
      BY <2>2, <3>2
  <2> QED
    BY <1>1, <2>3, <2>4 DEF Prepared, Preserving
<1>7. ASSUME lastClosed # None PROVE lastClosed \in Paths /\ StoredAs(rows, lastClosed, run)
  <2>1. PICK j \in Ids : rows[j] # None /\ rows[j].location = lastClosed /\ rows[j].session = run
    BY <1>5, <1>7 DEF Settled, StoredAs
  <2>2. rows[j] \in SoundRow
    BY <2>1 DEF WorkspaceInv, StoredOk
  <2> QED
    BY <1>7, <2>1, <2>2 DEF SoundRow, StoredAs
<1>8. \A p : p \in {lastClosed} \ {None} <=> p \in Paths /\ StoredAs(rows, p, run)
  BY <1>6, <1>7, WorkspaceAssumption
<1> QED
  BY <1>8, PathsOfSession

(* The program ends.                                                       *)
LEMMA DownSession ==
  ASSUME WorkspaceInv, LocationUnique, KindsOk, up, run # 0, excuse = {} => CommandsInv /\ SessionsInv,
         Next, Down, expected' # None
  PROVE  SessionPaths(run)' = expected'
<1>1. SessionPaths(run)' = SessionPaths(run)
  BY DEF Down, SessionPaths, SessionRows
<1>2. ASSUME NEW t \in AllTasks, QuitEnds(t) PROVE SessionPaths(run) = expected'
  <2>1. Calm(t) /\ expected' = ShownPaths
    BY <1>2 DEF QuitEnds
  <2> QED
    BY <1>2, <2>1, QuitSession DEF Calm
<1>3. ASSUME NEW t \in AllTasks, RemoveWindow(t), OpenWindows = {task[t].window}
      PROVE  SessionPaths(run) = expected'
  <2>1. /\ Calm(t) /\ shown[task[t].window] = task[t].workspace
        /\ expected' = {lastClosed} \ {None}
    BY <1>3 DEF RemoveWindow
  <2> QED
    BY <1>3, <2>1, LastWindowSession DEF Calm
<1>4. ~Crash
  BY DEF Crash
<1>5. ~up' /\ up
  BY DEF Down
<1>6. \E t \in AllTasks : QuitEnds(t) \/ (RemoveWindow(t) /\ OpenWindows = {task[t].window})
  BY <1>4, <1>5, OnlyEnds
<1> QED
  BY <1>1, <1>2, <1>3, <1>6
-----------------------------------------------------------------------------
(* No step but the start of a run saves anything of a session to come.     *)
OfThisRun ==
  /\ Prolongs(queue, queue') /\ UNCHANGED <<rows, run>>
  /\ \A k \in Len(queue) + 1 .. Len(queue') :
       queue'[k].op = "save" => queue'[k].row.session \in {0, run}

LEMMA QueuesOfThisRun ==
  ASSUME WorkspaceInv, UNCHANGED <<rows, run>>,
         \/ UNCHANGED queue
         \/ \E write : Enqueued(write) /\ write.op # "save"
         \/ \E ws, by : queue' = queue \o Saves(ws, by)
  PROVE  OfThisRun
<1>1. queue \in Seq(Write) /\ Len(queue) \in Nat
  BY QueueTyped
<1>2. ASSUME UNCHANGED queue PROVE OfThisRun
  BY <1>1, <1>2 DEF OfThisRun, Prolongs
<1>3. ASSUME NEW write, queue' = Append(queue, write),
             write.op = "save" => write.row.session \in {0, run}
      PROVE  OfThisRun
  <2>1. /\ Len(queue') = Len(queue) + 1
        /\ \A k \in 1 .. Len(queue) : queue'[k] = queue[k]
        /\ queue'[Len(queue) + 1] = write
    BY <1>1, <1>3
  <2>2. \A k \in Len(queue) + 1 .. Len(queue') : k = Len(queue) + 1
    BY <1>1, <2>1
  <2> QED
    BY <1>1, <1>3, <2>1, <2>2 DEF OfThisRun, Prolongs
<1>4. ASSUME NEW ws, NEW by, queue' = queue \o Saves(ws, by) PROVE OfThisRun
  <2>1. CASE ws.path = None
    BY <1>1, <1>2, <1>4, <2>1 DEF Saves
  <2>2. CASE ws.path # None
    <3> DEFINE session == IF ws.inSession THEN run ELSE 0
               write == SaveWrite(ws.id, ws.path, StoredOf(ws.pane), session, by)
    <3>1. queue' = Append(queue, write)
      BY <1>1, <1>4, <2>2 DEF Saves
    <3>2. write.row.session \in {0, run}
      BY DEF SaveWrite
    <3> QED
      BY <1>3, <3>1, <3>2
  <2> QED
    BY <2>1, <2>2
<1> QED
  BY <1>2, <1>3, <1>4 DEF Enqueued

LEMMA StepsOfThisRun ==
  ASSUME WorkspaceInv, Next, ~Start, ~Written, ~Down
  PROVE  OfThisRun
<1> USE DEF programVars, dbVars
<1>1. \A t : NewWrite(t).op # "save"
  BY DEF NewWrite
<1>2. ASSUME NEW p \in Paths, Reopen(p) PROVE OfThisRun
  BY <1>2, QueuesOfThisRun DEF Reopen
<1>3. ASSUME NEW t \in Tasks, CommandStep(t) PROVE OfThisRun
  <2>1. CASE \E w \in Windows : CloseProject(t, w) \/ CloseWindow(t, w) \/ QuitAborts(t, w)
    BY <2>1, QueuesOfThisRun DEF CloseProject, CloseWindow, QuitAborts
  <2>2. ASSUME NEW w \in Windows, QuitPrepares(t, w) PROVE OfThisRun
    BY <2>2, QueuesOfThisRun DEF QuitPrepares, Prepare
  <2>3. ASSUME NEW w \in Windows, NEW p, NEW newWindow, OpenProject(t, w, p, newWindow)
        PROVE  OfThisRun
    BY <2>3, QueuesOfThisRun DEF OpenProject
  <2>4. ASSUME NEW w \in Windows, NEW f, NEW preview, OpenFile(t, w, f, preview)
        PROVE  OfThisRun
    BY <2>4, QueuesOfThisRun DEF OpenFile
  <2>5. CASE Quit(t)
    BY <2>5, QueuesOfThisRun DEF Quit
  <2> QED
    BY <1>3, <2>1, <2>2, <2>3, <2>4, <2>5 DEF CommandStep
<1>4. ASSUME NEW t \in AllTasks, TaskStep(t) PROVE OfThisRun
  <2>1. CASE PrepareToClose(t) \/ GiveUp(t) \/ FoundOpen(t)
    BY <2>1, QueuesOfThisRun DEF PrepareToClose, Prepare, GiveUp, FoundOpen
  <2>2. CASE RemoveFromSession(t)
    BY <2>2, QueuesOfThisRun DEF RemoveFromSession
  <2>3. CASE StartLoad(t) \/ LoadKnown(t) \/ IdArrived(t)
    BY <2>3, QueuesOfThisRun DEF StartLoad, LoadKnown, IdArrived, Create
  <2>4. CASE LoadNew(t) \/ ReplaceByEmpty(t)
    BY <1>1, <2>4, QueuesOfThisRun DEF LoadNew, ReplaceByEmpty
  <2>5. CASE LoadFailed(t)
    BY <1>1, <2>5, QueuesOfThisRun DEF LoadFailed
  <2>6. CASE ReadItems(t) \/ RestoreEnd(t)
    BY <2>6, QueuesOfThisRun DEF ReadItems, RestoreEnd
  <2>7. CASE RestoreItems(t)
    <3>1. UNCHANGED <<rows, run>>
      BY <2>7 DEF RestoreItems
    <3>2. \/ queue' = queue \o Saves(workspace[task[t].workspace], None)
          \/ \E items : Enqueued(CleanupWrite(task[t].id, items, t))
      BY <2>7 DEF RestoreItems
    <3>3. \A items : CleanupWrite(task[t].id, items, t).op # "save"
      BY DEF CleanupWrite
    <3> QED
      BY <3>1, <3>2, <3>3, QueuesOfThisRun
  <2>8. CASE RemoveWindow(t) \/ QuitGoesOn(t) \/ QuitEnds(t) \/ FileBuilt(t)
    BY <2>8, QueuesOfThisRun DEF RemoveWindow, QuitGoesOn, QuitEnds, FileBuilt
  <2> QED
    BY <1>4, <2>1, <2>2, <2>3, <2>4, <2>5, <2>6, <2>7, <2>8 DEF TaskStep
<1>5. ASSUME NEW i \in Handles, TimerSaves(i) PROVE OfThisRun
  BY <1>5, QueuesOfThisRun DEF TimerSaves
<1>6. ASSUME NEW i \in Handles, ItemsSent(i) PROVE OfThisRun
  BY <1>6, ItemsSentGrows DEF ItemsSent, OfThisRun
<1>7. ASSUME NEW w \in Windows, ClearRecent(w) PROVE OfThisRun
  BY <1>7, QueuesOfThisRun DEF ClearRecent, ClearWrite
<1>8. ASSUME NEW w \in Windows, TabStep(w) PROVE OfThisRun
  BY <1>8, QueuesOfThisRun DEF TabStep, SelectTab, CloseItem, DragTab, KeepPreview, PaneChanges
<1>9. ~Crash
  BY DEF Crash
<1> QED
  BY <1>2, <1>3, <1>4, <1>5, <1>6, <1>7, <1>8, <1>9 DEF Next

LEMMA WrittenOfThisRun ==
  ASSUME WorkspaceInv, NoneToCome, Written
  PROVE  NoneToCome'
<1> SUFFICES ASSUME NEW first, first = Head(queue) PROVE NoneToCome'
  OBVIOUS
<1>1. /\ Len(queue) \in Nat \ {0} /\ first = queue[1] /\ first \in Write /\ 1 \in 1 .. Len(queue)
      /\ Len(queue') = Len(queue) - 1 /\ \A k \in 1 .. Len(queue') : queue'[k] = queue[k + 1]
      /\ UNCHANGED <<up, run>> /\ run \in Nat
  BY QueueTyped, WorkspaceAssumption DEF Written, programVars, WorkspaceInv, ProgramOk, Sessions
<1>2. \A k \in 1 .. Len(queue') : k + 1 \in 1 .. Len(queue)
  BY <1>1
<1>3. \/ ApplySave(first) \/ ApplyItem(first) \/ ApplyCleanup(first) \/ ApplyClear(first)
      \/ ApplyNew(first)
  BY DEF Written
<1>4. ASSUME NEW i \in Ids, rows'[i] # None PROVE rows'[i].session <= run
  <2>1. CASE ApplySave(first)
    <3>1. first.row.session \in {0, run}
      BY <1>1, <2>1 DEF NoneToCome, ApplySave
    <3>2. rows'[i] = first.row \/ rows'[i] = rows[i]
      BY <1>4, <2>1 DEF ApplySave
    <3> QED
      BY <1>1, <1>4, <3>1, <3>2 DEF NoneToCome
  <2>2. CASE ApplyNew(first)
    <3> DEFINE n == NewRowId
               fresh == [location |-> None, pane |-> NoItems, session |-> 0]
    <3>1. rows' = [rows EXCEPT ![n] = fresh] /\ fresh.session = 0
      BY <2>2 DEF ApplyNew
    <3> HIDE DEF n, fresh
    <3>2. rows'[i] = fresh \/ rows'[i] = rows[i]
      BY <3>1 DEF WorkspaceInv, StoredOk
    <3> QED
      BY <1>1, <1>4, <3>1, <3>2 DEF NoneToCome
  <2>3. CASE ApplyClear(first)
    BY <1>4, <2>3 DEF ApplyClear
  <2>4. CASE UNCHANGED rows
    BY <1>4, <2>4 DEF NoneToCome
  <2> QED
    BY <1>3, <2>1, <2>2, <2>3, <2>4 DEF ApplyItem, ApplyCleanup
<1> QED
  BY <1>1, <1>2, <1>4 DEF NoneToCome

LEMMA NextKeepsNoneToCome ==
  ASSUME WorkspaceInv, OwnersInv, NoneToCome, Next
  PROVE  NoneToCome'
<1>1. run \in Nat /\ Len(queue) \in Nat
  BY QueueTyped, WorkspaceAssumption DEF WorkspaceInv, ProgramOk, Sessions
<1>2. CASE Written
  BY <1>2, WrittenOfThisRun
<1>3. CASE Start
  <2>1. /\ run' = run + 1 /\ rows' = rows /\ queue = <<>>
        /\ UNCHANGED queue \/ Enqueued(NewWrite(Boot))
    BY <1>3 DEF Start, OwnersInv, Stopped
  <2>2. \A k \in 1 .. Len(queue') : queue'[k].op # "save"
    BY <2>1 DEF Enqueued, NewWrite
  <2>3. \A i \in Ids : rows'[i] # None => rows'[i].session \in Nat
    BY <2>1, WorkspaceAssumption DEF WorkspaceInv, StoredOk, SoundRow, Sessions
  <2> QED
    BY <1>1, <2>1, <2>2, <2>3 DEF NoneToCome
<1>4. CASE Down
  BY <1>4 DEF Down, NoneToCome
<1>5. CASE ~Written /\ ~Start /\ ~Down
  <2>1. OfThisRun /\ up
    BY <1>5, StepsOfThisRun, OnlyStarts
  <2>2. ASSUME NEW k \in 1 .. Len(queue'), queue'[k].op = "save"
        PROVE  queue'[k].row.session \in {0, run}
    <3>1. k \in 1 .. Len(queue) \/ k \in Len(queue) + 1 .. Len(queue')
      BY <1>1
    <3> QED
      BY <2>1, <2>2, <3>1 DEF OfThisRun, Prolongs, NoneToCome
  <2> QED
    BY <2>1, <2>2 DEF OfThisRun, NoneToCome
<1> QED
  BY <1>2, <1>3, <1>4, <1>5
-----------------------------------------------------------------------------
LEMMA ExcusesStay ==
  ASSUME Next, ~Start
  PROVE  excuse \subseteq excuse'
<1> USE DEF ghostVars
<1>1. CASE Crash \/ Written \/ \E p \in Paths : Reopen(p)
  BY <1>1 DEF Crash, Down, Written, Reopen
<1>2. ASSUME NEW t \in Tasks, CommandStep(t) PROVE excuse \subseteq excuse'
  BY <1>2 DEF CommandStep, CloseProject, CloseWindow, QuitPrepares, QuitAborts, Prepare,
              OpenProject, OpenFile, Quit
<1>3. ASSUME NEW t \in AllTasks, TaskStep(t) PROVE excuse \subseteq excuse'
  <2>1. CASE PrepareToClose(t) \/ RemoveFromSession(t) \/ GiveUp(t)
    BY <2>1 DEF PrepareToClose, Prepare, RemoveFromSession, GiveUp
  <2>2. CASE FoundOpen(t) \/ StartLoad(t) \/ LoadKnown(t) \/ LoadNew(t) \/ IdArrived(t)
    BY <2>2 DEF FoundOpen, StartLoad, LoadKnown, LoadNew, IdArrived, Create
  <2>3. CASE LoadFailed(t) \/ ReadItems(t) \/ RestoreItems(t) \/ RestoreEnd(t)
    BY <2>3 DEF LoadFailed, ReadItems, RestoreItems, RestoreEnd
  <2>4. CASE ReplaceByEmpty(t) \/ RemoveWindow(t) \/ QuitGoesOn(t) \/ QuitEnds(t) \/ FileBuilt(t)
    BY <2>4 DEF ReplaceByEmpty, RemoveWindow, QuitGoesOn, QuitEnds, FileBuilt, Down
  <2> QED
    BY <1>3, <2>1, <2>2, <2>3, <2>4 DEF TaskStep
<1>4. ASSUME NEW i \in Handles, TimerSaves(i) \/ ItemsSent(i) PROVE excuse \subseteq excuse'
  BY <1>4 DEF TimerSaves, ItemsSent
<1>5. ASSUME NEW w \in Windows, ClearRecent(w) \/ TabStep(w) PROVE excuse \subseteq excuse'
  BY <1>5 DEF ClearRecent, TabStep, SelectTab, CloseItem, DragTab, KeepPreview, PaneChanges
<1> QED
  BY <1>1, <1>2, <1>3, <1>4, <1>5 DEF Next

LEMMA TaskStepSession ==
  ASSUME Within, LocationUnique, WorkspaceInv', NEW t \in AllTasks, TaskStep(t), ~Down,
         excuse' = {}
  PROVE  CommandsInv' /\ SessionsInv'
<1>1. CASE PrepareToClose(t)
  BY <1>1, PrepareToCloseSession
<1>2. CASE RemoveFromSession(t)
  BY <1>2, RemoveFromSessionSession
<1>3. CASE LoadKnown(t) \/ IdArrived(t)
  BY <1>3, CreatesSession
<1>4. CASE RemoveWindow(t)
  <2>1. OpenWindows # {task[t].window}
    BY <1>4 DEF RemoveWindow
  <2> QED
    BY <1>4, <2>1, RemoveWindowSession
<1>5. CASE GiveUp(t) \/ FoundOpen(t) \/ StartLoad(t) \/ LoadNew(t) \/ ReplaceByEmpty(t)
  BY <1>5, GiveUpSteady, StartLoadSteady, LoadNewSteady, SteadyKeeps
<1>6. CASE LoadFailed(t) \/ ReadItems(t) \/ RestoreItems(t) \/ RestoreEnd(t)
  BY <1>6, LoadFailedSteady, ReadItemsSteady, RestoreItemsSteady, RestoreEndSteady, SteadyKeeps
<1>7. CASE QuitGoesOn(t) \/ FileBuilt(t)
  BY <1>7, QuitGoesOnSteady, FileBuiltSteady, SteadyKeeps
<1>8. ~QuitEnds(t)
  BY DEF QuitEnds
<1> QED
  BY <1>1, <1>2, <1>3, <1>4, <1>5, <1>6, <1>7, <1>8 DEF TaskStep

LEMMA StepSession ==
  ASSUME Within, LocationUnique, WorkspaceInv', Next, ~Start, ~Down, excuse' = {}
  PROVE  CommandsInv' /\ SessionsInv'
<1>1. CASE Written
  BY <1>1, WrittenSession
<1>2. ASSUME NEW p \in Paths, Reopen(p) PROVE CommandsInv' /\ SessionsInv'
  BY <1>2, ReopenSteady, SteadyKeeps
<1>3. ASSUME NEW t \in Tasks, CommandStep(t) PROVE CommandsInv' /\ SessionsInv'
  <2>1. Steady(t)
    BY <1>3, CommandSteady, QuitPreparesSteady
  <2> QED
    BY <2>1, SteadyKeeps
<1>4. ASSUME NEW t \in AllTasks, TaskStep(t) PROVE CommandsInv' /\ SessionsInv'
  BY <1>4, TaskStepSession
<1>5. ASSUME NEW i \in Handles, TimerSaves(i) \/ ItemsSent(i) PROVE CommandsInv' /\ SessionsInv'
  BY <1>5, TimerSavesSteady, ItemsSentSteady, SteadyKeeps
<1>6. ASSUME NEW w \in Windows, TabStep(w) PROVE CommandsInv' /\ SessionsInv'
  BY <1>6, TabStepSteady, SteadyKeeps
<1>7. ~\E w \in Windows : ClearRecent(w)
  BY DEF ClearRecent
<1>8. ~Crash
  BY DEF Crash
<1> QED
  BY <1>1, <1>2, <1>3, <1>4, <1>5, <1>6, <1>7, <1>8 DEF Next

LEMMA NextKeepsSession == SessionInductive /\ [Next]_vars => SessionInductive'
<1> SUFFICES ASSUME SessionInductive, [Next]_vars PROVE SessionInductive'
  OBVIOUS
<1>1. /\ IdsInductive /\ NoneToCome /\ WorkspaceInv /\ OwnersInv /\ LocationUnique
      /\ QueueOwners /\ KindsOk
  BY DEF SessionInductive, IdsInductive, OwnersInv, StoreInv
<1>2. IdsInductive' /\ WorkspaceInv'
  BY <1>1, NextKeepsIds DEF IdsInductive
<1>3. up /\ excuse = {} => Within
  BY <1>1 DEF SessionInductive, IdsInductive, NoneToCome, Within
<1>4. CASE UNCHANGED vars
  <2>1. /\ UNCHANGED <<rows, queue, up, run, shown, workspace, task, excuse, lastClosed>>
        /\ UNCHANGED expected
    BY <1>4 DEF vars, dbVars
  <2>2. NoneToCome'
    BY <1>1, <2>1 DEF NoneToCome
  <2>3. ASSUME up, excuse = {} PROVE CommandsInv' /\ SessionsInv'
    <3>1. Steady(None)
      BY <1>1, <2>1, FlagsSame, SavesNothing, NoTaskSteady
    <3> QED
      BY <1>2, <1>3, <2>3, <3>1, SteadyKeeps
  <2>4. SessionPaths(run)' = SessionPaths(run)
    BY <2>1 DEF SessionPaths, SessionRows
  <2> QED
    BY <1>2, <2>1, <2>2, <2>3, <2>4 DEF SessionInductive
<1>5. CASE Start
  <2>1. up' = TRUE
    BY <1>5 DEF Start
  <2> QED
    BY <1>1, <1>2, <1>5, <2>1, StartSession, NextKeepsNoneToCome DEF SessionInductive, Next
<1>6. CASE Next /\ Down
  <2>1. ~Start /\ up' = FALSE
    BY <1>6 DEF Start, Down
  <2>2. up /\ run # 0
    BY <1>1, <1>6, <2>1, OnlyStarts DEF NoneToCome
  <2>3. excuse = {} => CommandsInv /\ SessionsInv
    BY <2>2 DEF SessionInductive
  <2>4. expected' # None => SessionPaths(run)' = expected'
    BY <1>1, <1>6, <2>2, <2>3, DownSession
  <2> QED
    BY <1>1, <1>2, <1>6, <2>1, <2>4, NextKeepsNoneToCome DEF SessionInductive
<1>7. CASE Next /\ ~Start /\ ~Down
  <2>1. up /\ up'
    BY <1>1, <1>7, OnlyStarts, StaysUp
  <2>2. excuse' = {} => excuse = {}
    BY <1>7, ExcusesStay
  <2>3. excuse' = {} => CommandsInv' /\ SessionsInv'
    BY <1>1, <1>2, <1>3, <1>7, <2>1, <2>2, StepSession
  <2> QED
    BY <1>1, <1>2, <1>7, <2>1, <2>3, NextKeepsNoneToCome DEF SessionInductive
<1> QED
  BY <1>4, <1>5, <1>6, <1>7

LEMMA InitSession == Init => SessionInductive
<1> SUFFICES ASSUME Init PROVE SessionInductive
  OBVIOUS
<1>1. ~up /\ expected = None /\ queue = <<>> /\ \A i \in Ids : rows[i] = None
  BY DEF Init
<1>2. NoneToCome
  BY <1>1 DEF NoneToCome
<1> QED
  BY <1>1, <1>2, InitIds DEF SessionInductive

(* What has to hold with SessionIsWhatIsOpen for a step to keep it, while  *)
(* nothing odd has happened: one command closes a workspace, that of its   *)
(* window, and once all windows are closing the one asked last stays       *)
(* listed (CommandsInv); a workspace that is listed and not scheduled is   *)
(* stored, or its save is the last one queued of its directory, one that   *)
(* left is stored outside of the session before another takes its window,  *)
(* and nothing else is stored in the session (SessionsInv).  Nothing is    *)
(* stored in a session to come (prepare_to_close, remove_from_session,     *)
(* serialize_workspace_internal, save_workspace).                          *)
THEOREM SessionInvariant == Spec => []SessionInductive
BY InitSession, NextKeepsSession, PTL DEF Spec

(* When the program is at rest, what a start would reopen is what its      *)
(* windows show, and after an end that nothing interferes with it is what  *)
(* was shown at Quit, or the one workspace of the window asked last to     *)
(* close: for any number of windows, commands, timers and runs, in every   *)
(* order of their saves and of the writing thread (prepare_to_close,       *)
(* remove_from_session, session_workspaces).                               *)
THEOREM SessionStaysWhatIsOpen == Spec => []SessionIsWhatIsOpen
<1>1. SessionInductive => SessionIsWhatIsOpen
  <2> SUFFICES ASSUME SessionInductive PROVE SessionIsWhatIsOpen
    OBVIOUS
  <2>1. WorkspaceInv /\ KindsOk /\ (up /\ excuse = {} => CommandsInv /\ SessionsInv)
    BY DEF SessionInductive, IdsInductive, OwnersInv
  <2>2. AtRest /\ excuse = {} => SessionPaths(run) = ShownPaths
    BY <2>1, RestingSession DEF AtRest
  <2> QED
    BY <2>2 DEF SessionInductive, SessionIsWhatIsOpen
<1> QED
  BY <1>1, SessionInvariant, PTL
=============================================================================
