---------------------------- MODULE WorktreeStore ----------------------------
(***************************************************************************)
(* The worktree store of a project (crates/project/src/worktree_store.rs): *)
(* how worktrees are opened, shared, superseded and removed, and the flag  *)
(* that tells when the initial scan is complete.                           *)
(*                                                                         *)
(* Everything here runs on the UI thread, but opening is asynchronous: the *)
(* path is canonicalized and the worktree is built in tasks, and what the  *)
(* store holds may have changed when they resume.  An open starts at most  *)
(* one worktree, so a worktree is named by the open that started it; the   *)
(* ids of next_worktree_id are as distinct.                                *)
(***************************************************************************)
EXTENDS Naturals, FiniteSets

CONSTANTS
  Opens,           \* calls of find_or_create_worktree
  Paths,           \* absolute paths
  VisiblePaths,    \* those opened as the project's directory
  InvisiblePaths,  \* those opened for a single file or a settings directory
  Canonical,       \* Canonical[p]: p with symbolic links resolved
  Above,           \* Above[p]: p and the directories it is in
  MaxCloses,       \* bound: calls of remove_worktree
  None

ASSUME PathAssumption ==
  /\ VisiblePaths \subseteq Paths /\ InvisiblePaths \subseteq Paths
  /\ Canonical \in [Paths -> Paths]
  /\ Above \in [Paths -> SUBSET Paths]
  /\ \A p \in Paths : p \in Above[p]

ASSUME BoundAssumption == MaxCloses \in Nat

ASSUME NoneAssumption == None \notin Paths /\ None \notin Opens

VARIABLES
  open,        \* the task of each open
  task,        \* the worktree each open started
  pending,     \* pending_worktree_tasks: canonical path to worktree
  slot,        \* worktrees: the position a handle was pushed at, 0 if it is not in
  pushed,      \* number of pushes so far
  scanned,     \* worktrees with completed_scan_id >= 1
  observing,   \* worktrees whose scan_complete is awaited by the store
  released,    \* worktrees whose last strong handle was dropped
  pathToOpen,  \* worktree_path_to_open
  epoch,       \* worktree_open_epoch
  complete,    \* initial_scan_complete
  forsaken     \* ghost: waiting opens whose pending task the end of another removed

vars ==
  <<open, task, pending, slot, pushed, scanned, observing, released, pathToOpen, epoch, complete,
    forsaken>>
scanVars == <<scanned, observing>>
storeVars == <<slot, pushed>>

(* "canonicalizing" and "waiting" are the two awaits of create_worktree.   *)
OpenStep == {"idle", "canonicalizing", "waiting", "opened", "superseded", "failed"}
InFlight == {"canonicalizing", "waiting"}

OpenState ==
  [step : OpenStep, path : Paths \cup {None}, visible : BOOLEAN, epoch : Nat,
   canonical : Paths \cup {None}, worktree : Opens \cup {None}]

TaskState ==
  [status : {"none", "running", "ready", "failed"}, path : Paths \cup {None}, visible : BOOLEAN]

-----------------------------------------------------------------------------
(* worktrees(): the handles that upgrade; visible ones are strong.         *)
Held(positions) == {w \in Opens : positions[w] > 0 /\ w \notin released}
Worktrees == Held(slot)
VisibleIn(worktrees) == {w \in worktrees : task[w].visible}

(* find_worktree: the first worktree the path is in.                       *)
Containing(p) == {w \in Worktrees : task[w].path \in Above[p]}
IsFirst(w, worktrees) == w \in worktrees /\ \A v \in worktrees : slot[w] <= slot[v]

(* update_initial_scan_state, for what the store holds after the step.     *)
(* Variant: pending tasks are not looked at.                               *)
ScanStateOfVisible(pending2, positions) ==
  \A w \in VisibleIn(Held(positions)) : w \in scanned

ScanState(pending2, positions) ==
  /\ \A p \in Paths : pending2[p] = None
  /\ \A w \in VisibleIn(Held(positions)) : w \in scanned

-----------------------------------------------------------------------------
(* find_or_create_worktree, up to the canonicalization of the path: a path *)
(* in a worktree of the store is found at once.                            *)
Asked(o, p, visible) ==
  /\ open[o].step = "idle"
  /\ pathToOpen' = IF visible THEN p ELSE pathToOpen
  /\ UNCHANGED <<task, pending, storeVars, scanVars, forsaken, released, epoch, complete>>

NewOpen(p, visible, step, w) ==
  [step |-> step, path |-> p, visible |-> visible, epoch |-> epoch,
   canonical |-> None, worktree |-> w]

RequestFound(o, p, visible) ==
  /\ Asked(o, p, visible)
  /\ \E w \in Opens : /\ IsFirst(w, Containing(p))
                      /\ open' = [open EXCEPT ![o] = NewOpen(p, visible, "opened", w)]

RequestMissing(o, p, visible) ==
  /\ Asked(o, p, visible)
  /\ Containing(p) = {}
  /\ open' = [open EXCEPT ![o] = NewOpen(p, visible, "canonicalizing", None)]

Request(o, p, visible) == RequestFound(o, p, visible) \/ RequestMissing(o, p, visible)

(* What add leaves of the handles: a visible worktree replaces the others. *)
(* Variant: the others stay.                                               *)
AddedBeside(w) == [slot EXCEPT ![w] = pushed + 1]

Added(w) ==
  [v \in Opens |-> IF v = w THEN pushed + 1
                   ELSE IF task[w].visible /\ (v \in released \/ task[v].visible) THEN 0
                   ELSE slot[v]]

(* The path is still the one asked for last, under either of its names.    *)
(* Variant: any open of this epoch is taken for the last.                  *)
IsCurrentEpoch(o, canonical) == open[o].epoch = epoch

IsLatest(o, canonical) ==
  open[o].epoch = epoch /\ pathToOpen \in {open[o].path, canonical}

(* The end of an open removes the pending task of its path, also if it has *)
(* waited for an earlier one, which another open removed and replaced.     *)
RemovesPending(o, canonical) ==
  /\ pending' = [pending EXCEPT ![canonical] = None]
  /\ forsaken' = (forsaken \ {o}) \cup
       {v \in Opens \ {o} : open[v].step = "waiting" /\ open[v].canonical = canonical}

(* The worktree is there: the end of create_worktree.                      *)
Finish(o, w, canonical) ==
  LET opened == open[o].visible => IsLatest(o, canonical)
      pending2 == [pending EXCEPT ![canonical] = None]
  IN  /\ RemovesPending(o, canonical)
      /\ open' = [open EXCEPT ![o].step = IF opened THEN "opened" ELSE "superseded",
                              ![o].canonical = canonical, ![o].worktree = w]
      /\ IF opened /\ w \notin Worktrees
         THEN /\ slot' = Added(w)
              /\ pushed' = pushed + 1
              /\ observing' = IF task[w].visible THEN observing \cup {w} ELSE observing
              /\ complete' = ScanState(pending2, Added(w))
         ELSE UNCHANGED <<storeVars, observing, complete>>
      /\ UNCHANGED <<task, scanned, released, pathToOpen, epoch>>

(* The path was canonicalized, or could not be, and the open goes on under *)
(* that name: a visible one of an earlier epoch ends here; else it takes   *)
(* the worktree that is there, joins the task that builds it, or starts    *)
(* one.                                                                    *)
Canonicalizes(o, canonical) ==
  /\ open[o].step = "canonicalizing"
  /\ canonical \in {open[o].path, Canonical[open[o].path]}

Outdated(o) == open[o].visible /\ open[o].epoch # epoch

IsOpen(w, canonical) == IsFirst(w, Containing(canonical)) /\ task[w].path = canonical

Supersede(o, canonical) ==
  /\ Canonicalizes(o, canonical) /\ Outdated(o)
  /\ open' = [open EXCEPT ![o].step = "superseded"]
  /\ UNCHANGED <<task, pending, storeVars, scanVars, forsaken, released, pathToOpen, epoch, complete>>

FindOpen(o, canonical) ==
  /\ Canonicalizes(o, canonical) /\ ~Outdated(o)
  /\ \E w \in Opens : IsOpen(w, canonical) /\ Finish(o, w, canonical)

JoinTask(o, canonical) ==
  /\ Canonicalizes(o, canonical) /\ ~Outdated(o)
  /\ \A w \in Opens : ~IsOpen(w, canonical)
  /\ pending[canonical] # None
  /\ open' = [open EXCEPT ![o].step = "waiting", ![o].canonical = canonical,
                          ![o].worktree = pending[canonical]]
  /\ UNCHANGED <<task, pending, storeVars, scanVars, forsaken, released, pathToOpen, epoch, complete>>

StartTask(o, canonical) ==
  /\ Canonicalizes(o, canonical) /\ ~Outdated(o)
  /\ \A w \in Opens : ~IsOpen(w, canonical)
  /\ pending[canonical] = None
  /\ task' = [task EXCEPT ![o] =
       [status |-> "running", path |-> canonical, visible |-> open[o].visible]]
  /\ pending' = [pending EXCEPT ![canonical] = o]
  /\ open' = [open EXCEPT ![o].step = "waiting", ![o].canonical = canonical,
                          ![o].worktree = o]
  /\ complete' = ScanState(pending', slot)
  /\ UNCHANGED <<storeVars, scanVars, forsaken, released, pathToOpen, epoch>>

Canonicalized(o, canonical) ==
  \/ Supersede(o, canonical) \/ FindOpen(o, canonical)
  \/ JoinTask(o, canonical) \/ StartTask(o, canonical)

(* Worktree::new ends, or fails to read the metadata of its path.          *)
Build(w, status) ==
  /\ task[w].status = "running"
  /\ task' = [task EXCEPT ![w].status = status]
  /\ UNCHANGED <<open, pending, storeVars, scanVars, forsaken, released, pathToOpen, epoch, complete>>

(* The shared task resolved: an open that awaits it resumes.               *)
ResumeBuilt(o) ==
  /\ open[o].step = "waiting" /\ task[open[o].worktree].status = "ready"
  /\ Finish(o, open[o].worktree, open[o].canonical)

ResumeFailed(o) ==
  /\ open[o].step = "waiting" /\ task[open[o].worktree].status = "failed"
  /\ RemovesPending(o, open[o].canonical)
  /\ open' = [open EXCEPT ![o].step = "failed"]
  /\ complete' = ScanState(pending', slot)
  /\ UNCHANGED <<task, storeVars, scanVars, released, pathToOpen, epoch>>

Resume(o) == ResumeBuilt(o) \/ ResumeFailed(o)

(* remove_worktree.                                                        *)
Close ==
  /\ epoch < MaxCloses
  /\ slot' = [w \in Opens |-> IF w \in released \/ task[w].visible THEN 0 ELSE slot[w]]
  /\ pathToOpen' = None
  /\ epoch' = epoch + 1
  /\ complete' = ScanState(pending, slot')
  /\ UNCHANGED <<open, task, pending, pushed, scanVars, forsaken, released>>

(* The worktree's scanner completes its initial scan.                      *)
Scanned(w) ==
  /\ task[w].status = "ready" /\ w \notin scanned \cup released
  /\ scanned' = scanned \cup {w}
  /\ UNCHANGED <<open, task, pending, storeVars, observing, released, pathToOpen, epoch, complete,
                 forsaken>>

(* observe_worktree_scan_completion: the scan is complete, or the worktree *)
(* is gone.  Variant: the flag is not updated.                             *)
ObservedScanState == complete

ScanStateNow == ScanState(pending, slot)

ScanObserved(w) ==
  /\ w \in observing /\ w \in scanned \cup released
  /\ observing' = observing \ {w}
  /\ complete' = ScanStateNow
  /\ UNCHANGED <<open, task, pending, storeVars, scanned, released, pathToOpen, epoch, forsaken>>

(* The last strong handle of a worktree is dropped: the store keeps one of *)
(* a visible worktree, a pending or awaited task keeps one of its result,  *)
(* and callers keep theirs as long as they like.                           *)
Release(w) ==
  /\ task[w].status = "ready" /\ w \notin released
  /\ ~(slot[w] > 0 /\ task[w].visible)
  /\ \A p \in Paths : pending[p] # w
  /\ \A o \in Opens : ~(open[o].step = "waiting" /\ open[o].worktree = w)
  /\ released' = released \cup {w}
  /\ UNCHANGED <<open, task, pending, storeVars, scanVars, forsaken, pathToOpen, epoch, complete>>

-----------------------------------------------------------------------------
Init ==
  /\ open = [o \in Opens |->
       [step |-> "idle", path |-> None, visible |-> FALSE, epoch |-> 0,
        canonical |-> None, worktree |-> None]]
  /\ task = [o \in Opens |-> [status |-> "none", path |-> None, visible |-> FALSE]]
  /\ pending = [p \in Paths |-> None]
  /\ slot = [o \in Opens |-> 0] /\ pushed = 0
  /\ scanned = {} /\ observing = {} /\ released = {}
  /\ pathToOpen = None /\ epoch = 0
  /\ complete = TRUE /\ forsaken = {}

OpenTask(o) == (\E c \in Paths : Canonicalized(o, c)) \/ Resume(o)
Built(w) == Build(w, "ready") \/ Build(w, "failed")

Next ==
  \/ \E o \in Opens, p \in VisiblePaths : Request(o, p, TRUE)
  \/ \E o \in Opens, p \in InvisiblePaths : Request(o, p, FALSE)
  \/ \E o \in Opens : OpenTask(o)
  \/ \E w \in Opens : Built(w) \/ Scanned(w) \/ ScanObserved(w) \/ Release(w)
  \/ Close

Spec == Init /\ [][Next]_vars

-----------------------------------------------------------------------------
TypeOK ==
  /\ open \in [Opens -> OpenState]
  /\ task \in [Opens -> TaskState]
  /\ pending \in [Paths -> Opens \cup {None}]
  /\ slot \in [Opens -> Nat] /\ pushed \in Nat
  /\ scanned \subseteq Opens /\ observing \subseteq Opens /\ released \subseteq Opens
  /\ pathToOpen \in Paths \cup {None}
  /\ epoch \in Nat
  /\ complete \in BOOLEAN /\ forsaken \subseteq Opens

(* The handles the store and its tasks rely on.  A worktree in the store   *)
(* was built; a pending task was started for its path; an open waits for a *)
(* task of the path it canonicalized to; and nobody lets go of a worktree  *)
(* that the store, a pending task or an open still needs.                  *)
HandlesSound ==
  /\ \A o \in Opens : open[o].step \in {"idle", "canonicalizing"} => task[o].status = "none"
  /\ \A o \in Opens : open[o].step # "idle" => open[o].path \in Paths
  /\ \A w \in Opens : slot[w] > 0 => task[w].status = "ready"
  /\ \A w \in Opens : slot[w] > 0 /\ task[w].visible => w \notin released
  /\ \A w \in released : task[w].status = "ready"
  /\ \A p \in Paths : pending[p] # None =>
       /\ task[pending[p]].status # "none" /\ task[pending[p]].path = p
       /\ pending[p] \notin released
  /\ \A o \in Opens : open[o].step = "waiting" =>
       /\ open[o].worktree # None /\ open[o].canonical # None
       /\ open[o].canonical \in {open[o].path, Canonical[open[o].path]}
       /\ task[open[o].worktree].status # "none"
       /\ task[open[o].worktree].path = open[o].canonical
       /\ open[o].worktree \notin released

(* The project never has two roots, whichever opens finish in whichever    *)
(* order, share a task or are superseded: what root_worktree asserts.      *)
AtMostOneRoot ==
  \A v, w \in VisibleIn(Worktrees) : v = w

(* When the store says that the initial scan is complete, the root is      *)
(* scanned, and no open waits for a worktree that is being built, but for  *)
(* one whose task the end of another open of the directory removed:        *)
(* wait_for_initial_scan, which does not count opens that canonicalize     *)
(* their path, returns early in that case and in no other.                 *)
CompleteMeansScanned ==
  complete => /\ \A w \in VisibleIn(Worktrees) : w \in scanned
              /\ \A o \in Opens : open[o].step = "waiting" => o \in forsaken

(* What the flag was computed from when it was set still holds.            *)
FlagSound ==
  complete => /\ \A p \in Paths : pending[p] = None
              /\ \A w \in VisibleIn(Worktrees) : w \in scanned

(* The inductive invariant of the store.                                   *)
StoreInv == TypeOK /\ HandlesSound /\ AtMostOneRoot /\ FlagSound

(* An open waits for a task that is pending, or lost it to another.        *)
WaitersPending ==
  \A o \in Opens :
    open[o].step = "waiting" => pending[open[o].canonical] # None \/ o \in forsaken

(* No open is in flight, and the root's scan is over and was observed.     *)
Settled ==
  /\ \A o \in Opens : open[o].step \notin InFlight
  /\ \A w \in VisibleIn(Worktrees) : w \in scanned \ observing

(* Once everything settled and no open failed, the initial scan counts as  *)
(* complete: whoever waits for it is woken, as in the test of a newer open *)
(* superseding another, which awaits wait_for_initial_scan.                *)
ScanStateSettles == Settled /\ (\A o \in Opens : open[o].step # "failed") => complete

(* Once everything settled the initial scan counts as complete unless a    *)
(* visible open was superseded: opens that share a task, fail, or find the *)
(* worktree open leave the flag up to date.                                *)
ScanStateSettlesOnSuccess ==
  Settled /\ (\A o \in Opens : open[o].step # "superseded") => complete
=============================================================================
