---------------------------- MODULE Stores_proofs ----------------------------
(***************************************************************************)
(* The worktree store for any number of opens, paths and closes: its       *)
(* safety, then that the initial-scan flag is not left behind, then that   *)
(* it implements ProjectRoot.  StoreInv is inductive as it stands: the     *)
(* handles (HandlesSound) say why a worktree that an open resumes with was *)
(* built and is alive.  ScanInv says besides what is still to come while   *)
(* the flag is down.  The refinement needs that a worktree found or shared *)
(* under a visible path is visible (RootInv, which follows from PathsApart;*)
(* nothing before it uses that assumption).                                *)
(*                                                                         *)
(* Then the buffer stores for any number of paths, files, loads and        *)
(* renames: that the maps of paths and entries stay exact (BuffersInv),    *)
(* and that a file has one buffer (OnlyBuffers).  An update tells of many  *)
(* paths in turn, so the second is an induction over them: Between says    *)
(* what holds halfway, Told what each event leaves behind.                 *)
(***************************************************************************)
EXTENDS WorktreeStoreRoot, BufferStore, FiniteSetTheorems, TLAPS

(* The initial state satisfies the invariant.                              *)
LEMMA StoreInit == Init => StoreInv
  BY NoneAssumption
     DEF Init, StoreInv, TypeOK, OpenState, OpenStep, TaskState, HandlesSound, AtMostOneRoot,
         FlagSound, VisibleIn, Worktrees, Held

(* Adding a worktree leaves at most one visible: w itself if it is.        *)
LEMMA AddedVisible ==
  ASSUME TypeOK, AtMostOneRoot, NEW w \in Opens
  PROVE  /\ Added(w) \in [Opens -> Nat]
         /\ \A v \in VisibleIn(Held(Added(w))) : task[w].visible => v = w
         /\ \A u, v \in VisibleIn(Held(Added(w))) : u = v
         /\ \A v \in Opens : Added(w)[v] > 0 => v = w \/ slot[v] > 0
<1>1. Added(w) \in [Opens -> Nat]
  BY DEF TypeOK, Added
<1>2. \A v \in Opens : Added(w)[v] > 0 => v = w \/ slot[v] > 0
  BY DEF TypeOK, Added
<1>3. \A v \in VisibleIn(Held(Added(w))) : task[w].visible => v = w
  BY DEF TypeOK, Added, VisibleIn, Held
<1>4. ASSUME ~task[w].visible,
             NEW u \in VisibleIn(Held(Added(w))), NEW v \in VisibleIn(Held(Added(w)))
      PROVE  u = v
  <2>1. u # w /\ v # w
    BY <1>4 DEF VisibleIn
  <2>2. slot[u] > 0 /\ slot[v] > 0
    BY <1>2, <2>1 DEF VisibleIn, Held
  <2> QED
    BY <1>4, <2>2 DEF AtMostOneRoot, VisibleIn, Held, Worktrees
<1> QED
  BY <1>1, <1>2, <1>3, <1>4

(* The end of an open, whether it resumed from a task or found a worktree. *)
LEMMA FinishStep ==
  ASSUME StoreInv, NEW o \in Opens, NEW w \in Opens, NEW c \in Paths,
         open[o].step \in InFlight, task[w].status = "ready", w \notin released,
         Finish(o, w, c),
         open[o].step = "canonicalizing" => task[o].status = "none"
  PROVE  StoreInv'
<1> DEFINE arrives == open[o].visible => IsLatest(o, c)
           pending2 == [pending EXCEPT ![c] = None]
           added == arrives /\ w \notin Worktrees
<1> USE DEF StoreInv
<1>1. /\ pending' = pending2
      /\ open' = [open EXCEPT ![o].step = IF arrives THEN "opened" ELSE "superseded",
                              ![o].canonical = c, ![o].worktree = w]
      /\ forsaken' \subseteq forsaken \cup Opens
      /\ UNCHANGED <<task, scanned, released, pathToOpen, epoch>>
  BY DEF Finish, RemovesPending
<1>2. pending2 \in [Paths -> Opens \cup {None}] /\ \A p \in Paths : pending2[p] # None => p # c /\ pending2[p] = pending[p]
  BY DEF TypeOK
<1>3. open' \in [Opens -> OpenState]
  <2> DEFINE ended == [open[o] EXCEPT !.step = IF arrives THEN "opened" ELSE "superseded",
                                      !.canonical = c, !.worktree = w]
  <2>1. ended \in OpenState
    BY ZenonT(40) DEF TypeOK, OpenState, OpenStep
  <2>2. open' = [open EXCEPT ![o] = ended]
    BY <1>1 DEF TypeOK
  <2> HIDE DEF ended
  <2> QED
    BY <2>1, <2>2 DEF TypeOK
<1>4. \A q \in Opens : q # o => open'[q] = open[q]
  BY <1>1 DEF TypeOK
<1>5. open'[o].step \in {"opened", "superseded"} /\ open'[o].path = open[o].path
  BY <1>1 DEF TypeOK, OpenState
<1>6. CASE added
  <2>1. /\ slot' = Added(w) /\ pushed' = pushed + 1
        /\ observing' = IF task[w].visible THEN observing \cup {w} ELSE observing
        /\ complete' = ScanState(pending2, Added(w))
    BY <1>6 DEF Finish
  <2>2. TypeOK'
    BY <1>1, <1>2, <1>3, <2>1, AddedVisible DEF TypeOK, ScanState
  <2>3. HandlesSound'
    BY <1>1, <1>2, <1>4, <1>5, <2>1, AddedVisible, SMTT(40) DEF HandlesSound, InFlight, TypeOK
  <2>4. AtMostOneRoot'
    BY <1>1, <2>1, AddedVisible DEF AtMostOneRoot, Worktrees, VisibleIn, Held
  <2>5. FlagSound'
    BY <1>1, <2>1 DEF FlagSound, ScanState, Worktrees, VisibleIn, Held
  <2> QED
    BY <2>2, <2>3, <2>4, <2>5
<1>7. CASE ~added
  <2>1. UNCHANGED <<slot, pushed, observing, complete>>
    BY <1>7 DEF Finish, storeVars
  <2>2. TypeOK'
    BY <1>1, <1>2, <1>3, <2>1 DEF TypeOK
  <2>3. HandlesSound'
    BY <1>1, <1>2, <1>4, <1>5, <2>1, ZenonT(40) DEF HandlesSound, InFlight, TypeOK
  <2>4. AtMostOneRoot'
    BY <1>1, <2>1 DEF AtMostOneRoot, Worktrees, VisibleIn, Held
  <2>5. FlagSound'
    BY <1>1, <1>2, <2>1 DEF FlagSound, Worktrees, VisibleIn, Held
  <2> QED
    BY <2>2, <2>3, <2>4, <2>5
<1> QED
  BY <1>6, <1>7

(* Every step that is not the end of an open preserves the invariant, and  *)
(* so does the end, as the handles make sure that the worktree it resumes  *)
(* with was built and is alive.                                            *)
LEMMA RequestStep ==
  ASSUME StoreInv, NEW o \in Opens, NEW p \in Paths, NEW v \in BOOLEAN, Request(o, p, v)
  PROVE  StoreInv'
<1> USE DEF StoreInv
<1>1. /\ open[o].step = "idle"
      /\ pathToOpen' \in Paths \cup {None}
      /\ UNCHANGED <<task, pending, slot, pushed, scanned, observing, released, epoch, complete, forsaken>>
  BY DEF Request, RequestFound, RequestMissing, Asked, storeVars, scanVars, TypeOK
<1>2. PICK step \in {"opened", "canonicalizing"}, w \in Opens \cup {None} :
        open' = [open EXCEPT ![o] = NewOpen(p, v, step, w)]
  BY DEF Request, RequestFound, RequestMissing
<1>3. NewOpen(p, v, step, w) \in OpenState
  BY DEF NewOpen, OpenState, OpenStep, TypeOK
<1>4. TypeOK'
  BY <1>1, <1>2, <1>3 DEF TypeOK
<1>5. HandlesSound'
  BY <1>1, <1>2, <1>3 DEF HandlesSound, TypeOK, NewOpen
<1>6. AtMostOneRoot' /\ FlagSound'
  BY <1>1 DEF AtMostOneRoot, FlagSound, Worktrees, VisibleIn, Held
<1> QED
  BY <1>4, <1>5, <1>6

(* StoreInv: an outdated open ends.                                        *)
LEMMA SupersedeStep ==
  ASSUME StoreInv, NEW o \in Opens, NEW c \in Paths, Supersede(o, c)
  PROVE  StoreInv'
<1> USE DEF StoreInv
<1>1. /\ open' = [open EXCEPT ![o].step = "superseded"]
      /\ UNCHANGED <<task, pending, slot, pushed, scanned, observing, released, pathToOpen, epoch,
                     complete, forsaken>>
  BY DEF Supersede, storeVars, scanVars
<1>2. TypeOK'
  BY <1>1 DEF TypeOK, OpenState, OpenStep
<1>3. HandlesSound'
  <2>1. \A q \in Opens : q # o => open'[q] = open[q]
    BY <1>1 DEF TypeOK
  <2>2. open'[o].step = "superseded" /\ open'[o].path = open[o].path
    BY <1>1 DEF TypeOK, OpenState
  <2>3. open[o].path \in Paths
    BY DEF Supersede, Canonicalizes, HandlesSound
  <2> QED
    BY <1>1, <2>1, <2>2, <2>3 DEF HandlesSound
<1>4. AtMostOneRoot' /\ FlagSound'
  BY <1>1 DEF AtMostOneRoot, FlagSound, Worktrees, VisibleIn, Held
<1> QED
  BY <1>2, <1>3, <1>4

(* StoreInv: an open waits for the pending task of its path.               *)
LEMMA JoinTaskStep ==
  ASSUME StoreInv, NEW o \in Opens, NEW c \in Paths, JoinTask(o, c)
  PROVE  StoreInv'
<1> USE DEF StoreInv
<1> DEFINE joined == [open[o] EXCEPT !.step = "waiting", !.canonical = c, !.worktree = pending[c]]
<1>1. /\ open' = [open EXCEPT ![o] = joined]
      /\ UNCHANGED <<task, pending, slot, pushed, scanned, observing, released, pathToOpen, epoch,
                     complete, forsaken>>
  BY DEF JoinTask, storeVars, scanVars, TypeOK
<1>2. /\ open[o].step = "canonicalizing" /\ c \in {open[o].path, Canonical[open[o].path]}
      /\ pending[c] # None /\ open[o].path \in Paths
  BY DEF JoinTask, Canonicalizes, HandlesSound
<1>3. joined \in OpenState
  <2>1. open[o] \in OpenState /\ pending[c] \in Opens
    BY <1>2 DEF TypeOK
  <2> HIDE DEF StoreInv
  <2> QED
    BY <2>1 DEF OpenState, OpenStep
<1>4. /\ joined.step = "waiting" /\ joined.path = open[o].path
      /\ joined.canonical = c /\ joined.worktree = pending[c]
  BY DEF TypeOK, OpenState
<1> HIDE DEF joined
<1>5. TypeOK'
  BY <1>1, <1>3 DEF TypeOK
<1>6. HandlesSound'
  <2>1. \A q \in Opens : open'[q] = IF q = o THEN joined ELSE open[q]
    BY <1>1 DEF TypeOK
  <2>2. c # None
    BY NoneAssumption
  <2> QED
    BY <1>1, <1>2, <1>4, <2>1, <2>2 DEF HandlesSound
<1>7. AtMostOneRoot' /\ FlagSound'
  BY <1>1 DEF AtMostOneRoot, FlagSound, Worktrees, VisibleIn, Held
<1> QED
  BY <1>5, <1>6, <1>7

(* StoreInv: an open starts a task.                                        *)
LEMMA StartTaskStep ==
  ASSUME StoreInv, NEW o \in Opens, NEW c \in Paths, StartTask(o, c)
  PROVE  StoreInv'
<1> USE DEF StoreInv
<1> DEFINE started == [open[o] EXCEPT !.step = "waiting", !.canonical = c, !.worktree = o]
           running == [status |-> "running", path |-> c, visible |-> open[o].visible]
<1>1. /\ open' = [open EXCEPT ![o] = started]
      /\ task' = [task EXCEPT ![o] = running]
      /\ pending' = [pending EXCEPT ![c] = o]
      /\ complete' = ScanState(pending', slot)
      /\ UNCHANGED <<slot, pushed, scanned, observing, released, pathToOpen, epoch, forsaken>>
  BY DEF StartTask, storeVars, scanVars, TypeOK
<1>2. /\ open[o].step = "canonicalizing" /\ c \in {open[o].path, Canonical[open[o].path]}
      /\ open[o].path \in Paths /\ task[o].status = "none"
  BY DEF StartTask, Canonicalizes, HandlesSound
<1>3. started \in OpenState /\ running \in TaskState
  <2>1. started \in OpenState
    <3>1. open[o] \in OpenState
      BY DEF TypeOK
    <3> HIDE DEF StoreInv
    <3> QED
      BY <3>1 DEF OpenState, OpenStep
  <2>2. open[o].visible \in BOOLEAN
    BY DEF TypeOK, OpenState
  <2>3. running \in TaskState
    BY <2>2 DEF TaskState
  <2> QED
    BY <2>1, <2>3
<1>4. /\ started.step = "waiting" /\ started.path = open[o].path
      /\ started.canonical = c /\ started.worktree = o
      /\ running.status = "running" /\ running.path = c
  BY DEF TypeOK, OpenState
<1> HIDE DEF started, running
<1>5. TypeOK'
  BY <1>1, <1>3 DEF TypeOK, ScanState
<1>6. ~(slot[o] > 0) /\ o \notin released
  BY <1>2 DEF HandlesSound
<1>7. /\ \A q \in Opens : open'[q] = IF q = o THEN started ELSE open[q]
      /\ \A q \in Opens : task'[q] = IF q = o THEN running ELSE task[q]
      /\ \A p \in Paths : pending'[p] = IF p = c THEN o ELSE pending[p]
  BY <1>1 DEF TypeOK
<1>8. HandlesSound'
  <2>1. c # None /\ o # None
    BY NoneAssumption
  <2>2. \A p \in Paths : pending[p] # None => pending[p] # o
    BY <1>2 DEF HandlesSound
  <2>3. \A q \in Opens : open[q].step = "waiting" => open[q].worktree # o
    BY <1>2 DEF HandlesSound
  <2>4. \A p \in Paths : pending[p] \in Opens \cup {None}
    BY DEF TypeOK
  <2>5. \A q \in Opens : open[q].worktree \in Opens \cup {None}
    BY DEF TypeOK, OpenState
  <2>6. released \subseteq Opens
    BY DEF TypeOK
  <2>7. /\ \A q \in Opens : open'[q].step \in {"idle", "canonicalizing"} => task'[q].status = "none"
        /\ \A q \in Opens : open'[q].step # "idle" => open'[q].path \in Paths
        /\ \A w \in Opens : slot'[w] > 0 => task'[w].status = "ready"
        /\ \A w \in Opens : slot'[w] > 0 /\ task'[w].visible => w \notin released'
        /\ \A w \in released' : task'[w].status = "ready"
    BY <1>1, <1>2, <1>4, <1>6, <1>7, <2>6 DEF HandlesSound
  <2>8. \A p \in Paths : pending'[p] # None =>
          /\ task'[pending'[p]].status # "none" /\ task'[pending'[p]].path = p
          /\ pending'[p] \notin released'
    BY <1>1, <1>4, <1>6, <1>7, <2>2, <2>4 DEF HandlesSound
  <2>9. \A q \in Opens : open'[q].step = "waiting" =>
          /\ open'[q].worktree # None /\ open'[q].canonical # None
          /\ open'[q].canonical \in {open'[q].path, Canonical[open'[q].path]}
          /\ task'[open'[q].worktree].status # "none"
          /\ task'[open'[q].worktree].path = open'[q].canonical
          /\ open'[q].worktree \notin released'
    BY <1>1, <1>2, <1>4, <1>6, <1>7, <2>1, <2>3, <2>5 DEF HandlesSound
  <2> QED
    BY <2>7, <2>8, <2>9 DEF HandlesSound
<1>9. AtMostOneRoot'
  <2>1. \A w \in VisibleIn(Worktrees)' : w \in VisibleIn(Worktrees)
    BY <1>1, <1>6, <1>7 DEF Worktrees, VisibleIn, Held
  <2> QED
    BY <2>1 DEF AtMostOneRoot
<1>10. FlagSound'
  <2>1. pending'[c] # None
    BY <1>7, NoneAssumption
  <2> QED
    BY <1>1, <2>1 DEF FlagSound, ScanState
<1> QED
  BY <1>5, <1>8, <1>9, <1>10

(* StoreInv: the error of a task reaches an open.                          *)
LEMMA ResumeFailedStep ==
  ASSUME StoreInv, NEW o \in Opens, ResumeFailed(o)
  PROVE  StoreInv'
<1> USE DEF StoreInv
<1> DEFINE c == open[o].canonical
<1>1. /\ open' = [open EXCEPT ![o].step = "failed"]
      /\ pending' = [pending EXCEPT ![c] = None]
      /\ complete' = ScanState(pending', slot)
      /\ forsaken' \subseteq forsaken \cup Opens
      /\ UNCHANGED <<task, slot, pushed, scanned, observing, released, pathToOpen, epoch>>
  BY DEF ResumeFailed, RemovesPending, storeVars, scanVars
<1>2. /\ \A q \in Opens : q # o => open'[q] = open[q]
      /\ open'[o].step = "failed" /\ open'[o].path = open[o].path
      /\ open[o].path \in Paths
      /\ \A p \in Paths : pending'[p] # None => pending'[p] = pending[p]
  BY <1>1 DEF TypeOK, OpenState, HandlesSound, ResumeFailed
<1>3. TypeOK'
  <2>1. [open[o] EXCEPT !.step = "failed"] \in OpenState
    BY DEF TypeOK, OpenState, OpenStep
  <2>2. open' \in [Opens -> OpenState]
    BY <1>1, <2>1 DEF TypeOK
  <2> QED
    BY <1>1, <2>2 DEF TypeOK, ScanState
<1>4. HandlesSound'
  BY <1>1, <1>2 DEF HandlesSound
<1>5. AtMostOneRoot' /\ FlagSound'
  BY <1>1 DEF AtMostOneRoot, FlagSound, ScanState, Worktrees, VisibleIn, Held
<1> QED
  BY <1>3, <1>4, <1>5

(* StoreInv through every step of create_worktree.                         *)
LEMMA OpenTaskStep ==
  ASSUME StoreInv, NEW o \in Opens, OpenTask(o)
  PROVE  StoreInv'
<1>1. CASE ResumeBuilt(o)
  <2> DEFINE w == open[o].worktree
             c == open[o].canonical
  <2>1. /\ open[o].step = "waiting" /\ task[w].status = "ready" /\ Finish(o, w, c)
    BY <1>1 DEF ResumeBuilt
  <2>2. w \in Opens /\ c \in Paths /\ w \notin released
    BY <2>1 DEF StoreInv, HandlesSound, TypeOK, OpenState
  <2> HIDE DEF w, c
  <2> QED
    BY <2>1, <2>2, FinishStep DEF InFlight
<1>2. CASE ResumeFailed(o)
  BY <1>2, ResumeFailedStep
<1>3. ASSUME NEW c \in Paths, Canonicalized(o, c)
      PROVE  StoreInv'
  <2>1. CASE FindOpen(o, c)
    <3>1. PICK w \in Opens : IsOpen(w, c) /\ Finish(o, w, c)
      BY <2>1 DEF FindOpen
    <3>2. /\ open[o].step = "canonicalizing"
          /\ task[o].status = "none"
      BY <2>1 DEF FindOpen, Canonicalizes, StoreInv, HandlesSound
    <3>3. task[w].status = "ready" /\ w \notin released
      BY <3>1 DEF IsOpen, IsFirst, Containing, Worktrees, Held, StoreInv, HandlesSound
    <3> QED
      BY <3>1, <3>2, <3>3, FinishStep DEF InFlight
  <2> QED
    BY <1>3, <2>1, SupersedeStep, JoinTaskStep, StartTaskStep DEF Canonicalized
<1> QED
  BY <1>1, <1>2, <1>3 DEF OpenTask, Resume

(* StoreInv: a worktree is built, scanned, observed or released.           *)
LEMMA WorktreeStep ==
  ASSUME StoreInv, NEW w \in Opens, Built(w) \/ Scanned(w) \/ ScanObserved(w) \/ Release(w)
  PROVE  StoreInv'
<1> USE DEF StoreInv
<1>1. ASSUME NEW status \in {"ready", "failed"}, Build(w, status)
      PROVE  StoreInv'
  <2>1. /\ task[w].status = "running"
        /\ task' = [task EXCEPT ![w].status = status]
        /\ UNCHANGED <<open, pending, slot, pushed, scanned, observing, released, pathToOpen, epoch,
                       complete, forsaken>>
    BY <1>1 DEF Build, storeVars, scanVars
  <2>2. [task[w] EXCEPT !.status = status] \in TaskState
    BY DEF TypeOK, TaskState
  <2>3. TypeOK'
    BY <2>1, <2>2 DEF TypeOK
  <2>4. /\ \A v \in Opens : v # w => task'[v] = task[v]
        /\ task'[w].status = status /\ task'[w].path = task[w].path /\ task'[w].visible = task[w].visible
    BY <2>1 DEF TypeOK, TaskState
  <2>5. ~(slot[w] > 0) /\ w \notin released
    BY <2>1 DEF HandlesSound
  <2>6. HandlesSound'
    <3>1. \A p \in Paths : pending[p] \in Opens \cup {None}
      BY DEF TypeOK
    <3>2. \A q \in Opens : open[q].worktree \in Opens \cup {None}
      BY DEF TypeOK, OpenState
    <3>3. released \subseteq Opens
      BY DEF TypeOK
    <3>4. \A q \in Opens : open[q].step \in {"idle", "canonicalizing"} => q # w
      BY <2>1 DEF HandlesSound
    <3>5. \A v \in Opens : task[v].status # "none" => task'[v].status # "none"
      BY <2>4
    <3> QED
      BY <2>1, <2>4, <2>5, <3>1, <3>2, <3>3, <3>4, <3>5 DEF HandlesSound
  <2>7. VisibleIn(Worktrees)' = VisibleIn(Worktrees)
    BY <2>1, <2>4 DEF VisibleIn, Worktrees, Held
  <2>8. AtMostOneRoot' /\ FlagSound'
    BY <2>1, <2>7 DEF AtMostOneRoot, FlagSound
  <2> QED
    BY <2>3, <2>6, <2>8
<1>2. CASE Scanned(w)
  BY <1>2 DEF Scanned, storeVars, TypeOK, HandlesSound, AtMostOneRoot, FlagSound,
              VisibleIn, Worktrees, Held
<1>3. CASE ScanObserved(w)
  BY <1>3 DEF ScanObserved, ScanStateNow, ScanState, storeVars, TypeOK, HandlesSound,
              AtMostOneRoot, FlagSound, VisibleIn, Worktrees, Held
<1>4. CASE Release(w)
  <2>1. TypeOK'
    BY <1>4 DEF Release, storeVars, scanVars, TypeOK
  <2>2. HandlesSound'
    BY <1>4 DEF Release, storeVars, scanVars, HandlesSound
  <2>3. AtMostOneRoot' /\ FlagSound'
    BY <1>4 DEF Release, storeVars, scanVars, AtMostOneRoot, FlagSound,
                VisibleIn, Worktrees, Held
  <2> QED
    BY <2>1, <2>2, <2>3
<1> QED
  BY <1>1, <1>2, <1>3, <1>4 DEF Built

(* StoreInv: remove_worktree.                                              *)
LEMMA CloseStep ==
  ASSUME StoreInv, Close
  PROVE  StoreInv'
<1> USE DEF StoreInv
<1> DEFINE closed == [w \in Opens |-> IF w \in released \/ task[w].visible THEN 0 ELSE slot[w]]
<1>1. /\ slot' = closed /\ pathToOpen' = None /\ epoch' = epoch + 1
      /\ complete' = ScanState(pending, slot')
      /\ UNCHANGED <<open, task, pending, pushed, scanned, observing, released, forsaken>>
  BY DEF Close, scanVars
<1>2. closed \in [Opens -> Nat] /\ \A w \in Opens : closed[w] > 0 => slot[w] > 0 /\ ~task[w].visible
  BY DEF TypeOK
<1> HIDE DEF closed
<1>3. TypeOK'
  BY <1>1, <1>2 DEF TypeOK, ScanState
<1>4. HandlesSound'
  BY <1>1, <1>2 DEF HandlesSound
<1>5. AtMostOneRoot' /\ FlagSound'
  BY <1>1, <1>2 DEF AtMostOneRoot, FlagSound, ScanState, VisibleIn, Worktrees, Held
<1> QED
  BY <1>3, <1>4, <1>5

(* The invariant is inductive.                                             *)
THEOREM StoreInvariant == Spec => []StoreInv
<1>1. ASSUME StoreInv, [Next]_vars
      PROVE  StoreInv'
  <2>1. CASE UNCHANGED vars
    BY <1>1, <2>1
       DEF vars, StoreInv, TypeOK, HandlesSound, AtMostOneRoot, FlagSound,
           VisibleIn, Worktrees, Held
  <2>2. ASSUME NEW o \in Opens, NEW p \in VisiblePaths, Request(o, p, TRUE)
        PROVE  StoreInv'
    BY <1>1, <2>2, RequestStep, PathAssumption
  <2>3. ASSUME NEW o \in Opens, NEW p \in InvisiblePaths, Request(o, p, FALSE)
        PROVE  StoreInv'
    BY <1>1, <2>3, RequestStep, PathAssumption
  <2>4. ASSUME NEW o \in Opens, OpenTask(o)
        PROVE  StoreInv'
    BY <1>1, <2>4, OpenTaskStep
  <2>5. ASSUME NEW w \in Opens, Built(w) \/ Scanned(w) \/ ScanObserved(w) \/ Release(w)
        PROVE  StoreInv'
    BY <1>1, <2>5, WorktreeStep
  <2>6. CASE Close
    BY <1>1, <2>6, CloseStep
  <2> QED
    BY <1>1, <2>1, <2>2, <2>3, <2>4, <2>5, <2>6 DEF Next
<1> QED
  BY <1>1, StoreInit, PTL DEF Spec

(* The project has at most one root, for any number of opens: what         *)
(* root_worktree asserts.                                                  *)
THEOREM RootIsUnique == Spec => []AtMostOneRoot
<1>1. StoreInv => AtMostOneRoot
  BY DEF StoreInv
<1> QED
  BY <1>1, StoreInvariant, PTL

(* An open that waits has a pending task unless another's end removed it.  *)
LEMMA WaitersPendingNext ==
  ASSUME StoreInv, WaitersPending, [Next]_vars
  PROVE  WaitersPending'
<1> USE DEF WaitersPending
<1>1. pending \in [Paths -> Opens \cup {None}] /\ open \in [Opens -> OpenState] /\ None \notin Opens
  BY NoneAssumption DEF StoreInv, TypeOK
<1>2. ASSUME NEW o \in Opens, NEW c, RemovesPending(o, c),
             open'[o].step # "waiting", \A v \in Opens \ {o} : open'[v] = open[v]
      PROVE  WaitersPending'
  <2> SUFFICES ASSUME NEW v \in Opens, open'[v].step = "waiting", v \notin forsaken'
               PROVE  pending'[open'[v].canonical] # None
    OBVIOUS
  <2>1. v # o /\ open'[v] = open[v] /\ open[v].canonical # c /\ v \notin forsaken
    BY <1>2 DEF RemovesPending
  <2>2. pending'[open[v].canonical] = pending[open[v].canonical]
    BY <1>1, <1>2, <2>1 DEF RemovesPending, StoreInv, HandlesSound
  <2> QED
    BY <2>1, <2>2
<1>3. ASSUME NEW o \in Opens, NEW w, NEW c, Finish(o, w, c)
      PROVE  WaitersPending'
  <2>1. RemovesPending(o, c) /\ open'[o].step # "waiting"
        /\ \A v \in Opens \ {o} : open'[v] = open[v]
    BY <1>1, <1>3 DEF Finish, OpenState
  <2> QED
    BY <1>2, <2>1
<1>4. ASSUME NEW o \in Opens, ResumeFailed(o)
      PROVE  WaitersPending'
  <2>1. RemovesPending(o, open[o].canonical) /\ open'[o].step # "waiting"
        /\ \A v \in Opens \ {o} : open'[v] = open[v]
    BY <1>1, <1>4 DEF ResumeFailed, OpenState
  <2> QED
    BY <1>2, <2>1
<1>5. ASSUME NEW o \in Opens, NEW c \in Paths, JoinTask(o, c) \/ StartTask(o, c)
      PROVE  WaitersPending'
  <2>1. /\ \A v \in Opens \ {o} : open'[v] = open[v]
        /\ open'[o].canonical = c /\ pending'[c] # None /\ forsaken' = forsaken
        /\ \A p \in Paths : pending[p] # None => pending'[p] = pending[p]
    BY <1>1, <1>5 DEF JoinTask, StartTask, OpenState
  <2>2. \A v \in Opens : open[v].step = "waiting" => open[v].canonical \in Paths
    BY <1>1 DEF StoreInv, HandlesSound, OpenState
  <2> QED
    BY <2>1, <2>2
<1>6. ASSUME NEW o \in Opens, NEW c, Supersede(o, c)
      PROVE  WaitersPending'
  BY <1>1, <1>6 DEF Supersede, OpenState
<1>7. ASSUME NEW o \in Opens, NEW p, NEW v, Request(o, p, v)
      PROVE  WaitersPending'
  <2>1. PICK step \in {"opened", "canonicalizing"}, w \in Opens \cup {None} :
          open' = [open EXCEPT ![o] = NewOpen(p, v, step, w)]
    BY <1>7 DEF Request, RequestFound, RequestMissing
  <2>2. UNCHANGED <<pending, forsaken>>
    BY <1>7 DEF Request, RequestFound, RequestMissing, Asked
  <2>3. \A q \in Opens : open'[q].step = "waiting" => open'[q] = open[q]
    BY <1>1, <2>1 DEF NewOpen
  <2> QED
    BY <2>2, <2>3
<1>8. ASSUME UNCHANGED <<open, pending, forsaken>>
      PROVE  WaitersPending'
  BY <1>8
<1>9. CASE \E o \in Opens : OpenTask(o)
  BY <1>3, <1>4, <1>5, <1>6, <1>9 DEF OpenTask, Canonicalized, FindOpen, Resume, ResumeBuilt
<1>10. CASE \E w \in Opens : Built(w) \/ Scanned(w) \/ ScanObserved(w) \/ Release(w)
  BY <1>8, <1>10 DEF Built, Build, Scanned, ScanObserved, Release
<1>11. CASE Close \/ UNCHANGED vars
  BY <1>8, <1>11 DEF Close, vars
<1> QED
  BY <1>7, <1>9, <1>10, <1>11 DEF Next

(* wait_for_initial_scan does not return before the root was scanned, nor  *)
(* while an open waits for its worktree, unless another open's end removed *)
(* the task that it waits for: for any number of opens that share tasks,   *)
(* fail, are superseded or closed.                                         *)
THEOREM CompleteIsSound == Spec => []CompleteMeansScanned
<1>1. Init => WaitersPending
  BY DEF Init, WaitersPending
<1>2. StoreInv /\ WaitersPending => CompleteMeansScanned
  <2> SUFFICES ASSUME StoreInv, WaitersPending, complete, NEW o \in Opens,
                      open[o].step = "waiting"
               PROVE  o \in forsaken
    BY DEF CompleteMeansScanned, StoreInv, FlagSound
  <2>1. open[o].canonical \in Paths
    BY DEF StoreInv, HandlesSound, TypeOK, OpenState
  <2> QED
    BY <2>1 DEF StoreInv, FlagSound, WaitersPending
<1> QED
  BY <1>1, <1>2, StoreInvariant, WaitersPendingNext, PTL DEF Spec
-----------------------------------------------------------------------------
(***************************************************************************)
(* The flag is not late either.  A pending task is awaited by the open     *)
(* that started it, and its worktree is not in the store yet.              *)
(***************************************************************************)
PendingAwaited ==
  \A p \in Paths : pending[p] # None =>
    /\ open[pending[p]].step = "waiting" /\ open[pending[p]].canonical = p
    /\ open[pending[p]].worktree = pending[p]
    /\ slot[pending[p]] = 0

(* The store learns when the scan of its worktree ends.                    *)
ScansObserved == \A w \in VisibleIn(Worktrees) : w \notin scanned => w \in observing

(* An open is yet to add its worktree.                                     *)
Adding(o) == open[o].step = "waiting" /\ open[o].worktree \notin Worktrees

(* While the flag is down, a step that looks at it again is to come, or a  *)
(* visible open was superseded (whose task left the flag as it was).       *)
FlagFollows ==
  ~complete => \/ \E o \in Opens : open[o].step = "superseded"
               \/ \E o \in Opens : Adding(o)
               \/ \E w \in VisibleIn(Worktrees) : w \notin scanned \ observing

ScanInv == PendingAwaited /\ ScansObserved /\ FlagFollows

(* When the flag is computed anew, what is missing is what is to come.     *)
LEMMA FlagSet ==
  ASSUME StoreInv', PendingAwaited', complete' = ScanState(pending', slot'),
         UNCHANGED <<scanned, released>>,
         \A w \in Opens : slot'[w] > 0 => task'[w] = task[w]
  PROVE  FlagFollows'
<1> SUFFICES ASSUME ~complete'
             PROVE  \/ \E o \in Opens : Adding(o)'
                    \/ \E w \in VisibleIn(Worktrees)' : w \notin scanned' \ observing'
  BY DEF FlagFollows
<1>1. CASE \E p \in Paths : pending'[p] # None
  <2>1. PICK p \in Paths : pending'[p] # None
    BY <1>1
  <2>2. PICK o \in Opens : o = pending'[p]
    BY <2>1 DEF StoreInv, TypeOK
  <2>3. Adding(o)'
    BY <2>1, <2>2 DEF PendingAwaited, Adding, Worktrees, Held
  <2> QED
    BY <2>3
<1>2. CASE \A p \in Paths : pending'[p] = None
  <2>1. PICK w \in Opens : slot'[w] > 0 /\ w \notin released' /\ task'[w].visible /\ w \notin scanned
    <3>1. ~ \A w \in VisibleIn(Held(slot')) : w \in scanned
      BY <1>2 DEF ScanState
    <3> QED
      BY <3>1 DEF VisibleIn, Held
  <2>2. w \in VisibleIn(Worktrees)'
    BY <2>1 DEF VisibleIn, Worktrees, Held
  <2> QED
    BY <2>1, <2>2
<1> QED
  BY <1>1, <1>2

(* When it is left alone, what was to come still is.                       *)
LEMMA FlagKept ==
  ASSUME FlagFollows, complete' = complete,
         \A o \in Opens : open[o].step = "superseded" => open'[o].step = "superseded",
         \A o \in Opens : Adding(o) => Adding(o)',
         \A w \in VisibleIn(Worktrees) : w \notin scanned \ observing =>
           w \in VisibleIn(Worktrees)' /\ w \notin scanned' \ observing'
  PROVE  FlagFollows'
  BY DEF FlagFollows

(* The end of an open takes its task off the list.                         *)
LEMMA FinishScanInv ==
  ASSUME StoreInv, ScanInv, StoreInv', NEW o \in Opens, NEW w \in Opens, NEW c \in Paths,
         open[o].step \in InFlight, task[w].status = "ready", w \notin released,
         task[w].path = c, Finish(o, w, c),
         open[o].step = "waiting" => open[o].worktree = w /\ open[o].canonical = c,
         open[o].step = "canonicalizing" => w \in Worktrees
  PROVE  ScanInv'
<1> DEFINE arrives == open[o].visible => IsLatest(o, c)
           added == arrives /\ w \notin Worktrees
<1>1. /\ open' = [open EXCEPT ![o].step = IF arrives THEN "opened" ELSE "superseded",
                              ![o].canonical = c, ![o].worktree = w]
      /\ pending' = [pending EXCEPT ![c] = None]
      /\ IF added THEN /\ slot' = Added(w)
                       /\ observing' = IF task[w].visible THEN observing \cup {w} ELSE observing
                       /\ complete' = ScanState(pending', slot')
                  ELSE UNCHANGED <<slot, observing, complete>>
      /\ UNCHANGED <<task, scanned, released>>
  BY DEF Finish, RemovesPending, storeVars
<1>2. /\ \A q \in Opens : q # o => open'[q] = open[q]
      /\ open'[o].step = IF arrives THEN "opened" ELSE "superseded"
      /\ \A p \in Paths : pending'[p] = IF p = c THEN None ELSE pending[p]
  BY <1>1 DEF StoreInv, TypeOK, OpenState
<1>3. slot \in [Opens -> Nat] /\ \A p \in Paths : pending[p] \in Opens \cup {None}
  BY DEF StoreInv, TypeOK
<1>4. \A v \in Opens : slot[v] = 0 /\ v # w => slot'[v] = 0
  BY <1>1, <1>3 DEF Added
<1>5. PendingAwaited'
  <2> SUFFICES ASSUME NEW p \in Paths, pending'[p] # None
               PROVE  /\ open'[pending'[p]].step = "waiting" /\ open'[pending'[p]].canonical = p
                      /\ open'[pending'[p]].worktree = pending'[p]
                      /\ slot'[pending'[p]] = 0
    BY DEF PendingAwaited
  <2>1. p # c /\ pending'[p] = pending[p] /\ pending[p] \in Opens
    BY <1>2, <1>3
  <2>2. /\ open[pending[p]].step = "waiting" /\ open[pending[p]].canonical = p
        /\ open[pending[p]].worktree = pending[p]
        /\ slot[pending[p]] = 0 /\ task[pending[p]].path = p
    BY <2>1 DEF ScanInv, PendingAwaited, StoreInv, HandlesSound
  <2>3. pending[p] # o /\ pending[p] # w
    BY <2>1, <2>2
  <2> QED
    BY <1>2, <1>4, <2>1, <2>2, <2>3
<1>6. CASE added
  <2>1. ScansObserved'
    <3> SUFFICES ASSUME NEW v \in VisibleIn(Worktrees)', v \notin scanned
                 PROVE  v \in observing'
      BY <1>1 DEF ScansObserved
    <3>1. v \in Opens /\ slot'[v] > 0 /\ task[v].visible /\ v \notin released
      BY <1>1 DEF VisibleIn, Worktrees, Held
    <3>2. CASE v = w
      BY <1>1, <1>6, <3>1, <3>2
    <3>3. CASE v # w
      <4>1. v \in VisibleIn(Worktrees)
        BY <1>3, <1>4, <3>1, <3>3 DEF VisibleIn, Worktrees, Held
      <4> QED
        BY <1>1, <1>6, <4>1 DEF ScanInv, ScansObserved
    <3> QED
      BY <3>2, <3>3
  <2>2. FlagFollows'
    BY <1>1, <1>5, <1>6, FlagSet
  <2> QED
    BY <1>5, <2>1, <2>2 DEF ScanInv
<1>7. CASE ~added
  <2>1. UNCHANGED <<slot, observing, complete>>
    BY <1>1, <1>7
  <2>2. Worktrees' = Worktrees /\ VisibleIn(Worktrees)' = VisibleIn(Worktrees)
    BY <1>1, <2>1 DEF VisibleIn, Worktrees, Held
  <2>3. ScansObserved'
    BY <1>1, <2>1, <2>2 DEF ScanInv, ScansObserved
  <2>4. CASE ~arrives
    <3>1. open'[o].step = "superseded"
      BY <1>2, <2>4
    <3>2. FlagFollows'
      BY <3>1 DEF FlagFollows
    <3> QED
      BY <1>5, <2>3, <3>2 DEF ScanInv
  <2>5. CASE arrives
    <3>1. \A q \in Opens : Adding(q) => Adding(q)'
      BY <1>2, <1>7, <2>2, <2>5 DEF Adding
    <3>2. \A q \in Opens : open[q].step = "superseded" => open'[q].step = "superseded"
      BY <1>2 DEF InFlight
    <3> QED
      BY <1>1, <1>5, <2>1, <2>2, <2>3, <3>1, <3>2, FlagKept DEF ScanInv
  <2> QED
    BY <2>4, <2>5
<1> QED
  BY <1>6, <1>7

(* A step of an open that leaves the worktrees alone.                      *)
LEMMA OpenScanInv ==
  ASSUME StoreInv, ScanInv, NEW o \in Opens, open[o].step \in {"idle", "canonicalizing"},
         \A q \in Opens : q # o => open'[q] = open[q],
         UNCHANGED <<task, pending, slot, scanned, observing, released, complete>>
  PROVE  ScanInv'
<1>1. Worktrees' = Worktrees /\ VisibleIn(Worktrees)' = VisibleIn(Worktrees)
  BY DEF VisibleIn, Worktrees, Held
<1>2. \A p \in Paths : pending[p] # None => pending[p] \in Opens /\ pending[p] # o
  BY DEF StoreInv, TypeOK, ScanInv, PendingAwaited
<1>3. PendingAwaited'
  BY <1>2 DEF ScanInv, PendingAwaited
<1>4. ScansObserved'
  BY <1>1 DEF ScanInv, ScansObserved
<1>5. \A q \in Opens : Adding(q) => Adding(q)'
  BY <1>1 DEF Adding
<1>6. \A q \in Opens : open[q].step = "superseded" => open'[q].step = "superseded"
  OBVIOUS
<1> QED
  BY <1>1, <1>3, <1>4, <1>5, <1>6, FlagKept DEF ScanInv

(* ScanInv: an open starts a task, and waits for it.                       *)
LEMMA StartTaskScanInv ==
  ASSUME StoreInv, ScanInv, StoreInv', NEW o \in Opens, NEW c \in Paths, StartTask(o, c)
  PROVE  ScanInv'
<1>1. /\ open' = [open EXCEPT ![o].step = "waiting", ![o].canonical = c, ![o].worktree = o]
      /\ \A q \in Opens : q # o => task'[q] = task[q]
      /\ pending' = [pending EXCEPT ![c] = o]
      /\ complete' = ScanState(pending', slot')
      /\ UNCHANGED <<slot, scanned, observing, released>>
  BY DEF StartTask, storeVars, scanVars, StoreInv, TypeOK
<1>2. open[o].step = "canonicalizing" /\ slot[o] = 0
  <2>1. open[o].step = "canonicalizing" /\ ~(slot[o] > 0)
    BY DEF StartTask, Canonicalizes, StoreInv, HandlesSound
  <2> QED
    BY <2>1 DEF StoreInv, TypeOK
<1>3. /\ \A q \in Opens : q # o => open'[q] = open[q]
      /\ open'[o].step = "waiting" /\ open'[o].canonical = c /\ open'[o].worktree = o
      /\ \A p \in Paths : pending'[p] = IF p = c THEN o ELSE pending[p]
  BY <1>1 DEF StoreInv, TypeOK, OpenState
<1>4. PendingAwaited'
  <2>1. \A p \in Paths : pending[p] # None => pending[p] \in Opens /\ pending[p] # o
    BY <1>2 DEF StoreInv, TypeOK, ScanInv, PendingAwaited
  <2> SUFFICES ASSUME NEW p \in Paths, pending'[p] # None
               PROVE  /\ open'[pending'[p]].step = "waiting" /\ open'[pending'[p]].canonical = p
                      /\ open'[pending'[p]].worktree = pending'[p]
                      /\ slot'[pending'[p]] = 0
    BY DEF PendingAwaited
  <2>2. CASE p = c
    BY <1>1, <1>2, <1>3, <2>2
  <2>3. CASE p # c
    <3>1. pending'[p] = pending[p]
      BY <1>3, <2>3
    <3>2. /\ pending[p] \in Opens /\ pending[p] # o
          /\ open[pending[p]].step = "waiting" /\ open[pending[p]].canonical = p
          /\ open[pending[p]].worktree = pending[p] /\ slot[pending[p]] = 0
      BY <2>1, <3>1 DEF ScanInv, PendingAwaited
    <3>3. open'[pending[p]] = open[pending[p]]
      BY <1>3, <3>2
    <3> QED
      BY <1>1, <3>1, <3>2, <3>3
  <2> QED
    BY <2>2, <2>3
<1>5. ScansObserved'
  <2>1. VisibleIn(Worktrees)' \subseteq VisibleIn(Worktrees)
    BY <1>1, <1>2 DEF VisibleIn, Worktrees, Held
  <2> QED
    BY <1>1, <2>1 DEF ScanInv, ScansObserved
<1>6. \A v \in Opens : slot'[v] > 0 => task'[v] = task[v]
  BY <1>1, <1>2
<1>7. FlagFollows'
  BY <1>1, <1>4, <1>6, FlagSet
<1> QED
  BY <1>4, <1>5, <1>7 DEF ScanInv

(* ScanInv: an open gets the error of its task.                            *)
LEMMA ResumeFailedScanInv ==
  ASSUME StoreInv, ScanInv, StoreInv', NEW o \in Opens, ResumeFailed(o)
  PROVE  ScanInv'
<1> DEFINE c == open[o].canonical
<1>1. /\ open' = [open EXCEPT ![o].step = "failed"]
      /\ pending' = [pending EXCEPT ![c] = None]
      /\ complete' = ScanState(pending', slot')
      /\ UNCHANGED <<task, slot, scanned, observing, released>>
  BY DEF ResumeFailed, RemovesPending, storeVars, scanVars
<1>2. /\ \A q \in Opens : q # o => open'[q] = open[q]
      /\ \A p \in Paths : pending'[p] = IF p = c THEN None ELSE pending[p]
  BY <1>1 DEF StoreInv, TypeOK
<1>3. PendingAwaited'
  <2>1. \A p \in Paths : pending'[p] # None =>
          pending'[p] = pending[p] /\ pending[p] \in Opens /\ pending[p] # o
    BY <1>2 DEF StoreInv, TypeOK, ScanInv, PendingAwaited
  <2> QED
    BY <1>1, <1>2, <2>1 DEF ScanInv, PendingAwaited
<1>4. ScansObserved'
  BY <1>1 DEF ScanInv, ScansObserved, VisibleIn, Worktrees, Held
<1> QED
  BY <1>1, <1>3, <1>4, FlagSet DEF ScanInv

(* ScanInv: the steps of create_worktree.                                  *)
LEMMA OpenTaskScanInv ==
  ASSUME StoreInv, ScanInv, StoreInv', NEW o \in Opens, OpenTask(o)
  PROVE  ScanInv'
<1>1. CASE ResumeBuilt(o)
  <2>1. /\ open[o].step = "waiting" /\ task[open[o].worktree].status = "ready"
        /\ Finish(o, open[o].worktree, open[o].canonical)
        /\ open[o].worktree \in Opens /\ open[o].canonical \in Paths
        /\ open[o].worktree \notin released
        /\ task[open[o].worktree].path = open[o].canonical
    BY <1>1 DEF ResumeBuilt, StoreInv, HandlesSound, TypeOK, OpenState
  <2> QED
    BY <2>1, FinishScanInv DEF InFlight
<1>2. CASE ResumeFailed(o)
  BY <1>2, ResumeFailedScanInv
<1>3. ASSUME NEW c \in Paths, Canonicalized(o, c)
      PROVE  ScanInv'
  <2>1. CASE Supersede(o, c)
    BY <2>1, OpenScanInv DEF Supersede, Canonicalizes, storeVars, scanVars, StoreInv, TypeOK
  <2>2. CASE JoinTask(o, c)
    BY <2>2, OpenScanInv DEF JoinTask, Canonicalizes, storeVars, scanVars, StoreInv, TypeOK
  <2>3. CASE FindOpen(o, c)
    <3>1. PICK w \in Opens : IsOpen(w, c) /\ Finish(o, w, c)
      BY <2>3 DEF FindOpen
    <3>2. open[o].step = "canonicalizing"
      BY <2>3 DEF FindOpen, Canonicalizes
    <3>3. /\ w \in Worktrees /\ task[w].status = "ready" /\ w \notin released
          /\ task[w].path = c
      BY <3>1 DEF IsOpen, IsFirst, Containing, Worktrees, Held, StoreInv, HandlesSound
    <3> QED
      BY <3>1, <3>2, <3>3, FinishScanInv DEF InFlight
  <2> QED
    BY <1>3, <2>1, <2>2, <2>3, StartTaskScanInv DEF Canonicalized
<1> QED
  BY <1>1, <1>2, <1>3 DEF OpenTask, Resume

(* ScanInv: a worktree is built, scanned, observed or released.            *)
LEMMA WorktreeScanInv ==
  ASSUME StoreInv, ScanInv, StoreInv', NEW w \in Opens,
         Built(w) \/ Scanned(w) \/ ScanObserved(w) \/ Release(w)
  PROVE  ScanInv'
<1>1. UNCHANGED <<open, pending, slot>>
  BY DEF Built, Build, Scanned, ScanObserved, Release, storeVars
<1>2. PendingAwaited'
  BY <1>1 DEF ScanInv, PendingAwaited
<1>3. CASE Built(w)
  <2>1. PICK status \in {"ready", "failed"} : Build(w, status)
    BY <1>3 DEF Built
  <2>2. /\ UNCHANGED <<scanned, observing, released, complete>>
        /\ \A v \in Opens : task'[v].visible = task[v].visible
    BY <2>1 DEF Build, scanVars, StoreInv, TypeOK, TaskState
  <2>3. Worktrees' = Worktrees /\ VisibleIn(Worktrees)' = VisibleIn(Worktrees)
    BY <1>1, <2>2 DEF VisibleIn, Worktrees, Held
  <2>4. ScansObserved'
    BY <2>2, <2>3 DEF ScanInv, ScansObserved
  <2>5. \A q \in Opens : Adding(q) => Adding(q)'
    BY <1>1, <2>3 DEF Adding
  <2> QED
    BY <1>1, <1>2, <2>2, <2>3, <2>4, <2>5, FlagKept DEF ScanInv
<1>4. CASE Scanned(w)
  <2>1. UNCHANGED <<task, observing, released, complete>> /\ scanned' = scanned \cup {w}
    BY <1>4 DEF Scanned
  <2>2. Worktrees' = Worktrees /\ VisibleIn(Worktrees)' = VisibleIn(Worktrees)
    BY <1>1, <2>1 DEF VisibleIn, Worktrees, Held
  <2>3. ScansObserved'
    BY <2>1, <2>2 DEF ScanInv, ScansObserved
  <2>4. \A v \in VisibleIn(Worktrees) : v \notin scanned \ observing => v \notin scanned' \ observing'
    BY <1>4, <2>1 DEF Scanned, ScanInv, ScansObserved
  <2>5. \A q \in Opens : Adding(q) => Adding(q)'
    BY <1>1, <2>2 DEF Adding
  <2> QED
    BY <1>1, <1>2, <2>1, <2>2, <2>3, <2>4, <2>5, FlagKept DEF ScanInv
<1>5. CASE ScanObserved(w)
  <2>1. /\ UNCHANGED <<task, scanned, released>> /\ observing' = observing \ {w}
        /\ w \in scanned \cup released /\ complete' = ScanState(pending', slot')
    BY <1>1, <1>5 DEF ScanObserved, ScanStateNow
  <2>2. VisibleIn(Worktrees)' = VisibleIn(Worktrees)
    BY <1>1, <2>1 DEF VisibleIn, Worktrees, Held
  <2>3. ScansObserved'
    <3>1. \A v \in VisibleIn(Worktrees) : v \notin released
      BY DEF VisibleIn, Worktrees, Held
    <3> QED
      BY <2>1, <2>2, <3>1 DEF ScanInv, ScansObserved
  <2> QED
    BY <1>2, <2>1, <2>3, FlagSet DEF ScanInv
<1>6. CASE Release(w)
  <2>1. /\ UNCHANGED <<task, scanned, observing, complete>> /\ released' = released \cup {w}
        /\ ~(slot[w] > 0 /\ task[w].visible)
    BY <1>6 DEF Release, scanVars
  <2>2. Worktrees' \subseteq Worktrees /\ VisibleIn(Worktrees)' = VisibleIn(Worktrees)
    BY <1>1, <2>1 DEF VisibleIn, Worktrees, Held
  <2>3. ScansObserved'
    BY <2>1, <2>2 DEF ScanInv, ScansObserved
  <2>4. \A q \in Opens : Adding(q) => Adding(q)'
    BY <1>1, <2>2 DEF Adding
  <2> QED
    BY <1>1, <1>2, <2>1, <2>2, <2>3, <2>4, FlagKept DEF ScanInv
<1> QED
  BY <1>3, <1>4, <1>5, <1>6

(* ScanInv: remove_worktree.                                               *)
LEMMA CloseScanInv ==
  ASSUME StoreInv, ScanInv, StoreInv', Close
  PROVE  ScanInv'
<1>1. /\ slot' = [w \in Opens |-> IF w \in released \/ task[w].visible THEN 0 ELSE slot[w]]
      /\ complete' = ScanState(pending', slot')
      /\ UNCHANGED <<open, task, pending, scanned, observing, released>>
  BY DEF Close, scanVars
<1>2. PendingAwaited'
  <2>1. \A p \in Paths : pending[p] # None => pending[p] \in Opens
    BY DEF StoreInv, TypeOK
  <2> QED
    BY <1>1, <2>1 DEF ScanInv, PendingAwaited
<1>3. ScansObserved'
  BY <1>1 DEF ScansObserved, VisibleIn, Worktrees, Held
<1> QED
  BY <1>1, <1>2, <1>3, FlagSet DEF ScanInv

(* Once everything settled and no visible open was superseded, whoever     *)
(* waits for the initial scan is woken: opens that share a task, fail or   *)
(* find the worktree open never leave initial_scan_complete behind.        *)
THEOREM SettledScanIsComplete == Spec => []ScanStateSettlesOnSuccess
<1>1. Init => ScanInv
  BY DEF Init, ScanInv, PendingAwaited, ScansObserved, FlagFollows, VisibleIn, Worktrees, Held
<1>2. ASSUME StoreInv, ScanInv, StoreInv', [Next]_vars
      PROVE  ScanInv'
  <2>1. CASE UNCHANGED vars
    BY <1>2, <2>1
       DEF vars, ScanInv, PendingAwaited, ScansObserved, FlagFollows, Adding, VisibleIn,
           Worktrees, Held
  <2>2. ASSUME NEW o \in Opens, NEW p \in Paths, NEW v \in BOOLEAN, Request(o, p, v)
        PROVE  ScanInv'
    BY <1>2, <2>2, OpenScanInv
       DEF Request, RequestFound, RequestMissing, Asked, storeVars, scanVars, StoreInv, TypeOK
  <2> QED
    BY <1>2, <2>1, <2>2, OpenTaskScanInv, WorktreeScanInv, CloseScanInv, PathAssumption DEF Next
<1>3. ScanInv => ScanStateSettlesOnSuccess
  BY DEF ScanInv, FlagFollows, ScanStateSettlesOnSuccess, Settled, InFlight, Adding
<1> QED
  BY <1>1, <1>2, <1>3, StoreInvariant, PTL DEF Spec
-----------------------------------------------------------------------------
(***************************************************************************)
(* The refinement.                                                         *)
(***************************************************************************)
(* A path of a worktree comes from the open that started it, and an open   *)
(* was asked for under a visible or an invisible path.                     *)
RootInv ==
  /\ \A o \in Opens : open[o].step = "idle" => ~open[o].visible
  /\ \A o \in Opens : open[o].step # "idle" =>
       open[o].path \in IF open[o].visible THEN VisiblePaths ELSE InvisiblePaths
  /\ \A o \in Opens : open[o].epoch <= epoch
  /\ \A w \in Opens : task[w].status # "none" =>
       \E p \in Paths : /\ p \in IF task[w].visible THEN VisiblePaths ELSE InvisiblePaths
                        /\ task[w].path \in Names(p)

(* What a step may do to the tasks and opens without disturbing RootInv.   *)
LEMMA RootInvKept ==
  ASSUME StoreInv, RootInv, epoch' \in Nat, epoch <= epoch',
         \A o \in Opens : /\ open'[o].visible = open[o].visible
                          /\ open'[o].path = open[o].path
                          /\ open'[o].epoch = open[o].epoch
                          /\ open[o].step # "idle" <=> open'[o].step # "idle",
         \A w \in Opens : task'[w].status # "none" =>
            /\ task[w].status # "none"
            /\ task'[w].path = task[w].path /\ task'[w].visible = task[w].visible
  PROVE  RootInv'
<1>1. \A o \in Opens : open[o].epoch \in Nat
  BY DEF StoreInv, TypeOK, OpenState
<1>2. \A o \in Opens : open'[o].epoch <= epoch'
  BY <1>1 DEF StoreInv, TypeOK, RootInv
<1> QED
  BY <1>2 DEF RootInv, Names

(* The end of an open keeps RootInv.                                       *)
LEMMA FinishRootInv ==
  ASSUME StoreInv, RootInv, NEW o \in Opens, NEW w \in Opens, NEW c \in Paths,
         open[o].step \in InFlight, Finish(o, w, c)
  PROVE  RootInv'
<1>1. /\ epoch' = epoch /\ task' = task
      /\ \E s \in {"opened", "superseded"} :
           open' = [open EXCEPT ![o].step = s, ![o].canonical = c, ![o].worktree = w]
  BY DEF Finish
<1>2. /\ \A q \in Opens : q # o => open'[q] = open[q]
      /\ open'[o].visible = open[o].visible /\ open'[o].path = open[o].path
      /\ open'[o].epoch = open[o].epoch /\ open'[o].step \in {"opened", "superseded"}
  BY <1>1 DEF StoreInv, TypeOK, OpenState
<1>3. epoch' \in Nat /\ epoch <= epoch'
  BY <1>1 DEF StoreInv, TypeOK
<1> QED
  BY <1>1, <1>2, <1>3, RootInvKept DEF InFlight

(* A task that starts is for a name of the open that starts it.            *)
LEMMA StartTaskRootInv ==
  ASSUME StoreInv, RootInv, NEW o \in Opens, NEW c \in Paths, StartTask(o, c)
  PROVE  RootInv'
<1>1. /\ open' = [open EXCEPT ![o].step = "waiting", ![o].canonical = c, ![o].worktree = o]
      /\ task' = [task EXCEPT ![o] = [status |-> "running", path |-> c, visible |-> open[o].visible]]
      /\ epoch' = epoch
      /\ open[o].step = "canonicalizing" /\ c \in {open[o].path, Canonical[open[o].path]}
  BY DEF StartTask, Canonicalizes
<1>2. /\ \A q \in Opens : q # o => open'[q] = open[q]
      /\ open'[o].visible = open[o].visible /\ open'[o].path = open[o].path
      /\ open'[o].epoch = open[o].epoch /\ open'[o].step = "waiting"
  BY <1>1 DEF StoreInv, TypeOK, OpenState
<1>3. /\ \A v \in Opens : v # o => task'[v] = task[v]
      /\ task'[o].path = c /\ task'[o].visible = open[o].visible
  BY <1>1 DEF StoreInv, TypeOK
<1>4. /\ open[o].path \in IF open[o].visible THEN VisiblePaths ELSE InvisiblePaths
      /\ c \in Names(open[o].path) /\ open[o].path \in Paths
  BY <1>1 DEF RootInv, Names, StoreInv, HandlesSound
<1>5. \E p \in Paths : /\ p \in IF task'[o].visible THEN VisiblePaths ELSE InvisiblePaths
                       /\ task'[o].path \in Names(p)
  BY <1>3, <1>4
<1>6. \A w \in Opens : task'[w].status # "none" =>
        \E p \in Paths : /\ p \in IF task'[w].visible THEN VisiblePaths ELSE InvisiblePaths
                         /\ task'[w].path \in Names(p)
  <2> SUFFICES ASSUME NEW w \in Opens, task'[w].status # "none", w # o
               PROVE  \E p \in Paths : /\ p \in IF task'[w].visible THEN VisiblePaths ELSE InvisiblePaths
                                       /\ task'[w].path \in Names(p)
    BY <1>5
  <2> QED
    BY <1>3 DEF RootInv
<1>7. /\ \A q \in Opens : open'[q].step = "idle" => ~open'[q].visible
      /\ \A q \in Opens : open'[q].step # "idle" =>
           open'[q].path \in IF open'[q].visible THEN VisiblePaths ELSE InvisiblePaths
      /\ \A q \in Opens : open'[q].epoch <= epoch'
  <2>1. \A q \in Opens : /\ open'[q].visible = open[q].visible /\ open'[q].path = open[q].path
                         /\ open'[q].epoch = open[q].epoch
                         /\ open'[q].step = "idle" <=> open[q].step = "idle"
    BY <1>1, <1>2
  <2>2. \A q \in Opens : open'[q].step = "idle" => ~open'[q].visible
    BY <2>1 DEF RootInv
  <2>3. \A q \in Opens : open'[q].step # "idle" =>
           open'[q].path \in IF open'[q].visible THEN VisiblePaths ELSE InvisiblePaths
    <3> SUFFICES ASSUME NEW q \in Opens, open'[q].step # "idle"
                 PROVE  open'[q].path \in IF open'[q].visible THEN VisiblePaths ELSE InvisiblePaths
      OBVIOUS
    <3>1. open[q].path \in IF open[q].visible THEN VisiblePaths ELSE InvisiblePaths
      BY <2>1 DEF RootInv
    <3> QED
      BY <2>1, <3>1
  <2>4. \A q \in Opens : open'[q].epoch <= epoch'
    BY <1>1, <2>1 DEF RootInv
  <2> QED
    BY <2>2, <2>3, <2>4
<1> QED
  BY <1>6, <1>7 DEF RootInv, Names

(* A request is for a path of its own kind.                                *)
LEMMA RequestRootInv ==
  ASSUME StoreInv, RootInv, NEW o \in Opens, NEW v \in BOOLEAN,
         NEW p \in IF v THEN VisiblePaths ELSE InvisiblePaths, Request(o, p, v)
  PROVE  RootInv'
<1>1. PICK step \in {"opened", "canonicalizing"}, w \in Opens \cup {None} :
        open' = [open EXCEPT ![o] = NewOpen(p, v, step, w)]
  BY DEF Request, RequestFound, RequestMissing
<1>2. /\ epoch' = epoch /\ task' = task
  BY DEF Request, RequestFound, RequestMissing, Asked
<1>3. \A q \in Opens : open'[q] = IF q = o THEN NewOpen(p, v, step, w) ELSE open[q]
  BY <1>1 DEF StoreInv, TypeOK
<1>4. epoch \in Nat
  BY DEF StoreInv, TypeOK
<1> QED
  BY <1>2, <1>3, <1>4 DEF RootInv, NewOpen

(* RootInv through the steps of create_worktree.                           *)
LEMMA OpenTaskRootInv ==
  ASSUME StoreInv, RootInv, NEW o \in Opens, OpenTask(o)
  PROVE  RootInv'
<1>0. epoch \in Nat /\ epoch <= epoch
  BY DEF StoreInv, TypeOK
<1>1. CASE ResumeBuilt(o)
  <2>1. /\ open[o].step = "waiting" /\ Finish(o, open[o].worktree, open[o].canonical)
        /\ open[o].worktree \in Opens /\ open[o].canonical \in Paths
    BY <1>1 DEF ResumeBuilt, StoreInv, HandlesSound, TypeOK, OpenState
  <2> QED
    BY <2>1, FinishRootInv DEF InFlight
<1>2. ASSUME NEW s \in {"failed", "superseded"}, open[o].step \in InFlight,
             open' = [open EXCEPT ![o].step = s], UNCHANGED <<task, epoch>>
      PROVE  RootInv'
  <2>1. /\ \A q \in Opens : q # o => open'[q] = open[q]
        /\ open'[o].visible = open[o].visible /\ open'[o].path = open[o].path
        /\ open'[o].epoch = open[o].epoch /\ open'[o].step = s
    BY <1>2 DEF StoreInv, TypeOK, OpenState
  <2> QED
    BY <1>0, <1>2, <2>1, RootInvKept DEF InFlight
<1>3. CASE ResumeFailed(o)
  BY <1>2, <1>3 DEF ResumeFailed, InFlight
<1>4. ASSUME NEW c \in Paths, Canonicalized(o, c)
      PROVE  RootInv'
  <2>1. CASE Supersede(o, c)
    BY <1>2, <2>1 DEF Supersede, Canonicalizes, InFlight
  <2>2. CASE FindOpen(o, c)
    BY <2>2, FinishRootInv DEF FindOpen, Canonicalizes, InFlight
  <2>3. CASE JoinTask(o, c)
    <3>1. /\ open[o].step = "canonicalizing" /\ UNCHANGED <<task, epoch>>
          /\ open' = [open EXCEPT ![o].step = "waiting", ![o].canonical = c,
                                  ![o].worktree = pending[c]]
      BY <2>3 DEF JoinTask, Canonicalizes
    <3>2. /\ \A q \in Opens : q # o => open'[q] = open[q]
          /\ open'[o].visible = open[o].visible /\ open'[o].path = open[o].path
          /\ open'[o].epoch = open[o].epoch /\ open'[o].step = "waiting"
      BY <3>1 DEF StoreInv, TypeOK, OpenState
    <3> QED
      BY <1>0, <3>1, <3>2, RootInvKept
  <2> QED
    BY <1>4, <2>1, <2>2, <2>3, StartTaskRootInv DEF Canonicalized
<1> QED
  BY <1>1, <1>3, <1>4 DEF OpenTask, Resume

(* RootInv through what happens to worktrees otherwise.                    *)
LEMMA WorktreeRootInv ==
  ASSUME StoreInv, RootInv, NEW w \in Opens,
         Built(w) \/ Scanned(w) \/ ScanObserved(w) \/ Release(w)
  PROVE  RootInv'
<1>1. ASSUME NEW status \in {"ready", "failed"}, Build(w, status)
      PROVE  RootInv'
  <2>1. /\ task[w].status = "running" /\ task' = [task EXCEPT ![w].status = status]
        /\ UNCHANGED <<open, epoch>>
    BY <1>1 DEF Build
  <2>2. /\ \A v \in Opens : v # w => task'[v] = task[v]
        /\ task'[w].path = task[w].path /\ task'[w].visible = task[w].visible
    BY <2>1 DEF StoreInv, TypeOK, TaskState
  <2> QED
    BY <2>1, <2>2 DEF RootInv
<1>2. ASSUME UNCHANGED <<open, task, epoch>>
      PROVE  RootInv'
  BY <1>2 DEF RootInv
<1> QED
  BY <1>1, <1>2 DEF Built, Scanned, ScanObserved, Release

(* Both invariants together.                                               *)
LEMMA RootInvariant == Spec => [](StoreInv /\ RootInv)
<1>1. Init => RootInv
  BY DEF Init, RootInv
<1>2. ASSUME StoreInv, RootInv, [Next]_vars
      PROVE  RootInv'
  <2>1. CASE UNCHANGED vars
    BY <1>2, <2>1 DEF vars, RootInv
  <2>2. ASSUME NEW o \in Opens, NEW p \in VisiblePaths, Request(o, p, TRUE)
        PROVE  RootInv'
    BY <1>2, <2>2, RequestRootInv
  <2>3. ASSUME NEW o \in Opens, NEW p \in InvisiblePaths, Request(o, p, FALSE)
        PROVE  RootInv'
    BY <1>2, <2>3, RequestRootInv
  <2>4. CASE Close
    <3>1. UNCHANGED <<open, task>> /\ epoch' = epoch + 1
      BY <2>4 DEF Close
    <3>2. epoch \in Nat /\ \A o \in Opens : open[o].epoch \in Nat
      BY <1>2 DEF StoreInv, TypeOK, OpenState
    <3> QED
      BY <1>2, <3>1, <3>2 DEF RootInv
  <2> QED
    BY <1>2, <2>1, <2>2, <2>3, <2>4, OpenTaskRootInv, WorktreeRootInv DEF Next
<1> QED
  BY <1>1, <1>2, StoreInvariant, PTL DEF Spec

-----------------------------------------------------------------------------
(* The root is the path of the visible worktree, before and after a step.  *)
LEMMA RootOf ==
  ASSUME AtMostOneRoot, NEW w \in Opens, w \in VisibleIn(Worktrees)
  PROVE  root = task[w].path
  BY DEF root, AtMostOneRoot

(* The same after the step.                                                *)
LEMMA RootOfNext ==
  ASSUME AtMostOneRoot', NEW w \in Opens, w \in VisibleIn(Worktrees)'
  PROVE  root' = task'[w].path
  BY DEF root, AtMostOneRoot

(* The root stays when the visible worktrees do.                           *)
LEMMA RootSame ==
  ASSUME VisibleIn(Worktrees)' = VisibleIn(Worktrees),
         \A v \in VisibleIn(Worktrees) : task'[v].path = task[v].path
  PROVE  root' = root
<1>1. CASE VisibleIn(Worktrees) = {}
  BY <1>1 DEF root
<1>2. CASE VisibleIn(Worktrees) # {}
  <2>1. (CHOOSE w \in Opens : w \in VisibleIn(Worktrees)) \in VisibleIn(Worktrees)
    BY <1>2 DEF VisibleIn, Worktrees, Held
  <2> QED
    BY <1>2, <2>1 DEF root
<1> QED
  BY <1>1, <1>2

(* PathsApart: what is found or shared under a visible path is visible,    *)
(* and what is shared under an invisible one is not.                       *)
LEMMA VisibleByPath ==
  ASSUME RootInv, NEW w \in Opens, task[w].status # "none", task[w].visible \in BOOLEAN,
         NEW p \in VisiblePaths, NEW c \in Names(p), task[w].path \in Above[c]
  PROVE  task[w].visible
  BY PathsApart DEF RootInv

(* What is shared under the names of an invisible path is not visible.     *)
LEMMA InvisibleByPath ==
  ASSUME RootInv, NEW w \in Opens, task[w].status # "none", task[w].visible \in BOOLEAN,
         NEW p \in InvisiblePaths, NEW c \in Names(p), c \in Paths, task[w].path = c
  PROVE  ~task[w].visible
  BY PathsApart, PathAssumption DEF RootInv

(* A step of one open changes its claim only.                              *)
LEMMA ClaimChange ==
  ASSUME NEW o \in Opens, \A q \in Opens : q # o => open'[q] = open[q], epoch' = epoch
  PROVE  /\ claim' = [claim EXCEPT ![o] = claim'[o]]
         /\ wants' = [wants EXCEPT ![o] = wants'[o]]
  BY DEF claim, wants

(* Claims and wants stay when nobody's step, path or epoch matters.        *)
LEMMA ClaimSame ==
  ASSUME NEW o \in Opens, \A q \in Opens : q # o => open'[q] = open[q], epoch' = epoch,
         open'[o].visible = open[o].visible, open'[o].path = open[o].path,
         open'[o].epoch = open[o].epoch,
         \/ ~open[o].visible
         \/ open[o].step \in InFlight /\ open'[o].step \in InFlight
  PROVE  claim' = claim /\ wants' = wants
  BY DEF claim, wants, InFlight

(* The end of an open: Arrive, Fail, or nothing for an invisible one.      *)
LEMMA FinishContract ==
  ASSUME StoreInv, RootInv, StoreInv', NEW o \in Opens, NEW w \in Opens, NEW c \in Paths,
         open[o].step \in InFlight, task[w].status = "ready", w \notin released,
         task[w].path = c, c \in Names(open[o].path), Finish(o, w, c)
  PROVE  [Contract!Next]_(Contract!rootVars)
<1> DEFINE arrives == open[o].visible => IsLatest(o, c)
<1>1. /\ open' = [open EXCEPT ![o].step = IF arrives THEN "opened" ELSE "superseded",
                              ![o].canonical = c, ![o].worktree = w]
      /\ UNCHANGED <<task, scanned, released, pathToOpen, epoch>>
      /\ IF arrives /\ w \notin Worktrees THEN slot' = Added(w) ELSE slot' = slot
  BY DEF Finish, storeVars
<1>2. /\ \A q \in Opens : q # o => open'[q] = open[q]
      /\ open'[o].visible = open[o].visible /\ open'[o].path = open[o].path
      /\ open'[o].epoch = open[o].epoch
      /\ open'[o].step = IF arrives THEN "opened" ELSE "superseded"
  BY <1>1 DEF StoreInv, TypeOK, OpenState
<1>3. /\ open[o].step # "idle" /\ open[o].visible \in BOOLEAN
      /\ task[w].visible \in BOOLEAN /\ task[w].status # "none"
      /\ open[o].path \in IF open[o].visible THEN VisiblePaths ELSE InvisiblePaths
  BY DEF InFlight, StoreInv, TypeOK, OpenState, TaskState, RootInv
<1>4. CASE open[o].visible
  <2>1. /\ wants[o] = open[o].path /\ wants' = wants
        /\ claim' = [claim EXCEPT ![o] = claim'[o]]
    <3>1. wants[o] = open[o].path
      BY <1>4 DEF wants
    <3>2. \A q \in Opens : open'[q].visible = open[q].visible /\ open'[q].path = open[q].path
      BY <1>2
    <3>3. wants' = wants
      BY <3>2 DEF wants
    <3>4. claim' = [claim EXCEPT ![o] = claim'[o]]
      BY <1>1, <1>2, ClaimChange
    <3> QED
      BY <3>1, <3>3, <3>4
  <2>2. claim'[o] = IF arrives THEN "opened" ELSE "failed"
    BY <1>2, <1>3, <1>4 DEF claim, InFlight
  <2>3. claim[o] = IF open[o].epoch = epoch THEN "asked" ELSE "void"
    BY <1>3, <1>4 DEF claim, InFlight
  <2>4. CASE arrives
    <3>1. claim[o] = "asked" /\ pathToOpen \in {open[o].path, c}
      BY <1>4, <2>3, <2>4 DEF IsLatest
    <3>2. task[w].visible
      BY <1>3, <1>4, VisibleByPath, PathAssumption
    <3>3. w \in VisibleIn(Worktrees)'
      <4>1. slot'[w] > 0
        <5>1. CASE w \in Worktrees
          BY <1>1, <5>1 DEF Worktrees, Held
        <5>2. CASE w \notin Worktrees
          BY <1>1, <2>4, <5>2 DEF Added, StoreInv, TypeOK
        <5> QED
          BY <5>1, <5>2
      <4> QED
        BY <1>1, <3>2, <4>1 DEF VisibleIn, Worktrees, Held
    <3>4. root' = c
      BY <1>1, <3>3, RootOfNext DEF StoreInv
    <3>5. Contract!Arrive(o)
      BY <1>1, <2>1, <2>2, <2>4, <3>1, <3>4 DEF Contract!Arrive, Contract!Names, Names
    <3> QED
      BY <3>5 DEF Contract!Next
  <2>5. CASE ~arrives
    <3>1. root' = root
      BY <1>1, <2>5, RootSame DEF VisibleIn, Worktrees, Held
    <3>2. Contract!Fail(o)
      BY <1>1, <2>1, <2>2, <2>3, <2>5, <3>1 DEF Contract!Fail
    <3> QED
      BY <3>2 DEF Contract!Next
  <2> QED
    BY <2>4, <2>5
<1>5. CASE ~open[o].visible
  <2>1. claim' = claim /\ wants' = wants
    BY <1>1, <1>2, <1>5, ClaimSame
  <2>2. ~task[w].visible
    BY <1>3, <1>5, InvisibleByPath
  <2>3. VisibleIn(Worktrees)' = VisibleIn(Worktrees)
    BY <1>1, <2>2 DEF VisibleIn, Worktrees, Held, Added, StoreInv, TypeOK
  <2>4. root' = root
    BY <1>1, <2>3, RootSame
  <2> QED
    BY <1>1, <2>1, <2>4 DEF Contract!rootVars
<1> QED
  BY <1>3, <1>4, <1>5

(* A request: Ask, or AskInside when a worktree holds the path.            *)
LEMMA RequestContract ==
  ASSUME StoreInv, RootInv, NEW o \in Opens, NEW v \in BOOLEAN,
         NEW p \in IF v THEN VisiblePaths ELSE InvisiblePaths, p \in Paths, Request(o, p, v)
  PROVE  [Contract!Next]_(Contract!rootVars)
<1>1. /\ open[o].step = "idle" /\ ~open[o].visible
      /\ pathToOpen' = IF v THEN p ELSE pathToOpen
      /\ UNCHANGED <<task, slot, released, epoch>>
  BY DEF Request, RequestFound, RequestMissing, Asked, storeVars, RootInv
<1>2. PICK step \in {"opened", "canonicalizing"}, w \in Opens \cup {None} :
        /\ open' = [open EXCEPT ![o] = NewOpen(p, v, step, w)]
        /\ step = "opened" => IsFirst(w, Containing(p))
  BY DEF Request, RequestFound, RequestMissing
<1>3. /\ \A q \in Opens : q # o => open'[q] = open[q]
      /\ open'[o].visible = v /\ open'[o].path = p /\ open'[o].epoch = epoch
      /\ open'[o].step = step
  BY <1>2 DEF StoreInv, TypeOK, NewOpen
<1>4. root' = root
  BY <1>1, RootSame DEF VisibleIn, Worktrees, Held
<1>5. /\ claim' = [claim EXCEPT ![o] = claim'[o]]
      /\ wants' = [wants EXCEPT ![o] = wants'[o]]
  BY <1>1, <1>3, ClaimChange
<1>6. claim[o] = "none" /\ wants[o] = None
  BY <1>1 DEF claim, wants
<1>7. wants'[o] = IF v THEN p ELSE None
  BY <1>3 DEF wants
<1>8. CASE v /\ step = "opened"
  <2>1. claim'[o] = "opened"
    BY <1>1, <1>3, <1>8 DEF claim
  <2>2. w \in Worktrees /\ task[w].path \in Above[p] /\ w \in Opens
    BY <1>2, <1>8 DEF IsFirst, Containing, Worktrees, Held
  <2>3. task[w].status # "none" /\ task[w].visible \in BOOLEAN /\ task[w].path \in Paths
    BY <2>2, PathAssumption DEF Worktrees, Held, StoreInv, HandlesSound, TypeOK, TaskState
  <2>4. p \in Names(p) /\ p \in VisiblePaths
    BY <1>8 DEF Names
  <2>5. w \in VisibleIn(Worktrees)
    BY <2>2, <2>3, <2>4, VisibleByPath DEF VisibleIn
  <2>6. root = task[w].path
    BY <2>2, <2>5, RootOf DEF StoreInv
  <2>7. root # None
    BY <2>3, <2>6, NoneAssumption
  <2>8. Contract!AskInside(o, p)
    BY <1>1, <1>4, <1>5, <1>6, <1>7, <1>8, <2>1, <2>2, <2>6, <2>7 DEF Contract!AskInside
  <2> QED
    BY <2>8 DEF Contract!Next
<1>9. CASE v /\ step = "canonicalizing"
  <2>1. claim'[o] = "asked"
    BY <1>1, <1>3, <1>9 DEF claim, InFlight
  <2>2. Contract!Ask(o, p)
    BY <1>1, <1>4, <1>5, <1>6, <1>7, <1>9, <2>1 DEF Contract!Ask
  <2> QED
    BY <2>2 DEF Contract!Next
<1>10. CASE ~v
  <2>1. claim'[o] = "none"
    BY <1>3, <1>10 DEF claim
  <2>2. wants'[o] = None
    BY <1>7, <1>10
  <2>3. claim' = claim
    <3>1. claim = [q \in Opens |-> claim[q]]
      BY DEF claim
    <3> QED
      BY <1>5, <1>6, <2>1, <3>1
  <2>4. wants' = wants
    <3>1. wants = [q \in Opens |-> wants[q]]
      BY DEF wants
    <3> QED
      BY <1>5, <1>6, <2>2, <3>1
  <2>5. pathToOpen' = pathToOpen
    BY <1>1, <1>10
  <2> QED
    BY <1>4, <2>3, <2>4, <2>5 DEF Contract!rootVars
<1> QED
  BY <1>2, <1>8, <1>9, <1>10

(* An open that ends without a worktree: Fail.                             *)
LEMMA EndContract ==
  ASSUME StoreInv, NEW o \in Opens, open[o].step \in InFlight,
         NEW s \in {"failed", "superseded"}, open' = [open EXCEPT ![o].step = s],
         UNCHANGED <<task, slot, released, pathToOpen, epoch>>
  PROVE  [Contract!Next]_(Contract!rootVars)
<1>1. /\ \A q \in Opens : q # o => open'[q] = open[q]
      /\ open'[o].visible = open[o].visible /\ open'[o].path = open[o].path
      /\ open'[o].epoch = open[o].epoch /\ open'[o].step = s
  BY DEF StoreInv, TypeOK, OpenState
<1>2. root' = root
  BY RootSame DEF VisibleIn, Worktrees, Held
<1>3. CASE open[o].visible
  <2>1. claim' = [claim EXCEPT ![o] = claim'[o]]
    BY <1>1, ClaimChange
  <2>2. claim[o] \in {"asked", "void"} /\ claim'[o] = "failed"
    BY <1>1, <1>3 DEF claim, InFlight
  <2>3. wants' = wants
    <3>1. \A q \in Opens : open'[q].visible = open[q].visible /\ open'[q].path = open[q].path
      BY <1>1
    <3> QED
      BY <3>1 DEF wants
  <2>4. Contract!Fail(o)
    BY <1>2, <2>1, <2>2, <2>3 DEF Contract!Fail
  <2> QED
    BY <2>4 DEF Contract!Next
<1>4. CASE ~open[o].visible
  <2>1. claim' = claim /\ wants' = wants
    BY <1>1, <1>4, ClaimSame
  <2> QED
    BY <1>2, <2>1 DEF Contract!rootVars
<1> QED
  BY <1>3, <1>4

(* An open that begins to wait for a task: no step of the contract.        *)
LEMMA WaitContract ==
  ASSUME StoreInv, NEW o \in Opens, NEW c \in Paths, JoinTask(o, c) \/ StartTask(o, c)
  PROVE  [Contract!Next]_(Contract!rootVars)
<1>1. PICK w \in Opens \cup {None} :
        open' = [open EXCEPT ![o].step = "waiting", ![o].canonical = c, ![o].worktree = w]
  BY DEF JoinTask, StartTask, StoreInv, TypeOK
<1>2. /\ open[o].step = "canonicalizing"
      /\ UNCHANGED <<slot, released, pathToOpen, epoch>>
      /\ \A v \in Opens : v # o => task'[v] = task[v]
  BY DEF JoinTask, StartTask, Canonicalizes, storeVars, StoreInv, TypeOK
<1>3. /\ \A q \in Opens : q # o => open'[q] = open[q]
      /\ open'[o].visible = open[o].visible /\ open'[o].path = open[o].path
      /\ open'[o].epoch = open[o].epoch /\ open'[o].step = "waiting"
  BY <1>1 DEF StoreInv, TypeOK, OpenState
<1>4. claim' = claim /\ wants' = wants
  BY <1>2, <1>3, ClaimSame DEF InFlight
<1>5. ~(slot[o] > 0)
  BY <1>2 DEF StoreInv, HandlesSound
<1>6. root' = root
  BY <1>2, <1>5, RootSame DEF VisibleIn, Worktrees, Held
<1> QED
  BY <1>2, <1>4, <1>6 DEF Contract!rootVars

(* The steps of create_worktree: each ends as Arrive or Fail, or is a stutter. *)
LEMMA OpenTaskContract ==
  ASSUME StoreInv, RootInv, StoreInv', NEW o \in Opens, OpenTask(o)
  PROVE  [Contract!Next]_(Contract!rootVars)
<1>1. CASE ResumeBuilt(o)
  <2>1. /\ open[o].step = "waiting" /\ task[open[o].worktree].status = "ready"
        /\ Finish(o, open[o].worktree, open[o].canonical)
        /\ open[o].worktree \in Opens /\ open[o].canonical \in Paths
        /\ open[o].worktree \notin released
        /\ task[open[o].worktree].path = open[o].canonical
        /\ open[o].canonical \in Names(open[o].path)
    BY <1>1 DEF ResumeBuilt, StoreInv, HandlesSound, TypeOK, OpenState, Names
  <2> QED
    BY <2>1, FinishContract DEF InFlight
<1>2. CASE ResumeFailed(o)
  BY <1>2, EndContract DEF ResumeFailed, storeVars, InFlight
<1>3. ASSUME NEW c \in Paths, Canonicalized(o, c)
      PROVE  [Contract!Next]_(Contract!rootVars)
  <2>1. CASE Supersede(o, c)
    BY <2>1, EndContract DEF Supersede, Canonicalizes, storeVars, InFlight
  <2>2. CASE FindOpen(o, c)
    <3>1. PICK w \in Opens : IsOpen(w, c) /\ Finish(o, w, c)
      BY <2>2 DEF FindOpen
    <3>2. open[o].step = "canonicalizing" /\ c \in Names(open[o].path)
      BY <2>2 DEF FindOpen, Canonicalizes, Names
    <3>3. task[w].status = "ready" /\ w \notin released /\ task[w].path = c
      BY <3>1 DEF IsOpen, IsFirst, Containing, Worktrees, Held, StoreInv, HandlesSound
    <3> QED
      BY <1>3, <3>1, <3>2, <3>3, FinishContract DEF InFlight
  <2> QED
    BY <1>3, <2>1, <2>2, WaitContract DEF Canonicalized
<1> QED
  BY <1>1, <1>2, <1>3 DEF OpenTask, Resume

(* What happens to a worktree otherwise does not concern the contract.     *)
LEMMA WorktreeContract ==
  ASSUME StoreInv, NEW w \in Opens, Built(w) \/ Scanned(w) \/ ScanObserved(w) \/ Release(w)
  PROVE  [Contract!Next]_(Contract!rootVars)
<1>1. UNCHANGED <<open, slot, pathToOpen, epoch>>
  BY DEF Built, Build, Scanned, ScanObserved, Release, storeVars
<1>2. claim' = claim /\ wants' = wants
  BY <1>1 DEF claim, wants
<1>3. CASE Built(w)
  <2>1. PICK status \in {"ready", "failed"} : Build(w, status)
    BY <1>3 DEF Built
  <2>2. /\ task[w].status = "running" /\ released' = released
        /\ task' = [task EXCEPT ![w].status = status]
    BY <2>1 DEF Build
  <2>3. ~(slot[w] > 0)
    BY <2>2 DEF StoreInv, HandlesSound
  <2>4. \A v \in Opens : v # w => task'[v] = task[v]
    BY <2>2 DEF StoreInv, TypeOK
  <2>5. root' = root
    BY <1>1, <2>2, <2>3, <2>4, RootSame DEF VisibleIn, Worktrees, Held
  <2> QED
    BY <1>1, <1>2, <2>5 DEF Contract!rootVars
<1>4. CASE Scanned(w) \/ ScanObserved(w)
  <2>1. UNCHANGED <<task, released>>
    BY <1>4 DEF Scanned, ScanObserved
  <2>2. root' = root
    BY <1>1, <2>1, RootSame DEF VisibleIn, Worktrees, Held
  <2> QED
    BY <1>1, <1>2, <2>2 DEF Contract!rootVars
<1>5. CASE Release(w)
  <2>1. UNCHANGED task /\ released' = released \cup {w} /\ ~(slot[w] > 0 /\ task[w].visible)
    BY <1>5 DEF Release
  <2>2. root' = root
    BY <1>1, <2>1, RootSame DEF VisibleIn, Worktrees, Held
  <2> QED
    BY <1>1, <1>2, <2>2 DEF Contract!rootVars
<1> QED
  BY <1>3, <1>4, <1>5

(* remove_worktree: Close.                                                 *)
LEMMA CloseContract ==
  ASSUME StoreInv, RootInv, Close
  PROVE  [Contract!Next]_(Contract!rootVars)
<1>1. /\ slot' = [w \in Opens |-> IF w \in released \/ task[w].visible THEN 0 ELSE slot[w]]
      /\ pathToOpen' = None /\ epoch' = epoch + 1
      /\ UNCHANGED <<open, task, released>>
  BY DEF Close
<1>2. VisibleIn(Worktrees)' = {}
  BY <1>1 DEF VisibleIn, Worktrees, Held
<1>3. root' = None
  BY <1>2 DEF root
<1>4. \A o \in Opens : open[o].epoch # epoch'
  <2>1. epoch \in Nat /\ \A o \in Opens : open[o].epoch \in Nat
    BY DEF StoreInv, TypeOK, OpenState
  <2> QED
    BY <1>1, <2>1 DEF RootInv
<1>5. claim' = [o \in Opens |-> IF claim[o] = "asked" THEN "void" ELSE claim[o]]
  BY <1>1, <1>4 DEF claim
<1>6. wants' = wants
  BY <1>1 DEF wants
<1>7. Contract!Close
  BY <1>1, <1>3, <1>5, <1>6 DEF Contract!Close
<1> QED
  BY <1>7 DEF Contract!Next

(* The store starts without a root.                                        *)
LEMMA InitContract == Init => Contract!Init
<1> SUFFICES ASSUME Init
             PROVE  Contract!Init
  OBVIOUS
<1>1. root = None
  BY DEF Init, root, VisibleIn, Worktrees, Held
<1>2. claim = [o \in Opens |-> "none"] /\ wants = [o \in Opens |-> None]
  BY DEF Init, claim, wants
<1> QED
  BY <1>1, <1>2 DEF Contract!Init, Init

(* The project's root follows the requests, whatever their tasks do: the   *)
(* worktree store implements ProjectRoot.                                  *)
THEOREM RootImplemented == Spec => RootFollowsRequests
<1>1. ASSUME StoreInv, RootInv, StoreInv', [Next]_vars
      PROVE  [Contract!Next]_(Contract!rootVars)
  <2>1. CASE UNCHANGED vars
    <3>1. /\ claim' = claim /\ wants' = wants
      BY <2>1 DEF vars, claim, wants
    <3>2. root' = root
      BY <2>1, RootSame DEF vars, VisibleIn, Worktrees, Held
    <3> QED
      BY <2>1, <3>1, <3>2 DEF vars, Contract!rootVars
  <2>2. ASSUME NEW o \in Opens, NEW p \in VisiblePaths, Request(o, p, TRUE)
        PROVE  [Contract!Next]_(Contract!rootVars)
    BY <1>1, <2>2, RequestContract, PathAssumption
  <2>3. ASSUME NEW o \in Opens, NEW p \in InvisiblePaths, Request(o, p, FALSE)
        PROVE  [Contract!Next]_(Contract!rootVars)
    BY <1>1, <2>3, RequestContract, PathAssumption
  <2> QED
    BY <1>1, <2>1, <2>2, <2>3, OpenTaskContract, WorktreeContract, CloseContract DEF Next
<1>2. Contract!Spec <=> Contract!Init /\ [][Contract!Next]_(Contract!rootVars)
  BY DEF Contract!Spec
<1> QED
  BY <1>1, <1>2, InitContract, RootInvariant, StoreInvariant, PTL DEF Spec, RootFollowsRequests
-----------------------------------------------------------------------------
(* What numbers do for the folds of the buffer stores.                     *)
LEMMA SetInduction ==
  ASSUME NEW S, 0 \in S, \A n \in Nat : n \in S => n + 1 \in S
  PROVE  Nat \subseteq S
<1> SUFFICES ASSUME Nat \ S # {} PROVE FALSE
  OBVIOUS
<1> DEFINE segments == {0 .. n : n \in Nat \ S}
<1>1. \E X \in segments :
        \A Y \in segments : ~(<<Y, X>> \in StrictSubsetOrdering(Nat))
  <2>1. \A X \in segments : X \in SUBSET Nat /\ IsFiniteSet(X)
    <3>1. ASSUME NEW n \in Nat PROVE (0 .. n) \in SUBSET Nat /\ IsFiniteSet(0 .. n)
      BY FS_Interval
    <3> QED
      BY <3>1
  <2>2. segments \subseteq FiniteSubsetsOf(Nat)
    BY <2>1 DEF FiniteSubsetsOf
  <2>3. segments # {}
    OBVIOUS
  <2> HIDE DEF segments
  <2>4. IsWellFoundedOn(StrictSubsetOrdering(Nat), FiniteSubsetsOf(Nat))
    BY FS_StrictSubsetOrderingWellFounded
  <2> QED
    BY <2>2, <2>3, <2>4, WFMin
<1>2. PICK x \in Nat \ S :
        \A y \in Nat \ S : ~(<<0 .. y, 0 .. x>> \in StrictSubsetOrdering(Nat))
  BY <1>1
<1>3. x # 0 /\ x - 1 \in Nat
  OBVIOUS
<1>4. <<0 .. x - 1, 0 .. x>> \in StrictSubsetOrdering(Nat)
  <2>1. (0 .. x - 1) \subseteq (0 .. x) /\ (0 .. x - 1) # (0 .. x) /\ (0 .. x) \subseteq Nat
    BY <1>3
  <2> QED
    BY <2>1 DEF StrictSubsetOrdering
<1>5. x - 1 \in S
  BY <1>2, <1>3, <1>4
<1>6. (x - 1) + 1 \in S
  BY <1>3, <1>5
<1> QED
  BY <1>6

(* A function is defined by recursion over the numbers up to a bound. *)
Recursive(f, base, step, bound) ==
  \A n \in 0 .. bound : f[n] = IF n = 0 THEN base ELSE step[<<n, f[n - 1]>>]

LEMMA RecursionExists ==
  ASSUME NEW S, NEW base \in S, NEW step \in [Nat \X S -> S], NEW bound \in Nat
  PROVE  \E f \in [0 .. bound -> S] : Recursive(f, base, step, bound)
<1> DEFINE Fits(n, f) == \A k \in 0 .. n : f[k] = IF k = 0 THEN base ELSE step[<<k, f[k - 1]>>]
           Some(n) == \E f \in [0 .. n -> S] : Fits(n, f)
           N == {n \in Nat : Some(n)}
<1>1. 0 \in N
  <2> DEFINE f == [k \in 0 .. 0 |-> base]
  <2>1. f \in [0 .. 0 -> S] /\ Fits(0, f)
    OBVIOUS
  <2> QED
    BY <2>1
<1>2. ASSUME NEW n \in Nat, n \in N PROVE n + 1 \in N
  <2>1. PICK f \in [0 .. n -> S] : Fits(n, f)
    BY <1>2
  <2> DEFINE next == step[<<n + 1, f[n]>>]
             g == [k \in 0 .. n + 1 |-> IF k = n + 1 THEN next ELSE f[k]]
  <2>2. next \in S
    OBVIOUS
  <2> HIDE DEF next
  <2>3. g \in [0 .. n + 1 -> S]
    BY <2>2
  <2>4. ASSUME NEW k \in 0 .. n + 1
        PROVE  g[k] = IF k = 0 THEN base ELSE step[<<k, g[k - 1]>>]
    <3>1. CASE k = n + 1
      <4>1. g[k] = next /\ g[k - 1] = f[n] /\ k # 0 /\ k - 1 = n
        BY <3>1
      <4> HIDE DEF g
      <4> QED
        BY <3>1, <4>1 DEF next
    <3>2. CASE k # n + 1
      <4>1. k \in 0 .. n /\ g[k] = f[k] /\ (k # 0 => g[k - 1] = f[k - 1])
        BY <3>2
      <4>2. f[k] = IF k = 0 THEN base ELSE step[<<k, f[k - 1]>>]
        BY <2>1, <4>1
      <4> HIDE DEF g
      <4> QED
        BY <4>1, <4>2
    <3> QED
      BY <3>1, <3>2
  <2>5. Fits(n + 1, g)
    BY <2>4
  <2> HIDE DEF g, Fits
  <2> QED
    BY <2>3, <2>5
<1>3. Nat \subseteq N
  <2> HIDE DEF N
  <2> QED
    BY <1>1, <1>2, SetInduction
<1> QED
  BY <1>3 DEF Recursive
-----------------------------------------------------------------------------
(***************************************************************************)
(* The buffer stores.                                                      *)
(***************************************************************************)
(* What the events of one update work on.                                  *)
StoreState ==
  [file : [DOMAIN file -> FileHandle], opened : SUBSET DOMAIN file,
   byPath : [RelPaths -> DOMAIN file \cup {NoBuffer}],
   byEntry : [Files -> DOMAIN file \cup {NoBuffer}], emitted : Seq(live)]

(* A map names a buffer only under its own path, or its own entry, and no  *)
(* buffer is forgotten that somebody holds.                                *)
Exact(st) ==
  /\ live \subseteq st.opened
  /\ \A p \in RelPaths : st.byPath[p] # NoBuffer => st.file[st.byPath[p]].path = p
  /\ \A e \in Files : st.byEntry[e] # NoBuffer => st.file[st.byEntry[e]].entry = e

SoundStates == {st \in StoreState : Exact(st)}

Snapshots == [RelPaths -> Files \cup {0}]

LEMMA BuffersFiles ==
  ASSUME BuffersTypeOK
  PROVE  /\ disk \in Snapshots /\ entries \in Snapshots
         /\ Len(file) \in Nat /\ DOMAIN file = 1 .. Len(file)
         /\ NoBuffer \notin DOMAIN file /\ file \in [DOMAIN file -> FileHandle]
         /\ file \in Seq(FileHandle) /\ Len(file) <= MaxOpens
<1>1. PICK n \in 0 .. MaxOpens : file \in [1 .. n -> FileHandle]
  BY DEF BuffersTypeOK
<1>2. n \in Nat /\ n <= MaxOpens /\ MaxOpens \in Nat
  BY StoreAssumption
<1>3. file \in Seq(FileHandle) /\ Len(file) = n /\ DOMAIN file = 1 .. n
  BY <1>1, <1>2
<1>4. (0 .. files) \subseteq Files \cup {0}
  BY StoreAssumption DEF BuffersTypeOK, Files
<1> QED
  BY <1>1, <1>2, <1>3, <1>4 DEF BuffersTypeOK, Snapshots, NoBuffer

(* The entry of a handle.                                                  *)
LEMMA EntryPathType ==
  ASSUME NEW handle \in FileHandle, NEW snapshot \in Snapshots
  PROVE  EntryPath(handle, snapshot) \in RelPaths
BY DEF EntryPath, FileHandle

LEMMA NewHandleType ==
  ASSUME NEW handle \in FileHandle, NEW snapshot \in Snapshots
  PROVE  /\ NewHandle(handle, snapshot) \in FileHandle
         /\ NewHandle(handle, snapshot).path = EntryPath(handle, snapshot)
            \/ NewHandle(handle, snapshot).path = handle.path
<1> DEFINE p == EntryPath(handle, snapshot)
<1>1. p \in RelPaths
  BY EntryPathType
<1> HIDE DEF p
<1>2. CASE snapshot[p] # 0
  <2>1. snapshot[p] \in Files
    BY <1>1, <1>2 DEF Snapshots
  <2>2. NewHandle(handle, snapshot) = [path |-> p, entry |-> snapshot[p], state |-> "Present"]
    BY <1>2 DEF NewHandle, p
  <2> QED
    BY <1>1, <1>2, <2>1, <2>2 DEF FileHandle, p
<1>3. CASE snapshot[p] = 0
  <2>1. NewHandle(handle, snapshot) = [handle EXCEPT !.state = "Deleted"]
    BY <1>3 DEF NewHandle, p
  <2> QED
    BY <2>1 DEF FileHandle
<1> QED
  BY <1>2, <1>3

(* An event keeps the maps exact, whichever buffer it finds.               *)
LEMMA EntryChangedSound ==
  ASSUME BuffersTypeOK, NEW st \in SoundStates, NEW p \in RelPaths, NEW e \in Files,
         NEW snapshot \in Snapshots
  PROVE  EntryChanged(st, p, e, snapshot) \in SoundStates
<1> DEFINE known == st.byEntry[e]
           b == IF known # NoBuffer THEN known ELSE st.byPath[p]
           old == st.file[b]
           new == NewHandle(old, snapshot)
           result == EntryChanged(st, p, e, snapshot)
<1>1. /\ st.file \in [DOMAIN file -> FileHandle] /\ st.opened \subseteq DOMAIN file
      /\ st.byPath \in [RelPaths -> DOMAIN file \cup {NoBuffer}]
      /\ st.byEntry \in [Files -> DOMAIN file \cup {NoBuffer}] /\ st.emitted \in Seq(live)
      /\ Exact(st)
      /\ st = [file |-> st.file, opened |-> st.opened, byPath |-> st.byPath,
               byEntry |-> st.byEntry, emitted |-> st.emitted]
  BY DEF SoundStates, StoreState
<1>2. b \in DOMAIN file \cup {NoBuffer} /\ NoBuffer \notin DOMAIN file
  BY <1>1, BuffersFiles
<1>3. CASE b = NoBuffer
  BY <1>3 DEF EntryChanged
<1>4. CASE b # NoBuffer /\ b \notin st.opened \cap live
  <2>1. result = [st EXCEPT !.opened = @ \ {b}, !.byPath[p] = NoBuffer, !.byEntry[e] = NoBuffer]
    BY <1>4 DEF EntryChanged
  <2> HIDE DEF result, b
  <2>2. /\ result.file = st.file /\ result.opened = st.opened \ {b} /\ result.emitted = st.emitted
        /\ result.byPath = [st.byPath EXCEPT ![p] = NoBuffer]
        /\ result.byEntry = [st.byEntry EXCEPT ![e] = NoBuffer]
    BY <1>1, <2>1
  <2>3. result \in StoreState
    BY <1>1, <2>1, <2>2 DEF StoreState
  <2>4. Exact(result)
    <3>1. live \subseteq result.opened
      BY <1>1, <1>4, <2>2 DEF Exact
    <3> QED
      BY <1>1, <2>2, <3>1 DEF Exact
  <2> QED
    BY <2>3, <2>4 DEF SoundStates, result
<1>5. CASE b \in st.opened \cap live
  <2>1. b \in DOMAIN file /\ b # NoBuffer
    BY <1>1, <1>2, <1>5
  <2>2. result = [st EXCEPT !.file[b] = new,
                     !.byPath = Repathed(@, b, old, new),
                     !.byEntry = Reentried(@, b, old, new),
                     !.emitted = IF new.path # old.path \/ new.state # old.state
                                 THEN Append(@, b) ELSE @]
    BY <1>5, <2>1 DEF EntryChanged
  <2>3. old \in FileHandle /\ new \in FileHandle
    BY <1>1, <2>1, NewHandleType
  <2> HIDE DEF result, b, new
  <2>4. /\ result.file = [st.file EXCEPT ![b] = new] /\ result.opened = st.opened
        /\ result.byPath = Repathed(st.byPath, b, old, new)
        /\ result.byEntry = Reentried(st.byEntry, b, old, new)
        /\ result.emitted = IF new.path # old.path \/ new.state # old.state
                            THEN Append(st.emitted, b) ELSE st.emitted
    BY <1>1, <2>2
  <2>5. old.path \in RelPaths /\ new.path \in RelPaths /\ old.entry \in Files \cup {0}
        /\ new.entry \in Files \cup {0}
    BY <2>3 DEF FileHandle
  <2> HIDE DEF old
  <2>6. result.byPath \in [RelPaths -> DOMAIN file \cup {NoBuffer}]
    BY <1>1, <2>1, <2>4, <2>5 DEF Repathed
  <2>7. result.byEntry \in [Files -> DOMAIN file \cup {NoBuffer}]
    BY <1>1, <2>1, <2>4, <2>5 DEF Reentried
  <2>8. result.emitted \in Seq(live)
    BY <1>1, <1>5, <2>4
  <2>9. result \in StoreState
    BY <1>1, <2>2, <2>3, <2>4, <2>6, <2>7, <2>8 DEF StoreState
  <2>10. \A q \in RelPaths : result.byPath[q] # NoBuffer => result.file[result.byPath[q]].path = q
    BY <1>1, <2>1, <2>4, <2>5 DEF Exact, Repathed, old
  <2>11. \A x \in Files : result.byEntry[x] # NoBuffer => result.file[result.byEntry[x]].entry = x
    BY <1>1, <2>1, <2>4, <2>5 DEF Exact, Reentried, old
  <2> QED
    BY <1>1, <2>4, <2>9, <2>10, <2>11 DEF SoundStates, Exact, result
<1> QED
  BY <1>2, <1>3, <1>4, <1>5

(* An event of FileHandleChanged as well.                                  *)
LEMMA FileHandleChangedSound ==
  ASSUME BuffersTypeOK, NEW st \in SoundStates, NEW b \in DOMAIN file
  PROVE  /\ FileHandleChanged(st, b) \in SoundStates
         /\ FileHandleChanged(st, b).emitted = st.emitted
<1> DEFINE handle == st.file[b]
           result == FileHandleChanged(st, b)
<1>1. /\ st.file \in [DOMAIN file -> FileHandle] /\ st.opened \subseteq DOMAIN file
      /\ st.byPath \in [RelPaths -> DOMAIN file \cup {NoBuffer}]
      /\ st.byEntry \in [Files -> DOMAIN file \cup {NoBuffer}] /\ st.emitted \in Seq(live)
      /\ Exact(st)
      /\ st = [file |-> st.file, opened |-> st.opened, byPath |-> st.byPath,
               byEntry |-> st.byEntry, emitted |-> st.emitted]
  BY DEF SoundStates, StoreState
<1>2. CASE ~Text \/ handle.entry = 0 \/ st.byEntry[handle.entry] # NoBuffer
  BY <1>2 DEF FileHandleChanged
<1>3. CASE Text /\ handle.entry # 0 /\ st.byEntry[handle.entry] = NoBuffer
  <2>1. result = [st EXCEPT !.byEntry[handle.entry] = b, !.byPath[handle.path] = b]
    BY <1>3 DEF FileHandleChanged
  <2>2. handle.path \in RelPaths /\ handle.entry \in Files
    BY <1>1, <1>3 DEF FileHandle
  <2> HIDE DEF result, handle
  <2>3. /\ result.file = st.file /\ result.opened = st.opened /\ result.emitted = st.emitted
        /\ result.byPath = [st.byPath EXCEPT ![handle.path] = b]
        /\ result.byEntry = [st.byEntry EXCEPT ![handle.entry] = b]
    BY <1>1, <2>1
  <2>4. result \in StoreState
    BY <1>1, <2>1, <2>2, <2>3 DEF StoreState
  <2>5. Exact(result)
    BY <1>1, <2>2, <2>3 DEF Exact, handle
  <2> QED
    BY <2>3, <2>4, <2>5 DEF SoundStates, result
<1> QED
  BY <1>2, <1>3

LEMMA PathChangedSound ==
  ASSUME BuffersTypeOK, NEW st \in SoundStates, NEW p \in RelPaths, NEW snapshot \in Snapshots
  PROVE  PathChanged(st, p, snapshot) \in SoundStates
<1> DEFINE removed == IF entries[p] = 0 THEN st ELSE EntryChanged(st, p, entries[p], snapshot)
<1>1. disk[p] \in Files \cup {0} /\ entries[p] \in Files \cup {0}
  BY BuffersFiles DEF Snapshots
<1>2. removed \in SoundStates
  BY <1>1, EntryChangedSound
<1>3. PathChanged(st, p, snapshot) =
        IF disk[p] = 0 THEN removed ELSE EntryChanged(removed, p, disk[p], snapshot)
  BY DEF PathChanged
<1> HIDE DEF removed
<1> QED
  BY <1>1, <1>2, <1>3, EntryChangedSound

(* What an update starts from.                                             *)
StartState ==
  [file |-> file, opened |-> opened, byPath |-> byPath, byEntry |-> byEntry, emitted |-> <<>>]

(* The states between the paths of an update.                              *)
PathsChanged(f, S, snapshot) ==
  /\ f[0] = StartState
  /\ \A p \in RelPaths :
       f[p] = IF p \in S THEN PathChanged(f[p - 1], p, snapshot) ELSE f[p - 1]

LEMMA EntriesChangedStates ==
  ASSUME BuffersTypeOK, StartState \in SoundStates, NEW S \in SUBSET RelPaths,
         NEW snapshot \in Snapshots
  PROVE  \E f \in [0 .. PathCount -> SoundStates] :
           PathsChanged(f, S, snapshot) /\ EntriesChanged(S, snapshot) = f[PathCount]
<1> DEFINE Advance(p, before) == IF p \in S THEN PathChanged(before, p, snapshot) ELSE before
           step == [x \in Nat \X SoundStates |->
                      IF x[1] \in RelPaths THEN Advance(x[1], x[2]) ELSE x[2]]
           Changed(f) == f = [p \in 0 .. PathCount |->
                                IF p = 0 THEN StartState ELSE Advance(p, f[p - 1])]
           f == CHOOSE f : Changed(f)
<1>1. PathCount \in Nat /\ RelPaths = 1 .. PathCount
  BY StoreAssumption DEF RelPaths
<1>2. step \in [Nat \X SoundStates -> SoundStates]
  BY PathChangedSound
<1>3. \E g : Changed(g)
  <2> HIDE DEF step
  <2>1. PICK g \in [0 .. PathCount -> SoundStates] : Recursive(g, StartState, step, PathCount)
    BY <1>1, <1>2, RecursionExists
  <2>2. ASSUME NEW n \in 0 .. PathCount, n # 0
        PROVE  step[<<n, g[n - 1]>>] = Advance(n, g[n - 1])
    <3>1. n \in Nat /\ n - 1 \in 0 .. PathCount /\ n \in RelPaths
      BY <1>1, <2>2
    <3>2. <<n, g[n - 1]>> \in Nat \X SoundStates
      BY <3>1
    <3> HIDE DEF Advance
    <3> QED
      BY <3>1, <3>2 DEF step
  <2>3. g = [n \in 0 .. PathCount |-> g[n]]
    OBVIOUS
  <2> HIDE DEF Advance
  <2>4. Changed(g)
    BY <2>1, <2>2, <2>3 DEF Recursive
  <2> QED
    BY <2>4
<1>4. Changed(f) /\ EntriesChanged(S, snapshot) = f[PathCount]
  BY <1>3 DEF EntriesChanged, StartState
<1> HIDE DEF f
<1> DEFINE T == {n \in Nat : n <= PathCount => f[n] \in SoundStates}
<1>5. 0 \in T
  BY <1>1, <1>4
<1>6. ASSUME NEW n \in Nat, n \in T PROVE n + 1 \in T
  <2> SUFFICES ASSUME n + 1 <= PathCount PROVE f[n + 1] \in SoundStates
    OBVIOUS
  <2>1. f[n] \in SoundStates /\ n + 1 \in 0 .. PathCount /\ n + 1 # 0 /\ (n + 1) - 1 = n
        /\ n + 1 \in RelPaths
    BY <1>1, <1>6
  <2>2. f[n + 1] = Advance(n + 1, f[n])
    BY <1>4, <2>1
  <2> QED
    BY <2>1, <2>2, PathChangedSound
<1>7. Nat \subseteq T
  <2> HIDE DEF T
  <2> QED
    BY <1>5, <1>6, SetInduction
<1>8. ASSUME NEW n \in 0 .. PathCount PROVE f[n] \in SoundStates
  BY <1>1, <1>7
<1>9. f \in [0 .. PathCount -> SoundStates]
  <2>1. f = [n \in 0 .. PathCount |-> f[n]]
    BY <1>4
  <2> QED
    BY <1>8, <2>1
<1>10. PathsChanged(f, S, snapshot)
  <2>1. f[0] = StartState
    BY <1>1, <1>4
  <2>2. ASSUME NEW p \in RelPaths PROVE f[p] = Advance(p, f[p - 1])
    <3>1. p \in 0 .. PathCount /\ p # 0
      BY <1>1
    <3> QED
      BY <1>4, <3>1
  <2> QED
    BY <2>1, <2>2 DEF PathsChanged
<1> QED
  BY <1>4, <1>9, <1>10

(* The events of FileHandleChanged, which change nothing where each buffer *)
(* is known under its entry.                                               *)
LEMMA HandlesChangedSound ==
  ASSUME BuffersTypeOK, NEW st \in SoundStates
  PROVE  /\ HandlesChanged(st) \in SoundStates
         /\ (\A b \in live : FileHandleChanged(st, b) = st) => HandlesChanged(st) = st
<1> DEFINE bound == Len(st.emitted)
           Advance(n, before) == FileHandleChanged(before, st.emitted[n])
           step == [x \in Nat \X SoundStates |->
                      IF x[1] \in 1 .. bound THEN Advance(x[1], x[2]) ELSE x[2]]
           Changed(f) == f = [n \in 0 .. bound |-> IF n = 0 THEN st ELSE Advance(n, f[n - 1])]
           f == CHOOSE f : Changed(f)
<1>1. /\ bound \in Nat
      /\ \A n \in 1 .. bound : st.emitted[n] \in live /\ st.emitted[n] \in DOMAIN file
  <2>1. st.emitted \in Seq(live) /\ live \subseteq DOMAIN file
    BY DEF SoundStates, StoreState, BuffersTypeOK
  <2> QED
    BY <2>1
<1>2. step \in [Nat \X SoundStates -> SoundStates]
  BY <1>1, FileHandleChangedSound
<1> HIDE DEF bound
<1>3. \E g : Changed(g)
  <2> HIDE DEF step
  <2>1. PICK g \in [0 .. bound -> SoundStates] : Recursive(g, st, step, bound)
    BY <1>1, <1>2, RecursionExists
  <2>2. ASSUME NEW n \in 0 .. bound, n # 0
        PROVE  step[<<n, g[n - 1]>>] = Advance(n, g[n - 1])
    <3>1. n \in Nat /\ n - 1 \in 0 .. bound /\ n \in 1 .. bound
      BY <1>1, <2>2
    <3>2. <<n, g[n - 1]>> \in Nat \X SoundStates
      BY <3>1
    <3> HIDE DEF Advance
    <3> QED
      BY <3>1, <3>2 DEF step
  <2>3. g = [n \in 0 .. bound |-> g[n]]
    OBVIOUS
  <2> HIDE DEF Advance
  <2>4. Changed(g)
    BY <2>1, <2>2, <2>3 DEF Recursive
  <2> QED
    BY <2>4
<1>4. Changed(f) /\ HandlesChanged(st) = f[bound]
  BY <1>3 DEF HandlesChanged, bound
<1> HIDE DEF f
<1> DEFINE Good(s) == s \in SoundStates /\ ((\A b \in live : FileHandleChanged(st, b) = st) => s = st)
           T == {n \in Nat : n <= bound => Good(f[n])}
<1>5. 0 \in T
  BY <1>1, <1>4
<1>6. ASSUME NEW n \in Nat, n \in T PROVE n + 1 \in T
  <2> SUFFICES ASSUME n + 1 <= bound PROVE Good(f[n + 1])
    OBVIOUS
  <2>1. Good(f[n]) /\ n + 1 \in 0 .. bound /\ n + 1 # 0 /\ (n + 1) - 1 = n /\ n + 1 \in 1 .. bound
    BY <1>1, <1>6
  <2>2. f[n + 1] = Advance(n + 1, f[n])
    BY <1>4, <2>1
  <2>3. st.emitted[n + 1] \in live /\ st.emitted[n + 1] \in DOMAIN file
    BY <1>1, <2>1
  <2> QED
    BY <2>1, <2>2, <2>3, FileHandleChangedSound
<1>7. Nat \subseteq T
  <2> HIDE DEF T
  <2> QED
    BY <1>5, <1>6, SetInduction
<1>8. Good(f[bound])
  BY <1>1, <1>7
<1> QED
  BY <1>4, <1>8

(* Whatever the changes, each path and entry keeps to its buffer, and the  *)
(* snapshot has each file at one path.                                     *)
BuffersIndexed ==
  /\ live \subseteq opened
  /\ \A p \in RelPaths : byPath[p] # NoBuffer => file[byPath[p]].path = p
  /\ \A e \in Files : byEntry[e] # NoBuffer => file[byEntry[e]].entry = e
  /\ IdsDistinct(entries)

(* Each load that is under way has a buffer left to make.                  *)
LoadsUnderWay == {p \in RelPaths : loading[p].step \in {"sent", "answered", "looked"}}
RoomForLoads == Len(file) + Cardinality(LoadsUnderWay) <= opens

BuffersInv == BuffersTypeOK /\ RoomForLoads /\ BuffersIndexed

LEMMA StartSound ==
  ASSUME BuffersTypeOK, BuffersIndexed
  PROVE  StartState \in SoundStates
<1>1. StartState \in StoreState
  BY BuffersFiles DEF StartState, StoreState, BuffersTypeOK
<1>2. Exact(StartState)
  BY DEF StartState, Exact, BuffersIndexed
<1> QED
  BY <1>1, <1>2 DEF SoundStates

LEMMA UpdatedType ==
  ASSUME BuffersTypeOK, NEW S \in SUBSET RelPaths
  PROVE  Updated(S) \in Snapshots /\ Updated(S) \in [RelPaths -> 0 .. files]
BY BuffersFiles DEF Updated, Snapshots, BuffersTypeOK

(* An update has no buffer but those there are, and leaves the maps exact. *)
LEMMA UpdatedEntriesSound ==
  ASSUME BuffersTypeOK, BuffersIndexed, NEW S \in SUBSET RelPaths, UpdatedEntries(S)
  PROVE  /\ file' \in [DOMAIN file -> FileHandle] /\ opened' \subseteq DOMAIN file
         /\ byPath' \in [RelPaths -> DOMAIN file \cup {NoBuffer}]
         /\ byEntry' \in [Files -> DOMAIN file \cup {NoBuffer}]
         /\ live \subseteq opened'
         /\ \A p \in RelPaths : byPath'[p] # NoBuffer => file'[byPath'[p]].path = p
         /\ \A e \in Files : byEntry'[e] # NoBuffer => file'[byEntry'[e]].entry = e
<1> DEFINE done == HandlesChanged(EntriesChanged(S, Updated(S)))
<1>1. EntriesChanged(S, Updated(S)) \in SoundStates
  <2>1. PathCount \in 0 .. PathCount
    BY StoreAssumption
  <2> QED
    BY <2>1, StartSound, UpdatedType, EntriesChangedStates
<1>2. done \in SoundStates
  BY <1>1, HandlesChangedSound
<1>3. file' = done.file /\ opened' = done.opened /\ byPath' = done.byPath /\ byEntry' = done.byEntry
  BY DEF UpdatedEntries
<1> HIDE DEF done
<1> QED
  BY <1>2, <1>3 DEF SoundStates, StoreState, Exact
-----------------------------------------------------------------------------
(* The actions keep BuffersInv.                                            *)
LEMMA LoadsFinite ==
  /\ IsFiniteSet(LoadsUnderWay) /\ Cardinality(LoadsUnderWay) \in Nat
  /\ \A p \in RelPaths :
       /\ Cardinality(LoadsUnderWay \cup {p}) <= Cardinality(LoadsUnderWay) + 1
       /\ p \in LoadsUnderWay =>
            Cardinality(LoadsUnderWay \ {p}) = Cardinality(LoadsUnderWay) - 1
       /\ Cardinality(LoadsUnderWay \ {p}) <= Cardinality(LoadsUnderWay)
<1>1. IsFiniteSet(RelPaths)
  BY StoreAssumption, FS_Interval DEF RelPaths
<1>2. IsFiniteSet(LoadsUnderWay)
  BY <1>1, FS_Subset DEF LoadsUnderWay
<1>3. Cardinality(LoadsUnderWay) \in Nat
  BY <1>2, FS_CardinalityType
<1>4. ASSUME NEW p \in RelPaths
      PROVE  Cardinality(LoadsUnderWay \cup {p}) <= Cardinality(LoadsUnderWay) + 1
  <2>1. Cardinality(LoadsUnderWay \cup {p}) =
          IF p \in LoadsUnderWay THEN Cardinality(LoadsUnderWay) ELSE Cardinality(LoadsUnderWay) + 1
    BY <1>2, FS_AddElement
  <2> QED
    BY <1>3, <2>1
<1>5. ASSUME NEW p \in RelPaths
      PROVE  /\ p \in LoadsUnderWay =>
                  Cardinality(LoadsUnderWay \ {p}) = Cardinality(LoadsUnderWay) - 1
             /\ Cardinality(LoadsUnderWay \ {p}) <= Cardinality(LoadsUnderWay)
  <2>1. Cardinality(LoadsUnderWay \ {p}) =
          IF p \in LoadsUnderWay THEN Cardinality(LoadsUnderWay) - 1 ELSE Cardinality(LoadsUnderWay)
    BY <1>2, FS_RemoveElement
  <2> QED
    BY <1>3, <2>1
<1> QED
  BY <1>2, <1>3, <1>4, <1>5

LEMMA DiskStepKeeps == ASSUME BuffersInv, DiskStep PROVE BuffersInv'
<1>1. PICK p \in RelPaths : Create(p) \/ Delete(p) \/ \E q \in RelPaths : Rename(p, q)
  BY DEF DiskStep
<1>2. UNCHANGED <<store, entries, loading, opens, file, live, opened, byPath, byEntry, late>>
  BY <1>1 DEF Create, Delete, Rename, DiskChange, indexVars
<1>3. disk' \in [RelPaths -> 0 .. files'] /\ files' \in 0 .. MaxFiles /\ files <= files'
  <2>1. /\ disk \in [RelPaths -> 0 .. files] /\ files \in 0 .. MaxFiles
        /\ MaxFiles \in Nat
    BY StoreAssumption DEF BuffersInv, BuffersTypeOK
  <2>2. CASE Create(p)
    <3>1. files' = files + 1 /\ files < MaxFiles /\ disk' = [disk EXCEPT ![p] = files + 1]
      BY <2>2 DEF Create, DiskChange
    <3> QED
      BY <2>1, <3>1
  <2>3. CASE Delete(p)
    <3>1. files' = files /\ disk' = [disk EXCEPT ![p] = 0]
      BY <2>3 DEF Delete, DiskChange
    <3> QED
      BY <2>1, <3>1
  <2>4. ASSUME NEW q \in RelPaths, Rename(p, q)
        PROVE  disk' \in [RelPaths -> 0 .. files'] /\ files' \in 0 .. MaxFiles /\ files <= files'
    <3>1. files' = files /\ disk' = [disk EXCEPT ![p] = 0, ![q] = disk[p]]
      BY <2>4 DEF Rename, DiskChange
    <3> QED
      BY <2>1, <3>1
  <2> QED
    BY <1>1, <2>2, <2>3, <2>4
<1>4. renames' \in 0 .. MaxRenames[store]
  <2>1. store \in Stores /\ renames \in 0 .. MaxRenames[store]
    BY DEF BuffersInv, BuffersTypeOK
  <2>2. MaxRenames[store] \in Nat
    BY <2>1, StoreAssumption
  <2>3. renames' = renames \/ (renames' = renames + 1 /\ renames < MaxRenames[store])
    BY <1>1 DEF Create, Delete, Rename
  <2> QED
    BY <1>2, <2>1, <2>2, <2>3
<1>5. entries' \in [RelPaths -> 0 .. files']
  BY <1>2, <1>3, StoreAssumption DEF BuffersInv, BuffersTypeOK
<1>6. BuffersTypeOK'
  BY <1>2, <1>3, <1>4, <1>5 DEF BuffersInv, BuffersTypeOK
<1>7. RoomForLoads' /\ BuffersIndexed'
  BY <1>2 DEF BuffersInv, BuffersIndexed, RoomForLoads, LoadsUnderWay, IdsDistinct
<1> QED
  BY <1>6, <1>7 DEF BuffersInv

LEMMA DeliverKeeps == ASSUME BuffersInv, Deliver PROVE BuffersInv'
<1>1. PICK S \in SUBSET Stale(disk) :
        /\ IdsDistinct(Updated(S)) /\ UpdatedEntries(S) /\ loading' = Answered(S)
        /\ late' = late \cup Mixed(S)
        /\ UNCHANGED <<store, disk, files, renames, opens, live>>
  BY DEF Deliver, diskVars
<1>2. S \in SUBSET RelPaths
  BY DEF Stale
<1> USE DEF BuffersInv
<1>3. /\ file' \in [DOMAIN file -> FileHandle] /\ opened' \subseteq DOMAIN file
      /\ byPath' \in [RelPaths -> DOMAIN file \cup {NoBuffer}]
      /\ byEntry' \in [Files -> DOMAIN file \cup {NoBuffer}]
      /\ live \subseteq opened'
      /\ \A p \in RelPaths : byPath'[p] # NoBuffer => file'[byPath'[p]].path = p
      /\ \A e \in Files : byEntry'[e] # NoBuffer => file'[byEntry'[e]].entry = e
  BY <1>1, <1>2, UpdatedEntriesSound
<1>4. DOMAIN file' = DOMAIN file /\ Len(file') = Len(file)
      /\ \E n \in 0 .. MaxOpens : file' \in [1 .. n -> FileHandle]
  <2>1. DOMAIN file = 1 .. Len(file) /\ Len(file) \in Nat /\ Len(file) <= MaxOpens
    BY BuffersFiles
  <2>2. file' \in [1 .. Len(file) -> FileHandle] /\ Len(file) \in 0 .. MaxOpens
    BY <1>3, <2>1, StoreAssumption
  <2>3. DOMAIN file' = 1 .. Len(file) /\ file' \in Seq(FileHandle) /\ Len(file') = Len(file)
    BY <2>1, <2>2
  <2> QED
    BY <2>1, <2>2, <2>3
<1>5. entries' = Updated(S) /\ entries' \in [RelPaths -> 0 .. files]
  BY <1>1, <1>2, UpdatedType DEF UpdatedEntries
<1>6. loading' \in [RelPaths -> LoadState]
  <2> DEFINE step(p) == IF loading[p].step = "sent" /\ (p \in S \/ entries[p] = disk[p])
                        THEN "answered" ELSE loading[p].step
             overtaken(p) == loading[p].overtaken
                             \/ (p \in S /\ loading[p].step \notin {"none", "built"})
  <2>1. Answered(S) = [p \in RelPaths |->
                         [loading[p] EXCEPT !.step = step(p), !.overtaken = overtaken(p)]]
    BY DEF Answered
  <2>2. ASSUME NEW p \in RelPaths
        PROVE  [loading[p] EXCEPT !.step = step(p), !.overtaken = overtaken(p)] \in LoadState
    <3>1. loading[p] \in LoadState
      BY DEF BuffersTypeOK
    <3>2. step(p) \in {"answered", loading[p].step} /\ overtaken(p) \in BOOLEAN
      BY <3>1 DEF LoadState
    <3> HIDE DEF step, overtaken
    <3> QED
      BY <3>1, <3>2 DEF LoadState
  <2> HIDE DEF step, overtaken
  <2> QED
    BY <1>1, <2>1, <2>2
<1>7. late' \subseteq DOMAIN file
  BY <1>1 DEF Mixed, BuffersTypeOK
<1>8. BuffersTypeOK'
  BY <1>1, <1>3, <1>4, <1>5, <1>6, <1>7 DEF BuffersTypeOK
<1>9. LoadsUnderWay' = LoadsUnderWay
  BY <1>1 DEF Answered, LoadsUnderWay, BuffersTypeOK, LoadState
<1>10. RoomForLoads'
  BY <1>1, <1>4, <1>9 DEF RoomForLoads
<1>11. BuffersIndexed'
  BY <1>1, <1>3, <1>5 DEF BuffersIndexed, IdsDistinct
<1> QED
  BY <1>8, <1>10, <1>11

LEMMA OpenKeeps == ASSUME BuffersInv, NEW p \in RelPaths, Open(p) PROVE BuffersInv'
<1> USE DEF BuffersInv
<1>1. loading' = [loading EXCEPT ![p] = [NotLoading EXCEPT !.step = "sent"]] /\ opens' = opens + 1
      /\ opens' \in 0 .. MaxOpens
      /\ UNCHANGED <<store, disk, files, renames, entries, file, live, opened, byPath, byEntry, late>>
  BY StoreAssumption DEF Open, diskVars, indexVars, BuffersTypeOK
<1>2. [NotLoading EXCEPT !.step = "sent"] \in LoadState
  BY DEF NotLoading, LoadState
<1>3. BuffersTypeOK'
  BY <1>1, <1>2 DEF BuffersTypeOK
<1>4. LoadsUnderWay' = LoadsUnderWay \cup {p}
  BY <1>1 DEF LoadsUnderWay, NotLoading, BuffersTypeOK
<1>5. RoomForLoads'
  <2>1. Cardinality(LoadsUnderWay') <= Cardinality(LoadsUnderWay) + 1
        /\ Cardinality(LoadsUnderWay') \in Nat /\ Cardinality(LoadsUnderWay) \in Nat
    BY <1>4, LoadsFinite, FS_AddElement, FS_CardinalityType
  <2>2. Len(file') = Len(file) /\ Len(file) \in Nat /\ opens \in Nat
    BY <1>1, BuffersFiles, StoreAssumption DEF BuffersTypeOK
  <2> QED
    BY <1>1, <2>1, <2>2 DEF RoomForLoads
<1>6. BuffersIndexed'
  BY <1>1 DEF BuffersIndexed, IdsDistinct
<1> QED
  BY <1>3, <1>5, <1>6

(* A load goes on, or ends without a buffer: the number of loads that are  *)
(* under way does not grow.                                                *)
LEMMA LoadGoesOn ==
  ASSUME BuffersInv, NEW p \in RelPaths, NEW l \in LoadState,
         loading' = [loading EXCEPT ![p] = l],
         l.step \in {"sent", "answered", "looked"} => p \in LoadsUnderWay,
         UNCHANGED <<store, diskVars, entries, opens, file, live, indexVars, late>>
  PROVE  BuffersInv'
<1> USE DEF BuffersInv
<1>1. UNCHANGED <<store, disk, files, renames, entries, opens, file, live, opened, byPath, byEntry,
                  late>>
  BY DEF diskVars, indexVars
<1>2. BuffersTypeOK'
  BY <1>1 DEF BuffersTypeOK
<1>3. LoadsUnderWay' \in {LoadsUnderWay, LoadsUnderWay \ {p}}
  BY DEF LoadsUnderWay, BuffersTypeOK
<1>4. RoomForLoads'
  <2>1. Cardinality(LoadsUnderWay') <= Cardinality(LoadsUnderWay)
        /\ Cardinality(LoadsUnderWay) \in Nat /\ IsFiniteSet(LoadsUnderWay')
    BY <1>3, LoadsFinite, FS_Subset
  <2>2. Cardinality(LoadsUnderWay') \in Nat
    BY <2>1, FS_CardinalityType
  <2>3. Len(file') = Len(file) /\ Len(file) \in Nat /\ opens \in Nat /\ opens' = opens
    BY <1>1, BuffersFiles, StoreAssumption DEF BuffersTypeOK
  <2> QED
    BY <2>1, <2>2, <2>3 DEF RoomForLoads
<1>5. BuffersIndexed'
  BY <1>1 DEF BuffersIndexed, IdsDistinct
<1> QED
  BY <1>2, <1>4, <1>5

LEMMA NotLoadingType == NotLoading \in LoadState /\ NotLoading.step = "none"
BY DEF NotLoading, LoadState

LEMMA LoadReadKeeps == ASSUME BuffersInv, NEW p \in RelPaths, LoadRead(p) PROVE BuffersInv'
<1> DEFINE l == [loading[p] EXCEPT !.read = IF disk[p] = 0 THEN "missing" ELSE "found"]
<1>1. loading[p] \in LoadState /\ loading \in [RelPaths -> LoadState]
  BY DEF BuffersInv, BuffersTypeOK
<1>2. l \in LoadState /\ l.step = loading[p].step
  BY <1>1 DEF LoadState
<1>3. loading' = [loading EXCEPT ![p] = l]
  BY <1>1 DEF LoadRead
<1>4. p \in LoadsUnderWay
  BY DEF LoadRead, LoadsUnderWay
<1> QED
  BY <1>2, <1>3, <1>4, LoadGoesOn DEF LoadRead

LEMMA LoadLookKeeps == ASSUME BuffersInv, NEW p \in RelPaths, LoadLook(p) PROVE BuffersInv'
<1> DEFINE l == [loading[p] EXCEPT !.step = "looked", !.entry = entries[p]]
<1>1. loading[p] \in LoadState /\ loading \in [RelPaths -> LoadState]
  BY DEF BuffersInv, BuffersTypeOK
<1>2. entries[p] \in Files \cup {0}
  BY BuffersFiles DEF BuffersInv, Snapshots
<1>3. l \in LoadState
  BY <1>1, <1>2 DEF LoadState
<1>4. loading' = [loading EXCEPT ![p] = l]
  BY <1>1 DEF LoadLook
<1>5. p \in LoadsUnderWay
  BY DEF LoadLook, LoadsUnderWay
<1> QED
  BY <1>3, <1>4, <1>5, LoadGoesOn DEF LoadLook

LEMMA LoadEndKeeps ==
  ASSUME BuffersInv, NEW p \in RelPaths, LoadFail(p) \/ LoadDone(p) PROVE BuffersInv'
<1>1. /\ loading' = [loading EXCEPT ![p] = NotLoading]
      /\ UNCHANGED <<store, diskVars, entries, opens, file, live, indexVars, late>>
  BY DEF LoadFail, LoadDone
<1> QED
  BY <1>1, LoadGoesOn, NotLoadingType

LEMMA DropBufferKeeps ==
  ASSUME BuffersInv, NEW b \in DOMAIN file, DropBuffer(b) PROVE BuffersInv'
<1>1. UNCHANGED <<store, disk, files, renames, entries, loading, opens, file, opened, byPath, byEntry,
                  late>>
      /\ live' = live \ {b}
  BY DEF DropBuffer, diskVars, indexVars
<1> QED
  BY <1>1 DEF BuffersInv, BuffersTypeOK, BuffersIndexed, RoomForLoads, LoadsUnderWay, IdsDistinct

(* A load that is under way makes its buffer.                              *)
LEMMA AddBufferKeeps ==
  ASSUME BuffersInv, NEW p \in LoadsUnderWay, NEW handle \in FileHandle, AddBuffer(p, handle)
  PROVE  BuffersInv'
<1> DEFINE b == Len(file) + 1
<1> USE DEF BuffersInv
<1>1. p \in RelPaths /\ loading \in [RelPaths -> LoadState]
  BY DEF LoadsUnderWay, BuffersTypeOK
<1>2. Len(file) \in Nat /\ DOMAIN file = 1 .. Len(file) /\ file \in Seq(FileHandle)
      /\ opens \in 0 .. MaxOpens /\ MaxOpens \in Nat
  BY BuffersFiles, StoreAssumption DEF BuffersTypeOK
<1>3. Cardinality(LoadsUnderWay) \in Nat /\ Cardinality(LoadsUnderWay) >= 1
  <2>1. Cardinality(LoadsUnderWay \ {p}) = Cardinality(LoadsUnderWay) - 1
        /\ IsFiniteSet(LoadsUnderWay \ {p}) /\ Cardinality(LoadsUnderWay) \in Nat
    BY <1>1, LoadsFinite, FS_Subset
  <2>2. Cardinality(LoadsUnderWay \ {p}) \in Nat
    BY <2>1, FS_CardinalityType
  <2> QED
    BY <2>1, <2>2
<1>4. b <= MaxOpens /\ b \in Buffers /\ b \notin DOMAIN file /\ b # NoBuffer
  BY <1>2, <1>3 DEF RoomForLoads, Buffers, NoBuffer
<1>5. /\ file' = Append(file, handle) /\ live' = live \cup {b} /\ opened' = opened \cup {b}
      /\ byPath' = [byPath EXCEPT ![handle.path] = b]
      /\ byEntry' = [e \in Files |-> IF e = handle.entry THEN b ELSE byEntry[e]]
      /\ loading' = [loading EXCEPT ![p] = [NotLoading EXCEPT !.step = "built", !.buffer = b]]
      /\ late' \in {late, late \cup {b}}
      /\ UNCHANGED <<store, disk, files, renames, entries, opens>>
  BY DEF AddBuffer, diskVars
<1>6. /\ Len(file') = b /\ DOMAIN file' = DOMAIN file \cup {b}
      /\ file'[b] = handle /\ \A c \in DOMAIN file : file'[c] = file[c]
      /\ \E n \in 0 .. MaxOpens : file' \in [1 .. n -> FileHandle]
  <2>1. file' \in Seq(FileHandle) /\ Len(file') = b /\ DOMAIN file' = 1 .. b
    BY <1>2, <1>5
  <2>2. DOMAIN file' = DOMAIN file \cup {b}
    BY <1>2, <2>1
  <2>3. file'[b] = handle /\ \A c \in DOMAIN file : file'[c] = file[c]
    BY <1>2, <1>5
  <2>4. b \in 0 .. MaxOpens /\ file' \in [1 .. b -> FileHandle]
    BY <1>2, <1>4, <2>1
  <2> QED
    BY <2>1, <2>2, <2>3, <2>4
<1> HIDE DEF b
<1>7. handle.path \in RelPaths
  BY DEF FileHandle
<1>8. loading' \in [RelPaths -> LoadState]
  BY <1>1, <1>4, <1>5 DEF LoadState, NotLoading
<1>9. BuffersTypeOK'
  BY <1>5, <1>6, <1>7, <1>8 DEF BuffersTypeOK
<1>10. LoadsUnderWay' = LoadsUnderWay \ {p}
  BY <1>1, <1>5 DEF LoadsUnderWay, NotLoading
<1>11. RoomForLoads'
  <2>1. Cardinality(LoadsUnderWay') = Cardinality(LoadsUnderWay) - 1
    BY <1>1, <1>10, LoadsFinite
  <2> QED
    BY <1>2, <1>3, <1>5, <1>6, <2>1 DEF RoomForLoads, b
<1>12. BuffersIndexed'
  <2>1. \A q \in RelPaths : byPath[q] # NoBuffer => byPath[q] \in DOMAIN file
    BY DEF BuffersTypeOK
  <2>2. \A e \in Files : byEntry[e] # NoBuffer => byEntry[e] \in DOMAIN file
    BY DEF BuffersTypeOK
  <2>3. \A q \in RelPaths : byPath'[q] # NoBuffer => file'[byPath'[q]].path = q
    BY <1>5, <1>6, <1>7, <2>1 DEF BuffersTypeOK, BuffersIndexed
  <2>4. \A e \in Files : byEntry'[e] # NoBuffer => file'[byEntry'[e]].entry = e
    BY <1>5, <1>6, <2>2 DEF BuffersTypeOK, BuffersIndexed
  <2> QED
    BY <1>5, <2>3, <2>4 DEF BuffersIndexed, IdsDistinct
<1> QED
  BY <1>9, <1>11, <1>12

LEMMA LoadBuildKeeps == ASSUME BuffersInv, NEW p \in RelPaths, LoadBuild(p) PROVE BuffersInv'
<1>1. p \in LoadsUnderWay
  BY DEF LoadBuild, LoadsUnderWay
<1>2. PICK handle \in FileHandle : AddBuffer(p, handle)
  <2>1. [path |-> p, entry |-> 0, state |-> "New"] \in FileHandle
    BY DEF FileHandle
  <2>2. loading[p].entry \in Files \cup {0}
    BY DEF BuffersInv, BuffersTypeOK, LoadState
  <2>3. loading[p].entry # 0 =>
          [path |-> p, entry |-> loading[p].entry, state |-> "Present"] \in FileHandle
    BY <2>2 DEF FileHandle
  <2> QED
    BY <2>1, <2>3 DEF LoadBuild
<1> QED
  BY <1>1, <1>2, AddBufferKeeps

LEMMA BuffersInvNext == BuffersInv /\ [BuffersNext]_buffersVars => BuffersInv'
<1> SUFFICES ASSUME BuffersInv, [BuffersNext]_buffersVars PROVE BuffersInv'
  OBVIOUS
<1>1. CASE DiskStep
  BY <1>1, DiskStepKeeps
<1>2. CASE Deliver
  BY <1>2, DeliverKeeps
<1>3. CASE \E p \in RelPaths : Open(p) \/ LoadStep(p)
  BY <1>3, OpenKeeps, LoadReadKeeps, LoadLookKeeps, LoadEndKeeps, LoadBuildKeeps DEF LoadStep
<1>4. CASE \E b \in DOMAIN file : DropBuffer(b)
  BY <1>4, DropBufferKeeps
<1>5. CASE UNCHANGED buffersVars
  BY <1>5 DEF buffersVars, diskVars, indexVars, BuffersInv, BuffersTypeOK, BuffersIndexed, RoomForLoads,
              LoadsUnderWay, IdsDistinct
<1> QED
  BY <1>1, <1>2, <1>3, <1>4, <1>5 DEF BuffersNext

LEMMA BuffersInvInit == BuffersInit => BuffersInv
<1> SUFFICES ASSUME BuffersInit PROVE BuffersInv
  OBVIOUS
<1>1. PathCount \in Nat \ {0, 1} /\ MaxFiles \in Nat \ {0, 1} /\ MaxOpens \in Nat
  BY StoreAssumption
<1>2. MaxRenames[store] \in Nat
  BY StoreAssumption DEF BuffersInit
<1>3. file = <<>> /\ DOMAIN file = {} /\ Len(file) = 0 /\ file \in [1 .. 0 -> FileHandle]
  BY DEF BuffersInit
<1>4. loading \in [RelPaths -> LoadState]
  BY NotLoadingType DEF BuffersInit
<1>5. BuffersTypeOK
  BY <1>1, <1>2, <1>3, <1>4 DEF BuffersInit, BuffersTypeOK
<1>6. LoadsUnderWay = {}
  BY NotLoadingType DEF BuffersInit, LoadsUnderWay
<1>7. RoomForLoads
  BY <1>3, <1>6, FS_EmptySet DEF RoomForLoads, BuffersInit
<1>8. BuffersIndexed
  BY DEF BuffersIndexed, BuffersInit, IdsDistinct
<1> QED
  BY <1>5, <1>7, <1>8 DEF BuffersInv

(* Of both stores, for any number of paths, files, loads and renames: the  *)
(* variables keep their types, the maps of paths and entries stay exact,   *)
(* and the snapshot has each file once.                                    *)
THEOREM BuffersInvariant == BuffersSpec => []BuffersInv
<1>1. BuffersInit => BuffersInv
  BY BuffersInvInit
<1>2. BuffersInv /\ [BuffersNext]_buffersVars => BuffersInv'
  BY BuffersInvNext
<1> QED
  BY <1>1, <1>2, PTL DEF BuffersSpec

(* A path is never answered with the buffer of another path, however loads,*)
(* renames, deletions, releases and updates of several paths interleave    *)
(* (get_by_path, worktree_entry_changed, buffer_changed_file, add_buffer). *)
THEOREM LookupStaysExact == BuffersSpec => []LookupIsExact
<1>1. BuffersInv => LookupIsExact
  BY DEF BuffersInv, BuffersIndexed, LookupIsExact, Found
<1> QED
  BY <1>1, BuffersInvariant, PTL
-----------------------------------------------------------------------------
(***************************************************************************)
(* One buffer per file.  Where no buffer is late, each buffer that is held *)
(* is known under its entry and its path, has the entry there if there is  *)
(* one, and an entry known to have a buffer is at that buffer's path.      *)
(***************************************************************************)
HandlesFollow ==
  /\ \A b \in live :
       /\ file[b].entry \in Files /\ byEntry[file[b].entry] = b /\ byPath[file[b].path] = b
       /\ file[b].state # "New"
       /\ entries[file[b].path] = IF file[b].state = "Present" THEN file[b].entry ELSE 0
  /\ \A e \in Files, p \in RelPaths :
       byEntry[e] # NoBuffer /\ entries[p] = e =>
         file[byEntry[e]].path = p /\ file[byEntry[e]].state = "Present"

(* An update that makes no buffer late.                                    *)
Unmixed(S) ==
  /\ BuffersInv /\ HandlesFollow
  /\ S \in SUBSET RelPaths /\ Mixed(S) = {} /\ IdsDistinct(Updated(S))

(* The handle with which the update leaves a buffer.                       *)
Moved(b, S) == NewHandle(file[b], Updated(S))

(* What holds between the events: some buffers have moved, the others not  *)
(* yet, all that are held are known, and the rest only go.                 *)
Between(st, S) ==
  /\ \A b \in DOMAIN file \ live : st.file[b] = file[b]
  /\ \A b \in live :
       /\ st.file[b] \in {file[b], Moved(b, S)}
       /\ st.byEntry[st.file[b].entry] = b /\ st.byPath[st.file[b].path] = b
  /\ \A e \in Files : st.byEntry[e] \notin live => st.byEntry[e] \in {NoBuffer, byEntry[e]}

(* What an event that tells of the entry e at p leaves behind.             *)
Told(st, p, e, S) ==
  /\ \A b \in live : byEntry[e] = b => st.file[b] = Moved(b, S)
  /\ st.byEntry[e] \in live \cup {NoBuffer}
  /\ \A b \in live :
       e = disk[p] /\ file[b].path = p /\ (\A c \in DOMAIN file \ {b} : file[c].entry # e)
         => st.file[b] = Moved(b, S)

(* A handle goes where its entry is, else to the entry at its path.        *)
LEMMA NewHandleCases ==
  ASSUME NEW handle \in FileHandle, handle.entry \in Files, NEW snapshot \in Snapshots
  PROVE  \/ \E p \in RelPaths :
              /\ snapshot[p] = handle.entry
              /\ NewHandle(handle, snapshot) = [path |-> p, entry |-> handle.entry, state |-> "Present"]
         \/ /\ \A p \in RelPaths : snapshot[p] # handle.entry
            /\ snapshot[handle.path] \in Files
            /\ NewHandle(handle, snapshot)
                 = [path |-> handle.path, entry |-> snapshot[handle.path], state |-> "Present"]
         \/ /\ \A p \in RelPaths : snapshot[p] # handle.entry
            /\ snapshot[handle.path] = 0
            /\ NewHandle(handle, snapshot)
                 = [path |-> handle.path, entry |-> handle.entry, state |-> "Deleted"]
<1> DEFINE moved == {p \in RelPaths : handle.entry # 0 /\ snapshot[p] = handle.entry}
           there == EntryPath(handle, snapshot)
           new == NewHandle(handle, snapshot)
<1>1. handle.entry # 0 /\ handle.path \in RelPaths
      /\ handle = [path |-> handle.path, entry |-> handle.entry, state |-> handle.state]
  BY DEF Files, FileHandle
<1>2. new = IF snapshot[there] # 0
            THEN [path |-> there, entry |-> snapshot[there], state |-> "Present"]
            ELSE [path |-> handle.path, entry |-> handle.entry, state |-> "Deleted"]
  <2>1. [handle EXCEPT !.state = "Deleted"]
          = [path |-> handle.path, entry |-> handle.entry, state |-> "Deleted"]
    BY <1>1
  <2> QED
    BY <2>1 DEF NewHandle
<1>3. CASE moved # {}
  <2>1. there \in moved
    BY <1>3 DEF EntryPath
  <2>2. there \in RelPaths /\ snapshot[there] = handle.entry
    BY <2>1
  <2> HIDE DEF there, new
  <2> QED
    BY <1>1, <1>2, <2>2 DEF new
<1>4. CASE moved = {}
  <2>1. there = handle.path
    BY <1>4 DEF EntryPath
  <2>2. \A p \in RelPaths : snapshot[p] # handle.entry
    BY <1>1, <1>4
  <2>3. snapshot[handle.path] \in Files \cup {0}
    BY <1>1 DEF Snapshots
  <2> HIDE DEF there, new
  <2> QED
    BY <1>2, <2>1, <2>2, <2>3 DEF new
<1> QED
  BY <1>3, <1>4

(* Of the buffers that are held and the snapshot to come.                  *)
LEMMA MovedTo ==
  ASSUME NEW S, Unmixed(S), NEW b \in live
  PROVE  /\ b \in DOMAIN file /\ file[b] \in FileHandle /\ file[b].entry \in Files
         /\ Updated(S) \in Snapshots
         /\ Moved(b, S) \in FileHandle /\ Moved(b, S).entry \in Files
         /\ NewHandle(Moved(b, S), Updated(S)) = Moved(b, S)
         /\ Updated(S)[Moved(b, S).path] =
              IF Moved(b, S).state = "Present" THEN Moved(b, S).entry ELSE 0
         /\ Moved(b, S).path # file[b].path =>
              /\ Moved(b, S).entry = file[b].entry /\ Moved(b, S).state = "Present"
         /\ Moved(b, S).entry # file[b].entry =>
              /\ Moved(b, S).path = file[b].path /\ Moved(b, S).state = "Present"
              /\ \A p \in RelPaths : Updated(S)[p] # file[b].entry
         /\ Moved(b, S).state # "Present" => \A p \in RelPaths : Updated(S)[p] # file[b].entry
<1> DEFINE h == file[b]
           snapshot == Updated(S)
           new == Moved(b, S)
<1>1. b \in DOMAIN file /\ h \in FileHandle /\ h.entry \in Files
  BY BuffersFiles DEF Unmixed, BuffersInv, BuffersTypeOK, HandlesFollow
<1>2. snapshot \in Snapshots /\ IdsDistinct(snapshot)
  BY UpdatedType DEF Unmixed, BuffersInv
<1>3. new \in FileHandle
  BY <1>1, <1>2, NewHandleType DEF Moved
<1>4. h.path \in RelPaths /\ 0 \notin Files
  BY <1>1 DEF FileHandle, Files
<1>5. \/ \E p \in RelPaths :
           /\ snapshot[p] = h.entry
           /\ new = [path |-> p, entry |-> h.entry, state |-> "Present"]
      \/ /\ \A p \in RelPaths : snapshot[p] # h.entry
         /\ snapshot[h.path] \in Files
         /\ new = [path |-> h.path, entry |-> snapshot[h.path], state |-> "Present"]
      \/ /\ \A p \in RelPaths : snapshot[p] # h.entry
         /\ snapshot[h.path] = 0
         /\ new = [path |-> h.path, entry |-> h.entry, state |-> "Deleted"]
  BY <1>1, <1>2, NewHandleCases DEF Moved
<1> HIDE DEF h, snapshot, new
<1>6. /\ new.entry \in Files
      /\ snapshot[new.path] = IF new.state = "Present" THEN new.entry ELSE 0
      /\ new.path # h.path => new.entry = h.entry /\ new.state = "Present"
      /\ new.entry # h.entry => /\ new.path = h.path /\ new.state = "Present"
                                /\ \A p \in RelPaths : snapshot[p] # h.entry
      /\ new.state # "Present" => \A p \in RelPaths : snapshot[p] # h.entry
      /\ new.state # "Present" => new = [path |-> h.path, entry |-> h.entry, state |-> "Deleted"]
      /\ new.state = "Present" => new = [path |-> new.path, entry |-> new.entry, state |-> "Present"]
  BY <1>1, <1>5
<1>7. NewHandle(new, snapshot) = new
  <2>1. \/ \E p \in RelPaths :
             /\ snapshot[p] = new.entry
             /\ NewHandle(new, snapshot) = [path |-> p, entry |-> new.entry, state |-> "Present"]
        \/ /\ \A p \in RelPaths : snapshot[p] # new.entry
           /\ snapshot[new.path] \in Files
           /\ NewHandle(new, snapshot) = [path |-> new.path, entry |-> snapshot[new.path],
                                          state |-> "Present"]
        \/ /\ \A p \in RelPaths : snapshot[p] # new.entry
           /\ snapshot[new.path] = 0
           /\ NewHandle(new, snapshot) = [path |-> new.path, entry |-> new.entry, state |-> "Deleted"]
    BY <1>2, <1>3, <1>6, NewHandleCases
  <2>2. new.path \in RelPaths
    BY <1>3 DEF FileHandle
  <2>3. CASE new.state = "Present"
    <3>1. snapshot[new.path] = new.entry /\ new.entry # 0
      BY <1>4, <1>6, <2>3
    <3>2. \A p \in RelPaths : snapshot[p] = new.entry => p = new.path
      BY <1>2, <2>2, <3>1 DEF IdsDistinct
    <3> QED
      BY <1>6, <2>1, <2>2, <2>3, <3>1, <3>2
  <2>4. CASE new.state # "Present"
    BY <1>4, <1>6, <2>1, <2>4
  <2> QED
    BY <2>3, <2>4
<1> QED
  BY <1>1, <1>2, <1>3, <1>6, <1>7 DEF h, snapshot, new

(* The buffers at the paths of an update that makes none late.             *)
LEMMA NotMixed ==
  ASSUME NEW S, Mixed(S) = {}, NEW c \in DOMAIN file, file[c].path \in S,
         disk[file[c].path] \notin {0, file[c].entry}
  PROVE  /\ \A d \in DOMAIN file \ {c} : file[d].entry # disk[file[c].path]
         /\ \A q \in S : disk[q] = file[c].entry => disk[q] = 0
BY DEF Mixed
(* The held buffers are known apart, by path and by entry.                 *)
LEMMA HeldApart ==
  ASSUME BuffersInv, HandlesFollow, NEW b \in live, NEW c \in live, b # c
  PROVE  file[b].path # file[c].path /\ file[b].entry # file[c].entry
BY DEF HandlesFollow

(* A buffer moves only where the update has put its file.                  *)
LEMMA MovedIntoUpdate ==
  ASSUME NEW S, Unmixed(S), NEW b \in live
  PROVE  /\ Moved(b, S).path # file[b].path =>
              /\ Moved(b, S).path \in S /\ disk[Moved(b, S).path] = file[b].entry
         /\ Moved(b, S).entry # file[b].entry =>
              /\ file[b].path \in S /\ disk[file[b].path] = Moved(b, S).entry
<1> DEFINE new == Moved(b, S)
           old == file[b]
<1>1. /\ new.path \in RelPaths /\ new.entry \in Files /\ old.path \in RelPaths /\ old.entry \in Files
      /\ b \in DOMAIN file /\ b # NoBuffer
  BY MovedTo, BuffersFiles DEF FileHandle, Unmixed, BuffersInv
<1>2. Updated(S) = [p \in RelPaths |-> IF p \in S THEN disk[p] ELSE entries[p]]
  BY DEF Updated
<1>3. byEntry[old.entry] = b /\ entries[old.path] \in {0, old.entry}
  BY DEF Unmixed, HandlesFollow
<1>4. CASE new.path # old.path
  <2>1. new.entry = old.entry /\ new.state = "Present" /\ Updated(S)[new.path] = old.entry
    BY <1>4, MovedTo
  <2>2. entries[new.path] # old.entry
    BY <1>1, <1>3, <1>4 DEF Unmixed, HandlesFollow
  <2> QED
    BY <1>1, <1>2, <1>4, <2>1, <2>2
<1>5. CASE new.entry # old.entry
  <2>1. new.path = old.path /\ Updated(S)[old.path] = new.entry
    BY <1>5, MovedTo
  <2>2. entries[old.path] # new.entry
    BY <1>1, <1>3, <1>5 DEF Files
  <2> QED
    BY <1>1, <1>2, <2>1, <2>2
<1> QED
  BY <1>4, <1>5

(* A buffer that moves comes to no other buffer's path or entry.           *)
LEMMA MovedApart ==
  ASSUME NEW S, Unmixed(S), NEW st, Between(st, S), NEW b \in live, NEW c \in live, b # c
  PROVE  /\ Moved(b, S).path # file[b].path => st.file[c].path # Moved(b, S).path
         /\ Moved(b, S).entry # file[b].entry => st.file[c].entry # Moved(b, S).entry
<1> DEFINE q == Moved(b, S).path
           y == Moved(b, S).entry
<1>1. /\ b \in DOMAIN file /\ c \in DOMAIN file
      /\ q \in RelPaths /\ y \in Files /\ file[b].path \in RelPaths /\ file[b].entry \in Files
      /\ file[c].path \in RelPaths /\ file[c].entry \in Files
      /\ Moved(c, S).path \in RelPaths /\ Moved(c, S).entry \in Files /\ 0 \notin Files
  BY MovedTo DEF FileHandle, Files
<1>2. st.file[c] \in {file[c], Moved(c, S)}
  BY DEF Between
<1>3. file[b].path # file[c].path /\ file[b].entry # file[c].entry
  BY HeldApart DEF Unmixed
<1>4. \A p \in S : Updated(S)[p] = disk[p]
  BY DEF Updated, Unmixed
<1>5. Mixed(S) = {} /\ IdsDistinct(Updated(S))
  BY DEF Unmixed
<1>6. ASSUME q # file[b].path, st.file[c].path = q PROVE FALSE
  <2>1. q \in S /\ disk[q] = file[b].entry
    BY <1>6, MovedIntoUpdate
  <2>2. CASE file[c].path = q
    BY <1>1, <1>3, <1>5, <2>1, <2>2, NotMixed
  <2>3. CASE file[c].path # q
    <3>1. Moved(c, S).path = q /\ Moved(c, S).path # file[c].path
      BY <1>2, <1>6, <2>3
    <3>2. disk[q] = file[c].entry
      BY <3>1, MovedIntoUpdate
    <3> QED
      BY <1>3, <2>1, <3>2
  <2> QED
    BY <2>2, <2>3
<1>7. ASSUME y # file[b].entry, st.file[c].entry = y PROVE FALSE
  <2>1. file[b].path \in S /\ disk[file[b].path] = y
    BY <1>7, MovedIntoUpdate
  <2>2. file[c].entry # y
    BY <1>1, <1>5, <1>7, <2>1, NotMixed
  <2>3. Moved(c, S).entry = y /\ Moved(c, S).entry # file[c].entry
    BY <1>2, <1>7, <2>2
  <2>4. file[c].path \in S /\ disk[file[c].path] = y
    BY <2>3, MovedIntoUpdate
  <2>5. Updated(S)[file[b].path] = y /\ Updated(S)[file[c].path] = y
    BY <1>4, <2>1, <2>4
  <2> QED
    BY <1>1, <1>3, <1>5, <2>5 DEF IdsDistinct
<1> QED
  BY <1>6, <1>7

(* Where the entry of an event has a buffer that nobody holds, the path of *)
(* the event has no other.                                                 *)
LEMMA DeadAtPath ==
  ASSUME NEW S, Unmixed(S), NEW st \in SoundStates, Between(st, S), NEW p \in S, NEW e \in Files,
         e \in {entries[p], disk[p]}, st.byEntry[e] \notin live \cup {NoBuffer}
  PROVE  st.byPath[p] \notin live
<1> SUFFICES ASSUME st.byPath[p] \in live PROVE FALSE
  OBVIOUS
<1> DEFINE d == st.byEntry[e]
           c == st.byPath[p]
<1>1. /\ p \in RelPaths /\ c \in live /\ c \in DOMAIN file /\ d \in DOMAIN file /\ d \notin live
      /\ c # NoBuffer /\ 0 \notin Files
  <2>1. p \in RelPaths /\ live \subseteq DOMAIN file /\ NoBuffer \notin DOMAIN file /\ 0 \notin Files
    BY BuffersFiles DEF Unmixed, BuffersInv, BuffersTypeOK, Files
  <2>2. st.byEntry \in [Files -> DOMAIN file \cup {NoBuffer}]
    BY DEF SoundStates, StoreState
  <2> QED
    BY <2>1, <2>2
<1>2. st.file[d].entry = e /\ st.file[c].path = p
  BY <1>1 DEF SoundStates, Exact
<1>3. st.file[d] = file[d] /\ byEntry[e] = d
  BY <1>1 DEF Between
<1>4. byEntry[file[c].entry] = c /\ file[c].entry \in Files /\ file[c].entry # e
      /\ entries[file[c].path] \in {0, file[c].entry}
  BY <1>1, <1>3 DEF Unmixed, HandlesFollow
<1>5. Mixed(S) = {} /\ c # d /\ file[d].entry = e
  BY <1>1, <1>2, <1>3 DEF Unmixed
<1>6. CASE file[c].path = p
  <2>1. disk[p] = e
    BY <1>1, <1>4, <1>6
  <2> QED
    BY <1>1, <1>4, <1>5, <1>6, <2>1, NotMixed
<1>7. CASE file[c].path # p
  <2>1. st.file[c] = Moved(c, S) /\ Moved(c, S).path # file[c].path
    BY <1>1, <1>2, <1>7 DEF Between
  <2>2. disk[p] = file[c].entry
    BY <1>1, <1>2, <2>1, MovedIntoUpdate
  <2>3. entries[p] = e
    BY <1>4, <2>2
  <2>4. file[d].path = p
    BY <1>1, <1>3, <2>3 DEF Unmixed, HandlesFollow
  <2> QED
    BY <1>1, <1>4, <1>5, <2>2, <2>4, NotMixed
<1> QED
  BY <1>6, <1>7

(* A buffer that an event does not find is known elsewhere already.        *)
LEMMA Untouched ==
  ASSUME NEW S, Unmixed(S), NEW st \in SoundStates, Between(st, S), NEW b \in live,
         st.file[b] # Moved(b, S)
  PROVE  /\ st.file[b] = file[b] /\ file[b].entry \in Files /\ file[b].path \in RelPaths
         /\ st.byEntry[file[b].entry] = b /\ st.byPath[file[b].path] = b
         /\ \A e \in Files : byEntry[e] = b => e = file[b].entry
<1>1. st.file[b] = file[b] /\ st.byEntry[file[b].entry] = b /\ st.byPath[file[b].path] = b
  BY DEF Between
<1>2. file[b].entry \in Files /\ file[b].path \in RelPaths /\ b # NoBuffer
  BY MovedTo, BuffersFiles DEF FileHandle, Unmixed, BuffersInv
<1> QED
  BY <1>1, <1>2 DEF Unmixed, BuffersInv, BuffersIndexed

(* An event moves the buffer it finds, forgets one that nobody holds, and  *)
(* undoes nothing that an earlier event has done.                          *)
Follows(st, new, p, e, S) ==
  /\ Between(new, S) /\ Told(new, p, e, S)
  /\ \A b \in live : st.file[b] = Moved(b, S) => new.file[b] = Moved(b, S)
  /\ \A x \in Files : st.byEntry[x] \in live \cup {NoBuffer} =>
                        new.byEntry[x] \in live \cup {NoBuffer}

LEMMA NobodyFollows ==
  ASSUME NEW S, Unmixed(S), NEW st \in SoundStates, Between(st, S), NEW p \in S, NEW e \in Files,
         st.byEntry[e] = NoBuffer, st.byPath[p] = NoBuffer
  PROVE  Follows(st, st, p, e, S)
<1>1. NoBuffer \notin live
  BY BuffersFiles DEF Unmixed, BuffersInv, BuffersTypeOK
<1>2. ASSUME NEW b \in live, st.file[b] # Moved(b, S)
      PROVE  byEntry[e] # b /\ file[b].path # p
  BY <1>1, <1>2, Untouched
<1> QED
  BY <1>2 DEF Follows, Told

LEMMA ForgottenFollows ==
  ASSUME NEW S, Unmixed(S), NEW st \in SoundStates, Between(st, S), NEW p \in S, NEW e \in Files,
         e \in {entries[p], disk[p]}, NEW b, b \notin live \cup {NoBuffer},
         b = IF st.byEntry[e] # NoBuffer THEN st.byEntry[e] ELSE st.byPath[p],
         NEW new, new.file = st.file, new.byPath = [st.byPath EXCEPT ![p] = NoBuffer],
         new.byEntry = [st.byEntry EXCEPT ![e] = NoBuffer]
  PROVE  Follows(st, new, p, e, S)
<1>1. /\ NoBuffer \notin live /\ p \in RelPaths
      /\ st.byPath \in [RelPaths -> DOMAIN file \cup {NoBuffer}]
      /\ st.byEntry \in [Files -> DOMAIN file \cup {NoBuffer}]
  BY BuffersFiles DEF Unmixed, BuffersInv, BuffersTypeOK, SoundStates, StoreState
<1>2. st.byPath[p] \notin live /\ st.byEntry[e] \notin live
  <2>1. CASE st.byEntry[e] = NoBuffer
    BY <1>1, <2>1
  <2>2. CASE st.byEntry[e] # NoBuffer
    BY <2>2, DeadAtPath
  <2> QED
    BY <2>1, <2>2
<1>3. ASSUME NEW c \in live PROVE new.byEntry[st.file[c].entry] = c /\ new.byPath[st.file[c].path] = c
  <2>1. st.byEntry[st.file[c].entry] = c /\ st.byPath[st.file[c].path] = c
    BY DEF Between
  <2>2. st.file[c].entry \in Files /\ st.file[c].path \in RelPaths
    <3>1. st.file[c] \in {file[c], Moved(c, S)}
      BY DEF Between
    <3>2. file[c].entry \in Files /\ file[c].path \in RelPaths /\ Moved(c, S).entry \in Files
          /\ Moved(c, S).path \in RelPaths
      BY MovedTo DEF FileHandle
    <3> QED
      BY <3>1, <3>2
  <2> QED
    BY <1>1, <1>2, <2>1, <2>2
<1>4. Between(new, S)
  BY <1>1, <1>3 DEF Between
<1>5. ASSUME NEW c \in live, st.file[c] # Moved(c, S) PROVE byEntry[e] # c /\ file[c].path # p
  BY <1>2, <1>5, Untouched
<1>6. Told(new, p, e, S)
  BY <1>1, <1>5 DEF Told
<1> QED
  BY <1>1, <1>4, <1>6 DEF Follows

LEMMA HeldFollows ==
  ASSUME NEW S, Unmixed(S), NEW st \in SoundStates, Between(st, S), NEW p \in S, NEW e \in Files,
         e \in {entries[p], disk[p]}, NEW b \in live,
         b = IF st.byEntry[e] # NoBuffer THEN st.byEntry[e] ELSE st.byPath[p],
         NEW new, new.file = [st.file EXCEPT ![b] = NewHandle(st.file[b], Updated(S))],
         new.byPath = Repathed(st.byPath, b, st.file[b], NewHandle(st.file[b], Updated(S))),
         new.byEntry = Reentried(st.byEntry, b, st.file[b], NewHandle(st.file[b], Updated(S)))
  PROVE  Follows(st, new, p, e, S)
<1> DEFINE to == Moved(b, S)
           old == st.file[b]
<1>1. /\ NoBuffer \notin live /\ p \in RelPaths /\ live \subseteq DOMAIN file
      /\ st.byPath \in [RelPaths -> DOMAIN file \cup {NoBuffer}]
      /\ st.byEntry \in [Files -> DOMAIN file \cup {NoBuffer}]
      /\ DOMAIN st.file = DOMAIN file
  BY BuffersFiles DEF Unmixed, BuffersInv, BuffersTypeOK, SoundStates, StoreState
<1>2. old \in {file[b], to} /\ st.byEntry[old.entry] = b /\ st.byPath[old.path] = b
  BY DEF Between
<1>3. NewHandle(old, Updated(S)) = to
  <2>1. NewHandle(file[b], Updated(S)) = to
    BY DEF Moved
  <2>2. NewHandle(to, Updated(S)) = to
    BY MovedTo
  <2> HIDE DEF to
  <2> QED
    BY <1>2, <2>1, <2>2
<1>4. /\ to.entry \in Files /\ to.path \in RelPaths /\ old.entry \in Files /\ old.path \in RelPaths
  <2>1. to \in FileHandle /\ to.entry \in Files /\ file[b] \in FileHandle /\ file[b].entry \in Files
    BY MovedTo
  <2> HIDE DEF to
  <2> QED
    BY <1>2, <2>1 DEF FileHandle
<1> HIDE DEF to
<1>5. new.file[b] = to /\ \A c \in DOMAIN file : c # b => new.file[c] = st.file[c]
  <2>1. new.file = [st.file EXCEPT ![b] = to]
    BY <1>3
  <2> QED
    BY <1>1, <2>1
<1>6. /\ new.byPath = IF to.path = old.path THEN st.byPath
                      ELSE [st.byPath EXCEPT ![old.path] = NoBuffer, ![to.path] = b]
      /\ new.byEntry = IF to.entry = old.entry THEN st.byEntry
                       ELSE [x \in Files |-> IF x = to.entry THEN b ELSE
                                             IF x = old.entry THEN NoBuffer ELSE st.byEntry[x]]
  <2>1. new.byPath = Repathed(st.byPath, b, old, to) /\ new.byEntry = Reentried(st.byEntry, b, old, to)
    BY <1>3
  <2> QED
    BY <2>1 DEF Repathed, Reentried
<1>7. ASSUME NEW c \in live, c # b
      PROVE  new.byEntry[st.file[c].entry] = c /\ new.byPath[st.file[c].path] = c
  <2>1. st.byEntry[st.file[c].entry] = c /\ st.byPath[st.file[c].path] = c
    BY DEF Between
  <2>2. st.file[c].entry \in Files /\ st.file[c].path \in RelPaths
    <3>1. st.file[c] \in {file[c], Moved(c, S)}
      BY DEF Between
    <3>2. file[c].entry \in Files /\ file[c].path \in RelPaths /\ Moved(c, S).entry \in Files
          /\ Moved(c, S).path \in RelPaths
      BY MovedTo DEF FileHandle
    <3> QED
      BY <3>1, <3>2
  <2>3. to.path # old.path => st.file[c].path # to.path
    BY <1>2, <1>7, MovedApart DEF to
  <2>4. to.entry # old.entry => st.file[c].entry # to.entry
    BY <1>2, <1>7, MovedApart DEF to
  <2>5. st.file[c].entry # old.entry /\ st.file[c].path # old.path
    BY <1>2, <1>7, <2>1
  <2>6. new.byEntry[st.file[c].entry] = c
    <3>1. CASE to.entry = old.entry
      BY <1>6, <2>1, <3>1
    <3>2. CASE to.entry # old.entry
      BY <1>6, <2>1, <2>2, <2>4, <2>5, <3>2
    <3> QED
      BY <3>1, <3>2
  <2>7. new.byPath[st.file[c].path] = c
    BY <1>1, <1>4, <1>6, <2>1, <2>2, <2>3, <2>5
  <2> QED
    BY <2>6, <2>7
<1>8. new.byEntry[to.entry] = b /\ new.byPath[to.path] = b
  BY <1>1, <1>2, <1>4, <1>6
<1>9. \A x \in Files : new.byEntry[x] \in {b, NoBuffer, st.byEntry[x]}
  BY <1>6
<1>10. Between(new, S)
  <2>1. \A c \in DOMAIN file \ live : new.file[c] = file[c]
    BY <1>5 DEF Between
  <2>2. ASSUME NEW c \in live
        PROVE  /\ new.file[c] \in {file[c], Moved(c, S)}
               /\ new.byEntry[new.file[c].entry] = c /\ new.byPath[new.file[c].path] = c
    <3>1. CASE c = b
      BY <1>5, <1>8, <3>1 DEF to
    <3>2. CASE c # b
      BY <1>1, <1>5, <1>7, <3>2 DEF Between
    <3> QED
      BY <3>1, <3>2
  <2>3. \A x \in Files : new.byEntry[x] \notin live => new.byEntry[x] \in {NoBuffer, byEntry[x]}
    BY <1>9 DEF Between
  <2> QED
    BY <2>1, <2>2, <2>3 DEF Between
<1>11. \A c \in live : st.file[c] = Moved(c, S) => new.file[c] = Moved(c, S)
  BY <1>1, <1>5 DEF to
<1>12. Told(new, p, e, S)
  <2>1. ASSUME NEW c \in live, byEntry[e] = c, new.file[c] # Moved(c, S) PROVE FALSE
    <3>1. c # b /\ st.file[c] # Moved(c, S)
      BY <1>1, <1>5, <2>1 DEF to
    <3>2. st.byEntry[e] = c
      BY <2>1, <3>1, Untouched
    <3> QED
      BY <1>1, <3>1, <3>2
  <2>2. new.byEntry[e] \in live \cup {NoBuffer}
    BY <1>1, <1>9
  <2>3. ASSUME NEW c \in live, e = disk[p], file[c].path = p,
               \A d \in DOMAIN file \ {c} : file[d].entry # e, new.file[c] # Moved(c, S)
        PROVE  FALSE
    <3>1. c # b /\ st.file[c] # Moved(c, S)
      BY <1>1, <1>5, <2>3 DEF to
    <3>2. st.byPath[p] = c
      BY <2>3, <3>1, Untouched
    <3>3. st.byEntry[e] = b
      BY <1>1, <3>1, <3>2
    <3>4. old.entry = e
      <4>1. Exact(st) /\ b # NoBuffer
        BY <1>1 DEF SoundStates
      <4> QED
        BY <3>3, <4>1 DEF Exact
    <3>5. file[b].entry # e
      BY <1>1, <2>3, <3>1
    <3>6. to.entry = e /\ to.entry # file[b].entry
      BY <1>2, <3>4, <3>5
    <3>7. file[b].path \in S /\ disk[file[b].path] = e
      BY <3>6, MovedIntoUpdate DEF to
    <3>8. Updated(S)[file[b].path] = e /\ Updated(S)[p] = e
      BY <2>3, <3>7 DEF Updated, Unmixed
    <3>9. file[b].path = p
      BY <3>7, <3>8 DEF Unmixed, IdsDistinct, Files
    <3> QED
      BY <2>3, <3>1, <3>9, HeldApart DEF Unmixed
  <2> QED
    BY <2>1, <2>2, <2>3 DEF Told
<1> QED
  BY <1>9, <1>10, <1>11, <1>12 DEF Follows

LEMMA EventFollows ==
  ASSUME NEW S, Unmixed(S), NEW st \in SoundStates, Between(st, S), NEW p \in S, NEW e \in Files,
         e \in {entries[p], disk[p]}
  PROVE  Follows(st, EntryChanged(st, p, e, Updated(S)), p, e, S)
<1> DEFINE b == IF st.byEntry[e] # NoBuffer THEN st.byEntry[e] ELSE st.byPath[p]
           to == NewHandle(st.file[b], Updated(S))
           new == EntryChanged(st, p, e, Updated(S))
<1>1. /\ st.file \in [DOMAIN file -> FileHandle] /\ live \subseteq st.opened
      /\ st.byPath \in [RelPaths -> DOMAIN file \cup {NoBuffer}]
      /\ st.byEntry \in [Files -> DOMAIN file \cup {NoBuffer}]
      /\ st = [file |-> st.file, opened |-> st.opened, byPath |-> st.byPath,
               byEntry |-> st.byEntry, emitted |-> st.emitted]
      /\ NoBuffer \notin live
  BY BuffersFiles DEF SoundStates, StoreState, Exact, Unmixed, BuffersInv, BuffersTypeOK
<1>2. CASE b = NoBuffer
  <2>1. new = st
    BY <1>2 DEF EntryChanged
  <2> QED
    BY <1>2, <2>1, NobodyFollows
<1>3. CASE b # NoBuffer /\ b \notin live
  <2>1. new = [st EXCEPT !.opened = @ \ {b}, !.byPath[p] = NoBuffer, !.byEntry[e] = NoBuffer]
    BY <1>3 DEF EntryChanged
  <2> HIDE DEF b, new
  <2>2. /\ new.file = st.file /\ new.byPath = [st.byPath EXCEPT ![p] = NoBuffer]
        /\ new.byEntry = [st.byEntry EXCEPT ![e] = NoBuffer]
    BY <1>1, <2>1
  <2>3. Follows(st, new, p, e, S)
    BY <1>3, <2>2, ForgottenFollows DEF b
  <2> QED
    BY <2>3 DEF new
<1>4. CASE b \in live
  <2>1. new = [st EXCEPT !.file[b] = to,
                 !.byPath = Repathed(@, b, st.file[b], to),
                 !.byEntry = Reentried(@, b, st.file[b], to),
                 !.emitted = IF to.path # st.file[b].path \/ to.state # st.file[b].state
                             THEN Append(@, b) ELSE @]
    BY <1>1, <1>4 DEF EntryChanged
  <2> HIDE DEF b, new, to
  <2>2. /\ new.file = [st.file EXCEPT ![b] = to]
        /\ new.byPath = Repathed(st.byPath, b, st.file[b], to)
        /\ new.byEntry = Reentried(st.byEntry, b, st.file[b], to)
    BY <1>1, <2>1
  <2>3. Follows(st, new, p, e, S)
    BY <1>4, <2>2, HeldFollows DEF b, to
  <2> QED
    BY <2>3 DEF new
<1> QED
  BY <1>2, <1>3, <1>4

(* The events of the paths up to n have come.                              *)
ToldUpTo(st, n, S) ==
  /\ Between(st, S)
  /\ \A p \in S, e \in Files : p <= n /\ e \in {entries[p], disk[p]} => Told(st, p, e, S)

LEMMA StillTold ==
  ASSUME NEW S, NEW st, NEW new, NEW p, NEW e \in Files, NEW q, NEW x \in Files,
         Told(st, p, e, S), Follows(st, new, q, x, S)
  PROVE  Told(new, p, e, S)
BY DEF Told, Follows

LEMMA PathFollows ==
  ASSUME NEW S, Unmixed(S), NEW st \in SoundStates, NEW n \in Nat, ToldUpTo(st, n, S), n + 1 \in RelPaths
  PROVE  ToldUpTo(IF n + 1 \in S THEN PathChanged(st, n + 1, Updated(S)) ELSE st, n + 1, S)
<1> DEFINE q == n + 1
<1>1. /\ S \subseteq RelPaths /\ RelPaths \subseteq Nat /\ Updated(S) \in Snapshots /\ BuffersTypeOK
      /\ entries[q] \in Files \cup {0} /\ disk[q] \in Files \cup {0} /\ 0 \notin Files
  BY UpdatedType, BuffersFiles, StoreAssumption
     DEF Unmixed, BuffersInv, Snapshots, RelPaths, Files
<1>2. \A p \in S : p <= q => p <= n \/ p = q
  BY <1>1
<1>3. CASE q \notin S
  BY <1>2, <1>3 DEF ToldUpTo
<1>4. CASE q \in S
  <2> DEFINE removed == IF entries[q] = 0 THEN st ELSE EntryChanged(st, q, entries[q], Updated(S))
             added == IF disk[q] = 0 THEN removed ELSE EntryChanged(removed, q, disk[q], Updated(S))
  <2>1. PathChanged(st, q, Updated(S)) = added
    BY DEF PathChanged
  <2>2. /\ removed \in SoundStates /\ Between(removed, S)
        /\ \A p \in S, e \in Files : p <= n /\ e \in {entries[p], disk[p]} => Told(removed, p, e, S)
        /\ entries[q] # 0 => Told(removed, q, entries[q], S)
    <3>1. CASE entries[q] = 0
      BY <3>1 DEF ToldUpTo
    <3>2. CASE entries[q] # 0
      <4>1. removed \in SoundStates /\ Follows(st, removed, q, entries[q], S)
        BY <1>1, <1>4, <3>2, EventFollows, EntryChangedSound DEF ToldUpTo
      <4> HIDE DEF removed
      <4>2. \A p \in S, e \in Files : p <= n /\ e \in {entries[p], disk[p]} => Told(removed, p, e, S)
        BY <1>1, <3>2, <4>1, StillTold DEF ToldUpTo
      <4> QED
        BY <4>1, <4>2 DEF Follows
    <3> QED
      BY <3>1, <3>2
  <2> HIDE DEF removed
  <2>3. /\ Between(added, S)
        /\ \A p \in S, e \in Files : p <= n /\ e \in {entries[p], disk[p]} => Told(added, p, e, S)
        /\ entries[q] # 0 => Told(added, q, entries[q], S)
        /\ disk[q] # 0 => Told(added, q, disk[q], S)
    <3>1. CASE disk[q] = 0
      BY <2>2, <3>1
    <3>2. CASE disk[q] # 0
      <4>1. Follows(removed, added, q, disk[q], S)
        BY <1>1, <1>4, <2>2, <3>2, EventFollows
      <4> HIDE DEF added
      <4>2. \A p \in S, e \in Files : p <= n /\ e \in {entries[p], disk[p]} => Told(added, p, e, S)
        BY <1>1, <2>2, <3>2, <4>1, StillTold
      <4>3. entries[q] # 0 => Told(added, q, entries[q], S)
        BY <1>1, <2>2, <3>2, <4>1, StillTold
      <4> QED
        BY <4>1, <4>2, <4>3 DEF Follows
    <3> QED
      BY <3>1, <3>2
  <2> HIDE DEF added
  <2> QED
    BY <1>1, <1>2, <1>4, <2>1, <2>3 DEF ToldUpTo
<1> QED
  BY <1>3, <1>4

(* When all events have come each buffer has moved.                        *)
LEMMA AllMoved ==
  ASSUME NEW S, Unmixed(S), NEW st \in SoundStates, ToldUpTo(st, PathCount, S), NEW b \in live
  PROVE  st.file[b] = Moved(b, S)
<1> DEFINE q == file[b].path
           x == file[b].entry
           snapshot == Updated(S)
<1>1. /\ b \in DOMAIN file /\ q \in RelPaths /\ x \in Files /\ 0 \notin Files
      /\ file[b] = [path |-> q, entry |-> x, state |-> file[b].state] /\ b # NoBuffer
      /\ file[b].state \in {"Present", "Deleted"} /\ file[b] \in FileHandle
      /\ snapshot \in Snapshots /\ S \subseteq RelPaths
  <2>1. b \in DOMAIN file /\ file[b] \in FileHandle /\ x \in Files
    BY MovedTo
  <2>2. file[b].state # "New"
    BY DEF Unmixed, HandlesFollow
  <2>3. snapshot \in Snapshots
    BY MovedTo
  <2> HIDE DEF snapshot
  <2> QED
    BY <2>1, <2>2, <2>3, BuffersFiles DEF FileHandle, Unmixed, BuffersInv, Files
<1>2. \A p \in S, e \in Files : e \in {entries[p], disk[p]} => Told(st, p, e, S)
  BY <1>1, StoreAssumption DEF ToldUpTo, RelPaths
<1>3. byEntry[x] = b /\ entries[q] = IF file[b].state = "Present" THEN x ELSE 0
  BY DEF Unmixed, HandlesFollow
<1>4. \A p \in RelPaths : entries[p] = x => p = q /\ file[b].state = "Present"
  BY <1>1, <1>3 DEF Unmixed, HandlesFollow
<1>5. \A p \in RelPaths : snapshot[p] = IF p \in S THEN disk[p] ELSE entries[p]
  BY DEF Updated
<1>6. \/ \E p \in RelPaths :
           /\ snapshot[p] = x /\ Moved(b, S) = [path |-> p, entry |-> x, state |-> "Present"]
      \/ /\ \A p \in RelPaths : snapshot[p] # x
         /\ snapshot[q] \in Files
         /\ Moved(b, S) = [path |-> q, entry |-> snapshot[q], state |-> "Present"]
      \/ /\ \A p \in RelPaths : snapshot[p] # x
         /\ snapshot[q] = 0
         /\ Moved(b, S) = [path |-> q, entry |-> x, state |-> "Deleted"]
  BY <1>1, NewHandleCases DEF Moved
<1> HIDE DEF q, x, snapshot
<1>7. ASSUME NEW p \in S, x \in {entries[p], disk[p]} PROVE st.file[b] = Moved(b, S)
  BY <1>1, <1>2, <1>3, <1>7 DEF Told
<1>8. CASE file[b].state = "Present"
  <2>1. CASE q \in S
    BY <1>3, <1>7, <1>8, <2>1
  <2>2. CASE q \notin S
    <3>1. snapshot[q] = x
      BY <1>1, <1>3, <1>5, <1>8, <2>2
    <3>2. IdsDistinct(snapshot)
      BY DEF Unmixed, snapshot
    <3>3. Moved(b, S) = file[b]
      BY <1>1, <1>6, <1>8, <3>1, <3>2 DEF IdsDistinct
    <3> QED
      BY <3>3 DEF Between, ToldUpTo
  <2> QED
    BY <2>1, <2>2
<1>9. CASE file[b].state = "Deleted"
  <2>1. ASSUME NEW p \in RelPaths, snapshot[p] = x PROVE st.file[b] = Moved(b, S)
    <3>1. entries[p] # x
      BY <1>4, <1>9
    <3> QED
      BY <1>5, <1>7, <2>1, <3>1
  <2>2. ASSUME \A p \in RelPaths : snapshot[p] # x, snapshot[q] \in Files
        PROVE  st.file[b] = Moved(b, S)
    <3>1. q \in S /\ disk[q] = snapshot[q] /\ disk[q] \in Files /\ disk[q] # x
      BY <1>1, <1>3, <1>5, <1>9, <2>2
    <3>2. \A c \in DOMAIN file \ {b} : file[c].entry # disk[q]
      BY <1>1, <3>1, NotMixed DEF q, x, Unmixed
    <3> QED
      BY <1>2, <3>1, <3>2 DEF Told, q
  <2>3. CASE Moved(b, S) = [path |-> q, entry |-> x, state |-> "Deleted"]
    <3>1. Moved(b, S) = file[b]
      BY <1>1, <1>9, <2>3
    <3> QED
      BY <3>1 DEF Between, ToldUpTo
  <2> QED
    BY <1>6, <2>1, <2>2, <2>3
<1> QED
  BY <1>1, <1>8, <1>9

(* The end of the events: nothing is left for FileHandleChanged.           *)
LEMMA UpdateMoves ==
  ASSUME NEW S, Unmixed(S), UpdatedEntries(S)
  PROVE  /\ \A b \in live :
              /\ file'[b] = Moved(b, S)
              /\ byEntry'[Moved(b, S).entry] = b /\ byPath'[Moved(b, S).path] = b
         /\ \A b \in DOMAIN file \ live : file'[b] = file[b]
         /\ \A e \in Files : byEntry'[e] \notin live \cup {NoBuffer} =>
              byEntry'[e] = byEntry[e] /\ \A p \in S : disk[p] # e
<1> DEFINE st == EntriesChanged(S, Updated(S))
<1>1. BuffersTypeOK /\ BuffersIndexed /\ S \in SUBSET RelPaths /\ Updated(S) \in Snapshots
      /\ PathCount \in Nat /\ RelPaths = 1 .. PathCount /\ NoBuffer \notin live
  BY UpdatedType, BuffersFiles, StoreAssumption DEF Unmixed, BuffersInv, RelPaths, BuffersTypeOK
<1>2. StartState \in SoundStates
  BY <1>1, StartSound
<1>3. PICK f \in [0 .. PathCount -> SoundStates] :
        PathsChanged(f, S, Updated(S)) /\ st = f[PathCount]
  BY <1>1, <1>2, EntriesChangedStates
<1> HIDE DEF st
<1>4. ToldUpTo(f[0], 0, S)
  <2>1. f[0].file = file /\ f[0].byPath = byPath /\ f[0].byEntry = byEntry
    BY <1>3 DEF PathsChanged, StartState
  <2>2. Between(f[0], S)
    BY <2>1 DEF Between, Unmixed, HandlesFollow
  <2> QED
    BY <1>1, <2>2 DEF ToldUpTo
<1> DEFINE N == {n \in Nat : n <= PathCount => ToldUpTo(f[n], n, S)}
<1>5. ASSUME NEW n \in Nat, n \in N PROVE n + 1 \in N
  <2> SUFFICES ASSUME n + 1 <= PathCount PROVE ToldUpTo(f[n + 1], n + 1, S)
    OBVIOUS
  <2>1. f[n] \in SoundStates /\ ToldUpTo(f[n], n, S) /\ n + 1 \in RelPaths /\ (n + 1) - 1 = n
    BY <1>1, <1>5
  <2>2. f[n + 1] = IF n + 1 \in S THEN PathChanged(f[n], n + 1, Updated(S)) ELSE f[n]
    BY <1>3, <2>1 DEF PathsChanged
  <2> QED
    BY <2>1, <2>2, PathFollows
<1>6. Nat \subseteq N
  <2>1. 0 \in N
    BY <1>4
  <2> HIDE DEF N
  <2> QED
    BY <1>5, <2>1, SetInduction
<1>7. st \in SoundStates /\ ToldUpTo(st, PathCount, S)
  BY <1>1, <1>3, <1>6
<1>8. ASSUME NEW b \in live
      PROVE  st.file[b] = Moved(b, S) /\ st.byEntry[Moved(b, S).entry] = b
             /\ st.byPath[Moved(b, S).path] = b
  <2>1. st.file[b] = Moved(b, S)
    BY <1>7, AllMoved
  <2> QED
    BY <1>7, <2>1 DEF ToldUpTo, Between
<1>9. HandlesChanged(st) = st
  <2>1. ASSUME NEW b \in live PROVE FileHandleChanged(st, b) = st
    BY <1>1, <1>8 DEF FileHandleChanged
  <2> QED
    BY <1>1, <1>7, <2>1, HandlesChangedSound
<1>10. file' = st.file /\ byPath' = st.byPath /\ byEntry' = st.byEntry
  BY <1>9 DEF UpdatedEntries, st
<1>11. ASSUME NEW e \in Files, st.byEntry[e] \notin live \cup {NoBuffer}
       PROVE  st.byEntry[e] = byEntry[e] /\ \A p \in S : disk[p] # e
  <2>1. st.byEntry[e] = byEntry[e]
    BY <1>7, <1>11 DEF ToldUpTo, Between
  <2>2. ASSUME NEW p \in S, disk[p] = e PROVE FALSE
    <3>1. Told(st, p, e, S)
      BY <1>1, <1>7, <2>2 DEF ToldUpTo
    <3> QED
      BY <1>11, <3>1 DEF Told
  <2> QED
    BY <2>1, <2>2
<1>12. \A b \in DOMAIN file \ live : st.file[b] = file[b]
  BY <1>7 DEF ToldUpTo, Between
<1> QED
  BY <1>8, <1>10, <1>11, <1>12

LEMMA HandlesFollowUpdate ==
  ASSUME BuffersInv, HandlesFollow, Deliver, late' = {}
  PROVE  HandlesFollow'
<1>1. PICK S \in SUBSET Stale(disk) :
        /\ IdsDistinct(Updated(S)) /\ UpdatedEntries(S) /\ late' = late \cup Mixed(S)
        /\ live' = live /\ disk' = disk
  BY DEF Deliver, diskVars
<1>2. Unmixed(S) /\ S \in SUBSET RelPaths
  BY <1>1 DEF Unmixed, Stale
<1>3. entries' = Updated(S) /\ \A p \in RelPaths : entries'[p] = IF p \in S THEN disk[p] ELSE entries[p]
  BY <1>1 DEF UpdatedEntries, Updated
<1>4. BuffersInv'
  BY DeliverKeeps
<1>5. ASSUME NEW b \in live
      PROVE  /\ file'[b].entry \in Files /\ byEntry'[file'[b].entry] = b /\ byPath'[file'[b].path] = b
             /\ file'[b].state # "New"
             /\ entries'[file'[b].path] = IF file'[b].state = "Present" THEN file'[b].entry ELSE 0
  <2>1. file'[b] = Moved(b, S) /\ byEntry'[Moved(b, S).entry] = b /\ byPath'[Moved(b, S).path] = b
    BY <1>1, <1>2, UpdateMoves
  <2>2. Moved(b, S).state # "New"
    <3>1. file[b] \in FileHandle /\ file[b].entry \in Files /\ Updated(S) \in Snapshots
      BY <1>2, MovedTo
    <3> QED
      BY <3>1, NewHandleCases DEF Moved
  <2>3. /\ Moved(b, S).entry \in Files
        /\ Updated(S)[Moved(b, S).path] =
             IF Moved(b, S).state = "Present" THEN Moved(b, S).entry ELSE 0
    BY <1>2, MovedTo
  <2> QED
    BY <1>3, <2>1, <2>2, <2>3
<1>6. ASSUME NEW e \in Files, NEW p \in RelPaths, byEntry'[e] # NoBuffer, entries'[p] = e
      PROVE  file'[byEntry'[e]].path = p /\ file'[byEntry'[e]].state = "Present"
  <2> DEFINE d == byEntry'[e]
  <2>1. file'[d].entry = e /\ IdsDistinct(entries') /\ d \in DOMAIN file' /\ 0 \notin Files
    BY <1>4, <1>6 DEF BuffersInv, BuffersIndexed, BuffersTypeOK, Files
  <2>2. CASE d \in live
    <3>1. file'[d] = Moved(d, S)
      BY <1>1, <1>2, <2>2, UpdateMoves
    <3>2. /\ Moved(d, S) \in FileHandle
          /\ entries'[Moved(d, S).path] = IF Moved(d, S).state = "Present" THEN Moved(d, S).entry ELSE 0
          /\ Moved(d, S).entry # file[d].entry => Moved(d, S).state = "Present"
          /\ Moved(d, S).state # "Present" => \A q \in RelPaths : entries'[q] # file[d].entry
      BY <1>2, <1>3, <2>2, MovedTo
    <3>3. Moved(d, S).path \in RelPaths /\ Moved(d, S).entry = e
      BY <2>1, <3>1, <3>2 DEF FileHandle
    <3>4. Moved(d, S).state = "Present"
      BY <1>6, <3>2, <3>3
    <3>5. Moved(d, S).path = p
      BY <1>6, <2>1, <3>2, <3>3, <3>4 DEF IdsDistinct
    <3> QED
      BY <3>1, <3>4, <3>5
  <2>3. CASE d \notin live
    <3>1. d = byEntry[e] /\ \A q \in S : disk[q] # e
      BY <1>1, <1>2, <1>6, <2>3, UpdateMoves
    <3>2. entries[p] = e
      BY <1>3, <1>6, <3>1
    <3>3. file[d].path = p /\ file[d].state = "Present" /\ d \in DOMAIN file
      BY <1>6, <3>1, <3>2 DEF HandlesFollow, BuffersInv, BuffersTypeOK
    <3>4. file'[d] = file[d]
      BY <1>1, <1>2, <2>3, <3>3, UpdateMoves
    <3> QED
      BY <3>3, <3>4
  <2> QED
    BY <2>2, <2>3
<1> QED
  BY <1>1, <1>5, <1>6 DEF HandlesFollow
-----------------------------------------------------------------------------
(* A load that no update has overtaken is of a path where no buffer is     *)
(* held, and once it has looked its entry up it still has it.              *)
LoadsAlone ==
  \A p \in LoadsUnderWay : ~loading[p].overtaken =>
    /\ \A b \in live : file[b].path # p
    /\ loading[p].step = "looked" => loading[p].entry = entries[p]

LEMMA LoadsAloneUpdate ==
  ASSUME BuffersInv, HandlesFollow, LoadsAlone, Deliver, late' = {}
  PROVE  LoadsAlone'
<1>1. PICK S \in SUBSET Stale(disk) :
        /\ IdsDistinct(Updated(S)) /\ UpdatedEntries(S) /\ late' = late \cup Mixed(S)
        /\ loading' = Answered(S) /\ live' = live
  BY DEF Deliver
<1>2. Unmixed(S) /\ S \in SUBSET RelPaths /\ loading \in [RelPaths -> LoadState]
  BY <1>1 DEF Unmixed, Stale, BuffersInv, BuffersTypeOK
<1> SUFFICES ASSUME NEW p \in LoadsUnderWay', ~loading'[p].overtaken
             PROVE  /\ \A b \in live : file'[b].path # p
                    /\ loading'[p].step = "looked" => loading'[p].entry = entries'[p]
  BY <1>1 DEF LoadsAlone
<1>3. p \in RelPaths /\ loading[p] \in LoadState
  BY <1>2 DEF LoadsUnderWay
<1>4. loading'[p] =
        [loading[p] EXCEPT
           !.step = IF @ = "sent" /\ (p \in S \/ entries[p] = disk[p]) THEN "answered" ELSE @,
           !.overtaken = @ \/ (p \in S /\ loading[p].step \notin {"none", "built"})]
  BY <1>1, <1>3 DEF Answered
<1>5. p \in LoadsUnderWay /\ p \notin S /\ ~loading[p].overtaken
      /\ loading'[p].entry = loading[p].entry
      /\ (loading'[p].step = "looked" => loading[p].step = "looked")
  <2>1. loading'[p].step \in {loading[p].step, "answered"}
        /\ loading'[p].entry = loading[p].entry
        /\ loading'[p].overtaken = (loading[p].overtaken \/ (p \in S /\ loading[p].step \notin {"none", "built"}))
        /\ (loading'[p].step = "answered" => loading[p].step \in {"sent", "answered"})
    BY <1>3, <1>4 DEF LoadState
  <2>2. loading'[p].step \in {"sent", "answered", "looked"}
    BY DEF LoadsUnderWay
  <2>3. loading[p].step \in {"sent", "answered", "looked"}
    BY <2>1, <2>2
  <2> QED
    BY <1>3, <2>1, <2>3 DEF LoadsUnderWay
<1>6. ASSUME NEW b \in live PROVE file'[b].path # p
  <2>1. file'[b] = Moved(b, S)
    BY <1>1, <1>2, UpdateMoves
  <2>2. Moved(b, S).path # file[b].path => Moved(b, S).path \in S
    BY <1>2, MovedIntoUpdate
  <2>3. file[b].path # p
    BY <1>5 DEF LoadsAlone
  <2> QED
    BY <1>5, <2>1, <2>2, <2>3
<1>7. entries'[p] = entries[p]
  BY <1>1, <1>3, <1>5 DEF UpdatedEntries, Updated
<1> QED
  BY <1>5, <1>6, <1>7 DEF LoadsAlone

(* The other actions.                                                      *)
OnlyBuffers ==
  BuffersInv /\ (late = {} => HandlesFollow /\ LoadsAlone)

(* A load goes on with the entry it has, or has just looked up.            *)
LEMMA LoadStaysAlone ==
  ASSUME OnlyBuffers, NEW p \in RelPaths, NEW l \in LoadState,
         loading' = [loading EXCEPT ![p] = l],
         UNCHANGED <<store, diskVars, entries, opens, file, live, indexVars, late>>,
         l.step \in {"sent", "answered", "looked"} /\ ~l.overtaken =>
           /\ p \in LoadsUnderWay /\ ~loading[p].overtaken
           /\ l.step = "looked" => \/ l.entry = entries[p]
                                   \/ loading[p].step = "looked" /\ l.entry = loading[p].entry
  PROVE  late' = {} => HandlesFollow' /\ LoadsAlone'
<1> SUFFICES ASSUME late' = {} PROVE HandlesFollow' /\ LoadsAlone'
  OBVIOUS
<1>1. UNCHANGED <<entries, file, live, byPath, byEntry, late>>
  BY DEF indexVars
<1>2. loading \in [RelPaths -> LoadState] /\ HandlesFollow /\ LoadsAlone
  BY <1>1 DEF OnlyBuffers, BuffersInv, BuffersTypeOK
<1>3. HandlesFollow'
  BY <1>1, <1>2 DEF HandlesFollow
<1>4. ASSUME NEW q \in LoadsUnderWay', ~loading'[q].overtaken
      PROVE  /\ \A b \in live' : file'[b].path # q
             /\ loading'[q].step = "looked" => loading'[q].entry = entries'[q]
  <2>1. q \in RelPaths /\ loading'[q].step \in {"sent", "answered", "looked"}
    BY DEF LoadsUnderWay
  <2>2. CASE q = p
    <3>1. loading'[q] = l
      BY <1>2, <2>2
    <3> QED
      BY <1>1, <1>2, <1>4, <2>1, <2>2, <3>1 DEF LoadsAlone
  <2>3. CASE q # p
    <3>1. loading'[q] = loading[q]
      BY <1>2, <2>1, <2>3
    <3>2. q \in LoadsUnderWay
      BY <2>1, <3>1 DEF LoadsUnderWay
    <3> QED
      BY <1>1, <1>2, <1>4, <3>1, <3>2 DEF LoadsAlone
  <2> QED
    BY <2>2, <2>3
<1> QED
  BY <1>3, <1>4 DEF LoadsAlone

LEMMA LoadStepAlone ==
  ASSUME OnlyBuffers, NEW p \in RelPaths, LoadRead(p) \/ LoadLook(p) \/ LoadFail(p) \/ LoadDone(p)
  PROVE  late' = {} => HandlesFollow' /\ LoadsAlone'
<1>1. loading[p] \in LoadState /\ loading \in [RelPaths -> LoadState]
      /\ entries[p] \in Files \cup {0}
  BY BuffersFiles DEF OnlyBuffers, BuffersInv, BuffersTypeOK, Snapshots
<1>2. CASE LoadRead(p)
  <2> DEFINE l == [loading[p] EXCEPT !.read = IF disk[p] = 0 THEN "missing" ELSE "found"]
  <2>1. l \in LoadState /\ l.step = loading[p].step /\ l.entry = loading[p].entry
        /\ l.overtaken = loading[p].overtaken
    BY <1>1 DEF LoadState
  <2>2. loading' = [loading EXCEPT ![p] = l] /\ p \in LoadsUnderWay
    BY <1>1, <1>2 DEF LoadRead, LoadsUnderWay
  <2> HIDE DEF l
  <2>3. UNCHANGED <<store, diskVars, entries, opens, file, live, indexVars, late>>
    BY <1>2 DEF LoadRead
  <2> QED
    BY <2>1, <2>2, <2>3, LoadStaysAlone
<1>3. CASE LoadLook(p)
  <2> DEFINE l == [loading[p] EXCEPT !.step = "looked", !.entry = entries[p]]
  <2>1. l \in LoadState /\ l.entry = entries[p] /\ l.overtaken = loading[p].overtaken
    BY <1>1 DEF LoadState
  <2>2. loading' = [loading EXCEPT ![p] = l] /\ p \in LoadsUnderWay
    BY <1>1, <1>3 DEF LoadLook, LoadsUnderWay
  <2> HIDE DEF l
  <2>3. UNCHANGED <<store, diskVars, entries, opens, file, live, indexVars, late>>
    BY <1>3 DEF LoadLook
  <2> QED
    BY <2>1, <2>2, <2>3, LoadStaysAlone
<1>4. CASE LoadFail(p) \/ LoadDone(p)
  <2>1. /\ loading' = [loading EXCEPT ![p] = NotLoading]
        /\ UNCHANGED <<store, diskVars, entries, opens, file, live, indexVars, late>>
    BY <1>4 DEF LoadFail, LoadDone
  <2> QED
    BY <2>1, LoadStaysAlone, NotLoadingType
<1> QED
  BY <1>2, <1>3, <1>4

(* A path is opened where no buffer is held.                               *)
LEMMA OpenAlone ==
  ASSUME OnlyBuffers, NEW p \in RelPaths, Open(p)
  PROVE  late' = {} => HandlesFollow' /\ LoadsAlone'
<1> SUFFICES ASSUME late' = {} PROVE HandlesFollow' /\ LoadsAlone'
  OBVIOUS
<1>1. /\ UNCHANGED <<entries, file, live, byPath, byEntry, late>>
      /\ loading' = [loading EXCEPT ![p] = [NotLoading EXCEPT !.step = "sent"]] /\ ~Found(p)
  BY DEF Open, indexVars
<1>2. loading \in [RelPaths -> LoadState] /\ HandlesFollow /\ LoadsAlone
      /\ live \subseteq opened /\ NoBuffer \notin live
  BY <1>1, BuffersFiles DEF OnlyBuffers, BuffersInv, BuffersTypeOK, BuffersIndexed
<1>3. HandlesFollow'
  BY <1>1, <1>2 DEF HandlesFollow
<1>4. \A b \in live : file[b].path # p
  BY <1>1, <1>2 DEF HandlesFollow, Found, Live
<1>5. loading'[p].step = "sent" /\ \A q \in RelPaths : q # p => loading'[q] = loading[q]
  BY <1>1, <1>2 DEF NotLoading
<1>6. LoadsUnderWay' \subseteq LoadsUnderWay \cup {p} /\ \A q \in LoadsUnderWay' : q \in RelPaths
  BY <1>5 DEF LoadsUnderWay
<1>7. ASSUME NEW q \in LoadsUnderWay', ~loading'[q].overtaken
      PROVE  /\ \A b \in live' : file'[b].path # q
             /\ loading'[q].step = "looked" => loading'[q].entry = entries'[q]
  <2>1. CASE q = p
    BY <1>1, <1>4, <1>5, <2>1
  <2>2. CASE q # p
    BY <1>1, <1>2, <1>5, <1>6, <1>7, <2>2 DEF LoadsAlone
  <2> QED
    BY <2>1, <2>2
<1> QED
  BY <1>3, <1>7 DEF LoadsAlone

(* A buffer that is built for an entry is the only one of it.              *)
LEMMA BuildAlone ==
  ASSUME OnlyBuffers, NEW p \in RelPaths, LoadBuild(p)
  PROVE  late' = {} => HandlesFollow' /\ LoadsAlone'
<1> SUFFICES ASSUME late' = {} PROVE HandlesFollow' /\ LoadsAlone'
  OBVIOUS
<1> DEFINE b == Len(file) + 1
           e == loading[p].entry
           handle == [path |-> p, entry |-> e, state |-> "Present"]
<1>1. PICK h \in FileHandle :
        /\ AddBuffer(p, h) /\ p \in LoadsUnderWay
        /\ \/ h.entry = 0
           \/ h = handle /\ loading[p].step = "looked" /\ e # 0
  <2>1. [path |-> p, entry |-> 0, state |-> "New"] \in FileHandle
    BY DEF FileHandle
  <2>2. e \in Files \cup {0}
    BY DEF OnlyBuffers, BuffersInv, BuffersTypeOK, LoadState
  <2>3. e # 0 => handle \in FileHandle
    BY <2>2 DEF FileHandle
  <2> QED
    BY <2>1, <2>3 DEF LoadBuild, LoadsUnderWay
<1>2. late = {} /\ ~loading[p].overtaken /\ h = handle /\ loading[p].step = "looked" /\ e # 0
  BY <1>1 DEF AddBuffer
<1>3. /\ HandlesFollow /\ LoadsAlone /\ e = entries[p] /\ e \in Files
      /\ \A c \in live : file[c].path # p
      /\ p \in LoadsUnderWay
  <2>1. HandlesFollow /\ LoadsAlone
    BY <1>2 DEF OnlyBuffers
  <2>2. e = entries[p] /\ \A c \in live : file[c].path # p
    BY <1>1, <1>2, <2>1 DEF LoadsAlone
  <2>3. e \in Files
    BY <1>2, <2>2, BuffersFiles DEF OnlyBuffers, BuffersInv, Snapshots
  <2> QED
    BY <1>1, <2>1, <2>2, <2>3
<1>4. /\ file' = Append(file, h) /\ live' = live \cup {b} /\ entries' = entries
      /\ byPath' = [byPath EXCEPT ![h.path] = b]
      /\ byEntry' = [x \in Files |-> IF x = h.entry THEN b ELSE byEntry[x]]
      /\ loading' = [loading EXCEPT ![p] = [NotLoading EXCEPT !.step = "built", !.buffer = b]]
  BY <1>1 DEF AddBuffer
<1>5. /\ Len(file) \in Nat /\ file \in Seq(FileHandle) /\ DOMAIN file = 1 .. Len(file)
      /\ live \subseteq DOMAIN file /\ NoBuffer \notin DOMAIN file
      /\ byPath \in [RelPaths -> DOMAIN file \cup {NoBuffer}]
      /\ byEntry \in [Files -> DOMAIN file \cup {NoBuffer}]
      /\ loading \in [RelPaths -> LoadState] /\ IdsDistinct(entries)
  BY BuffersFiles DEF OnlyBuffers, BuffersInv, BuffersTypeOK, BuffersIndexed
<1>6. /\ b \notin DOMAIN file /\ file'[b] = h /\ \A c \in DOMAIN file : file'[c] = file[c]
  BY <1>4, <1>5
<1> HIDE DEF b, e
<1>7. h.path = p /\ h.entry = e /\ h.state = "Present"
  BY <1>2
<1>8. /\ byPath'[p] = b /\ byEntry'[e] = b
      /\ \A q \in RelPaths : q # p => byPath'[q] = byPath[q]
      /\ \A x \in Files : x # e => byEntry'[x] = byEntry[x]
  BY <1>3, <1>4, <1>5, <1>7
<1>9. ASSUME NEW c \in live
      PROVE  /\ file'[c] = file[c] /\ file[c].entry # e /\ file[c].path # p
             /\ file[c].entry \in Files /\ file[c].path \in RelPaths
  <2>1. byEntry[file[c].entry] = c /\ c # NoBuffer /\ c \in DOMAIN file
    BY <1>3, <1>5 DEF HandlesFollow
  <2>2. file[c].path # p
    BY <1>3
  <2>3. file[c].entry # e
    BY <1>3, <2>1, <2>2 DEF HandlesFollow
  <2>4. file[c].entry \in Files /\ file[c].path \in RelPaths
    BY <1>3, <1>5, <2>1 DEF HandlesFollow, FileHandle
  <2> QED
    BY <1>6, <2>1, <2>2, <2>3, <2>4
<1>10. ASSUME NEW c \in live'
       PROVE  /\ file'[c].entry \in Files /\ byEntry'[file'[c].entry] = c
              /\ byPath'[file'[c].path] = c /\ file'[c].state # "New"
              /\ entries'[file'[c].path] = IF file'[c].state = "Present" THEN file'[c].entry ELSE 0
  <2>1. CASE c = b
    <3>1. file'[c] = h /\ entries'[p] = e
      BY <1>3, <1>4, <1>6, <2>1
    <3>2. file'[c].path = p /\ file'[c].entry = e /\ file'[c].state = "Present"
      BY <1>7, <3>1
    <3>3. e \in Files /\ byEntry'[e] = c /\ byPath'[p] = c
      BY <1>3, <1>8, <2>1
    <3> QED
      BY <3>1, <3>2, <3>3
  <2>2. CASE c \in live
    <3>1. file'[c] = file[c] /\ entries' = entries
      BY <1>4, <1>9, <2>2
    <3>2. byEntry'[file[c].entry] = byEntry[file[c].entry]
          /\ byPath'[file[c].path] = byPath[file[c].path] /\ file[c].entry \in Files
      BY <1>8, <1>9, <2>2
    <3>3. /\ byEntry[file[c].entry] = c /\ byPath[file[c].path] = c /\ file[c].state # "New"
          /\ entries[file[c].path] = IF file[c].state = "Present" THEN file[c].entry ELSE 0
      BY <1>3, <2>2 DEF HandlesFollow
    <3> QED
      BY <3>1, <3>2, <3>3
  <2> QED
    BY <1>4, <2>1, <2>2
<1>11. ASSUME NEW x \in Files, NEW q \in RelPaths, byEntry'[x] # NoBuffer, entries'[q] = x
       PROVE  file'[byEntry'[x]].path = q /\ file'[byEntry'[x]].state = "Present"
  <2>1. CASE x = e
    <3>1. e # 0
      BY <1>2 DEF e
    <3>2. q = p
      BY <1>3, <1>4, <1>5, <1>11, <2>1, <3>1 DEF IdsDistinct
    <3> QED
      BY <1>6, <1>7, <1>8, <2>1, <3>2
  <2>2. CASE x # e
    <3>1. byEntry'[x] = byEntry[x] /\ byEntry[x] \in DOMAIN file
      BY <1>5, <1>8, <1>11, <2>2
    <3> QED
      BY <1>3, <1>4, <1>6, <1>11, <3>1 DEF HandlesFollow
  <2> QED
    BY <2>1, <2>2
<1>12. HandlesFollow'
  BY <1>10, <1>11 DEF HandlesFollow
<1>13. \A q \in LoadsUnderWay' : q # p /\ q \in LoadsUnderWay /\ loading'[q] = loading[q]
  BY <1>3, <1>4, <1>5 DEF LoadsUnderWay, NotLoading
<1>14. LoadsAlone'
  <2> SUFFICES ASSUME NEW q \in LoadsUnderWay', ~loading'[q].overtaken
               PROVE  /\ \A c \in live' : file'[c].path # q
                      /\ loading'[q].step = "looked" => loading'[q].entry = entries'[q]
    BY DEF LoadsAlone
  <2>1. q # p /\ q \in LoadsUnderWay /\ loading'[q] = loading[q]
    BY <1>13
  <2>2. \A c \in live : file'[c].path # q
    BY <1>3, <1>9, <2>1 DEF LoadsAlone
  <2>3. file'[b].path # q
    BY <1>6, <1>7, <2>1
  <2>4. loading[q].step = "looked" => loading[q].entry = entries'[q]
    BY <1>3, <1>4, <2>1 DEF LoadsAlone
  <2> QED
    BY <1>4, <2>1, <2>2, <2>3, <2>4
<1> QED
  BY <1>12, <1>14

LEMMA OnlyBuffersNext == OnlyBuffers /\ [BuffersNext]_buffersVars => OnlyBuffers'
<1> SUFFICES ASSUME OnlyBuffers, [BuffersNext]_buffersVars
             PROVE  late' = {} => HandlesFollow' /\ LoadsAlone'
  BY BuffersInvNext DEF OnlyBuffers
<1>1. CASE DiskStep
  <2>1. UNCHANGED <<entries, loading, file, live, byPath, byEntry, late>>
    BY <1>1 DEF DiskStep, Create, Delete, Rename, DiskChange, indexVars
  <2> QED
    BY <2>1 DEF OnlyBuffers, HandlesFollow, LoadsAlone, LoadsUnderWay
<1>2. CASE Deliver
  <2>1. late' = {} => late = {}
    BY <1>2 DEF Deliver
  <2> QED
    BY <1>2, <2>1, HandlesFollowUpdate, LoadsAloneUpdate DEF OnlyBuffers
<1>3. CASE \E p \in RelPaths : Open(p) \/ LoadStep(p)
  BY <1>3, OpenAlone, LoadStepAlone, BuildAlone DEF LoadStep
<1>4. ASSUME NEW b \in DOMAIN file, DropBuffer(b) PROVE late' = {} => HandlesFollow' /\ LoadsAlone'
  <2>1. UNCHANGED <<entries, loading, file, byPath, byEntry, late>> /\ live' \subseteq live
    BY <1>4 DEF DropBuffer, indexVars
  <2> QED
    BY <2>1 DEF OnlyBuffers, HandlesFollow, LoadsAlone, LoadsUnderWay
<1>5. CASE UNCHANGED buffersVars
  BY <1>5 DEF buffersVars, indexVars, OnlyBuffers, HandlesFollow, LoadsAlone, LoadsUnderWay
<1> QED
  BY <1>1, <1>2, <1>3, <1>4, <1>5 DEF BuffersNext

LEMMA OnlyBuffersInit == BuffersInit => OnlyBuffers
<1> SUFFICES ASSUME BuffersInit PROVE OnlyBuffers
  OBVIOUS
<1>1. LoadsUnderWay = {}
  BY NotLoadingType DEF BuffersInit, LoadsUnderWay
<1>2. HandlesFollow /\ LoadsAlone
  BY <1>1 DEF BuffersInit, HandlesFollow, LoadsAlone
<1> QED
  BY <1>2, BuffersInvInit DEF OnlyBuffers

(* Once the worktree has told of all changes and no load is under way, the *)
(* buffer of a file is its only one, at the file's path, and found there,  *)
(* unless a buffer is late: opens, releases, renames and updates of many   *)
(* paths at once leave no second buffer and none at a path its file left   *)
(* (worktree_entry_changed, add_buffer, buffer_changed_file).              *)
THEOREM OneBufferStays == BuffersSpec => []OneBufferPerFile
<1>1. BuffersInit => OnlyBuffers
  BY OnlyBuffersInit
<1>2. OnlyBuffers /\ [BuffersNext]_buffersVars => OnlyBuffers'
  BY OnlyBuffersNext
<1>3. OnlyBuffers => OneBufferPerFile
  <2> SUFFICES ASSUME OnlyBuffers, late = {}, NEW b \in live
               PROVE  /\ file[b].state = "Present" => entries[file[b].path] = file[b].entry
                      /\ \A p \in RelPaths : entries[p] # 0 /\ entries[p] = file[b].entry =>
                           file[b].path = p /\ file[b].state = "Present" /\ byPath[p] = b
    BY DEF OneBufferPerFile
  <2>1. HandlesFollow /\ b # NoBuffer
    BY BuffersFiles DEF OnlyBuffers, BuffersInv, BuffersTypeOK
  <2> QED
    BY <2>1 DEF HandlesFollow
<1> QED
  BY <1>1, <1>2, <1>3, PTL DEF BuffersSpec
=============================================================================
