-------------------------- MODULE WorktreeStoreRoot --------------------------
(***************************************************************************)
(* The worktree store implements ProjectRoot, provided the files and       *)
(* settings directories opened without showing them are not the project's  *)
(* directory or around it.  (Sharing one worktree between a visible and an *)
(* invisible open is not ruled out by the store: the first one's flag      *)
(* stays, so the root would not change, or change without being asked.)    *)
(***************************************************************************)
EXTENDS WorktreeStore

Names(p) == {p, Canonical[p]}

ASSUME PathsApart ==
  \A v \in VisiblePaths, i \in InvisiblePaths :
    \A a \in Names(v), b \in Names(i) : b \notin Above[a]

(* The directory of the visible worktree.                                  *)
root ==
  IF VisibleIn(Worktrees) = {} THEN None
  ELSE task[CHOOSE w \in Opens : w \in VisibleIn(Worktrees)].path

(* An open in flight of an earlier epoch can only fail any more.           *)
claim == [o \in Opens |->
  IF open[o].step = "idle" \/ ~open[o].visible THEN "none"
  ELSE IF open[o].step = "opened" THEN "opened"
  ELSE IF open[o].step \notin InFlight THEN "failed"
  ELSE IF open[o].epoch = epoch THEN "asked" ELSE "void"]

wants == [o \in Opens |-> IF open[o].visible THEN open[o].path ELSE None]

Contract == INSTANCE ProjectRoot WITH intent <- pathToOpen

(* However the tasks of several opens interleave, the project's root       *)
(* follows the last request: a superseded or closed open never becomes the *)
(* root and never reports success (create_worktree's epoch, path and       *)
(* current-worktree checks, add, remove_worktree).                         *)
RootFollowsRequests == Contract!Spec
=============================================================================
