----------------------------- MODULE ProjectRoot -----------------------------
(***************************************************************************)
(* What a project promises about its root directory (crates/project: the   *)
(* visible worktree behind find_or_create_worktree, remove_worktree and    *)
(* root_worktree), whatever tasks it takes.  There is at most one root.    *)
(* Opening a directory is a claim on it; only the directory asked for last *)
(* becomes the root, closing the project voids every claim made before,    *)
(* and an open reports success only if its directory is the root, or holds *)
(* it, at that moment.                                                     *)
(***************************************************************************)
CONSTANTS
  Opens,      \* the requests to open a directory
  Paths,      \* absolute paths
  Canonical,  \* Canonical[p]: p with symbolic links resolved
  Above,      \* Above[p]: p and the directories it is in
  None        \* no path

VARIABLES
  root,     \* the root directory
  intent,   \* the directory asked for last, unless the project was closed since
  claim,    \* what became of each open
  wants     \* the path each open asked for

rootVars == <<root, intent, claim, wants>>

Claim == {"none", "asked", "void", "opened", "failed"}

Init ==
  /\ root = None /\ intent = None
  /\ claim = [o \in Opens |-> "none"]
  /\ wants = [o \in Opens |-> None]

Ask(o, p) ==
  /\ claim[o] = "none"
  /\ claim' = [claim EXCEPT ![o] = "asked"]
  /\ wants' = [wants EXCEPT ![o] = p]
  /\ intent' = p
  /\ UNCHANGED root

(* What is in the root already is opened at once. *)
AskInside(o, p) ==
  /\ claim[o] = "none" /\ root # None /\ root \in Above[p]
  /\ claim' = [claim EXCEPT ![o] = "opened"]
  /\ wants' = [wants EXCEPT ![o] = p]
  /\ intent' = p
  /\ UNCHANGED root

Names(o) == {wants[o], Canonical[wants[o]]}

Arrive(o) ==
  /\ claim[o] = "asked" /\ intent \in Names(o)
  /\ root' \in Names(o)
  /\ claim' = [claim EXCEPT ![o] = "opened"]
  /\ UNCHANGED <<intent, wants>>

Fail(o) ==
  /\ claim[o] \in {"asked", "void"}
  /\ claim' = [claim EXCEPT ![o] = "failed"]
  /\ UNCHANGED <<root, intent, wants>>

Close ==
  /\ root' = None /\ intent' = None
  /\ claim' = [o \in Opens |-> IF claim[o] = "asked" THEN "void" ELSE claim[o]]
  /\ UNCHANGED wants

Next ==
  \/ \E o \in Opens : \/ \E p \in Paths : Ask(o, p) \/ AskInside(o, p)
                      \/ Arrive(o) \/ Fail(o)
  \/ Close

Spec == Init /\ [][Next]_rootVars
=============================================================================
