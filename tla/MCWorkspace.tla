------------------------------ MODULE MCWorkspace ------------------------------
(***************************************************************************)
(* Instances of Workspace.                                                 *)
(***************************************************************************)
EXTENDS Workspace, TLC

CONSTANTS p1, p2, t1, t2, w1, w2, f1, f2

With(counts) == [k \in Kinds |-> IF k \in DOMAIN counts THEN counts[k] ELSE 0]

(* What the user does, and what fails, in two runs of the program.         *)
MCBudgets == {
  With([open |-> 3, closeWindow |-> 2]),
  With([open |-> 2, closeProject |-> 1, closeWindow |-> 1, fail |-> 1]),
  With([open |-> 2, closeWindow |-> 1, fail |-> 1, crash |-> 1, quit |-> 1]),
  With([open |-> 2, closeProject |-> 1, quit |-> 1]),
  With([open |-> 2, clear |-> 1, closeWindow |-> 1]),
  With([open |-> 2, file |-> 1, closeWindow |-> 1]),
  With([open |-> 1, file |-> 2, tab |-> 1]),
  With([open |-> 1, file |-> 1, tab |-> 1, closeWindow |-> 1]),
  With([open |-> 1, file |-> 2, closeWindow |-> 1]),
  With([open |-> 1, file |-> 2, fail |-> 1, crash |-> 1])}

(* Nothing is chosen by a CHOOSE among the values that are permuted.       *)
MCSymmetry ==
  {a @@ b @@ c @@ d : a \in Permutations(Tasks), b \in Permutations(Windows),
                      c \in Permutations(Paths), d \in Permutations(Files)}
=============================================================================
