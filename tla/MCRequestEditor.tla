--------------------------- MODULE MCRequestEditor ---------------------------
EXTENDS RequestEditor, TLC

(* The more the file is edited and saved, the fewer requests are sent.     *)
MCBounds ==
  {[writes |-> 3, sends |-> 0], [writes |-> 2, sends |-> 1], [writes |-> 1, sends |-> 3]}
Symmetry == Permutations(Saves) \cup Permutations(Reloads) \cup Permutations(Texts)
=============================================================================
