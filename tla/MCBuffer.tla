------------------------------- MODULE MCBuffer -------------------------------
EXTENDS Buffer, FiniteSets, TLC
Symmetry == Permutations(Saves)

InFlight == Cardinality({i \in Saves : save[i].step # "none"})

(* At the last version, and once most of the edits and writes are spent,   *)
(* at most one save is in flight and no reload with it; a deletion of the  *)
(* file takes the place of a write.                                        *)
Bounded ==
  /\ \/ /\ version < MaxVersion
        /\ Len(log) + deletes + version < MaxWrites + MaxVersion - 1
     \/ InFlight = 0
     \/ InFlight = 1 /\ reload.step = "none"
  /\ Len(log) + deletes <= MaxWrites
=============================================================================
