------------------------- MODULE MCWorktreeScanner -------------------------
(* A root with its .gitignore, a directory d and two files in it. *)
EXTENDS WorktreeScanner

MCPaths == {"root", "gi", "d", "x", "y"}
MCDirs == {"root", "d"}
MCParent == [p \in {"gi", "d", "x", "y"} |-> IF p \in {"x", "y"} THEN "d" ELSE "root"]
MCAncestors == [p \in MCPaths |->
  CASE p = "root" -> {"root"}
    [] p \in {"gi", "d"} -> {p, "root"}
    [] OTHER -> {p, "d", "root"}]
MCRank == [p \in MCPaths |-> CASE p = "root" -> 0 [] p = "gi" -> 1 [] p = "d" -> 2
                               [] p = "x" -> 3 [] p = "y" -> 4]

Symmetry == Permutations(Workers) \cup Permutations(Clients)

(* A world: what the disk holds at first, where inodes follow the ranks,   *)
(* the inodes in use elsewhere on it, which of the Touched paths other     *)
(* programs change, which paths a client's operation may be about, how     *)
(* many clients there are and how many changes of the disk.                *)
CONSTANT Worlds
VARIABLE world

(* Two changes make at most one path, so one inode that was never used is  *)
(* enough next to those that are freed.                                    *)
Plain(touched, asked) ==
  [present |-> {"root", "d", "x"}, elsewhere |-> {2}, touched |-> touched, asked |-> asked,
   clients |-> 1, changes |-> 2]
Ignoring(asked, clients, changes) ==
  [present |-> {"root", "gi", "d", "x"}, elsewhere |-> {}, touched |-> {"gi"}, asked |-> asked,
   clients |-> clients, changes |-> changes]

MCWorlds ==
  {Plain({"d", "x"}, {"x"}), Plain({"d"}, {"d", "y"}), Plain({"d", "x", "y"}, {}),
   Ignoring({"d", "x"}, 1, 2), Ignoring({"d", "x"}, 2, 0)}
MCIgnoring == {Ignoring(MCPaths, 1, 2)}
MCQuiet == {Plain({}, MCPaths)}

OthersChange == fsOps' # fsOps /\ \A c \in Clients : client'[c].step = client[c].step

MCInit ==
  /\ world \in Worlds
  /\ disk = [p \in Paths |->
       IF p \in world.present THEN [inode |-> Rank[p] + 1, mtime |-> 0] ELSE None]
  /\ Init
MCNext ==
  /\ Next
  /\ OthersChange => Last(events') \subseteq world.touched
  /\ \A c \in Clients : client'[c].step # "idle" => client'[c].path \in world.asked
  /\ Cardinality({c \in Clients : client'[c].step # "idle"}) <= world.clients
  /\ fsOps' <= world.changes
  /\ \A p \in Paths : disk'[p] # None => disk'[p].inode \notin world.elsewhere
  /\ UNCHANGED world
MCSpec == MCInit /\ [][MCNext]_<<vars, world>>
MCFairSpec == MCSpec /\ Fairness
=============================================================================
