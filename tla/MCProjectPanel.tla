---------------------------- MODULE MCProjectPanel ----------------------------
EXTENDS ProjectPanel

MCPaths == {<<1, 2>>, <<2>>}

(* The directory 1 with the request 2 in it, and the request 2.            *)
MCInitial ==
  (1 :> [path |-> <<>>, dir |-> TRUE] @@ 2 :> [path |-> <<1>>, dir |-> TRUE] @@
   3 :> [path |-> <<1, 2>>, dir |-> FALSE] @@ 4 :> [path |-> <<2>>, dir |-> FALSE])

World(panel, repository, nchanges, trouble, commands, acts, others, faults) ==
  [panel |-> panel, repository |-> repository, changes |-> nchanges, trouble |-> trouble,
   commands |-> commands, acts |-> acts, others |-> others, faults |-> faults]

(* The repository alone; with the panel; the panel by the commands that    *)
(* meet, and by any two of all.                                            *)
MCBounds ==
  {World(FALSE, TRUE, 3, 0, {}, 0, 0, 0),
   World(FALSE, TRUE, 2, 1, {}, 0, 0, 0),
   World(TRUE, TRUE, 2, 0, {"expand"}, 1, 0, 0),
   World(TRUE, TRUE, 1, 0, {"edit"}, 1, 0, 0),
   World(TRUE, TRUE, 0, 1, {"edit"}, 1, 0, 0),
   World(TRUE, FALSE, 0, 0, {"edit", "mouse"}, 3, 0, 1),
   World(TRUE, FALSE, 0, 0, {"edit", "mouse"}, 2, 1, 1),
   World(TRUE, FALSE, 0, 0, {"select", "edit", "remove"}, 3, 1, 1),
   World(TRUE, FALSE, 0, 0, {"select", "clipboard", "paste"}, 4, 1, 1),
   World(TRUE, FALSE, 0, 0, {"select", "paste", "edit"}, 3, 1, 0),
   World(TRUE, FALSE, 0, 0, {"select", "expand", "collapse", "open"}, 3, 1, 0),
   World(TRUE, FALSE, 0, 0, Commands, 2, 1, 1)}
===============================================================================
