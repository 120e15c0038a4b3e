----------------------------- MODULE MCFollowing -----------------------------
EXTENDS Following

MCPaths == {<<1>>, <<1, 1>>, <<2>>, <<2, 1>>}
MCRoot == <<1>>
MCBufferPath == <<1, 1>>
MCConf == <<2, 1>>

World(ncalls, nchanges, nfaults, noverflows, watched, touched) ==
  [platforms |-> BOOLEAN, calls |-> ncalls, changes |-> nchanges, faults |-> nfaults,
   overflows |-> noverflows, watched |-> watched, touched |-> touched, writes |-> 0,
   forms |-> {}, updates |-> 0, migrations |-> 0, visits |-> 0, on |-> FALSE, buffer |-> FALSE]

ConfigWorld(nwrites, forms, nupdates, nmigrations, nvisits, nfaults) ==
  [World(0, 0, nfaults, 0, {}, {}) EXCEPT !.writes = nwrites, !.forms = forms,
     !.updates = nupdates, !.migrations = nmigrations, !.visits = nvisits, !.on = TRUE]

Linux(world) == [world EXCEPT !.platforms = {FALSE}]

MCBounds ==
  {World(2, 1, 1, 0, {<<1>>, <<1, 1>>}, {<<1, 1>>}),
   World(0, 2, 0, 1, {}, {<<1>>, <<1, 1>>}),
   Linux(ConfigWorld(2, {"old", "bad"}, 0, 0, 0, 1)),
   Linux(ConfigWorld(1, {"partial"}, 1, 0, 0, 0)),
   Linux(ConfigWorld(0, {}, 1, 1, 1, 0)),
   Linux(ConfigWorld(1, {"old"}, 0, 0, 2, 0)),
   ConfigWorld(1, {"ok"}, 0, 1, 1, 0),
   Linux(ConfigWorld(0, {}, 2, 0, 0, 1)),
   Linux([World(0, 0, 0, 0, {}, {}) EXCEPT !.buffer = TRUE])}

(* A file that is migrated is old at first; one that is updated is missing *)
(* then, or old where nobody else writes it.                               *)
MCInit ==
  /\ FollowingInit
  /\ bound.migrations > 0 => conf.form = "old"
  /\ bound.updates > bound.migrations => conf = Missing \/ (conf.form = "old" /\ bound.writes = 0)

(* A deletion of the file of the buffer takes the place of a write.        *)
MCNext == FollowingNext /\ Len(log') + deletes' <= MaxWrites
MCSpec == MCInit /\ [][MCNext]_allVars /\ FollowingFairness
===============================================================================
