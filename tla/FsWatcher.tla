------------------------------ MODULE FsWatcher ------------------------------
(***************************************************************************)
(* The watcher of the file system (crates/fs/src/fs_watcher.rs, watch of   *)
(* crates/fs/src/fs.rs): one watcher of the operating system shared by     *)
(* every FsWatcher of the program, the registrations it counts, the thread *)
(* that reports its events to them, and the stream of batches each of them *)
(* feeds.                                                                  *)
(*                                                                         *)
(* A client is an FsWatcher with the task that reads its stream.  Threads  *)
(* of the program add and remove paths.  Two locks order them: one around  *)
(* the registrations, state, and one around the system's watcher, whose    *)
(* calls are answered by the thread that also reports its events.          *)
(*                                                                         *)
(* A path is a sequence of numbers.  Events carry the path that changed;   *)
(* whether it was created, changed or removed is left out, since no client *)
(* tells these apart.  No path is a link.                                  *)
(***************************************************************************)
EXTENDS Naturals, Sequences, FiniteSets, SequencesExt

CONSTANTS
  Clients,
  Threads,
  Paths,   \* paths that are watched or change
  Bounds   \* bounds: what the threads and other programs may do, see WatchBound

(* calls: calls of add, remove and drop, on the paths of watched; changes: *)
(* changes of the disk, at the paths of touched; faults: refused watches;  *)
(* overflows: times the system's queue of events is full; platforms: the   *)
(* values of recursive.                                                    *)
WatchBound(b) ==
  /\ b.calls \in Nat /\ b.changes \in Nat /\ b.faults \in Nat /\ b.overflows \in Nat
  /\ b.platforms \subseteq BOOLEAN /\ b.watched \subseteq Paths /\ b.touched \subseteq Paths

ASSUME FsWatcherAssumption ==
  /\ Paths \subseteq Seq(Nat) /\ <<>> \notin Paths
  /\ \A b \in Bounds : WatchBound(b)

VARIABLES
  bound,          \* the element of Bounds this behaviour keeps to, and what is left of it
  recursive,      \* a watch covers all that is below it: macOS and Windows, not Linux
  watchers,       \* the registrations: id, client and path
  counts,         \* path_registrations
  lastId,         \* last_registration
  registrations,  \* of each client: its id for a path, 0 if it has none
  call,           \* what each thread is doing
  osWatches,      \* paths the operating system watches
  absent,         \* paths that do not exist
  raw,            \* events of the operating system
  event,          \* the event its thread reports, and to whom
  pending,        \* pending_path_events of each client
  tokens,         \* the channel of each client
  consumer,       \* the task that reads the stream
  batch,          \* what it got last
  owed            \* ghost: changes under a registration, heard and not in a batch yet

stateVars == <<watchers, counts, lastId>>
systemVars == <<osWatches, absent, raw>>
streamVars == <<pending, tokens, consumer, batch, owed>>
watchVars == <<bound, recursive, stateVars, registrations, call, systemVars, event, streamVars>>

NoCall == [step |-> "none"]
NoEvent == [step |-> "idle"]
Idle(t) == call[t].step = "none"
Alive(c) == consumer[c] # "gone"

Change(p) == [path |-> p, rescan |-> FALSE]
Overflow == [path |-> <<>>, rescan |-> TRUE]
-----------------------------------------------------------------------------
(***************************************************************************)
(* The operating system.                                                   *)
(***************************************************************************)
ParentOf(p) == SubSeq(p, 1, Len(p) - 1)

Hears(o, p) == o = p \/ IF recursive THEN IsStrictPrefix(o, p) ELSE o = ParentOf(p)
Heard(p) == \E o \in osWatches : Hears(o, p)
Wanted(c, p) == \E r \in watchers : r.client = c /\ IsPrefix(r.path, p)

(* A change of p is queued, or the queue is full and tells only that.      *)
Report(p, left) ==
  /\ IF Heard(p)
       THEN \/ raw' = Append(raw, Change(p)) /\ bound' = left
            \/ /\ left.overflows > 0
               /\ raw' = Append(raw, Overflow)
               /\ bound' = [left EXCEPT !.overflows = @ - 1]
       ELSE raw' = raw /\ bound' = left
  /\ owed' = [c \in Clients |->
                IF Heard(p) /\ Alive(c) /\ Wanted(c, p) THEN owed[c] \cup {p} ELSE owed[c]]

Spend == [bound EXCEPT !.changes = @ - 1]

(* What is at p is written, appears, or goes with all that is below; on    *)
(* Linux its watch goes with it.                                           *)
Written(p, left) == Report(p, left) /\ UNCHANGED <<osWatches, absent>>
Appears(p, left) ==
  /\ Report(p, left)
  /\ absent' = absent \ {p}
  /\ UNCHANGED osWatches
Vanishes(p, left) ==
  /\ Report(p, left)
  /\ absent' = absent \cup {q \in Paths : IsPrefix(p, q)}
  /\ osWatches' = IF recursive THEN osWatches ELSE {o \in osWatches : ~IsPrefix(p, o)}

(* Something else is renamed to p.                                         *)
Replaced(p, left) ==
  /\ Report(p, left)
  /\ osWatches' = IF recursive THEN osWatches ELSE osWatches \ {p}
  /\ UNCHANGED absent

DiskChange ==
  /\ bound.changes > 0
  /\ \E p \in Paths \cap bound.touched :
       \/ p \notin absent /\ (Written(p, Spend) \/ Vanishes(p, Spend))
       \/ p \in absent /\ ParentOf(p) \notin absent /\ Appears(p, Spend)
  /\ UNCHANGED <<recursive, stateVars, registrations, call, event, pending, tokens, consumer,
                 batch>>
-----------------------------------------------------------------------------
(***************************************************************************)
(* The locks.  The watcher lock is not a variable: the calls it orders are *)
(* answered one at a time.                                                 *)
(***************************************************************************)
(* Steps at which a thread that waits for the system's watcher holds the   *)
(* state lock.  Variant: it is kept until the system has answered.         *)
StateLockKept == {"watching", "unwatching"}
StateLocked == {}

StateFree(t) == \A u \in Threads \ {t} : call[u].step \notin StateLocked

Go(t, step) == call' = [call EXCEPT ![t].step = step]
-----------------------------------------------------------------------------
(***************************************************************************)
(* Adding a path.                                                          *)
(***************************************************************************)
AtOrBefore(q, p) ==
  \/ IsPrefix(q, p)
  \/ \E k \in DOMAIN q \cap DOMAIN p : SubSeq(q, 1, k - 1) = SubSeq(p, 1, k - 1) /\ q[k] < p[k]

(* The client watches p already, or, where watches are recursive, the last *)
(* of its paths up to p in their order is above it.                        *)
Known(c, p) ==
  IF recursive
    THEN LET upTo == {q \in Paths : registrations[c][q] # 0 /\ AtOrBefore(q, p)}
         IN  \E q \in upTo : IsPrefix(q, p) /\ \A x \in upTo : AtOrBefore(x, q)
    ELSE registrations[c][p] # 0

AddPath(t, c, p) ==
  /\ Idle(t) /\ Alive(c) /\ ~Known(c, p)
  /\ call' = [call EXCEPT ![t] = [step |-> "add", client |-> c, path |-> p, id |-> 0]]

Covered(p) == recursive /\ \E q \in Paths : counts[q] > 0 /\ IsStrictPrefix(q, p)
NeedsWatch(p) == ~Covered(p) /\ counts[p] = 0

AddRegistration(t) ==
  LET c == call[t].client
      p == call[t].path
  IN  /\ watchers' = watchers \cup {[id |-> lastId + 1, client |-> c, path |-> p]}
      /\ counts' = [counts EXCEPT ![p] = @ + 1]
      /\ lastId' = lastId + 1
      /\ call' = [call EXCEPT ![t] = [step |-> "record", client |-> c, path |-> p,
                                      id |-> lastId + 1]]

AddLock(t) ==
  /\ call[t].step = "add" /\ StateFree(t)
  /\ IF NeedsWatch(call[t].path) THEN Go(t, "watching") /\ UNCHANGED stateVars
     ELSE AddRegistration(t)
  /\ UNCHANGED <<bound, recursive, registrations, systemVars, event, streamVars>>

AddRelock(t) ==
  /\ call[t].step = "watched" /\ StateFree(t)
  /\ AddRegistration(t)
  /\ UNCHANGED <<bound, recursive, registrations, systemVars, event, streamVars>>

AddRecord(t) ==
  /\ call[t].step = "record"
  /\ registrations' = [registrations EXCEPT ![call[t].client][call[t].path] = call[t].id]
  /\ call' = [call EXCEPT ![t] = NoCall]
  /\ UNCHANGED <<bound, recursive, stateVars, systemVars, event, streamVars>>
-----------------------------------------------------------------------------
(***************************************************************************)
(* Removing a path, or all paths of a client whose stream is dropped.      *)
(***************************************************************************)
Removing(t, ids) ==
  call' = [call EXCEPT ![t] = IF ids = {} THEN NoCall
                              ELSE [step |-> "remove", ids |-> ids, path |-> <<>>]]

RemovePath(t, c, p) ==
  /\ Idle(t) /\ Alive(c) /\ registrations[c][p] # 0
  /\ Removing(t, {registrations[c][p]})
  /\ registrations' = [registrations EXCEPT ![c][p] = 0]
  /\ UNCHANGED <<recursive, stateVars, systemVars, event, streamVars>>

Drop(t, c) ==
  /\ Idle(t) /\ Alive(c)
  /\ \A u \in Threads : call[u].step \in {"add", "watching", "watched", "record"}
       => call[u].client # c
  /\ Removing(t, {registrations[c][p] : p \in Paths} \ {0})
  /\ registrations' = [registrations EXCEPT ![c] = [p \in Paths |-> 0]]
  /\ consumer' = [consumer EXCEPT ![c] = "gone"]
  /\ tokens' = [tokens EXCEPT ![c] = 0]
  /\ batch' = [batch EXCEPT ![c] = {}]
  /\ owed' = [owed EXCEPT ![c] = {}]
  /\ UNCHANGED <<recursive, stateVars, systemVars, event, pending>>

(* The system's watch goes with the last registration of its path.  Nobody *)
(* waits any more for what only this registration covered.                *)
RemoveLock(t) ==
  /\ call[t].step = "remove" /\ StateFree(t)
  /\ \E r \in watchers :
       LET rest == call[t].ids \ {r.id}
       IN  /\ r.id \in call[t].ids
           /\ watchers' = watchers \ {r}
           /\ counts' = [counts EXCEPT ![r.path] = @ - 1]
           /\ IF counts[r.path] = 1
                THEN call' = [call EXCEPT ![t] = [step |-> "unwatching", ids |-> rest,
                                                  path |-> r.path]]
                ELSE Removing(t, rest)
           /\ owed' = [owed EXCEPT ![r.client] =
                         {p \in @ : \E x \in watchers' : x.client = r.client
                                                          /\ IsPrefix(x.path, p)}]
  /\ UNCHANGED <<bound, recursive, lastId, registrations, systemVars, event, pending, tokens,
                 consumer, batch>>
-----------------------------------------------------------------------------
(***************************************************************************)
(* The thread of the system's watcher: it answers a call or reports an     *)
(* event to the registrations there are.                                   *)
(***************************************************************************)
ServeWatch(t) ==
  /\ event = NoEvent /\ call[t].step = "watching"
  /\ \/ /\ call[t].path \notin absent
        /\ osWatches' = osWatches \cup {call[t].path} /\ Go(t, "watched") /\ UNCHANGED bound
     \/ /\ call[t].path \in absent \/ bound.faults > 0
        /\ call' = [call EXCEPT ![t] = NoCall]
        /\ bound' = IF call[t].path \in absent THEN bound ELSE [bound EXCEPT !.faults = @ - 1]
        /\ UNCHANGED osWatches
  /\ UNCHANGED <<recursive, stateVars, registrations, absent, raw, event, streamVars>>

ServeUnwatch(t) ==
  /\ event = NoEvent /\ call[t].step = "unwatching"
  /\ osWatches' = osWatches \ {call[t].path}
  /\ Removing(t, call[t].ids)
  /\ UNCHANGED <<bound, recursive, stateVars, registrations, absent, raw, event, streamVars>>

NotifyTake ==
  /\ event = NoEvent /\ raw # <<>>
  /\ event' = [step |-> "taken", what |-> Head(raw), todo |-> {}]
  /\ raw' = Tail(raw)
  /\ UNCHANGED <<bound, recursive, stateVars, registrations, call, osWatches, absent, streamVars>>

EventTo(todo) == IF todo = {} THEN NoEvent ELSE [event EXCEPT !.step = "calling", !.todo = todo]

NotifySnapshot ==
  /\ event.step = "taken" /\ \A t \in Threads : call[t].step \notin StateLocked
  /\ event' = EventTo(watchers)
  /\ UNCHANGED <<bound, recursive, stateVars, registrations, call, systemVars, streamVars>>

(* The events of a registration; a lost one is a rescan of all its path.   *)
Events(r, what) ==
  IF what.rescan THEN {[path |-> r.path, rescan |-> TRUE]}
  ELSE IF IsPrefix(r.path, what.path) THEN {Change(what.path)} ELSE {}

Above(e, p) == e.rescan /\ IsStrictPrefix(e.path, p)

(* Variant: no coalescing; of the events of a path the first one counts.   *)
Extended(old, new) == old \cup {e \in new : ~\E o \in old : o.path = e.path}

(* coalesce_pending_rescans, then extend_sorted.                           *)
Coalesced(old, new) ==
  LET news == {e \in new : e.rescan => ~\E o \in old : Above(o, e.path)}
      olds == {o \in old : ~\E e \in news :
                 e.rescan /\ (o.path = e.path \/ (o.rescan /\ Above(e, o.path)))}
  IN  Extended(olds, news)

NotifyCall ==
  /\ event.step = "calling"
  /\ \E r \in event.todo :
       LET c == r.client
           new == Events(r, event.what)
       IN  /\ event' = EventTo(event.todo \ {r})
           /\ IF new = {} \/ (pending[c] = {} /\ ~Alive(c)) THEN UNCHANGED <<pending, tokens>>
              ELSE /\ pending' = [pending EXCEPT ![c] = Coalesced(@, new)]
                   /\ tokens' = [tokens EXCEPT ![c] = IF pending[c] = {} THEN @ + 1 ELSE @]
  /\ UNCHANGED <<bound, recursive, stateVars, registrations, call, systemVars, consumer, batch,
                 owed>>
-----------------------------------------------------------------------------
(***************************************************************************)
(* The stream: for a token, and after a delay that changes nothing else,   *)
(* all that is pending is taken at once.                                   *)
(***************************************************************************)
Carries(e, p) == e.path = p \/ (e.rescan /\ IsPrefix(e.path, p))

Take(c) ==
  /\ consumer[c] = "polling" /\ tokens[c] > 0
  /\ tokens' = [tokens EXCEPT ![c] = @ - 1]
  /\ batch' = [batch EXCEPT ![c] = pending[c]]
  /\ pending' = [pending EXCEPT ![c] = {}]
  /\ consumer' = [consumer EXCEPT ![c] = IF pending[c] = {} THEN "polling" ELSE "busy"]
  /\ owed' = [owed EXCEPT ![c] = {p \in @ : ~\E e \in pending[c] : Carries(e, p)}]
  /\ UNCHANGED <<bound, recursive, stateVars, registrations, call, systemVars, event>>

(* The client has dealt with the batch and asks for the next.              *)
Done(c) ==
  /\ consumer[c] = "busy"
  /\ batch' = [batch EXCEPT ![c] = {}]
  /\ consumer' = [consumer EXCEPT ![c] = "polling"]
  /\ UNCHANGED <<recursive, stateVars, registrations, systemVars, event, pending, tokens, owed>>
-----------------------------------------------------------------------------
ThreadStep(t) ==
  AddLock(t) \/ AddRelock(t) \/ AddRecord(t) \/ RemoveLock(t)

Call(t) ==
  /\ bound.calls > 0
  /\ bound' = [bound EXCEPT !.calls = @ - 1]
  /\ \E c \in Clients :
       \/ \E p \in Paths \cap bound.watched :
            \/ /\ AddPath(t, c, p)
               /\ UNCHANGED <<recursive, stateVars, registrations, systemVars, event, streamVars>>
            \/ RemovePath(t, c, p)
       \/ Drop(t, c)

NotifyStep ==
  \/ NotifyTake \/ NotifySnapshot \/ NotifyCall
  \/ \E t \in Threads : ServeWatch(t) \/ ServeUnwatch(t)

(* The registrations of start are there, and the paths of missing are not. *)
WatchInit(start, missing) ==
  /\ bound \in Bounds /\ recursive \in bound.platforms
  /\ watchers = start
  /\ counts = [p \in Paths |-> Cardinality({r \in start : r.path = p})]
  /\ lastId = Cardinality(start)
  /\ registrations = [c \in Clients |-> [p \in Paths |->
       IF \E r \in start : r.client = c /\ r.path = p
         THEN (CHOOSE r \in start : r.client = c /\ r.path = p).id ELSE 0]]
  /\ call = [t \in Threads |-> NoCall]
  /\ osWatches = {r.path : r \in start} /\ absent = missing /\ raw = <<>>
  /\ event = NoEvent
  /\ pending = [c \in Clients |-> {}] /\ tokens = [c \in Clients |-> 0]
  /\ consumer = [c \in Clients |-> "polling"] /\ batch = [c \in Clients |-> {}]
  /\ owed = [c \in Clients |-> {}]

-----------------------------------------------------------------------------
Message == [path : Seq(Nat), rescan : BOOLEAN]
Registration == [id : Nat, client : Clients, path : Paths]

CallState ==
  {NoCall}
  \cup [step : {"add", "watching", "watched", "record"}, client : Clients, path : Paths, id : Nat]
  \cup [step : {"remove", "unwatching"}, ids : SUBSET Nat, path : Paths \cup {<<>>}]

(* What the variables that say how changes arrive range over.              *)
TypeOK ==
  /\ watchers \subseteq Registration /\ lastId \in Nat
  /\ registrations \in [Clients -> [Paths -> Nat]]
  /\ call \in [Threads -> CallState]
  /\ raw \in Seq(Message)
  /\ event \in {NoEvent} \cup [step : {"taken", "calling"}, what : Message,
                                todo : SUBSET Registration]
  /\ pending \in [Clients -> SUBSET Message] /\ tokens \in [Clients -> Nat]
  /\ consumer \in [Clients -> {"polling", "busy", "gone"}]
  /\ owed \in [Clients -> SUBSET Paths]

(* A change that the system heard of under a path the client watches is in *)
(* the next batch, or on its way there: as itself, or as a rescan of what  *)
(* is above it (the stress test of NativeFs asserts that no path is missed *)
(* without a rescan).                                                      *)
OnItsWay(c, p) ==
  \/ \E i \in DOMAIN raw : raw[i].rescan \/ raw[i].path = p
  \/ /\ event # NoEvent
     /\ event.what.rescan \/ event.what.path = p
     /\ event.step = "calling"
          => \E r \in event.todo : r.client = c /\ IsPrefix(r.path, p)
  \/ \E e \in pending[c] : Carries(e, p)

ChangesArrive ==
  \A c \in Clients : Alive(c) =>
    /\ \A p \in owed[c] : OnItsWay(c, p)
    /\ pending[c] # {} => tokens[c] > 0

(* Every call of add, remove and drop returns: a thread that waits for the *)
(* system's watcher does not hold what the thread that serves it waits for.*)
CallsReturn == \A t \in Threads : call[t].step # "none" ~> call[t].step = "none"
=============================================================================
