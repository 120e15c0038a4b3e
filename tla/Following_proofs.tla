--------------------------- MODULE Following_proofs ---------------------------
(***************************************************************************)
(* What the watcher and the settings file promise, for any clients,        *)
(* threads, paths, updates and bounds.                                     *)
(***************************************************************************)
EXTENDS Following, SequenceTheorems, FiniteSetTheorems, TLAPS

(* A prefix, element by element.                                           *)
LEMMA PrefixByElement ==
  ASSUME NEW s \in Seq(Nat), NEW t \in Seq(Nat)
  PROVE  IsPrefix(s, t) <=> Len(s) <= Len(t) /\ \A i \in 1 .. Len(s) : s[i] = t[i]
  BY DEF IsPrefix

LEMMA PrefixTransitive ==
  ASSUME NEW s \in Seq(Nat), NEW t \in Seq(Nat), NEW u \in Seq(Nat),
         IsPrefix(s, t), IsPrefix(t, u)
  PROVE  IsPrefix(s, u)
<1>1. /\ Len(s) <= Len(t) /\ \A i \in 1 .. Len(s) : s[i] = t[i]
      /\ Len(t) <= Len(u) /\ \A i \in 1 .. Len(t) : t[i] = u[i]
  BY PrefixByElement
<1>2. Len(s) <= Len(u) /\ \A i \in 1 .. Len(s) : s[i] = u[i]
  BY <1>1
<1> QED
  BY <1>2, PrefixByElement

(* What carried a change of p before events are coalesced with what is     *)
(* pending is carried after it, by itself or by what took its place.       *)
LEMMA OldIsCarried ==
  ASSUME NEW old \in SUBSET Message, NEW new \in SUBSET Message, NEW p \in Seq(Nat),
         NEW e \in old, Carries(e, p)
  PROVE  \E x \in Coalesced(old, new) : Carries(x, p)
<1> DEFINE news == {n \in new : n.rescan => ~\E o \in old : Above(o, n.path)}
           olds == {o \in old : ~\E n \in news :
                      n.rescan /\ (o.path = n.path \/ (o.rescan /\ Above(n, o.path)))}
<1>1. Coalesced(old, new) = olds \cup {n \in news : ~\E o \in olds : o.path = n.path}
  BY DEF Coalesced, Extended
<1>2. CASE e \in olds
  BY <1>1, <1>2
<1>3. CASE e \notin olds
  <2>1. PICK n \in news : n.rescan /\ (e.path = n.path \/ (e.rescan /\ Above(n, e.path)))
    BY <1>3
  <2>2. n \in Coalesced(old, new)
    BY <1>1, <2>1
  <2>3. n.path \in Seq(Nat) /\ e.path \in Seq(Nat)
    BY DEF Message
  <2>4. IsPrefix(n.path, e.path)
    BY <2>1, <2>3, PrefixByElement DEF Above, IsStrictPrefix
  <2>5. IsPrefix(e.path, p)
    BY <2>3, PrefixByElement DEF Carries
  <2>6. IsPrefix(n.path, p)
    BY <2>3, <2>4, <2>5, PrefixTransitive
  <2> QED
    BY <2>1, <2>2, <2>6 DEF Carries
<1> QED
  BY <1>2, <1>3

LEMMA NewIsCarried ==
  ASSUME NEW old \in SUBSET Message, NEW new \in SUBSET Message, NEW p \in Seq(Nat),
         NEW e \in new, Carries(e, p)
  PROVE  \E x \in Coalesced(old, new) : Carries(x, p)
<1> DEFINE news == {n \in new : n.rescan => ~\E o \in old : Above(o, n.path)}
           olds == {o \in old : ~\E n \in news :
                      n.rescan /\ (o.path = n.path \/ (o.rescan /\ Above(n, o.path)))}
<1>1. Coalesced(old, new) = olds \cup {n \in news : ~\E o \in olds : o.path = n.path}
  BY DEF Coalesced, Extended
<1>2. ASSUME NEW o \in old, Carries(o, p)
      PROVE  \E x \in Coalesced(old, new) : Carries(x, p)
  BY <1>2, OldIsCarried
<1>3. CASE e \notin news
  <2>1. PICK o \in old : e.rescan /\ Above(o, e.path)
    BY <1>3
  <2>2. o.path \in Seq(Nat) /\ e.path \in Seq(Nat)
    BY DEF Message
  <2>3. IsPrefix(e.path, p)
    BY <2>2, PrefixByElement DEF Carries
  <2>4. Carries(o, p)
    BY <2>1, <2>2, <2>3, PrefixTransitive DEF Above, IsStrictPrefix, Carries
  <2> QED
    BY <1>2, <2>4
<1>4. CASE e \in news /\ \E o \in olds : o.path = e.path
  <2>1. PICK o \in olds : o.path = e.path
    BY <1>4
  <2>2. ~e.rescan
    BY <1>4, <2>1
  <2>3. Carries(o, p)
    BY <2>1, <2>2 DEF Carries
  <2> QED
    BY <1>2, <2>3
<1>5. CASE e \in news /\ ~\E o \in olds : o.path = e.path
  BY <1>1, <1>5
<1> QED
  BY <1>3, <1>4, <1>5
-----------------------------------------------------------------------------
(***************************************************************************)
(* No change is lost.  DeliveryInv adds to ChangesArrive that a registration *)
(* above it is the reason why a change is owed: when the system's thread   *)
(* copies the registrations, its client is among them.                     *)
(***************************************************************************)
OwedIsWanted == \A c \in Clients : Alive(c) => \A p \in owed[c] : Wanted(c, p)

DeliveryInv == TypeOK /\ OwedIsWanted /\ ChangesArrive

(* Steps that touch neither events nor streams, and end no registration.   *)
LEMMA QuietKeeps ==
  ASSUME DeliveryInv, TypeOK', watchers \subseteq watchers',
         UNCHANGED <<raw, event, pending, tokens, consumer, owed>>
  PROVE  DeliveryInv'
  BY DEF DeliveryInv, OwedIsWanted, ChangesArrive, OnItsWay, Alive, Wanted

LEMMA TypesKept ==
  ASSUME TypeOK, UNCHANGED watchVars
  PROVE  TypeOK'
  BY DEF TypeOK, watchVars, stateVars, systemVars, streamVars

(* The system reports a change of p.                                       *)
LEMMA ReportKeeps ==
  ASSUME DeliveryInv, NEW p \in Paths, NEW left, Report(p, left),
         UNCHANGED <<stateVars, registrations, call, event, pending, tokens, consumer>>
  PROVE  DeliveryInv'
<1> USE DEF DeliveryInv
<1>1. p \in Seq(Nat)
  BY FsWatcherAssumption
<1>2. Change(p) \in Message /\ Overflow \in Message
  BY <1>1 DEF Change, Overflow, Message
<1>3. raw' = raw \/ raw' = Append(raw, Change(p)) \/ raw' = Append(raw, Overflow)
  BY DEF Report
<1>4. /\ raw' \in Seq(Message)
      /\ \A i \in DOMAIN raw : i \in DOMAIN raw' /\ raw'[i] = raw[i]
  <2>1. raw \in Seq(Message)
    BY DEF TypeOK
  <2>2. ASSUME NEW m \in Message
        PROVE  /\ Append(raw, m) \in Seq(Message)
               /\ \A i \in DOMAIN raw : i \in DOMAIN Append(raw, m) /\ Append(raw, m)[i] = raw[i]
    BY <2>1, AppendProperties
  <2> QED
    BY <1>2, <1>3, <2>1, <2>2
<1>5. owed' \in [Clients -> SUBSET Paths]
  BY DEF Report, TypeOK
<1>6. TypeOK'
  BY <1>4, <1>5 DEF TypeOK, stateVars
<1>7. OwedIsWanted'
  BY DEF OwedIsWanted, Report, Wanted, Alive, stateVars, TypeOK
<1>8. ASSUME NEW c \in Clients, Alive(c), NEW q \in owed'[c]
      PROVE  OnItsWay(c, q)'
  <2>1. CASE q \in owed[c]
    <3>1. OnItsWay(c, q)
      BY <1>8, <2>1 DEF ChangesArrive
    <3> QED
      BY <1>4, <3>1 DEF OnItsWay
  <2>2. CASE q \notin owed[c]
    <3>1. q = p /\ Heard(p)
      BY <1>8, <2>2 DEF Report, TypeOK
    <3>2. raw' = Append(raw, Change(p)) \/ raw' = Append(raw, Overflow)
      BY <3>1 DEF Report
    <3>3. Len(raw) + 1 \in DOMAIN raw'
          /\ raw'[Len(raw) + 1] \in {Change(p), Overflow}
      BY <1>2, <3>2 DEF TypeOK
    <3>4. raw'[Len(raw) + 1].rescan \/ raw'[Len(raw) + 1].path = p
      BY <3>3 DEF Change, Overflow
    <3> QED
      BY <3>1, <3>3, <3>4 DEF OnItsWay
  <2> QED
    BY <2>1, <2>2
<1>9. ChangesArrive'
  BY <1>8 DEF ChangesArrive, Alive
<1> QED
  BY <1>6, <1>7, <1>9

(* The system's thread takes an event up.                                  *)
LEMMA NotifyTakeKeeps ==
  ASSUME DeliveryInv, NotifyTake
  PROVE  DeliveryInv'
<1> USE DEF DeliveryInv, NotifyTake, systemVars, stateVars, streamVars
<1>1. Head(raw) \in Message /\ Tail(raw) \in Seq(Message)
  BY DEF TypeOK
<1>2. TypeOK'
  BY <1>1 DEF TypeOK
<1>3. OwedIsWanted'
  BY DEF OwedIsWanted, Wanted, Alive
<1>4. ASSUME NEW c \in Clients, Alive(c), NEW q \in owed[c]
      PROVE  OnItsWay(c, q)'
  <2>1. event' # NoEvent /\ event'.what = Head(raw) /\ event'.step # "calling"
    BY DEF NoEvent
  <2>2. OnItsWay(c, q)
    BY <1>4 DEF ChangesArrive
  <2>3. CASE \E i \in DOMAIN raw : raw[i].rescan \/ raw[i].path = q
    <3>1. PICK i \in DOMAIN raw : raw[i].rescan \/ raw[i].path = q
      BY <2>3
    <3>2. CASE i = 1
      BY <2>1, <3>1, <3>2 DEF OnItsWay, TypeOK
    <3>3. CASE i # 1
      <4>1. i - 1 \in DOMAIN raw' /\ raw'[i - 1] = raw[i]
        BY <3>1, <3>3 DEF TypeOK
      <4> QED
        BY <3>1, <4>1 DEF OnItsWay
    <3> QED
      BY <3>2, <3>3
  <2> QED
    BY <2>2, <2>3 DEF OnItsWay
<1>5. ChangesArrive'
  BY <1>4 DEF ChangesArrive, Alive
<1> QED
  BY <1>2, <1>3, <1>5

(* It copies the registrations: who is owed the change is among them.      *)
LEMMA NotifySnapshotKeeps ==
  ASSUME DeliveryInv, NotifySnapshot
  PROVE  DeliveryInv'
<1> USE DEF DeliveryInv, NotifySnapshot, systemVars, stateVars, streamVars
<1>1. event # NoEvent /\ event.what \in Message
  BY DEF TypeOK, NoEvent
<1>2. \/ watchers = {} /\ event' = NoEvent
      \/ event' = [step |-> "calling", what |-> event.what, todo |-> watchers]
  BY <1>1 DEF EventTo, TypeOK
<1>3. TypeOK'
  BY <1>1, <1>2 DEF TypeOK
<1>4. OwedIsWanted'
  BY DEF OwedIsWanted, Wanted, Alive
<1>5. ASSUME NEW c \in Clients, Alive(c), NEW q \in owed[c]
      PROVE  OnItsWay(c, q)'
  <2>1. PICK r \in watchers : r.client = c /\ IsPrefix(r.path, q)
    BY <1>5 DEF OwedIsWanted, Wanted
  <2>2. event' = [step |-> "calling", what |-> event.what, todo |-> watchers]
    BY <1>2, <2>1
  <2>3. OnItsWay(c, q)
    BY <1>5 DEF ChangesArrive
  <2>4. event' # NoEvent
    BY <2>2 DEF NoEvent
  <2> QED
    BY <1>1, <2>1, <2>2, <2>3, <2>4 DEF OnItsWay
<1>6. ChangesArrive'
  BY <1>5 DEF ChangesArrive, Alive
<1> QED
  BY <1>3, <1>4, <1>6

(* It calls one registration: what the event is to the client is pending   *)
(* after that, or covered by what is, and the client is woken.             *)
LEMMA NotifyCallKeeps ==
  ASSUME DeliveryInv, NotifyCall
  PROVE  DeliveryInv'
<1> USE DEF DeliveryInv, systemVars, stateVars
<1>1. event # NoEvent /\ event.what \in Message /\ event.todo \subseteq Registration
      /\ event = [step |-> "calling", what |-> event.what, todo |-> event.todo]
  BY DEF NotifyCall, TypeOK, NoEvent
<1>2. PICK r \in event.todo :
        /\ event' = EventTo(event.todo \ {r})
        /\ IF Events(r, event.what) = {} \/ (pending[r.client] = {} /\ ~Alive(r.client))
             THEN UNCHANGED <<pending, tokens>>
             ELSE /\ pending' = [pending EXCEPT ![r.client] = Coalesced(@, Events(r, event.what))]
                  /\ tokens' = [tokens EXCEPT ![r.client] =
                                  IF pending[r.client] = {} THEN @ + 1 ELSE @]
  BY DEF NotifyCall
<1>3. UNCHANGED <<watchers, lastId, registrations, call, raw, consumer, owed>>
  BY DEF NotifyCall
<1> DEFINE new == Events(r, event.what)
           rest == event.todo \ {r}
<1>4. r.client \in Clients /\ r.path \in Paths /\ r.path \in Seq(Nat)
  BY <1>1, <1>2, FsWatcherAssumption DEF Registration
<1>5. new \in SUBSET Message
  BY <1>1, <1>4 DEF Events, Change, Message
<1>6. \/ rest = {} /\ event' = NoEvent
      \/ event' = [step |-> "calling", what |-> event.what, todo |-> rest]
  BY <1>1, <1>2 DEF EventTo
<1>7. ASSUME NEW old \in SUBSET Message
      PROVE  Coalesced(old, new) \in SUBSET Message
  BY <1>5, <1>7 DEF Coalesced, Extended
<1>8. /\ pending' \in [Clients -> SUBSET Message] /\ tokens' \in [Clients -> Nat]
      /\ \A c \in Clients : pending'[c] # pending[c] => c = r.client
      /\ \A c \in Clients : tokens[c] <= tokens'[c]
      /\ pending'[r.client] # {} /\ pending[r.client] = {} /\ Alive(r.client)
           => tokens'[r.client] = tokens[r.client] + 1
  <2>1. pending \in [Clients -> SUBSET Message] /\ tokens \in [Clients -> Nat]
    BY DEF TypeOK
  <2>2. CASE UNCHANGED <<pending, tokens>>
    BY <2>1, <2>2
  <2>3. CASE /\ pending' = [pending EXCEPT ![r.client] = Coalesced(@, new)]
             /\ tokens' = [tokens EXCEPT ![r.client] =
                             IF pending[r.client] = {} THEN @ + 1 ELSE @]
    <3>1. pending' \in [Clients -> SUBSET Message]
          /\ \A c \in Clients : pending'[c] # pending[c] => c = r.client
      BY <1>4, <1>7, <2>1, <2>3
    <3>2. CASE pending[r.client] = {}
      BY <1>4, <2>1, <2>3, <3>1, <3>2
    <3>3. CASE pending[r.client] # {}
      BY <1>4, <2>1, <2>3, <3>1, <3>3
    <3> QED
      BY <3>2, <3>3
  <2> QED
    BY <1>2, <2>2, <2>3
<1>9. TypeOK'
  BY <1>1, <1>3, <1>6, <1>8 DEF TypeOK
<1>10. OwedIsWanted'
  BY <1>3 DEF OwedIsWanted, Wanted, Alive
<1>11. ASSUME NEW c \in Clients, NEW q \in Paths, NEW e \in pending[c], Carries(e, q)
       PROVE  \E x \in pending'[c] : Carries(x, q)
  <2>1. q \in Seq(Nat) /\ pending[c] \in SUBSET Message
    BY FsWatcherAssumption DEF TypeOK
  <2>2. \E x \in Coalesced(pending[c], new) : Carries(x, q)
    BY <1>5, <1>11, <2>1, OldIsCarried
  <2>3. pending'[c] = pending[c] \/ pending'[c] = Coalesced(pending[c], new)
    BY <1>2, <1>4 DEF TypeOK
  <2> QED
    BY <1>11, <2>2, <2>3
<1>12. ASSUME NEW c \in Clients, Alive(c), c = r.client, NEW q \in Paths, IsPrefix(r.path, q),
              event.what.rescan \/ event.what.path = q
       PROVE  \E x \in pending'[c] : Carries(x, q)
  <2>1. q \in Seq(Nat) /\ pending[c] \in SUBSET Message
    BY FsWatcherAssumption DEF TypeOK
  <2>2. PICK e \in new : Carries(e, q)
    BY <1>12 DEF Events, Carries, Change
  <2>3. \E x \in Coalesced(pending[c], new) : Carries(x, q)
    BY <1>5, <2>1, <2>2, NewIsCarried
  <2>4. pending'[c] = Coalesced(pending[c], new)
    BY <1>2, <1>4, <1>12, <2>2 DEF TypeOK
  <2> QED
    BY <2>3, <2>4
<1>13. ASSUME NEW c \in Clients, Alive(c), NEW q \in owed[c]
       PROVE  OnItsWay(c, q)'
  <2>1. OnItsWay(c, q) /\ q \in Paths
    BY <1>13 DEF ChangesArrive, TypeOK
  <2>2. CASE \E i \in DOMAIN raw : raw[i].rescan \/ raw[i].path = q
    BY <1>3, <2>2 DEF OnItsWay
  <2>3. CASE \E e \in pending[c] : Carries(e, q)
    BY <1>11, <2>1, <2>3 DEF OnItsWay
  <2>4. CASE /\ event.what.rescan \/ event.what.path = q
             /\ \E x \in event.todo : x.client = c /\ IsPrefix(x.path, q)
    <3>1. PICK x \in event.todo : x.client = c /\ IsPrefix(x.path, q)
      BY <2>4
    <3>2. CASE x = r
      BY <1>12, <1>13, <2>1, <2>4, <3>1, <3>2 DEF OnItsWay
    <3>3. CASE x # r
      <4>1. event' = [step |-> "calling", what |-> event.what, todo |-> rest] /\ x \in rest
        BY <1>6, <3>1, <3>3
      <4>2. event' # NoEvent
        BY <4>1 DEF NoEvent
      <4> QED
        BY <2>4, <3>1, <4>1, <4>2 DEF OnItsWay
    <3> QED
      BY <3>2, <3>3
  <2> QED
    BY <1>1, <2>1, <2>2, <2>3, <2>4 DEF OnItsWay
<1>14. ASSUME NEW c \in Clients, Alive(c), pending'[c] # {}
       PROVE  tokens'[c] > 0
  <2>1. tokens[c] \in Nat /\ tokens'[c] \in Nat /\ tokens[c] <= tokens'[c]
    BY <1>8 DEF TypeOK
  <2>2. pending[c] # {} => tokens[c] > 0
    BY <1>14 DEF ChangesArrive
  <2> QED
    BY <1>8, <1>14, <2>1, <2>2
<1>15. ChangesArrive'
  BY <1>3, <1>13, <1>14 DEF ChangesArrive, Alive
<1> QED
  BY <1>9, <1>10, <1>15

(* A batch is taken: what it carries is no longer owed.                    *)
LEMMA TakeKeeps ==
  ASSUME DeliveryInv, NEW c \in Clients, Take(c)
  PROVE  DeliveryInv'
<1> USE DEF DeliveryInv, Take, systemVars, stateVars
<1>1. TypeOK'
  BY DEF TypeOK
<1>2. OwedIsWanted'
  BY DEF OwedIsWanted, Wanted, Alive, TypeOK
<1>3. ChangesArrive'
  BY DEF ChangesArrive, OnItsWay, Alive, TypeOK
<1> QED
  BY <1>1, <1>2, <1>3

(* The client has dealt with its batch.                                    *)
LEMMA DoneKeeps ==
  ASSUME DeliveryInv, NEW c \in Clients, Done(c), UNCHANGED call
  PROVE  DeliveryInv'
<1> USE DEF DeliveryInv, Done, systemVars, stateVars
<1>1. TypeOK'
  BY DEF TypeOK
<1>2. OwedIsWanted' /\ ChangesArrive'
  BY DEF OwedIsWanted, Wanted, ChangesArrive, OnItsWay, Alive, TypeOK
<1> QED
  BY <1>1, <1>2

(* A registration ends: what only it covered is owed no longer.            *)
LEMMA RemoveKeeps ==
  ASSUME DeliveryInv, NEW t \in Threads, RemoveLock(t)
  PROVE  DeliveryInv'
<1> USE DEF DeliveryInv, RemoveLock, systemVars
<1>1. call[t] \in [step : {"remove", "unwatching"}, ids : SUBSET Nat, path : Paths \cup {<<>>}]
  <2>1. call[t] \in CallState
    BY DEF TypeOK
  <2> QED
    BY <2>1 DEF CallState, NoCall
<1>2. PICK r \in watchers :
        /\ watchers' = watchers \ {r}
        /\ \/ call' = [call EXCEPT ![t] = [step |-> "unwatching", ids |-> call[t].ids \ {r.id},
                                          path |-> r.path]]
           \/ Removing(t, call[t].ids \ {r.id})
        /\ owed' = [owed EXCEPT ![r.client] =
                      {p \in @ : \E x \in watchers' : x.client = r.client /\ IsPrefix(x.path, p)}]
  OBVIOUS
<1>3. r.client \in Clients /\ r.path \in Paths
  BY DEF TypeOK, Registration
<1>4. call' \in [Threads -> CallState]
  <2> DEFINE rest == call[t].ids \ {r.id}
  <2>1. rest \in SUBSET Nat
    BY <1>1
  <2>2. /\ NoCall \in CallState
        /\ [step |-> "unwatching", ids |-> rest, path |-> r.path] \in CallState
        /\ [step |-> "remove", ids |-> rest, path |-> <<>>] \in CallState
    BY <1>3, <2>1 DEF CallState
  <2>3. \E v \in CallState : call' = [call EXCEPT ![t] = v]
    BY <1>2, <2>2 DEF Removing
  <2> QED
    BY <2>3 DEF TypeOK
<1>5. /\ owed' \in [Clients -> SUBSET Paths]
      /\ \A c \in Clients : owed'[c] \subseteq owed[c]
      /\ \A c \in Clients : c # r.client => owed'[c] = owed[c]
      /\ \A p \in owed'[r.client] :
           \E x \in watchers' : x.client = r.client /\ IsPrefix(x.path, p)
  BY <1>2, <1>3 DEF TypeOK
<1>6. TypeOK'
  BY <1>2, <1>4, <1>5 DEF TypeOK
<1>7. OwedIsWanted'
  <2>1. ASSUME NEW c \in Clients, Alive(c), NEW p \in owed'[c]
        PROVE  Wanted(c, p)'
    <3>1. CASE c = r.client
      BY <1>5, <2>1, <3>1 DEF Wanted
    <3>2. CASE c # r.client
      <4>1. PICK x \in watchers : x.client = c /\ IsPrefix(x.path, p)
        BY <1>5, <2>1, <3>2 DEF OwedIsWanted, Wanted
      <4> QED
        BY <1>2, <3>2, <4>1 DEF Wanted
    <3> QED
      BY <3>1, <3>2
  <2> QED
    BY <2>1 DEF OwedIsWanted, Alive
<1>8. ChangesArrive'
  BY <1>5 DEF ChangesArrive, OnItsWay, Alive
<1> QED
  BY <1>6, <1>7, <1>8

(* A client goes, and nothing is owed to it.                               *)
LEMMA DropKeeps ==
  ASSUME DeliveryInv, NEW t \in Threads, NEW c \in Clients, Drop(t, c)
  PROVE  DeliveryInv'
<1> USE DEF DeliveryInv, Drop, systemVars, stateVars
<1>1. {registrations[c][p] : p \in Paths} \ {0} \in SUBSET Nat
  BY DEF TypeOK
<1>2. TypeOK'
  BY <1>1 DEF TypeOK, Removing, CallState, NoCall
<1>3. \A d \in Clients : Alive(d)' =>
        d # c /\ Alive(d) /\ owed'[d] = owed[d] /\ tokens'[d] = tokens[d]
  BY DEF Alive, TypeOK
<1>4. OwedIsWanted'
  BY <1>3 DEF OwedIsWanted, Wanted
<1>5. ChangesArrive'
  BY <1>3 DEF ChangesArrive, OnItsWay
<1> QED
  BY <1>2, <1>4, <1>5

(* Adding and removing paths, up to the locks.                             *)
LEMMA CallTypes ==
  ASSUME TypeOK, NEW t \in Threads, NEW v \in CallState
  PROVE  [call EXCEPT ![t] = v] \in [Threads -> CallState]
  BY DEF TypeOK

LEMMA AddPathKeeps ==
  ASSUME DeliveryInv, NEW t \in Threads, NEW c \in Clients, NEW p \in Paths, AddPath(t, c, p),
         UNCHANGED <<stateVars, registrations, systemVars, event, streamVars>>
  PROVE  DeliveryInv'
<1>1. [step |-> "add", client |-> c, path |-> p, id |-> 0] \in CallState
  BY DEF CallState
<1>2. call' \in [Threads -> CallState]
  BY <1>1, CallTypes DEF AddPath, DeliveryInv
<1>3. TypeOK'
  BY <1>2 DEF DeliveryInv, TypeOK, stateVars, systemVars, streamVars
<1> QED
  BY <1>3, QuietKeeps DEF stateVars, systemVars, streamVars

LEMMA RemovePathKeeps ==
  ASSUME DeliveryInv, NEW t \in Threads, NEW c \in Clients, NEW p \in Paths, RemovePath(t, c, p)
  PROVE  DeliveryInv'
<1>1. {registrations[c][p]} \in SUBSET Nat
  BY DEF DeliveryInv, TypeOK
<1>2. [step |-> "remove", ids |-> {registrations[c][p]}, path |-> <<>>] \in CallState
  BY <1>1 DEF CallState
<1>3. call' \in [Threads -> CallState]
  BY <1>2, CallTypes DEF RemovePath, Removing, DeliveryInv
<1>4. registrations' \in [Clients -> [Paths -> Nat]]
  BY DEF RemovePath, DeliveryInv, TypeOK
<1>5. TypeOK'
  BY <1>3, <1>4 DEF RemovePath, DeliveryInv, TypeOK, stateVars, systemVars, streamVars
<1> QED
  BY <1>5, QuietKeeps DEF RemovePath, stateVars, systemVars, streamVars

(* A call in progress has its client and path.                             *)
LEMMA Adding ==
  ASSUME TypeOK, NEW t \in Threads, call[t].step \in {"watching", "watched", "add", "record"}
  PROVE  call[t] \in [step : {"add", "watching", "watched", "record"}, client : Clients,
                      path : Paths, id : Nat]
<1>1. call[t] \in CallState
  BY DEF TypeOK
<1> QED
  BY <1>1 DEF CallState, NoCall

LEMMA AddRegistrationKeeps ==
  ASSUME DeliveryInv, NEW t \in Threads, call[t].step \in {"add", "watched"}, AddRegistration(t),
         UNCHANGED <<registrations, systemVars, event, streamVars>>
  PROVE  DeliveryInv'
<1>1. call[t] \in [step : {"add", "watching", "watched", "record"}, client : Clients,
                   path : Paths, id : Nat]
  BY Adding DEF DeliveryInv
<1>2. lastId + 1 \in Nat /\ lastId' = lastId + 1
  BY DEF AddRegistration, DeliveryInv, TypeOK
<1>3. watchers' = watchers \cup {[id |-> lastId + 1, client |-> call[t].client,
                                  path |-> call[t].path]}
  BY DEF AddRegistration
<1>4. watchers' \subseteq Registration
  BY <1>1, <1>2, <1>3 DEF DeliveryInv, TypeOK, Registration
<1>5. call' \in [Threads -> CallState]
  <2>1. [step |-> "record", client |-> call[t].client, path |-> call[t].path, id |-> lastId + 1]
          \in CallState
    BY <1>1, <1>2 DEF CallState
  <2>2. call' = [call EXCEPT ![t] = [step |-> "record", client |-> call[t].client,
                                     path |-> call[t].path, id |-> lastId + 1]]
    BY <1>1 DEF AddRegistration, DeliveryInv, TypeOK
  <2> QED
    BY <2>1, <2>2, CallTypes DEF DeliveryInv
<1>6. TypeOK'
  BY <1>2, <1>4, <1>5 DEF DeliveryInv, TypeOK, systemVars, streamVars
<1> QED
  BY <1>3, <1>6, QuietKeeps DEF systemVars, streamVars

(* A thread goes on to another step of its add.                            *)
LEMMA GoTypes ==
  ASSUME TypeOK, NEW t \in Threads, call[t].step \in {"watching", "add"},
         NEW step \in {"watching", "watched"}, Go(t, step)
  PROVE  call' \in [Threads -> CallState]
<1>1. call[t] \in [step : {"add", "watching", "watched", "record"}, client : Clients,
                   path : Paths, id : Nat]
  BY Adding
<1>2. [call[t] EXCEPT !.step = step] \in CallState
  BY <1>1 DEF CallState
<1>3. call' = [call EXCEPT ![t] = [call[t] EXCEPT !.step = step]]
  BY DEF Go
<1> QED
  BY <1>2, <1>3, CallTypes

LEMMA AddStepKeeps ==
  ASSUME DeliveryInv, NEW t \in Threads, AddLock(t) \/ AddRelock(t) \/ AddRecord(t)
  PROVE  DeliveryInv'
<1>1. CASE AddLock(t) /\ NeedsWatch(call[t].path)
  <2>1. call' \in [Threads -> CallState]
    BY <1>1, GoTypes DEF AddLock, DeliveryInv
  <2>2. TypeOK'
    BY <1>1, <2>1 DEF AddLock, DeliveryInv, TypeOK, stateVars, systemVars, streamVars
  <2> QED
    BY <1>1, <2>2, QuietKeeps DEF AddLock, stateVars, systemVars, streamVars
<1>2. CASE AddLock(t) /\ ~NeedsWatch(call[t].path)
  BY <1>2, AddRegistrationKeeps DEF AddLock
<1>3. CASE AddRelock(t)
  BY <1>3, AddRegistrationKeeps DEF AddRelock
<1>4. CASE AddRecord(t)
  <2>1. call[t].client \in Clients /\ call[t].path \in Paths /\ call[t].id \in Nat
    BY <1>4, Adding DEF AddRecord, DeliveryInv
  <2>2. registrations' \in [Clients -> [Paths -> Nat]]
    BY <1>4, <2>1 DEF AddRecord, DeliveryInv, TypeOK
  <2>3. call' \in [Threads -> CallState]
    BY <1>4, CallTypes DEF AddRecord, DeliveryInv, CallState
  <2>4. TypeOK'
    BY <1>4, <2>2, <2>3 DEF AddRecord, DeliveryInv, TypeOK, stateVars, systemVars, streamVars
  <2> QED
    BY <1>4, <2>4, QuietKeeps DEF AddRecord, stateVars, systemVars, streamVars
<1> QED
  BY <1>1, <1>2, <1>3, <1>4

(* The system's thread answers a call.                                     *)
LEMMA ServeKeeps ==
  ASSUME DeliveryInv, NEW t \in Threads, ServeWatch(t) \/ ServeUnwatch(t)
  PROVE  DeliveryInv'
<1>1. call' \in [Threads -> CallState]
  <2>1. CASE ServeWatch(t) /\ Go(t, "watched")
    BY <2>1, GoTypes DEF ServeWatch, DeliveryInv
  <2>2. CASE ServeWatch(t) /\ call' = [call EXCEPT ![t] = NoCall]
    BY <2>2, CallTypes DEF DeliveryInv, CallState
  <2>3. CASE ServeUnwatch(t)
    <3>1. call[t] \in CallState
      BY DEF DeliveryInv, TypeOK
    <3>2. call[t].ids \in SUBSET Nat
      BY <2>3, <3>1 DEF ServeUnwatch, CallState, NoCall
    <3>3. [step |-> "remove", ids |-> call[t].ids, path |-> <<>>] \in CallState
          /\ NoCall \in CallState
      BY <3>2 DEF CallState
    <3> QED
      BY <2>3, <3>3, CallTypes DEF ServeUnwatch, Removing, DeliveryInv
  <2> QED
    BY <2>1, <2>2, <2>3 DEF ServeWatch
<1>2. TypeOK'
  BY <1>1 DEF ServeWatch, ServeUnwatch, DeliveryInv, TypeOK, stateVars, systemVars, streamVars
<1> QED
  BY <1>2, QuietKeeps DEF ServeWatch, ServeUnwatch, stateVars, systemVars, streamVars
-----------------------------------------------------------------------------
LEMMA DeliveryInit ==
  ASSUME FollowingInit
  PROVE  DeliveryInv
<1>1. PICK start \in {{}, Watched}, missing \in {(IF conf = Missing THEN {Conf} ELSE {})
                                                   \cup (IF disk = 0 THEN {BufferPath} ELSE {})} :
        WatchInit(start, missing)
  BY DEF FollowingInit
<1>2. start \subseteq Registration /\ lastId \in Nat
  <2>1. CASE start = {}
    <3>1. lastId = Cardinality(start)
      BY <1>1 DEF WatchInit
    <3>2. Cardinality(start) = 0
      BY <2>1, FS_EmptySet
    <3> QED
      BY <2>1, <3>1, <3>2
  <2>2. CASE start = Watched
    <3>1. lastId = Cardinality(start)
      BY <1>1 DEF WatchInit
    <3>2. Cardinality(start) = 1
      BY <2>2, FS_Singleton DEF Watched
    <3> QED
      BY <2>2, <3>1, <3>2, FollowingAssumption DEF Watched, Registration
  <2> QED
    BY <2>1, <2>2
<1>3. registrations \in [Clients -> [Paths -> Nat]]
  <2>1. ASSUME NEW c \in Clients, NEW p \in Paths, \E r \in start : r.client = c /\ r.path = p
        PROVE  (CHOOSE r \in start : r.client = c /\ r.path = p).id \in Nat
    BY <1>2, <2>1 DEF Registration
  <2> QED
    BY <1>1, <2>1 DEF WatchInit
<1>4. raw = <<>> /\ raw \in Seq(Message)
  BY <1>1 DEF WatchInit
<1>5. TypeOK
  BY <1>1, <1>2, <1>3, <1>4 DEF WatchInit, TypeOK, CallState
<1>6. OwedIsWanted /\ ChangesArrive
  BY <1>1 DEF WatchInit, OwedIsWanted, ChangesArrive
<1> QED
  BY <1>5, <1>6 DEF DeliveryInv

(* The steps of the watcher by itself.                                     *)
LEMMA WatchStepKeeps ==
  ASSUME DeliveryInv, WatchStep
  PROVE  DeliveryInv'
<1>1. CASE DiskChange
  <2>1. PICK p \in Paths : Report(p, Spend)
    BY <1>1 DEF DiskChange, Written, Appears, Vanishes
  <2> QED
    BY <1>1, <2>1, ReportKeeps DEF DiskChange
<1>2. CASE NotifyStep
  BY <1>2, NotifyTakeKeeps, NotifySnapshotKeeps, NotifyCallKeeps, ServeKeeps DEF NotifyStep
<1>3. ASSUME NEW t \in Threads, ThreadStep(t)
      PROVE  DeliveryInv'
  BY <1>3, AddStepKeeps, RemoveKeeps DEF ThreadStep
<1>4. ASSUME NEW t \in Threads, Call(t)
      PROVE  DeliveryInv'
  BY <1>4, AddPathKeeps, RemovePathKeeps, DropKeeps DEF Call
<1>5. ASSUME NEW c \in Clients, Take(c)
      PROVE  DeliveryInv'
  BY <1>5, TakeKeeps
<1>6. ASSUME NEW c \in Others, Done(c), UNCHANGED <<bound, call>>
      PROVE  DeliveryInv'
  BY <1>6, DoneKeeps DEF Others
<1> QED
  BY <1>1, <1>2, <1>3, <1>4, <1>5, <1>6 DEF WatchStep

(* The settings file: its writes are reported, its reader adds paths.      *)
LEMMA FileStepKeeps ==
  ASSUME DeliveryInv, FileNext
  PROVE  DeliveryInv'
<1> USE ConfigAssumption
<1>1. ASSUME NEW left, Report(Conf, left), Rest
      PROVE  DeliveryInv'
  BY <1>1, ReportKeeps DEF Rest
<1>2. ASSUME UNCHANGED <<stateVars, registrations, call, systemVars, event, pending, tokens,
                         consumer, owed>>
      PROVE  DeliveryInv'
  <2>1. TypeOK'
    BY <1>2 DEF DeliveryInv, TypeOK, stateVars, systemVars
  <2> QED
    BY <1>2, <2>1, QuietKeeps DEF stateVars, systemVars
<1>3. ASSUME Unwatched
      PROVE  DeliveryInv'
  BY <1>2, <1>3 DEF Unwatched, watchVars, streamVars
<1>4. CASE ForeignChange
  BY <1>1, <1>4 DEF ForeignChange, Appears, Written, Replaced, Vanishes
<1>5. CASE ReaderWatch
  BY <1>2, <1>5, AddPathKeeps DEF ReaderWatch, streamVars
<1>6. CASE \/ ReaderLoad \/ ReaderReload \/ Apply \/ ShouldMigrate
           \/ \E u \in Updates : UpdateLoad(u) \/ UpdateSet(u)
  BY <1>3, <1>6 DEF ReaderLoad, ReaderReload, Apply, ShouldMigrate, UpdateLoad, UpdateSet
<1>7. CASE ReaderNext
  BY <1>7, DoneKeeps DEF ReaderNext
<1>8. ASSUME NEW u \in Updates, UpdateTruncate(u) \/ UpdateFill(u)
      PROVE  DeliveryInv'
  BY <1>1, <1>8 DEF UpdateTruncate, UpdateFill, Appears, Written
<1>9. CASE \/ SetActivePaneItem \/ KeymapChanged \/ MigrationLoad
           \/ \E u \in Updates : Enqueue(u) \/ UpdateFail(u)
  <2>1. CASE \/ SetActivePaneItem \/ KeymapChanged \/ MigrationLoad
             \/ \E u \in Updates : Enqueue(u)
    BY <1>2, <2>1 DEF SetActivePaneItem, KeymapChanged, MigrationLoad, Enqueue, Quiet, Rest
  <2>2. ASSUME NEW u \in Updates, UpdateFail(u)
        PROVE  DeliveryInv'
    BY <1>1, <1>2, <2>2 DEF UpdateFail, Quiet, Rest, Written
  <2> QED
    BY <1>9, <2>1, <2>2
<1>10. CASE MigrationWrite
  BY <1>1, <1>10 DEF MigrationWrite, Appears, Replaced
<1> QED
  BY <1>4, <1>5, <1>6, <1>7, <1>8, <1>9, <1>10 DEF FileNext, ReaderStep, UpdateStep

LEMMA FollowingStepKeeps ==
  ASSUME DeliveryInv, [FollowingNext]_allVars
  PROVE  DeliveryInv'
<1>1. CASE BufferFileChange
  <2>1. PICK left : Report(BufferPath, left)
    BY <1>1 DEF BufferFileChange, Appears, Written, Vanishes
  <2> QED
    BY <1>1, <2>1, ReportKeeps, FollowingAssumption DEF BufferFileChange, Rest
<1>2. CASE ScanBatch
  BY <1>2, DoneKeeps, FollowingAssumption DEF ScanBatch
<1>3. CASE UNCHANGED watchVars
  <2>1. TypeOK'
    BY <1>3, TypesKept DEF DeliveryInv
  <2> QED
    BY <1>3, <2>1, QuietKeeps DEF watchVars, stateVars, systemVars, streamVars
<1>4. CASE ScanRequest \/ BufferTasks \/ UNCHANGED allVars
  BY <1>3, <1>4 DEF ScanRequest, BufferTasks, allVars, fileVars
<1> QED
  BY <1>1, <1>2, <1>4, WatchStepKeeps, FileStepKeeps DEF FollowingNext

(* The types of the watcher's variables.                                   *)
THEOREM WatcherTypes == FollowingSpec => []TypeOK
<1>1. DeliveryInv => TypeOK
  BY DEF DeliveryInv
<1> QED
  BY <1>1, DeliveryInit, FollowingStepKeeps, PTL DEF FollowingSpec

(* No change the system hears of is lost between it and a client that      *)
(* watches a path above: neither when events are coalesced, nor when paths *)
(* are added and removed while the event is reported.                      *)
THEOREM NoChangeIsLost == FollowingSpec => []ChangesArrive
<1>1. DeliveryInv => ChangesArrive
  BY DEF DeliveryInv
<1> QED
  BY <1>1, DeliveryInit, FollowingStepKeeps, PTL DEF FollowingSpec
-----------------------------------------------------------------------------
(***************************************************************************)
(* Updates are kept.  One update at a time works on the file, the first of *)
(* those not finished; while it does, the text it will write has all that  *)
(* the updates before it wrote, and when none does, the file has.          *)
(***************************************************************************)
Working(u) == update[u].step \in {"truncate", "fill", "set"}

TasksSound ==
  /\ update = [u \in Updates |-> update[u]]
  /\ \A u \in Updates : Working(u) =>
       /\ update[u] = [step |-> update[u].step, text |-> update[u].text]
       /\ u \in update[u].text.ups

OneAtATime ==
  \A u \in Updates : Working(u) =>
    \A v \in Updates : v < u => update[v].step \in {"done", "failed"}

FileHasUpdates ==
  \A u \in Updates : HasWritten(u) /\ u \notin overwritten /\ ~Writing => u \in conf.ups

TextHasUpdates ==
  \A u, v \in Updates :
    HasWritten(u) /\ u \notin overwritten /\ update[v].step \in {"truncate", "fill"}
      => u \in update[v].text.ups

KeptInv == TasksSound /\ OneAtATime /\ FileHasUpdates /\ TextHasUpdates

(* Two updates never work on the file at a time.                           *)
LEMMA AloneAtWork ==
  ASSUME KeptInv, NEW u \in Updates, Working(u), NEW v \in Updates, Working(v)
  PROVE  v = u
<1>1. u \in Nat /\ v \in Nat
  BY ConfigAssumption
<1>2. ~(v < u) /\ ~(u < v)
  BY DEF KeptInv, OneAtATime, Working
<1> QED
  BY <1>1, <1>2

LEMMA NextIsAlone ==
  ASSUME KeptInv, NEW u \in Updates, IsNext(u), update[u].step = "queued", NEW v \in Updates
  PROVE  ~Working(v)
<1>1. u \in Nat /\ v \in Nat
  BY ConfigAssumption
<1>2. CASE v < u
  BY <1>2 DEF Working, IsNext
<1>3. CASE u < v
  BY <1>3 DEF KeptInv, OneAtATime, Working
<1> QED
  BY <1>1, <1>2, <1>3 DEF Working

(* The steps that change neither the file nor a task.                      *)
LEMMA OtherKeepsUpdates ==
  ASSUME KeptInv, UNCHANGED <<conf, update, overwritten>>
  PROVE  KeptInv'
  BY DEF KeptInv, TasksSound, OneAtATime, FileHasUpdates, TextHasUpdates, Working, HasWritten,
         Writing

(* The file is replaced: what it does not have any more was overwritten.   *)
LEMMA OverwriteKeepsUpdates ==
  ASSUME KeptInv, NEW c, Overwritten(c), UNCHANGED update
  PROVE  KeptInv'
  BY DEF KeptInv, TasksSound, OneAtATime, FileHasUpdates, TextHasUpdates, Working, HasWritten,
         Writing, Overwritten

LEMMA EnqueueKeepsUpdates ==
  ASSUME KeptInv, NEW u \in Updates, Enqueue(u)
  PROVE  KeptInv'
<1>1. \A v \in Updates : update'[v] = IF v = u THEN [step |-> "queued"] ELSE update[v]
  BY DEF Enqueue, KeptInv, TasksSound
<1>2. UNCHANGED <<conf, overwritten>>
  BY DEF Enqueue, ghostVars
<1>3. update[u].step = "none"
  BY DEF Enqueue
<1>4. TasksSound'
  BY <1>1 DEF Enqueue, KeptInv, TasksSound, Working
<1>5. OneAtATime'
  BY <1>1, <1>3 DEF KeptInv, OneAtATime, Working
<1>6. FileHasUpdates' /\ TextHasUpdates'
  BY <1>1, <1>2, <1>3 DEF KeptInv, FileHasUpdates, TextHasUpdates, HasWritten, Writing
<1> QED
  BY <1>4, <1>5, <1>6 DEF KeptInv

(* An update loads the file: no other one is writing it.                   *)
LEMMA LoadKeepsUpdates ==
  ASSUME KeptInv, NEW u \in Updates, UpdateLoad(u)
  PROVE  KeptInv'
<1> DEFINE old == IF conf = Missing THEN InitialSettings ELSE conf
           written == Content(old.ups \cup {u}, old.by, IF old.form = "empty" THEN "ok" ELSE old.form)
<1>1. /\ update' \in {[update EXCEPT ![u] = [step |-> "failed"]],
                      [update EXCEPT ![u] = [step |-> "truncate", text |-> written]]}
      /\ update[u].step = "queued" /\ IsNext(u) /\ UNCHANGED <<conf, overwritten>>
  BY DEF UpdateLoad, ghostVars
<1>2. /\ \A v \in Updates \ {u} : update'[v] = update[v]
      /\ update'[u] \in {[step |-> "failed"], [step |-> "truncate", text |-> written]}
      /\ update' = [v \in Updates |-> update'[v]]
  BY <1>1 DEF KeptInv, TasksSound
<1>3. conf.ups \subseteq written.ups /\ u \in written.ups
  BY DEF Content, Missing, InitialSettings
<1>4. ~Writing
  BY <1>1, NextIsAlone DEF Writing, Working
<1>5. TasksSound'
  BY <1>1, <1>2, <1>3 DEF KeptInv, TasksSound, Working
<1>6. OneAtATime'
  BY <1>1, <1>2, NextIsAlone DEF KeptInv, OneAtATime, Working, IsNext
<1>7. FileHasUpdates'
  BY <1>1, <1>2, <1>4 DEF KeptInv, FileHasUpdates, HasWritten
<1>8. TextHasUpdates'
  <2>1. ASSUME NEW w \in Updates, HasWritten(w)', w \notin overwritten
        PROVE  HasWritten(w) /\ w \in written.ups
    <3>1. w # u /\ HasWritten(w)
      BY <1>2, <2>1 DEF HasWritten
    <3>2. w \in conf.ups
      BY <1>4, <2>1, <3>1 DEF KeptInv, FileHasUpdates
    <3> QED
      BY <1>3, <3>1, <3>2
  <2>2. ASSUME NEW w \in Updates, HasWritten(w)', w \notin overwritten,
               NEW v \in Updates, update'[v].step \in {"truncate", "fill"}
        PROVE  w \in update'[v].text.ups
    <3>1. CASE v = u
      <4>1. update'[u] = [step |-> "truncate", text |-> written]
        BY <1>2, <2>2, <3>1
      <4> HIDE DEF written
      <4> QED
        BY <2>1, <2>2, <3>1, <4>1
    <3>2. CASE v # u
      BY <1>2, <2>1, <2>2, <3>2 DEF KeptInv, TextHasUpdates
    <3> QED
      BY <3>1, <3>2
  <2> QED
    BY <1>1, <2>2 DEF TextHasUpdates
<1> QED
  BY <1>5, <1>6, <1>7, <1>8 DEF KeptInv

(* It truncates the file, and writes its text.                             *)
LEMMA WriteKeepsUpdates ==
  ASSUME KeptInv, NEW u \in Updates, UpdateTruncate(u) \/ UpdateFill(u)
  PROVE  KeptInv'
<1> DEFINE next == IF update[u].step = "truncate" THEN "fill" ELSE "set"
<1>1. /\ \A v \in Updates \ {u} : update'[v] = update[v] /\ ~Working(v)
      /\ update'[u] = [step |-> next, text |-> update[u].text]
      /\ update' = [v \in Updates |-> update'[v]]
      /\ Working(u) /\ UNCHANGED overwritten
  <2>1. Working(u)
    BY DEF UpdateTruncate, UpdateFill, Working
  <2>2. update' = [update EXCEPT ![u] = [step |-> next, text |-> @.text]]
        /\ UNCHANGED overwritten
    BY DEF UpdateTruncate, UpdateFill
  <2>3. update = [v \in Updates |-> update[v]]
    BY DEF KeptInv, TasksSound
  <2>4. ASSUME NEW v \in Updates, v # u
        PROVE  ~Working(v)
    BY <2>1, <2>4, AloneAtWork
  <2> QED
    BY <2>1, <2>2, <2>3, <2>4
<1>2. TasksSound' /\ OneAtATime'
  BY <1>1 DEF KeptInv, TasksSound, OneAtATime, Working
<1>3. FileHasUpdates'
  BY <1>1 DEF KeptInv, TasksSound, FileHasUpdates, TextHasUpdates, HasWritten, Writing, Working,
              UpdateTruncate, UpdateFill
<1>4. TextHasUpdates'
  BY <1>1 DEF KeptInv, TextHasUpdates, HasWritten, Working, UpdateTruncate, UpdateFill
<1> QED
  BY <1>2, <1>3, <1>4 DEF KeptInv

(* It ends.                                                                *)
LEMMA EndKeepsUpdates ==
  ASSUME KeptInv, NEW u \in Updates, UpdateFail(u) \/ UpdateSet(u)
  PROVE  KeptInv'
<1>1. /\ \A v \in Updates \ {u} : update'[v] = update[v]
      /\ update'[u] = [step |-> IF UpdateFail(u) THEN "failed" ELSE "done"]
      /\ update' = [v \in Updates |-> update'[v]]
  BY DEF UpdateFail, UpdateSet, KeptInv, TasksSound
<1>2. \/ /\ update[u].step = IF UpdateFail(u) THEN "truncate" ELSE "set"
         /\ UNCHANGED <<conf, overwritten>>
      \/ /\ UpdateFail(u) /\ update[u].step = "fill"
         /\ overwritten' = overwritten \cup {v \in Updates : HasWritten(v)}
  BY DEF UpdateFail, UpdateSet, ghostVars
<1>3. TasksSound' /\ OneAtATime'
  BY <1>1, <1>2 DEF KeptInv, TasksSound, OneAtATime, Working
<1>4. FileHasUpdates' /\ TextHasUpdates'
  BY <1>1, <1>2 DEF KeptInv, FileHasUpdates, TextHasUpdates, HasWritten, Writing
<1> QED
  BY <1>3, <1>4 DEF KeptInv

LEMMA KeptInit ==
  ASSUME FollowingInit
  PROVE  KeptInv
  BY DEF FollowingInit, FileInit, KeptInv, TasksSound, OneAtATime, FileHasUpdates, TextHasUpdates,
         Working, HasWritten, NoTask

LEMMA KeptStep ==
  ASSUME KeptInv, [FollowingNext]_allVars
  PROVE  KeptInv'
<1>1. CASE FileNext
  <2>1. CASE ForeignChange \/ MigrationWrite
    BY <2>1, OverwriteKeepsUpdates DEF ForeignChange, MigrationWrite, taskVars
  <2>2. CASE \/ ReaderStep \/ Apply \/ SetActivePaneItem \/ KeymapChanged \/ ShouldMigrate
             \/ MigrationLoad
    BY <2>2, OtherKeepsUpdates DEF ReaderStep, ReaderWatch, ReaderLoad, ReaderNext, ReaderReload,
                                   Apply, SetActivePaneItem, KeymapChanged, ShouldMigrate,
                                   MigrationLoad, taskVars, ghostVars
  <2>3. ASSUME NEW u \in Updates, Enqueue(u) \/ UpdateStep(u)
        PROVE  KeptInv'
    BY <2>3, EnqueueKeepsUpdates, LoadKeepsUpdates, WriteKeepsUpdates, EndKeepsUpdates
       DEF UpdateStep
  <2> QED
    BY <1>1, <2>1, <2>2, <2>3 DEF FileNext
<1>2. CASE UNCHANGED configVars
  BY <1>2, OtherKeepsUpdates DEF configVars, taskVars, ghostVars
<1>3. CASE \/ WatchStep /\ UNCHANGED configVars
           \/ BufferFileChange \/ ScanBatch \/ ScanRequest \/ BufferTasks
  BY <1>2, <1>3 DEF FollowingNext, BufferFileChange, ScanBatch, ScanRequest, BufferTasks, fileVars
<1> QED
  BY <1>1, <1>2, <1>3 DEF FollowingNext, allVars, fileVars

(* An update of the settings that ended well stays in the file, as long as *)
(* no other program and no migration overwrites it, and no later update's  *)
(* write fails after it has emptied the file: whatever fails before that,  *)
(* and however many are asked for at once.                                 *)
THEOREM NoUpdateIsLost == FollowingSpec => []UpdatesAreKept
<1>1. KeptInv => UpdatesAreKept
  BY DEF KeptInv, FileHasUpdates, UpdatesAreKept, HasWritten
<1> QED
  BY <1>1, KeptInit, KeptStep, PTL DEF FollowingSpec
-----------------------------------------------------------------------------
(***************************************************************************)
(* The buffer of the composition is the one of Buffer: the watcher and the *)
(* worktree's scanner decide when its file is looked at, and do nothing to *)
(* it that Buffer does not.                                                *)
(***************************************************************************)
LEMMA BufferStarts == FollowingInit => B!Init
BY DEF FollowingInit

LEMMA BufferSteps == [FollowingNext]_allVars => [B!Next]_(B!vars)
<1> SUFFICES ASSUME [FollowingNext]_allVars PROVE B!Next \/ UNCHANGED B!vars
  OBVIOUS
<1>1. UNCHANGED bufferVars => UNCHANGED B!vars
  BY DEF bufferVars, B!vars, B!diskVars, B!viewVars, B!textVars, B!savedVars, B!ghostVars
<1>2. CASE \/ WatchStep /\ UNCHANGED <<configVars, bufferVars>>
           \/ FileNext /\ UNCHANGED bufferVars
           \/ UNCHANGED allVars
  BY <1>1, <1>2 DEF allVars
<1>3. CASE BufferFileChange
  BY <1>3 DEF BufferFileChange, B!Next
<1>4. CASE ScanBatch \/ ScanRequest
  BY <1>1, <1>4 DEF ScanBatch, ScanRequest, B!Next
<1>5. CASE BufferTasks
  BY <1>5 DEF BufferTasks, B!Next
<1> QED BY <1>2, <1>3, <1>4, <1>5 DEF FollowingNext

(* Every step of the system with the watcher is a step of the buffer, or   *)
(* none of its own (process_events of worktree.rs, worktree_entry_changed  *)
(* of buffer_store.rs).                                                    *)
THEOREM FollowingImplementsBuffer == FollowingSpec => B!Spec
BY BufferStarts, BufferSteps, PTL DEF FollowingSpec, B!Spec
===============================================================================
