----------------------- MODULE WorktreeScanner_proofs -----------------------
(***************************************************************************)
(* Theorems about the background scanner of a worktree, for any tree, any  *)
(* workers and clients and any number of changes of the disk: a finished   *)
(* scan is complete, a listener that applies what it is told knows the     *)
(* snapshot, and the idle scanner answers a refresh with what the disk     *)
(* held at some moment since the task asked.                               *)
(***************************************************************************)
EXTENDS WorktreeScanner, FiniteSetTheorems, TLAPS

-----------------------------------------------------------------------------
(***************************************************************************)
(* Recursion and finite sets.  A set of numbers that holds 0 and the       *)
(* successor of each of its members holds all, by the least initial        *)
(* segment that would be missing.                                          *)
(***************************************************************************)
LEMMA SetInduction ==
  ASSUME NEW S, 0 \in S, \A n \in Nat : n \in S => n + 1 \in S
  PROVE  Nat \subseteq S
<1> SUFFICES ASSUME Nat \ S # {} PROVE FALSE
  OBVIOUS
<1> DEFINE segments == {0 .. n : n \in Nat \ S}
<1>1. \E X \in segments :
        \A Y \in segments : ~(<<Y, X>> \in StrictSubsetOrdering(Nat))
  <2>1. \A X \in segments : X \in SUBSET Nat /\ IsFiniteSet(X)
    <3>1. ASSUME NEW n \in Nat PROVE (0 .. n) \in SUBSET Nat /\ IsFiniteSet(0 .. n)
      BY FS_Interval
    <3> QED
      BY <3>1
  <2>2. segments \subseteq FiniteSubsetsOf(Nat)
    BY <2>1 DEF FiniteSubsetsOf
  <2>3. segments # {}
    OBVIOUS
  <2> HIDE DEF segments
  <2>4. IsWellFoundedOn(StrictSubsetOrdering(Nat), FiniteSubsetsOf(Nat))
    BY FS_StrictSubsetOrderingWellFounded
  <2> QED
    BY <2>2, <2>3, <2>4, WFMin
<1>2. PICK x \in Nat \ S :
        \A y \in Nat \ S : ~(<<0 .. y, 0 .. x>> \in StrictSubsetOrdering(Nat))
  BY <1>1
<1>3. x # 0 /\ x - 1 \in Nat
  OBVIOUS
<1>4. <<0 .. x - 1, 0 .. x>> \in StrictSubsetOrdering(Nat)
  <2>1. (0 .. x - 1) \subseteq (0 .. x) /\ (0 .. x - 1) # (0 .. x) /\ (0 .. x) \subseteq Nat
    BY <1>3
  <2> QED
    BY <2>1 DEF StrictSubsetOrdering
<1>5. x - 1 \in S
  BY <1>2, <1>3, <1>4
<1>6. (x - 1) + 1 \in S
  BY <1>3, <1>5
<1> QED
  BY <1>6

(* A function is defined by recursion over the numbers up to a bound. *)
Recursive(f, base, step, bound) ==
  \A n \in 0 .. bound : f[n] = IF n = 0 THEN base ELSE step[<<n, f[n - 1]>>]

LEMMA RecursionExists ==
  ASSUME NEW S, NEW base \in S, NEW step \in [Nat \X S -> S], NEW bound \in Nat
  PROVE  \E f \in [0 .. bound -> S] : Recursive(f, base, step, bound)
<1> DEFINE Fits(n, f) == \A k \in 0 .. n : f[k] = IF k = 0 THEN base ELSE step[<<k, f[k - 1]>>]
           Some(n) == \E f \in [0 .. n -> S] : Fits(n, f)
           N == {n \in Nat : Some(n)}
<1>1. 0 \in N
  <2> DEFINE f == [k \in 0 .. 0 |-> base]
  <2>1. f \in [0 .. 0 -> S] /\ Fits(0, f)
    OBVIOUS
  <2> QED
    BY <2>1
<1>2. ASSUME NEW n \in Nat, n \in N PROVE n + 1 \in N
  <2>1. PICK f \in [0 .. n -> S] : Fits(n, f)
    BY <1>2
  <2> DEFINE next == step[<<n + 1, f[n]>>]
             g == [k \in 0 .. n + 1 |-> IF k = n + 1 THEN next ELSE f[k]]
  <2>2. next \in S
    OBVIOUS
  <2> HIDE DEF next
  <2>3. g \in [0 .. n + 1 -> S]
    BY <2>2
  <2>4. ASSUME NEW k \in 0 .. n + 1
        PROVE  g[k] = IF k = 0 THEN base ELSE step[<<k, g[k - 1]>>]
    <3>1. CASE k = n + 1
      <4>1. g[k] = next /\ g[k - 1] = f[n] /\ k # 0 /\ k - 1 = n
        BY <3>1
      <4> HIDE DEF g
      <4> QED
        BY <3>1, <4>1 DEF next
    <3>2. CASE k # n + 1
      <4>1. k \in 0 .. n /\ g[k] = f[k] /\ (k # 0 => g[k - 1] = f[k - 1])
        BY <3>2
      <4>2. f[k] = IF k = 0 THEN base ELSE step[<<k, f[k - 1]>>]
        BY <2>1, <4>1
      <4> HIDE DEF g
      <4> QED
        BY <4>1, <4>2
    <3> QED
      BY <3>1, <3>2
  <2>5. Fits(n + 1, g)
    BY <2>4
  <2> HIDE DEF g, Fits
  <2> QED
    BY <2>3, <2>5
<1>3. Nat \subseteq N
  <2> HIDE DEF N
  <2> QED
    BY <1>1, <1>2, SetInduction
<1> QED
  BY <1>3 DEF Recursive

(* In a finite set whose members bear numbers one bears the largest. *)
LEMMA LargestOf ==
  ASSUME NEW Q, IsFiniteSet(Q), Q # {}, NEW num \in [Q -> Nat]
  PROVE  \E q \in Q : \A r \in Q : num[q] >= num[r]
<1> DEFINE Above(r) == {q \in Q : num[q] > num[r]}
           family == {Above(r) : r \in Q}
<1>1. \A X \in family : X \in SUBSET Q /\ IsFiniteSet(X)
  <2>1. ASSUME NEW r \in Q PROVE Above(r) \in SUBSET Q /\ IsFiniteSet(Above(r))
    BY FS_Subset
  <2> TAKE X \in family
  <2>2. PICK r \in Q : X = Above(r)
    OBVIOUS
  <2> HIDE DEF Above
  <2> QED
    BY <2>1, <2>2
<1>2. family \subseteq FiniteSubsetsOf(Q) /\ family # {}
  <2>1. PICK r : r \in Q
    OBVIOUS
  <2>2. Above(r) \in family
    BY <2>1
  <2> HIDE DEF family
  <2> QED
    BY <1>1, <2>2 DEF FiniteSubsetsOf
<1>3. PICK X \in family : \A Y \in family : ~(<<Y, X>> \in StrictSubsetOrdering(Q))
  <2> HIDE DEF family
  <2>1. IsWellFoundedOn(StrictSubsetOrdering(Q), FiniteSubsetsOf(Q))
    BY FS_StrictSubsetOrderingWellFounded
  <2> QED
    BY <1>2, <2>1, WFMin
<1>4. PICK r \in Q : X = Above(r)
  BY <1>3
<1>5. ASSUME NEW q \in Q, num[q] > num[r] PROVE FALSE
  <2>1. Above(q) \in family
    OBVIOUS
  <2>2. Above(q) \subseteq X
    BY <1>4, <1>5
  <2>3. q \in X /\ q \notin Above(q)
    BY <1>4, <1>5
  <2>4. <<Above(q), X>> \in StrictSubsetOrdering(Q)
    BY <1>1, <2>1, <2>2, <2>3 DEF StrictSubsetOrdering
  <2> QED
    BY <1>3, <2>1, <2>4
<1> QED
  BY <1>5

-----------------------------------------------------------------------------
(* What the variables range over. *)

File == FileState \cup {None}
Snapshot == [Paths -> Entry \cup {None}]
Ignore == [rule : BOOLEAN, needsUpdate : BOOLEAN] \cup {None}

(* The paths of the tree in their order, each once. *)
LEMMA EachPathOnce ==
  ASSUME NEW p \in Paths
  PROVE  /\ Rank[p] + 1 \in 1 .. Cardinality(Paths)
         /\ AllInOrder[Rank[p] + 1] = p
<1>1. Cardinality(Paths) \in Nat /\ Rank[p] \in 0 .. Cardinality(Paths) - 1
  BY RankAssumption, FS_CardinalityType
<1>2. Rank[p] + 1 \in 1 .. Cardinality(Paths)
  BY <1>1
<1>3. AllInOrder[Rank[p] + 1] = CHOOSE q \in Paths : Rank[q] = (Rank[p] + 1) - 1
  BY <1>2 DEF AllInOrder
<1>4. (Rank[p] + 1) - 1 = Rank[p]
  BY <1>1
<1> DEFINE q == CHOOSE q \in Paths : Rank[q] = (Rank[p] + 1) - 1
<1>5. q \in Paths /\ Rank[q] = Rank[p]
  BY <1>4
<1>6. q = p
  BY <1>5, RankAssumption
<1> QED
  BY <1>2, <1>3, <1>6

(* A listing of a set of paths is a sequence of its members. *)
LEMMA InOrderType ==
  ASSUME NEW T \in SUBSET Paths
  PROVE  InOrder(T) \in Seq(T)
<1> DEFINE bound == Cardinality(Paths)
           step == [x \in Nat \X Seq(T) |->
                      IF AllInOrder[x[1]] \in T THEN Append(x[2], AllInOrder[x[1]]) ELSE x[2]]
           Listed(f) == f = [n \in 0 .. bound |->
                               IF n = 0 THEN <<>>
                               ELSE IF AllInOrder[n] \in T THEN Append(f[n - 1], AllInOrder[n])
                               ELSE f[n - 1]]
           f == CHOOSE f : Listed(f)
<1>1. bound \in Nat
  BY RankAssumption, FS_CardinalityType
<1>2. step \in [Nat \X Seq(T) -> Seq(T)]
  OBVIOUS
<1>3. \E g : Listed(g)
  <2>0. <<>> \in Seq(T)
    OBVIOUS
  <2> HIDE DEF step, bound
  <2>1. PICK g \in [0 .. bound -> Seq(T)] : Recursive(g, <<>>, step, bound)
    BY <1>1, <1>2, <2>0, RecursionExists
  <2>2. ASSUME NEW n \in 0 .. bound, n # 0
        PROVE  step[<<n, g[n - 1]>>] =
                 IF AllInOrder[n] \in T THEN Append(g[n - 1], AllInOrder[n]) ELSE g[n - 1]
    <3>1. n \in Nat /\ n - 1 \in 0 .. bound
      BY <1>1, <2>2
    <3>2. <<n, g[n - 1]>> \in Nat \X Seq(T)
      BY <3>1
    <3> QED
      BY <3>2 DEF step
  <2>3. g = [n \in 0 .. bound |-> g[n]]
    OBVIOUS
  <2>4. Listed(g)
    BY <2>1, <2>2, <2>3 DEF Recursive
  <2> QED
    BY <2>4
<1>4. Listed(f) /\ InOrder(T) = f[bound]
  BY <1>3 DEF InOrder
<1> HIDE DEF f
<1> DEFINE S == {n \in Nat : n <= bound => f[n] \in Seq(T)}
<1>5. 0 \in S
  BY <1>1, <1>4
<1>6. ASSUME NEW n \in Nat, n \in S PROVE n + 1 \in S
  <2> SUFFICES ASSUME n + 1 <= bound PROVE f[n + 1] \in Seq(T)
    OBVIOUS
  <2>1. f[n] \in Seq(T)
    BY <1>1, <1>6
  <2>2. n + 1 \in 0 .. bound /\ n + 1 # 0 /\ (n + 1) - 1 = n
    BY <1>1
  <2>3. f[n + 1] = IF AllInOrder[n + 1] \in T THEN Append(f[n], AllInOrder[n + 1]) ELSE f[n]
    BY <1>4, <2>2
  <2> QED
    BY <2>1, <2>3
<1>7. Nat \subseteq S
  <2> HIDE DEF S
  <2> QED
    BY <1>5, <1>6, SetInduction
<1> QED
  BY <1>1, <1>4, <1>7
-----------------------------------------------------------------------------
(* The operations on the record behind the mutex: they keep its types, and *)
(* the scan's numbers and list of changed paths are left alone but where   *)
(* they are meant to change.                                               *)

SameScan(st2, st) ==
  st2.scanId = st.scanId /\ st2.completedId = st.completedId /\ st2.changed = st.changed

LEMMA RankType ==
  ASSUME NEW p \in Paths PROVE Rank[p] \in Nat /\ Cardinality(Paths) \in Nat
BY RankAssumption, FS_CardinalityType

(* Removing a path takes it and all below it out of the index. *)
LEMMA RemovePathKeeps ==
  ASSUME NEW st \in ScannerState, NEW p
  PROVE  /\ RemovePath(st, p) \in ScannerState /\ SameScan(RemovePath(st, p), st)
         /\ \A q \in Paths :
              RemovePath(st, p).paths[q] = IF q \in Under(p) THEN None ELSE st.paths[q]
<1> DEFINE gone == Gone(st, p)
           paths == [q \in Paths |-> IF q \in gone THEN None ELSE st.paths[q]]
           At(i) == {q \in gone : st.paths[q].inode = i}
           Latest(i) == CHOOSE q \in At(i) : \A r \in At(i) : st.paths[q].id >= st.paths[r].id
           Remember(i) == LET q == Latest(i) IN
             IF st.removed[i] # None /\ st.removed[i].id >= st.paths[q].id
             THEN st.removed[i]
             ELSE [id |-> st.paths[q].id, mtime |-> st.paths[q].mtime, path |-> q]
           removed == [i \in Inodes |-> IF At(i) = {} THEN st.removed[i] ELSE Remember(i)]
           ids == {pair \in st.ids : pair[1] \notin {st.paths[q].id : q \in gone}}
           ignore == IF Gitignore \in gone /\ st.ignore # None
                     THEN [st.ignore EXCEPT !.needsUpdate = TRUE] ELSE st.ignore
           kept == [st EXCEPT !.paths = paths, !.ids = ids, !.removed = removed, !.ignore = ignore]
<1>1. RemovePath(st, p) = kept
  BY DEF RemovePath
<1>2. \A q \in gone : q \in Paths /\ st.paths[q] \in Entry
  BY DEF Gone, Under, ScannerState
<1>3. paths \in [Paths -> Entry \cup {None}]
  BY DEF ScannerState
<1>4. \A q \in Paths : paths[q] = IF q \in Under(p) THEN None ELSE st.paths[q]
  BY DEF Gone
<1>5. removed \in [Inodes -> RemovedEntry \cup {None}]
  <2>1. ASSUME NEW i \in Inodes, At(i) # {} PROVE Remember(i) \in RemovedEntry \cup {None}
    <3> DEFINE num == [q \in At(i) |-> st.paths[q].id]
    <3>1. num \in [At(i) -> Nat]
      BY <1>2 DEF Entry
    <3>2. IsFiniteSet(At(i))
      BY <1>2, RankAssumption, FS_Subset
    <3>3. \E q \in At(i) : \A r \in At(i) : num[q] >= num[r]
      <4> HIDE DEF num, At
      <4> QED
        BY <2>1, <3>1, <3>2, LargestOf
    <3>4. Latest(i) \in At(i)
      BY <3>3
    <3>5. Latest(i) \in gone
      BY <3>4
    <3> HIDE DEF Latest, gone
    <3> QED
      BY <1>2, <3>5 DEF ScannerState, RemovedEntry, Entry
  <2> HIDE DEF At, Remember
  <2> QED
    BY <2>1 DEF ScannerState
<1>6. ids \in SUBSET (Nat \X Paths)
  BY DEF ScannerState
<1>7. ignore \in Ignore
  BY DEF ScannerState, Ignore
<1> HIDE DEF paths, removed, ids, ignore
<1>8. kept \in ScannerState /\ SameScan(kept, st) /\ kept.paths = paths
  BY <1>3, <1>5, <1>6, <1>7 DEF ScannerState, SameScan, Ignore
<1> QED
  BY <1>1, <1>4, <1>8
LEMMA VerdictType ==
  ASSUME NEW rule, NEW p PROVE IsIgnored(rule, p) \in BOOLEAN
BY DEF IsIgnored

LEMMA EntryIdType ==
  ASSUME NEW st \in ScannerState, NEW p \in Paths, NEW file \in FileState
  PROVE  EntryIdFor(st, p, file) \in Nat
<1>1. st.nextId + Rank[p] \in Nat
  BY RankType DEF ScannerState
<1>2. st.removed[file.inode] \in RemovedEntry \cup {None}
  BY DEF ScannerState, FileState
<1>3. st.paths[p] \in Entry \cup {None}
  BY DEF ScannerState
<1> QED
  BY <1>1, <1>2, <1>3 DEF EntryIdFor, RemovedEntry, Entry

LEMMA DrawIdsKeeps ==
  ASSUME NEW st \in ScannerState, NEW used
  PROVE  /\ DrawIds(st, used) \in ScannerState /\ SameScan(DrawIds(st, used), st)
         /\ DrawIds(st, used).paths = st.paths
<1> DEFINE next == IF \A id \in used : id < st.nextId THEN st.nextId
                   ELSE st.nextId + Cardinality(Paths)
<1>1. next \in Nat
  BY RankAssumption, FS_CardinalityType DEF ScannerState
<1>2. DrawIds(st, used) = [st EXCEPT !.nextId = next]
  BY DEF DrawIds
<1> HIDE DEF next
<1> QED
  BY <1>1, <1>2 DEF ScannerState, SameScan

(* Inserting an entry changes the index at its path only, and records what *)
(* the disk holds there.                                                   *)
LEMMA InsertEntryKeeps ==
  ASSUME NEW st \in ScannerState, NEW p \in Paths, NEW entry \in Entry, NEW rule \in BOOLEAN \cup {None}
  PROVE  LET new == InsertEntry(st, p, entry, rule) IN
           /\ new \in ScannerState /\ SameScan(new, st)
           /\ \A q \in Paths \ {p} : new.paths[q] = st.paths[q]
           /\ new.paths[p] \in Entry
           /\ new.paths[p].inode = entry.inode /\ new.paths[p].mtime = entry.mtime
<1> DEFINE old == st.paths[p]
           kept == IF entry.kind = "PendingDir" /\ old # None
                   THEN [entry EXCEPT !.kind = old.kind] ELSE entry
           paths == [st.paths EXCEPT ![p] = kept]
           ids == ReplaceId(IdsWithoutReplaced(st, p, entry), entry.id, p)
           removed == ForgetInodes(st.removed, {entry.inode})
           ignore == IF p = Gitignore /\ rule # None
                     THEN [rule |-> rule, needsUpdate |-> TRUE] ELSE st.ignore
           new == [st EXCEPT !.paths = paths, !.ids = ids, !.removed = removed, !.ignore = ignore]
<1>1. InsertEntry(st, p, entry, rule) = new
  BY DEF InsertEntry
<1>2. kept \in Entry /\ kept.inode = entry.inode /\ kept.mtime = entry.mtime
  BY DEF ScannerState, Entry
<1>3. /\ paths \in [Paths -> Entry \cup {None}] /\ paths[p] = kept
      /\ \A q \in Paths \ {p} : paths[q] = st.paths[q]
  <2> HIDE DEF kept
  <2> QED
    BY <1>2 DEF ScannerState
<1>4. ids \in SUBSET (Nat \X Paths)
  BY DEF ScannerState, ReplaceId, IdsWithoutReplaced, Entry
<1>5. removed \in [Inodes -> RemovedEntry \cup {None}]
  BY DEF ScannerState, ForgetInodes
<1>6. ignore \in Ignore
  BY DEF ScannerState, Ignore
<1> HIDE DEF paths, ids, removed, ignore, kept
<1>7. new \in ScannerState /\ SameScan(new, st) /\ new.paths = paths
  BY <1>3, <1>4, <1>5, <1>6 DEF ScannerState, SameScan, Ignore
<1> QED
  BY <1>1, <1>2, <1>3, <1>7

LEMMA InsertReloadedKeeps ==
  ASSUME NEW st \in ScannerState, NEW p \in Paths, NEW file \in FileState, NEW recursive,
         NEW rule \in BOOLEAN \cup {None}
  PROVE  LET new == InsertReloaded(st, p, file, recursive, rule) IN
           /\ new \in ScannerState /\ SameScan(new, st)
           /\ \A q \in Paths \ {p} : new.paths[q] = st.paths[q]
           /\ Agrees(new.paths[p], file)
<1> DEFINE entry == [id |-> EntryIdFor(st, p, file),
                     kind |-> IF p \in Dirs THEN "PendingDir" ELSE "File",
                     inode |-> file.inode, mtime |-> file.mtime,
                     ignored |-> IsIgnored(Rule(st), p)]
           deferred == recursive /\ p \in Dirs /\ ~ShouldScan(st, p, entry)
           inserted == IF deferred THEN [entry EXCEPT !.kind = "UnloadedDir"] ELSE entry
           drawn == DrawIds(st, {entry.id})
<1>1. InsertReloaded(st, p, file, recursive, rule) = InsertEntry(drawn, p, inserted, rule)
  BY DEF InsertReloaded
<1>2. entry \in Entry /\ entry.inode = file.inode /\ entry.mtime = file.mtime
  BY EntryIdType, VerdictType DEF Entry, Kind, FileState
<1>3. inserted \in Entry /\ inserted.inode = file.inode /\ inserted.mtime = file.mtime
  <2> HIDE DEF entry, deferred
  <2> QED
    BY <1>2 DEF Entry, Kind
<1>4. drawn \in ScannerState /\ SameScan(drawn, st) /\ drawn.paths = st.paths
  BY DrawIdsKeeps
<1> HIDE DEF inserted, drawn
<1>5. LET new == InsertEntry(drawn, p, inserted, rule) IN
        /\ new \in ScannerState /\ SameScan(new, drawn)
        /\ \A q \in Paths \ {p} : new.paths[q] = drawn.paths[q]
        /\ new.paths[p] \in Entry
        /\ new.paths[p].inode = inserted.inode /\ new.paths[p].mtime = inserted.mtime
  BY <1>3, <1>4, InsertEntryKeeps
<1> QED
  BY <1>1, <1>3, <1>4, <1>5, NoneAssumption DEF SameScan, Agrees
(* A reload removes the paths that are gone and all below them, one after  *)
(* the other ...                                                           *)
LEMMA RemovePathsKeeps ==
  ASSUME NEW st \in ScannerState, NEW gone \in SUBSET Paths
  PROVE  LET new == RemovePaths(st, gone) IN
           /\ new \in ScannerState /\ SameScan(new, st)
           /\ \A q \in Paths :
                new.paths[q] = IF \E p \in gone : q \in Under(p) THEN None ELSE st.paths[q]
<1> DEFINE bound == Cardinality(Paths)
           Advance(n, before) ==
             IF AllInOrder[n] \in gone THEN RemovePath(before, AllInOrder[n]) ELSE before
           step == [x \in Nat \X ScannerState |-> Advance(x[1], x[2])]
           Removed(f) == f = [n \in 0 .. bound |-> IF n = 0 THEN st ELSE Advance(n, f[n - 1])]
           f == CHOOSE f : Removed(f)
<1>1. bound \in Nat
  BY RankAssumption, FS_CardinalityType
<1>2. step \in [Nat \X ScannerState -> ScannerState]
  BY RemovePathKeeps
<1>3. \E g : Removed(g)
  <2> HIDE DEF step, bound
  <2>1. PICK g \in [0 .. bound -> ScannerState] : Recursive(g, st, step, bound)
    BY <1>1, <1>2, RecursionExists
  <2>2. ASSUME NEW n \in 0 .. bound, n # 0
        PROVE  step[<<n, g[n - 1]>>] = Advance(n, g[n - 1])
    <3>1. n \in Nat /\ n - 1 \in 0 .. bound
      BY <1>1, <2>2
    <3>2. <<n, g[n - 1]>> \in Nat \X ScannerState
      BY <3>1
    <3> QED
      BY <3>2 DEF step
  <2>3. g = [n \in 0 .. bound |-> g[n]]
    OBVIOUS
  <2> HIDE DEF Advance
  <2>4. Removed(g)
    BY <2>1, <2>2, <2>3 DEF Recursive
  <2> QED
    BY <2>4
<1>4. Removed(f) /\ RemovePaths(st, gone) = f[bound]
  BY <1>3 DEF RemovePaths
<1> HIDE DEF f
<1> DEFINE Good(n, new) ==
             /\ new \in ScannerState /\ SameScan(new, st)
             /\ \A q \in Paths : new.paths[q] \in {None, st.paths[q]}
             /\ \A q \in Paths : (\A p \in gone : q \notin Under(p)) => new.paths[q] = st.paths[q]
             /\ \A q \in Paths, p \in gone : Rank[p] < n /\ q \in Under(p) => new.paths[q] = None
           S == {n \in Nat : n <= bound => Good(n, f[n])}
<1>5. 0 \in S
  <2>1. f[0] = st
    BY <1>1, <1>4
  <2>2. Good(0, st)
    BY RankType DEF SameScan
  <2> QED
    BY <2>1, <2>2
<1>6. ASSUME NEW n \in Nat, n \in S PROVE n + 1 \in S
  <2> SUFFICES ASSUME n + 1 <= bound PROVE Good(n + 1, f[n + 1])
    OBVIOUS
  <2>1. Good(n, f[n])
    BY <1>1, <1>6
  <2>2. n + 1 \in 0 .. bound /\ n + 1 # 0 /\ (n + 1) - 1 = n
    BY <1>1
  <2>3. f[n + 1] = Advance(n + 1, f[n])
    BY <1>4, <2>2
  <2> HIDE DEF bound
  <2>4. CASE AllInOrder[n + 1] \notin gone
    <3>1. f[n + 1] = f[n]
      BY <2>3, <2>4
    <3>2. \A p \in gone : Rank[p] < n + 1 => Rank[p] < n
      BY <2>4, EachPathOnce, RankType
    <3> QED
      BY <2>1, <3>1, <3>2
  <2>5. CASE AllInOrder[n + 1] \in gone
    <3> DEFINE r == AllInOrder[n + 1]
    <3>1. f[n + 1] = RemovePath(f[n], r)
      BY <2>3, <2>5
    <3>2. /\ RemovePath(f[n], r) \in ScannerState /\ SameScan(RemovePath(f[n], r), f[n])
          /\ \A q \in Paths :
               RemovePath(f[n], r).paths[q] = IF q \in Under(r) THEN None ELSE f[n].paths[q]
      BY <2>1, RemovePathKeeps
    <3>3. \A p \in gone : Rank[p] < n + 1 => Rank[p] < n \/ p = r
      BY EachPathOnce, RankType
    <3> HIDE DEF r
    <3>4. SameScan(f[n + 1], st)
      BY <2>1, <3>1, <3>2 DEF SameScan
    <3>5. r \in gone
      BY <2>5 DEF r
    <3> HIDE DEF Advance
    <3> QED
      BY <2>1, <3>1, <3>2, <3>3, <3>4, <3>5
  <2> QED
    BY <2>4, <2>5
<1>7. Nat \subseteq S
  <2> HIDE DEF S
  <2> QED
    BY <1>5, <1>6, SetInduction
<1>8. Good(bound, f[bound])
  BY <1>1, <1>7
<1>9. \A p \in gone : Rank[p] < bound
  BY RankAssumption, <1>1
<1> QED
  BY <1>4, <1>8, <1>9

(* ... and then inserts those that exist, as the disk has them.            *)
LEMMA InsertPathsKeeps ==
  ASSUME NEW st \in ScannerState, NEW found \in SUBSET Paths, NEW meta,
         \A p \in found : meta[p] \in FileState, NEW recursive, NEW rule \in BOOLEAN \cup {None}
  PROVE  LET new == InsertPaths(st, found, meta, recursive, rule) IN
           /\ new \in ScannerState /\ SameScan(new, st)
           /\ \A q \in Paths \ found : new.paths[q] = st.paths[q]
           /\ \A q \in found : Agrees(new.paths[q], meta[q])
<1> DEFINE bound == Cardinality(Paths)
           Advance(n, before) ==
             IF AllInOrder[n] \in found
             THEN InsertReloaded(before, AllInOrder[n], meta[AllInOrder[n]], recursive, rule)
             ELSE before
           step == [x \in Nat \X ScannerState |-> Advance(x[1], x[2])]
           Inserted(f) == f = [n \in 0 .. bound |-> IF n = 0 THEN st ELSE Advance(n, f[n - 1])]
           f == CHOOSE f : Inserted(f)
<1>1. bound \in Nat
  BY RankAssumption, FS_CardinalityType
<1>2. step \in [Nat \X ScannerState -> ScannerState]
  <2>1. ASSUME NEW x \in Nat \X ScannerState PROVE Advance(x[1], x[2]) \in ScannerState
    <3>1. CASE AllInOrder[x[1]] \in found
      BY <3>1, InsertReloadedKeeps
    <3>2. CASE AllInOrder[x[1]] \notin found
      BY <3>2
    <3> QED
      BY <3>1, <3>2
  <2> HIDE DEF Advance
  <2> QED
    BY <2>1
<1>3. \E g : Inserted(g)
  <2> HIDE DEF step, bound
  <2>1. PICK g \in [0 .. bound -> ScannerState] : Recursive(g, st, step, bound)
    BY <1>1, <1>2, RecursionExists
  <2>2. ASSUME NEW n \in 0 .. bound, n # 0
        PROVE  step[<<n, g[n - 1]>>] = Advance(n, g[n - 1])
    <3>1. n \in Nat /\ n - 1 \in 0 .. bound
      BY <1>1, <2>2
    <3>2. <<n, g[n - 1]>> \in Nat \X ScannerState
      BY <3>1
    <3> QED
      BY <3>2 DEF step
  <2>3. g = [n \in 0 .. bound |-> g[n]]
    OBVIOUS
  <2> HIDE DEF Advance
  <2>4. Inserted(g)
    BY <2>1, <2>2, <2>3 DEF Recursive
  <2> QED
    BY <2>4
<1>4. Inserted(f) /\ InsertPaths(st, found, meta, recursive, rule) = f[bound]
  BY <1>3 DEF InsertPaths
<1> HIDE DEF f
<1> DEFINE Good(n, new) ==
             /\ new \in ScannerState /\ SameScan(new, st)
             /\ \A q \in Paths \ found : new.paths[q] = st.paths[q]
             /\ \A q \in found : Rank[q] < n => Agrees(new.paths[q], meta[q])
           S == {n \in Nat : n <= bound => Good(n, f[n])}
<1>5. 0 \in S
  <2>1. f[0] = st
    BY <1>1, <1>4
  <2>2. Good(0, st)
    BY RankType DEF SameScan
  <2> QED
    BY <2>1, <2>2
<1>6. ASSUME NEW n \in Nat, n \in S PROVE n + 1 \in S
  <2> SUFFICES ASSUME n + 1 <= bound PROVE Good(n + 1, f[n + 1])
    OBVIOUS
  <2>1. Good(n, f[n])
    BY <1>1, <1>6
  <2>2. n + 1 \in 0 .. bound /\ n + 1 # 0 /\ (n + 1) - 1 = n
    BY <1>1
  <2>3. f[n + 1] = Advance(n + 1, f[n])
    BY <1>4, <2>2
  <2> HIDE DEF bound
  <2>4. CASE AllInOrder[n + 1] \notin found
    <3>1. f[n + 1] = f[n]
      BY <2>3, <2>4
    <3>2. \A p \in found : Rank[p] < n + 1 => Rank[p] < n
      BY <2>4, EachPathOnce, RankType
    <3> QED
      BY <2>1, <3>1, <3>2
  <2>5. CASE AllInOrder[n + 1] \in found
    <3> DEFINE r == AllInOrder[n + 1]
               new == InsertReloaded(f[n], r, meta[r], recursive, rule)
    <3>1. f[n + 1] = new
      BY <2>3, <2>5
    <3>2. /\ new \in ScannerState /\ SameScan(new, f[n])
          /\ \A q \in Paths \ {r} : new.paths[q] = f[n].paths[q]
          /\ Agrees(new.paths[r], meta[r])
      BY <2>1, <2>5, InsertReloadedKeeps
    <3>3. \A p \in found : Rank[p] < n + 1 => Rank[p] < n \/ p = r
      BY EachPathOnce, RankType
    <3>4. r \in found
      BY <2>5
    <3> HIDE DEF r, new
    <3>5. SameScan(f[n + 1], st)
      BY <2>1, <3>1, <3>2 DEF SameScan
    <3> HIDE DEF Advance
    <3> QED
      BY <2>1, <3>1, <3>2, <3>3, <3>4, <3>5
  <2> QED
    BY <2>4, <2>5
<1>7. Nat \subseteq S
  <2> HIDE DEF S
  <2> QED
    BY <1>5, <1>6, SetInduction
<1>8. Good(bound, f[bound])
  BY <1>1, <1>7
<1>9. \A p \in found : Rank[p] < bound
  BY RankAssumption, <1>1
<1> QED
  BY <1>4, <1>8, <1>9
(* reload_entries_for_paths changes the index only at and below its paths, *)
(* What a reload does to the index, whether it is recursive or not. *)
Reloaded(new, st, paths, meta) ==
  /\ new \in ScannerState
  /\ new.scanId = st.scanId /\ new.completedId = st.completedId
  /\ new.changed = st.changed \cup paths
  /\ \A q \in Paths : (\A p \in paths : q \notin Under(p)) => new.paths[q] = st.paths[q]
  /\ \A q \in Paths : \/ new.paths[q] \in {None, st.paths[q]}
                      \/ q \in paths /\ Agrees(new.paths[q], meta[q])
  /\ \A p \in paths : Agrees(new.paths[p], meta[p])

(* lists them as changed, and leaves each of them as it was read.          *)
LEMMA ReloadEntriesKeeps ==
  ASSUME NEW st \in ScannerState, NEW paths \in SUBSET Paths, NEW meta \in [Paths -> File],
         NEW recursive \in BOOLEAN, NEW rule \in BOOLEAN \cup {None}
  PROVE  Reloaded(ReloadEntries(st, paths, meta, recursive, rule), st, paths, meta)
<1> DEFINE gone == GoneFrom(paths, meta, recursive)
           removed == RemovePaths(st, gone)
           found == {p \in paths : meta[p] # None}
           inserted == InsertPaths(removed, found, meta, recursive, rule)
           new == [inserted EXCEPT !.changed = @ \cup paths]
<1>1. gone \in SUBSET Paths /\ gone \subseteq paths
  BY DEF GoneFrom
<1>2. /\ removed \in ScannerState /\ SameScan(removed, st)
      /\ \A q \in Paths :
           removed.paths[q] = IF \E p \in gone : q \in Under(p) THEN None ELSE st.paths[q]
  <2> HIDE DEF gone
  <2> QED
    BY <1>1, RemovePathsKeeps
<1>3. found \in SUBSET Paths /\ \A p \in found : meta[p] \in FileState
  BY DEF File
<1>4. /\ inserted \in ScannerState /\ SameScan(inserted, removed)
      /\ \A q \in Paths \ found : inserted.paths[q] = removed.paths[q]
      /\ \A q \in found : Agrees(inserted.paths[q], meta[q])
  <2> DEFINE Exist(given) == \A p \in given : meta[p] \in FileState
  <2>1. \A given \in SUBSET Paths : Exist(given) =>
          LET last == InsertPaths(removed, given, meta, recursive, rule) IN
            /\ last \in ScannerState /\ SameScan(last, removed)
            /\ \A q \in Paths \ given : last.paths[q] = removed.paths[q]
            /\ \A q \in given : Agrees(last.paths[q], meta[q])
    BY <1>2, InsertPathsKeeps
  <2>2. Exist(found)
    BY <1>3
  <2> HIDE DEF removed, found, Exist
  <2> QED
    BY <1>3, <2>1, <2>2
<1>5. ReloadEntries(st, paths, meta, recursive, rule) = new
  BY DEF ReloadEntries
<1>6. \A p \in Paths : p \in Under(p)
  BY TreeAssumption DEF Under
<1>7. \A p \in paths : meta[p] = None => p \in gone
  BY DEF GoneFrom
<1>8. \A p \in gone : ~recursive => meta[p] = None
  BY DEF GoneFrom
<1> HIDE DEF inserted, removed, gone
<1>9. /\ new \in ScannerState /\ new.paths = inserted.paths
      /\ new.scanId = inserted.scanId /\ new.completedId = inserted.completedId
      /\ new.changed = inserted.changed \cup paths
  BY <1>4 DEF ScannerState
<1> HIDE DEF new
<1>10. new.changed = st.changed \cup paths
  BY <1>2, <1>4, <1>9 DEF SameScan
<1>11. \A q \in Paths : (\A p \in paths : q \notin Under(p)) => new.paths[q] = st.paths[q]
  BY <1>1, <1>2, <1>4, <1>6, <1>9
<1>12. \A q \in Paths : \/ new.paths[q] \in {None, st.paths[q]}
                        \/ q \in paths /\ Agrees(new.paths[q], meta[q])
  BY <1>2, <1>4, <1>9
<1>13. \A p \in paths : Agrees(new.paths[p], meta[p])
  <2> TAKE p \in paths
  <2>1. CASE meta[p] = None
    <3>1. p \in gone /\ removed.paths[p] = None
      BY <1>2, <1>6, <1>7, <2>1
    <3>2. new.paths[p] = None
      BY <1>4, <1>9, <2>1, <3>1
    <3> QED
      BY <2>1, <3>2 DEF Agrees
  <2>2. CASE meta[p] # None
    BY <1>4, <1>9, <2>2
  <2> QED
    BY <2>1, <2>2
<1> QED
  BY <1>2, <1>4, <1>5, <1>9, <1>10, <1>11, <1>12, <1>13 DEF SameScan, Reloaded
LEMMA ChildEntryType ==
  ASSUME NEW st \in ScannerState, NEW p \in Paths, NEW file \in FileState, NEW rule
  PROVE  /\ ChildEntry(st, p, file, rule) \in Entry
         /\ Agrees(ChildEntry(st, p, file, rule), file)
<1> DEFINE entry == [id |-> EntryIdFor(st, p, file),
                     kind |-> IF p \in Dirs THEN "PendingDir" ELSE "File",
                     inode |-> file.inode, mtime |-> file.mtime, ignored |-> IsIgnored(rule, p)]
           child == IF p \in Dirs /\ ~ShouldScan(st, p, entry)
                    THEN [entry EXCEPT !.kind = "UnloadedDir"] ELSE entry
<1>1. entry \in Entry /\ entry.inode = file.inode /\ entry.mtime = file.mtime
  BY EntryIdType, VerdictType DEF Entry, Kind, FileState
<1>2. ChildEntry(st, p, file, rule) = child
  BY DEF ChildEntry
<1>3. child \in Entry /\ child.inode = file.inode /\ child.mtime = file.mtime
  <2> HIDE DEF entry
  <2> QED
    BY <1>1 DEF Entry, Kind
<1> HIDE DEF child
<1> QED
  BY <1>2, <1>3, NoneAssumption DEF Agrees

(* populate_dir changes the index at the directory and in it only, and     *)
(* lists the directory as changed.                                         *)
LEMMA PopulateDirKeeps ==
  ASSUME NEW st \in ScannerState, NEW d \in Paths, NEW read \in [Paths -> File], NEW rule,
         NEW newIgnore \in Ignore
  PROVE  LET new == PopulateDir(st, d, read, rule, newIgnore) IN
           /\ new \in ScannerState
           /\ new.scanId = st.scanId /\ new.completedId = st.completedId
           /\ st.changed \subseteq new.changed
           /\ \A q \in Paths : new.paths[q] # st.paths[q] =>
                \E p \in new.changed : q \in Under(p)
           /\ \A q \in Paths :
                \/ \A file : Agrees(st.paths[q], file) => Agrees(new.paths[q], file)
                \/ q \in Children(d) /\ read[q] # None /\ Agrees(new.paths[q], read[q])
<1> DEFINE found == ReadChildren(d, read)
           child == [p \in found |-> ChildEntry(st, p, read[p], rule)]
           counted == DrawIds(st, {child[p].id : p \in found})
           forgotten == ForgetInodes(counted.removed, {read[p].inode : p \in found})
           drawn == [counted EXCEPT !.removed = forgotten]
           loaded == [st.paths[d] EXCEPT !.kind = "Dir"]
           paths == [p \in Paths |-> IF p \in found THEN child[p]
                                     ELSE IF p = d THEN loaded ELSE st.paths[p]]
           ids == {pair \in drawn.ids : \A p \in found : pair[1] # child[p].id}
                    \cup {<<child[p].id, p>> : p \in found}
           scanned == drawn.scannedDirs \cup {st.paths[d].id}
           changed == drawn.changed \cup {d}
           ignore == IF newIgnore # None THEN newIgnore ELSE drawn.ignore
           populated == [drawn EXCEPT !.paths = paths, !.ids = ids, !.scannedDirs = scanned,
                                      !.changed = changed, !.ignore = ignore]
<1>1. PopulateDir(st, d, read, rule, newIgnore) = IF st.paths[d] = None THEN drawn ELSE populated
  BY DEF PopulateDir
<1>2. /\ found \subseteq Paths /\ found \subseteq Children(d)
      /\ \A p \in found : read[p] \in FileState /\ read[p] # None
  BY DEF ReadChildren, Children, File
<1>3. \A p \in found : child[p] \in Entry /\ Agrees(child[p], read[p])
  BY <1>2, ChildEntryType
<1>4. counted \in ScannerState /\ SameScan(counted, st) /\ counted.paths = st.paths
  BY DrawIdsKeeps
<1>5. forgotten \in [Inodes -> RemovedEntry \cup {None}]
  BY <1>4 DEF ForgetInodes, ScannerState
<1> HIDE DEF child, counted, forgotten, found
<1>6. drawn \in ScannerState /\ SameScan(drawn, st) /\ drawn.paths = st.paths
  BY <1>4, <1>5 DEF ScannerState, SameScan
<1> HIDE DEF drawn
<1>7. CASE st.paths[d] = None
  BY <1>1, <1>6, <1>7 DEF SameScan
<1>8. CASE st.paths[d] # None
  <2>1. st.paths[d] \in Entry
    BY <1>8 DEF ScannerState
  <2>2. /\ loaded \in Entry /\ loaded.inode = st.paths[d].inode
        /\ loaded.mtime = st.paths[d].mtime
    BY <2>1 DEF Entry, Kind
  <2> HIDE DEF loaded
  <2>3. paths \in [Paths -> Entry \cup {None}]
    BY <1>3, <2>2 DEF ScannerState
  <2>4. ids \in SUBSET (Nat \X Paths)
    <3>1. {<<child[p].id, p>> : p \in found} \subseteq Nat \X Paths
      BY <1>2, <1>3 DEF Entry
    <3>2. drawn.ids \subseteq Nat \X Paths
      BY <1>6 DEF ScannerState
    <3> QED
      BY <3>1, <3>2
  <2>5. scanned \in SUBSET Nat /\ changed \in SUBSET Paths /\ ignore \in Ignore
    BY <1>6, <2>1 DEF ScannerState, Entry, Ignore
  <2>6. changed = st.changed \cup {d}
    BY <1>6 DEF SameScan
  <2>7. \A q \in Paths : paths[q] # st.paths[q] => q \in found \/ q = d
    OBVIOUS
  <2>8. \A q \in found \cup {d} : q \in Under(d)
    BY <1>2, TreeAssumption DEF Under, Children
  <2>9. \A q \in Paths :
          \/ \A file : Agrees(st.paths[q], file) => Agrees(paths[q], file)
          \/ q \in Children(d) /\ read[q] # None /\ Agrees(paths[q], read[q])
    <3> TAKE q \in Paths
    <3>1. CASE q \in found
      BY <1>2, <1>3, <3>1
    <3>2. CASE q \notin found /\ q = d
      <4>1. paths[q] = loaded
        BY <3>2
      <4> QED
        BY <2>1, <2>2, <3>2, <4>1, NoneAssumption DEF Agrees
    <3>3. CASE q \notin found /\ q # d
      BY <3>3
    <3> QED
      BY <3>1, <3>2, <3>3
  <2> HIDE DEF paths, ids, scanned, changed, ignore
  <2>10. /\ populated \in ScannerState /\ populated.paths = paths
         /\ populated.changed = changed
         /\ populated.scanId = drawn.scanId /\ populated.completedId = drawn.completedId
    BY <1>6, <2>3, <2>4, <2>5 DEF ScannerState, Ignore
  <2> HIDE DEF populated
  <2> QED
    BY <1>1, <1>6, <1>8, <2>6, <2>7, <2>8, <2>9, <2>10 DEF SameScan
<1> QED
  BY <1>7, <1>8
-----------------------------------------------------------------------------
(***************************************************************************)
(* The types of all variables, those of the queues and of what the tasks   *)
(* carry included.                                                         *)
(***************************************************************************)
Job == [path : Paths, rule : BOOLEAN, started : BOOLEAN, read : [Paths -> File],
        newIgnore : Ignore]

(* What waits in a queue has not read its directory. *)
Queued == {queued \in Job : ~queued.started}

Asked == [paths : SUBSET Paths, senders : SUBSET Clients]

Request == [paths : SUBSET Paths, senders : SUBSET Clients, step : {"load", "stat", "report"},
            local : Seq(Queued)]

StateUpdate == [started : {FALSE}, paths : Snapshot, scanId : Nat, completedId : Nat,
                senders : SUBSET Clients, scanning : BOOLEAN, changes : SUBSET Paths]

DiskTypes ==
  /\ disk \in [Paths -> File] /\ diskRule \in BOOLEAN
  /\ fsOps \in 0 .. MaxFsOps /\ events \in Seq(SUBSET Paths)

TaskTypes ==
  /\ phase \in {"initialScan", "idle", "stat", "ignores", "scan"} /\ roots \in SUBSET Paths
  /\ stat \in [Actors -> [Paths -> File]] /\ todo \in [Actors -> SUBSET Paths]
  /\ request \in [Actors -> Request \cup {None}] /\ job \in [Actors -> Job \cup {None}]

QueueTypes ==
  /\ jobs \in Seq(Queued) /\ ignoreJobs \in Seq(Paths)
  /\ ignoreSnap \in [paths : Snapshot, rule : BOOLEAN] /\ requests \in Seq(Asked)

UiTypes ==
  /\ updates \in Seq({Started} \cup StateUpdate)
  /\ ui \in [paths : Snapshot, scanId : Nat, completedId : Nat]
  /\ isScanning \in BOOLEAN /\ mirror \in Snapshot

(* A rename moves a file, which is not the root. *)
ClientTypes ==
  /\ client \in [Clients -> ClientState]
  /\ \A c \in Clients : client[c].op = "Rename" => client[c].path # Root

Types ==
  /\ DiskTypes /\ bg \in ScannerState /\ prev \in Snapshot
  /\ TaskTypes /\ QueueTypes /\ UiTypes /\ ClientTypes

LEMMA TypesImplyTypeOK == Types => TypeOK
BY DEF Types, ClientTypes, DiskTypes, TaskTypes, QueueTypes, UiTypes, TypeOK, File, Snapshot

LEMMA MainIsActor == Main \in Actors /\ Workers \subseteq Actors
BY DEF Actors

LEMMA RuleType == ASSUME NEW st PROVE Rule(st) \in BOOLEAN
BY DEF Rule

LEMMA NewJobType ==
  ASSUME NEW d \in Paths, NEW rule \in BOOLEAN PROVE NewJob(d, rule) \in Queued
BY DEF NewJob, Job, Queued, NoPaths, File, Ignore

LEMMA NewJobsType ==
  ASSUME NEW dirs \in SUBSET Paths, NEW rule \in BOOLEAN PROVE NewJobs(dirs, rule) \in Seq(Queued)
<1> DEFINE order == InOrder(dirs)
           queue == [i \in 1 .. Len(order) |-> NewJob(order[i], rule /\ order[i] # Root)]
<1>1. order \in Seq(Paths)
  BY InOrderType
<1> HIDE DEF order
<1>2. ASSUME NEW i \in 1 .. Len(order) PROVE NewJob(order[i], rule /\ order[i] # Root) \in Queued
  <2>1. order[i] \in Paths /\ (rule /\ order[i] # Root) \in BOOLEAN
    BY <1>1
  <2> QED
    BY <2>1, NewJobType
<1>3. queue \in Seq(Queued)
  <2>1. Len(order) \in Nat
    BY <1>1
  <2> QED
    BY <1>2, <2>1
<1> QED
  BY <1>3 DEF NewJobs, order

LEMMA InitTypes == Init => Types
<1> SUFFICES ASSUME Init PROVE Types
  OBVIOUS
<1>1. disk \in [Paths -> File] /\ disk[Root] \in FileState
  BY TreeAssumption DEF Init, InitialDisks, File, FileState
<1>2. RootEntry \in Entry
  BY <1>1 DEF RootEntry, Entry, Kind, FileState
<1>3. Root \in Paths
  BY TreeAssumption
<1>4. NoPaths \in Snapshot /\ NoPaths \in [Paths -> File]
  BY DEF NoPaths, Snapshot, File
<1> DEFINE paths == [NoPaths EXCEPT ![Root] = RootEntry]
<1>5. paths \in Snapshot
  BY <1>2, <1>3, <1>4 DEF Snapshot
<1>6. DiskTypes
  <2>1. diskRule \in BOOLEAN
    BY DEF Init
  <2>2. fsOps \in 0 .. MaxFsOps /\ events \in Seq(SUBSET Paths)
    BY ActorAssumption DEF Init
  <2> QED
    BY <1>1, <2>1, <2>2 DEF DiskTypes
<1> HIDE DEF paths
<1>7. ui \in [paths : Snapshot, scanId : Nat, completedId : Nat] /\ ui.paths \in Snapshot
  BY <1>5 DEF Init, paths
<1>8. bg \in ScannerState
  BY <1>3, <1>7 DEF Init, ScannerState, Snapshot
<1>9. TaskTypes
  BY <1>4 DEF Init, TaskTypes
<1>10. QueueTypes
  <2>1. NewJob(Root, FALSE) \in Queued
    BY <1>3, NewJobType
  <2>2. jobs \in Seq(Queued)
    <3>1. \A j \in Queued : <<j>> \in Seq(Queued)
      OBVIOUS
    <3> QED
      BY <2>1, <3>1 DEF Init
  <2>3. ignoreSnap \in [paths : Snapshot, rule : BOOLEAN]
    BY <1>4 DEF Init
  <2>4. ignoreJobs \in Seq(Paths) /\ requests \in Seq(Asked)
    BY DEF Init
  <2> QED
    BY <2>2, <2>3, <2>4 DEF QueueTypes
<1>11. UiTypes
  BY <1>7 DEF Init, UiTypes
<1>12. ClientTypes
  BY <1>3 DEF Init, IdleClient, ClientState, ClientOp, ClientTypes
<1> QED
  BY <1>6, <1>7, <1>8, <1>9, <1>10, <1>11, <1>12 DEF Types, Init
(* What happens to clients but for their own steps leaves them what they asked for. *)
SameAsk(cl2, cl) ==
  /\ cl2 \in ClientState
  /\ cl2.op = cl.op /\ cl2.path = cl.path /\ cl2.old = cl.old /\ cl2.refresh = cl.refresh
  /\ cl2.result = cl.result

LEMMA AckedKeeps ==
  ASSUME NEW cl \in [Clients -> ClientState], NEW senders, NEW main \in BOOLEAN, NEW after \in Nat
  PROVE  LET new == Acked(cl, senders, main, after) IN
           /\ new \in [Clients -> ClientState]
           /\ \A c \in Clients : SameAsk(new[c], cl[c]) /\ new[c].seen = cl[c].seen
           /\ \A c \in Clients : c \in senders =>
                new[c].step = "acked" /\ new[c].byMain = main /\ new[c].after = after
           /\ \A c \in Clients : c \notin senders => new[c] = cl[c]
<1> DEFINE told(c) == [cl[c] EXCEPT !.step = "acked", !.byMain = main, !.after = after]
           new == [c \in Clients |-> IF c \in senders THEN told(c) ELSE cl[c]]
<1>1. ASSUME NEW c \in Clients
      PROVE  /\ SameAsk(told(c), cl[c]) /\ told(c).seen = cl[c].seen /\ told(c).step = "acked"
             /\ told(c).byMain = main /\ told(c).after = after
  BY DEF ClientState, SameAsk
<1>2. Acked(cl, senders, main, after) = new
  BY DEF Acked
<1>3. \A c \in Clients : SameAsk(cl[c], cl[c])
  BY DEF SameAsk
<1> HIDE DEF told
<1> QED
  BY <1>1, <1>2, <1>3 DEF SameAsk

LEMMA ClientsSeeKeeps ==
  ASSUME Types, disk' \in [Paths -> File]
  PROVE  /\ ClientsSee \in [Clients -> ClientState]
         /\ \A c \in Clients :
              /\ SameAsk(ClientsSee[c], client[c]) /\ ClientsSee[c].step = client[c].step
              /\ ClientsSee[c].byMain = client[c].byMain /\ ClientsSee[c].after = client[c].after
              /\ ClientsSee[c].seen = IF client[c].step \in {"waiting", "acked"}
                   THEN client[c].seen \cup {disk'[client[c].path]} ELSE client[c].seen
<1> DEFINE sees(c) == [client[c] EXCEPT !.seen = @ \cup {disk'[client[c].path]}]
           see(c) == IF client[c].step \in {"waiting", "acked"} THEN sees(c) ELSE client[c]
<1>1. ASSUME NEW c \in Clients
      PROVE  /\ SameAsk(sees(c), client[c]) /\ sees(c).step = client[c].step
             /\ sees(c).byMain = client[c].byMain /\ sees(c).after = client[c].after
             /\ sees(c).seen = client[c].seen \cup {disk'[client[c].path]}
  BY DEF Types, ClientTypes, ClientState, File, SameAsk
<1>2. \A c \in Clients : SameAsk(client[c], client[c])
  BY DEF SameAsk, Types, ClientTypes
<1> HIDE DEF sees
<1>3. ClientsSee = [c \in Clients |-> see(c)]
  BY DEF ClientsSee, sees
<1>4. \A c \in Clients :
        /\ SameAsk(see(c), client[c]) /\ see(c).step = client[c].step
        /\ see(c).byMain = client[c].byMain /\ see(c).after = client[c].after
        /\ see(c).seen = IF client[c].step \in {"waiting", "acked"}
             THEN client[c].seen \cup {disk'[client[c].path]} ELSE client[c].seen
  BY <1>1, <1>2
<1> HIDE DEF see
<1> QED
  BY <1>3, <1>4 DEF SameAsk

LEMMA ReceivedKeeps ==
  ASSUME Types
  PROVE  /\ Received \in [Clients -> ClientState]
         /\ \A c \in Clients :
              /\ SameAsk(Received[c], client[c]) /\ Received[c].step = client[c].step
              /\ Received[c].byMain = client[c].byMain /\ Received[c].seen = client[c].seen
<1> DEFINE later(c) == [client[c] EXCEPT !.after = @ - 1]
           receive(c) == IF client[c].step = "acked" /\ client[c].after > 0
                         THEN later(c) ELSE client[c]
<1>1. ASSUME NEW c \in Clients, client[c].after > 0
      PROVE  /\ SameAsk(later(c), client[c]) /\ later(c).step = client[c].step
             /\ later(c).byMain = client[c].byMain /\ later(c).seen = client[c].seen
  BY <1>1 DEF Types, ClientTypes, ClientState, SameAsk
<1>2. \A c \in Clients : SameAsk(client[c], client[c])
  BY DEF SameAsk, Types, ClientTypes
<1> HIDE DEF later
<1>3. Received = [c \in Clients |-> receive(c)]
  BY DEF Received, later
<1>4. \A c \in Clients :
        /\ SameAsk(receive(c), client[c]) /\ receive(c).step = client[c].step
        /\ receive(c).byMain = client[c].byMain /\ receive(c).seen = client[c].seen
  BY <1>1, <1>2
<1> HIDE DEF receive
<1> QED
  BY <1>3, <1>4 DEF SameAsk

(* A change of the disk. *)
LEMMA FsChangeTypes ==
  ASSUME Types, NEW p \in Paths, NEW q \in Paths,
         FsCreate(p) \/ FsWrite(p) \/ FsRemove(p) \/ FsRename(p, q)
  PROVE  DiskTypes'
<1>1. ASSUME NEW disk2 \in [Paths -> File], NEW changed \in SUBSET Paths, FsStep(disk2, changed)
      PROVE  /\ disk' \in [Paths -> File] /\ fsOps' \in 0 .. MaxFsOps
             /\ events' \in Seq(SUBSET Paths)
  BY <1>1, ActorAssumption DEF FsStep, Types, DiskTypes
<1>2. diskRule' \in BOOLEAN
  BY DEF FsCreate, FsWrite, FsRemove, FsRename, Types, DiskTypes
<1>3. \E disk2 \in [Paths -> File], changed \in SUBSET Paths : FsStep(disk2, changed)
  <2>1. ASSUME NEW file \in FileState PROVE [disk EXCEPT ![p] = file] \in [Paths -> File]
    BY DEF Types, DiskTypes, File
  <2>2. CASE FsCreate(p)
    <3>1. PICK i \in Inodes : FsStep([disk EXCEPT ![p] = FreshFile(i)], {p})
      BY <2>2 DEF FsCreate
    <3>2. FreshFile(i) \in FileState
      BY ActorAssumption DEF FreshFile, FileState, Types, DiskTypes
    <3> QED
      BY <2>1, <3>1, <3>2
  <2>3. CASE FsWrite(p)
    <3>1. disk[p] \in FileState
      BY <2>3 DEF FsWrite, Types, DiskTypes, File
    <3>2. [disk EXCEPT ![p].mtime = fsOps + 1] = [disk EXCEPT ![p] = [disk[p] EXCEPT !.mtime = fsOps + 1]]
      OBVIOUS
    <3>3. [disk[p] EXCEPT !.mtime = fsOps + 1] \in FileState
      BY <3>1, ActorAssumption DEF FileState, Types, DiskTypes
    <3> QED
      BY <2>1, <2>3, <3>2, <3>3 DEF FsWrite
  <2>4. CASE FsRemove(p)
    BY <2>4 DEF FsRemove, Types, DiskTypes, File
  <2>5. CASE FsRename(p, q)
    BY <2>5 DEF FsRename, Types, DiskTypes, File
  <2> QED
    BY <2>2, <2>3, <2>4, <2>5
<1> QED
  BY <1>1, <1>2, <1>3 DEF DiskTypes
LEMMA StartClientKeeps ==
  ASSUME Types, disk' \in [Paths -> File], NEW c \in Clients, NEW op \in ClientOp,
         NEW p \in Paths, NEW old \in Entry \cup {None}, NEW refresh \in SUBSET Paths,
         StartClient(c, op, p, old, refresh)
  PROVE  /\ client' \in [Clients -> ClientState]
         /\ client'[c].op = op /\ client'[c].path = p /\ client'[c].refresh = refresh
         /\ client'[c].step = "changed" /\ client'[c].seen = {} /\ ~client'[c].byMain
         /\ \A k \in Clients \ {c} : client'[k] = ClientsSee[k]
<1> DEFINE started == [op |-> op, path |-> p, old |-> old, refresh |-> refresh,
                       step |-> "changed", seen |-> {}, byMain |-> FALSE, after |-> 0,
                       result |-> None]
<1>1. started \in ClientState
  BY DEF ClientState
<1>2. client' = [ClientsSee EXCEPT ![c] = started]
  BY DEF StartClient
<1>3. /\ started.op = op /\ started.path = p /\ started.refresh = refresh
      /\ started.step = "changed" /\ started.seen = {} /\ ~started.byMain
  OBVIOUS
<1> HIDE DEF started
<1>4. ClientsSee \in [Clients -> ClientState]
  BY ClientsSeeKeeps
<1> QED
  BY <1>1, <1>2, <1>3, <1>4

(* Which clients start what: the path is among those to be refreshed. *)
LEMMA ClientStartKeeps ==
  ASSUME Types, NEW c \in Clients, ClientStart(c)
  PROVE  /\ DiskTypes' /\ client' \in [Clients -> ClientState]
         /\ client[c].step = "idle" /\ client'[c].step = "changed"
         /\ client'[c].path \in client'[c].refresh
         /\ client'[c].op = "Rename" => client'[c].path # Root
         /\ \A k \in Clients \ {c} : client'[k] = ClientsSee[k]
         /\ UNCHANGED <<bg, prev, phase, roots, request, stat, todo, jobs, ignoreJobs, ignoreSnap,
                        job, requests, updates, ui, isScanning, mirror>>
<1>1. PICK p \in Paths : \/ ClientCreate(c, p) \/ ClientWrite(c, p) \/ ClientDelete(c, p)
                         \/ ClientRefresh(c, p) \/ \E q \in Paths : ClientRename(c, p, q)
  BY DEF ClientStart
<1>2. \A r \in Paths : ui.paths[r] \in Entry \cup {None}
  BY DEF Types, UiTypes, Snapshot
<1>3. None \in Entry \cup {None} /\ {p} \in SUBSET Paths
  OBVIOUS
<1>4. /\ DiskTypes' /\ client' \in [Clients -> ClientState]
      /\ client[c].step = "idle" /\ client'[c].step = "changed"
      /\ client'[c].path \in client'[c].refresh
      /\ client'[c].op = "Rename" => client'[c].path # Root
      /\ \A k \in Clients \ {c} : client'[k] = ClientsSee[k]
  <2>1. CASE ClientCreate(c, p)
    <3>1. FsCreate(p) \/ FsWrite(p)
      BY <2>1 DEF ClientCreate
    <3>2. DiskTypes'
      BY <3>1, FsChangeTypes
    <3> DEFINE refresh == {q \in Ancestors[p] : q = p \/ ui.paths[q] = None}
    <3>3. refresh \in SUBSET Paths /\ p \in refresh
      BY TreeAssumption
    <3>4. "Create" \in ClientOp /\ disk' \in [Paths -> File]
      BY <3>2 DEF ClientOp, DiskTypes
    <3> QED
      BY <1>3, <2>1, <3>2, <3>3, <3>4, StartClientKeeps DEF ClientCreate
  <2>2. CASE ClientWrite(c, p)
    <3>1. DiskTypes'
      BY <2>2, FsChangeTypes DEF ClientWrite
    <3>2. "Write" \in ClientOp /\ disk' \in [Paths -> File]
      BY <3>1 DEF ClientOp, DiskTypes
    <3> QED
      BY <1>3, <2>2, <3>1, <3>2, StartClientKeeps DEF ClientWrite
  <2>3. CASE ClientDelete(c, p)
    <3>1. DiskTypes'
      BY <2>3, FsChangeTypes DEF ClientDelete
    <3>2. "Delete" \in ClientOp /\ disk' \in [Paths -> File]
      BY <3>1 DEF ClientOp, DiskTypes
    <3> QED
      BY <1>3, <2>3, <3>1, <3>2, StartClientKeeps DEF ClientDelete
  <2>4. CASE ClientRefresh(c, p)
    <3>1. DiskTypes'
      BY <2>4 DEF ClientRefresh, fsVars, Types, DiskTypes
    <3>2. "Refresh" \in ClientOp /\ disk' \in [Paths -> File]
      BY <3>1 DEF ClientOp, DiskTypes
    <3> QED
      BY <1>2, <1>3, <2>4, <3>1, <3>2, StartClientKeeps DEF ClientRefresh
  <2>5. CASE \E q \in Paths : ClientRename(c, p, q)
    <3>1. PICK q \in Paths : ClientRename(c, p, q)
      BY <2>5
    <3>2. DiskTypes'
      BY <3>1, FsChangeTypes DEF ClientRename
    <3>3. "Rename" \in ClientOp /\ disk' \in [Paths -> File] /\ {p, q} \in SUBSET Paths
      BY <3>2 DEF ClientOp, DiskTypes
    <3>4. q # Root
      BY <3>1, TreeAssumption DEF ClientRename, FsRename
    <3> QED
      BY <1>2, <3>1, <3>2, <3>3, <3>4, StartClientKeeps DEF ClientRename
  <2> QED
    BY <1>1, <2>1, <2>2, <2>3, <2>4, <2>5
<1>5. UNCHANGED <<bg, prev, phase, roots, request, stat, todo, jobs, ignoreJobs, ignoreSnap, job,
                  requests, updates, ui, isScanning, mirror>>
  BY DEF ClientStart, requestVars, queueVars, uiVars
<1> QED
  BY <1>4, <1>5

LEMMA ClientStartTypes ==
  ASSUME Types, NEW c \in Clients, ClientStart(c) PROVE Types'
<1>1. /\ DiskTypes' /\ client' \in [Clients -> ClientState]
      /\ client'[c].op = "Rename" => client'[c].path # Root
      /\ \A k \in Clients \ {c} : client'[k] = ClientsSee[k]
      /\ UNCHANGED <<bg, prev, phase, roots, request, stat, todo, jobs, ignoreJobs, ignoreSnap,
                     job, requests, updates, ui, isScanning, mirror>>
  BY ClientStartKeeps
<1>2. \A k \in Clients : SameAsk(ClientsSee[k], client[k])
  BY <1>1, ClientsSeeKeeps DEF DiskTypes
<1>3. ClientTypes'
  BY <1>1, <1>2 DEF Types, ClientTypes, SameAsk
<1> QED
  BY <1>1, <1>3 DEF Types, TaskTypes, QueueTypes, UiTypes

LEMMA ExternalTypes == ASSUME Types, External PROVE Types'
<1>1. PICK p \in Touched : \/ FsCreate(p) \/ FsWrite(p) \/ FsRemove(p)
                           \/ \E q \in Touched : FsRename(p, q)
  BY DEF External
<1>2. DiskTypes'
  BY <1>1, ActorAssumption, FsChangeTypes
<1>3. ClientTypes'
  BY <1>2, ClientsSeeKeeps DEF External, DiskTypes, Types, ClientTypes, SameAsk
<1>4. UNCHANGED <<bg, prev, phase, roots, request, stat, todo, jobs, ignoreJobs, ignoreSnap, job,
                  requests, updates, ui, isScanning, mirror>>
  BY DEF External, requestVars, queueVars, uiVars
<1> QED
  BY <1>2, <1>3, <1>4 DEF Types, TaskTypes, QueueTypes, UiTypes

(* A client asks. *)
LEMMA ClientSubmitKeeps ==
  ASSUME Types, NEW c \in Clients, ClientSubmit(c)
  PROVE  LET ask == [paths |-> client[c].refresh, senders |-> {c}]
             first == [paths |-> {Parent[client[c].path]}, senders |-> {}]
         IN  /\ ask \in Asked
             /\ \/ requests' = Append(requests, ask)
                \/ first \in Asked /\ requests' = Append(Append(requests, first), ask)
             /\ client' \in [Clients -> ClientState] /\ client[c].step = "changed"
             /\ SameAsk(client'[c], client[c]) /\ client'[c].step = "waiting"
             /\ client'[c].seen = {disk[client[c].path]}
             /\ client'[c].byMain = client[c].byMain
             /\ \A k \in Clients \ {c} : client'[k] = client[k]
             /\ UNCHANGED <<disk, diskRule, fsOps, events, bg, prev, phase, roots, request, stat,
                            todo, jobs, ignoreJobs, ignoreSnap, job, updates, ui, isScanning,
                            mirror>>
<1> DEFINE ask == [paths |-> client[c].refresh, senders |-> {c}]
           first == [paths |-> {Parent[client[c].path]}, senders |-> {}]
           waiting == [client[c] EXCEPT !.step = "waiting", !.seen = {disk[client[c].path]}]
<1>1. client[c] \in ClientState /\ disk \in [Paths -> File]
  BY DEF Types, ClientTypes, DiskTypes
<1>2. ask \in Asked
  BY <1>1 DEF Asked, ClientState
<1>3. client[c].op = "Rename" => first \in Asked
  BY <1>1, TreeAssumption DEF Asked, ClientState, Types, ClientTypes
<1> HIDE DEF ask, first
<1>4. requests \in Seq(Asked)
  BY DEF Types, QueueTypes
<1>5. requests' = requests \o IF client[c].op = "Rename" THEN <<first, ask>> ELSE <<ask>>
  BY DEF ClientSubmit, ask, first
<1>6. \/ requests' = Append(requests, ask)
      \/ first \in Asked /\ requests' = Append(Append(requests, first), ask)
  BY <1>2, <1>3, <1>4, <1>5
<1>7. client' = [client EXCEPT ![c] = waiting]
  BY DEF ClientSubmit, Types, ClientTypes
<1>8. /\ SameAsk(waiting, client[c]) /\ waiting.step = "waiting"
      /\ waiting.seen = {disk[client[c].path]} /\ waiting.byMain = client[c].byMain
  BY <1>1 DEF ClientState, SameAsk, File
<1> HIDE DEF waiting
<1>9. /\ client' \in [Clients -> ClientState] /\ client'[c] = waiting
      /\ \A k \in Clients \ {c} : client'[k] = client[k]
  BY <1>7, <1>8 DEF SameAsk, Types, ClientTypes
<1>10. UNCHANGED <<disk, diskRule, fsOps, events, bg, prev, phase, roots, request, stat, todo, jobs,
                   ignoreJobs, ignoreSnap, job, updates, ui, isScanning, mirror>>
  BY DEF ClientSubmit, fsVars, requestVars, queueVars, uiVars
<1>11. client[c].step = "changed"
  BY DEF ClientSubmit
<1> QED
  BY <1>2, <1>6, <1>8, <1>9, <1>10, <1>11 DEF ask, first

LEMMA ClientSubmitTypes == ASSUME Types, NEW c \in Clients, ClientSubmit(c) PROVE Types'
<1>1. \E ask, first \in Asked : \/ requests' = Append(requests, ask)
                               \/ requests' = Append(Append(requests, first), ask)
  BY ClientSubmitKeeps
<1>2. requests' \in Seq(Asked)
  <2>1. requests \in Seq(Asked)
    BY DEF Types, QueueTypes
  <2>2. \A s \in Seq(Asked), x \in Asked : Append(s, x) \in Seq(Asked)
    OBVIOUS
  <2> QED
    BY <1>1, <2>1, <2>2
<1>3. /\ client' \in [Clients -> ClientState] /\ SameAsk(client'[c], client[c])
      /\ \A k \in Clients \ {c} : client'[k] = client[k]
  BY ClientSubmitKeeps
<1>4. ClientTypes'
  BY <1>3 DEF Types, ClientTypes, SameAsk
<1> QED
  BY <1>2, <1>4, ClientSubmitKeeps DEF Types, DiskTypes, TaskTypes, QueueTypes, UiTypes

LEMMA ClientResumeKeeps ==
  ASSUME Types, NEW c \in Clients, ClientResume(c)
  PROVE  /\ client' \in [Clients -> ClientState]
         /\ client[c].step = "acked" /\ client'[c].step = "done"
         /\ client'[c].op = client[c].op /\ client'[c].path = client[c].path
         /\ client'[c].refresh = client[c].refresh
         /\ client'[c].seen = client[c].seen /\ client'[c].byMain = client[c].byMain
         /\ client'[c].result = ui.paths[client[c].path]
         /\ \A k \in Clients \ {c} : client'[k] = client[k]
         /\ UNCHANGED <<disk, diskRule, fsOps, events, bg, prev, phase, roots, request, stat, todo,
                        jobs, ignoreJobs, ignoreSnap, job, requests, updates, ui, isScanning,
                        mirror>>
<1> DEFINE resumed == [client[c] EXCEPT !.step = "done", !.result = ui.paths[client[c].path]]
<1>1. client[c] \in ClientState
  BY DEF Types, ClientTypes
<1>2. ui.paths[client[c].path] \in Entry \cup {None}
  BY <1>1 DEF Types, ClientState, UiTypes, Snapshot
<1>3. /\ resumed \in ClientState /\ resumed.step = "done"
      /\ resumed.op = client[c].op /\ resumed.path = client[c].path
      /\ resumed.refresh = client[c].refresh
      /\ resumed.seen = client[c].seen /\ resumed.byMain = client[c].byMain
      /\ resumed.result = ui.paths[client[c].path]
  BY <1>1, <1>2 DEF ClientState
<1>4. client' = [client EXCEPT ![c] = resumed]
  BY DEF ClientResume, Types, ClientTypes
<1> HIDE DEF resumed
<1>5. client[c].step = "acked"
  BY DEF ClientResume
<1> QED
  BY <1>3, <1>4, <1>5 DEF ClientResume, Types, ClientTypes, fsVars, requestVars, queueVars, uiVars

LEMMA ClientResumeTypes == ASSUME Types, NEW c \in Clients, ClientResume(c) PROVE Types'
<1>1. ClientTypes'
  BY ClientResumeKeeps DEF Types, ClientTypes
<1> QED
  BY <1>1, ClientResumeKeeps DEF Types, DiskTypes, TaskTypes, QueueTypes, UiTypes
(* A status update is put behind the others, or, if there is nothing to    *)
(* tell, its completions are sent at once.                                 *)
LEMMA SendStatusUpdateKeeps ==
  ASSUME Types, NEW state \in ScannerState, NEW scanning \in BOOLEAN,
         NEW senders \in SUBSET Clients, NEW under \in SUBSET Paths,
         SendStatusUpdate(state, scanning, senders, under)
  PROVE  /\ bg' \in ScannerState /\ prev' \in Snapshot
         /\ updates' \in Seq({Started} \cup StateUpdate) /\ ClientTypes'
         /\ bg'.paths = state.paths /\ bg'.changed = {}
         /\ bg'.scanId = state.scanId /\ bg'.completedId = state.completedId
         /\ \/ /\ scanning /\ state.changed = {} /\ prev' = prev /\ updates' = updates
               /\ client' = Acked(client, senders, FALSE, Len(updates))
            \/ /\ updates' = Append(updates, Update(state, senders, scanning, under))
               /\ Update(state, senders, scanning, under) \in StateUpdate
               /\ prev' = state.paths /\ client' = client
<1>1. /\ updates \in Seq({Started} \cup StateUpdate) /\ Len(updates) \in Nat
      /\ client \in [Clients -> ClientState] /\ prev \in Snapshot
  BY DEF Types, UiTypes, ClientTypes
<1> DEFINE update == Update(state, senders, scanning, under)
<1>2. update \in StateUpdate
  BY DEF Update, StateUpdate, ScannerState, Snapshot, Differing
<1>3. CASE state.changed = {} /\ under = {} /\ scanning
  <2>1. /\ client' = Acked(client, senders, FALSE, Len(updates)) /\ bg' = state
        /\ prev' = prev /\ updates' = updates
    BY <1>3 DEF SendStatusUpdate
  <2>2. /\ client' \in [Clients -> ClientState]
        /\ \A c \in Clients : SameAsk(client'[c], client[c])
    BY <1>1, <2>1, AckedKeeps
  <2>3. ClientTypes'
    BY <2>2 DEF ClientTypes, Types, SameAsk
  <2> QED
    BY <1>1, <1>3, <2>1, <2>3
<1>4. CASE ~(state.changed = {} /\ under = {} /\ scanning)
  <2>1. /\ updates' = Append(updates, update) /\ prev' = state.paths
        /\ bg' = [state EXCEPT !.changed = {}] /\ client' = client
    BY <1>4 DEF SendStatusUpdate
  <2> HIDE DEF update
  <2>2. updates' \in Seq({Started} \cup StateUpdate)
    BY <1>1, <1>2, <2>1
  <2>3. /\ bg' \in ScannerState /\ bg'.paths = state.paths /\ bg'.changed = {}
        /\ bg'.scanId = state.scanId /\ bg'.completedId = state.completedId
    BY <2>1 DEF ScannerState
  <2>4. prev' \in Snapshot
    BY <2>1 DEF Snapshot, ScannerState
  <2>5. ClientTypes'
    BY <2>1 DEF Types, ClientTypes
  <2> QED
    BY <1>2, <2>1, <2>2, <2>3, <2>4, <2>5 DEF update
<1> QED
  BY <1>3, <1>4

(* A worker takes a directory to read. *)
LEMMA TakeJobKeeps ==
  ASSUME Types, NEW w \in Workers, TakeJob(w)
  PROVE  /\ phase \in {"initialScan", "scan"} /\ Idle(w)
         /\ job' \in [Actors -> Job \cup {None}] /\ jobs' \in Seq(Queued)
         /\ ~job'[w].started /\ \A b \in Actors : b # w => job'[b] = job[b]
         /\ UNCHANGED <<disk, diskRule, fsOps, events, bg, prev, phase, roots, request, stat, todo,
                        ignoreJobs, ignoreSnap, requests, updates, ui, isScanning, mirror, client>>
<1>1. Head(jobs) \in Queued /\ Tail(jobs) \in Seq(Queued)
  BY DEF TakeJob, Types, QueueTypes
<1>2. Head(jobs) \in Job /\ ~Head(jobs).started
  BY <1>1 DEF Queued
<1>3. /\ job' \in [Actors -> Job \cup {None}] /\ jobs' \in Seq(Queued) /\ ~job'[w].started
      /\ \A b \in Actors : b # w => job'[b] = job[b]
  BY <1>1, <1>2, MainIsActor DEF TakeJob, Types, TaskTypes
<1> QED
  BY <1>3 DEF TakeJob, fsVars, requestVars, uiVars

LEMMA TakeJobTypes == ASSUME Types, NEW w \in Workers, TakeJob(w) PROVE Types'
<1>2. job' \in [Actors -> Job \cup {None}] /\ jobs' \in Seq(Queued)
  BY TakeJobKeeps
<1> QED
  BY <1>2 DEF TakeJob, Types, DiskTypes, TaskTypes, QueueTypes, UiTypes, ClientTypes, fsVars,
              requestVars, uiVars

(* What is read of a directory is what its paths hold at that moment. *)
LEMMA ReadDirKeeps ==
  ASSUME Types, NEW a \in Actors, ReadDir(a)
  PROVE  /\ job[a] # None /\ job' \in [Actors -> Job \cup {None}]
         /\ \/ job'[a] = None
            \/ \A q \in Paths : job'[a].read[q] \in {None, disk[q]}
         /\ \A b \in Actors : b # a => job'[b] = job[b]
         /\ UNCHANGED <<disk, diskRule, fsOps, events, bg, prev, phase, roots, request, stat, todo,
                        jobs, ignoreJobs, ignoreSnap, requests, updates, ui, isScanning, mirror,
                        client>>
<1> DEFINE d == job[a].path
           ignore == IF d = Root /\ disk[Gitignore] # None
                     THEN [rule |-> diskRule, needsUpdate |-> FALSE] ELSE None
           rule == job[a].rule \/ (ignore # None /\ diskRule)
           listing == [p \in Paths |-> IF p \in Children(d) THEN disk[p] ELSE None]
           read == [job[a] EXCEPT !.started = TRUE, !.newIgnore = ignore, !.rule = rule,
                                  !.read = listing]
<1>1. job[a] \in Job
  BY DEF ReadDir, Types, TaskTypes
<1>2. ignore \in Ignore /\ listing \in [Paths -> File]
  BY DEF Types, DiskTypes, Ignore, File
<1>3. rule \in BOOLEAN
  <2>1. \A x, y : (x \/ y) \in BOOLEAN
    OBVIOUS
  <2> QED
    BY <2>1
<1>4. job' = [job EXCEPT ![a] = IF disk[d] = None THEN None ELSE read]
  BY DEF ReadDir
<1>5. \A q \in Paths : listing[q] \in {None, disk[q]}
  OBVIOUS
<1> HIDE DEF ignore, rule, listing
<1>6. read \in Job /\ read.read = listing
  BY <1>1, <1>2, <1>3 DEF Job
<1> HIDE DEF read
<1>7. job[a] # None
  BY DEF ReadDir
<1> QED
  BY <1>4, <1>5, <1>6, <1>7 DEF ReadDir, Types, TaskTypes, fsVars, requestVars, queueVars, uiVars

LEMMA ReadDirTypes == ASSUME Types, NEW a \in Actors, ReadDir(a) PROVE Types'
<1>1. job' \in [Actors -> Job \cup {None}]
  BY ReadDirKeeps
<1> QED
  BY <1>1 DEF ReadDir, Types, DiskTypes, TaskTypes, QueueTypes, UiTypes, ClientTypes, fsVars,
              requestVars, queueVars, uiVars

(* Populating a directory, with what follows for the index. *)
LEMMA PopulateKeeps ==
  ASSUME Types, NEW a \in Actors, Populate(a)
  PROVE  /\ job[a] \in Job
         /\ bg' \in ScannerState
         /\ bg'.scanId = bg.scanId /\ bg'.completedId = bg.completedId
         /\ bg.changed \subseteq bg'.changed
         /\ \A q \in Paths : bg'.paths[q] # bg.paths[q] =>
              \E p \in bg'.changed : q \in Under(p)
         /\ \A q \in Paths :
              \/ \A file : Agrees(bg.paths[q], file) => Agrees(bg'.paths[q], file)
              \/ /\ q \in Children(job[a].path) /\ job[a].read[q] # None
                 /\ Agrees(bg'.paths[q], job[a].read[q])
         /\ request' \in [Actors -> Request \cup {None}] /\ jobs' \in Seq(Queued)
         /\ job' \in [Actors -> Job \cup {None}] /\ job'[a] = None
         /\ request[a] = None => request' = request
         /\ \A b \in Actors : b # a => request'[b] = request[b] /\ job'[b] = job[b]
         /\ request[a] # None =>
              /\ request'[a].step = request[a].step /\ request'[a].paths = request[a].paths
              /\ request'[a].senders = request[a].senders
<1> DEFINE j == job[a]
           subdirs == SubdirsToScan(bg, j.path, j.read, j.rule)
           subs == NewJobs(subdirs, j.rule)
           loading == [request[a] EXCEPT !.local = @ \o subs]
<1>1. j \in Job
  BY DEF Populate, Types, TaskTypes
<1>2. bg' = PopulateDir(bg, j.path, j.read, j.rule, j.newIgnore)
  BY DEF Populate
<1>3. /\ bg' \in ScannerState
      /\ bg'.scanId = bg.scanId /\ bg'.completedId = bg.completedId
      /\ bg.changed \subseteq bg'.changed
      /\ \A q \in Paths : bg'.paths[q] # bg.paths[q] => \E p \in bg'.changed : q \in Under(p)
      /\ \A q \in Paths :
           \/ \A file : Agrees(bg.paths[q], file) => Agrees(bg'.paths[q], file)
           \/ q \in Children(j.path) /\ j.read[q] # None /\ Agrees(bg'.paths[q], j.read[q])
  <2>1. j.path \in Paths /\ j.read \in [Paths -> File] /\ j.newIgnore \in Ignore
    BY <1>1 DEF Job
  <2>2. bg \in ScannerState
    BY DEF Types
  <2>3. \A d \in Paths, read \in [Paths -> File], newIgnore \in Ignore :
          LET new == PopulateDir(bg, d, read, j.rule, newIgnore) IN
            /\ new \in ScannerState
            /\ new.scanId = bg.scanId /\ new.completedId = bg.completedId
            /\ bg.changed \subseteq new.changed
            /\ \A q \in Paths : new.paths[q] # bg.paths[q] =>
                 \E p \in new.changed : q \in Under(p)
            /\ \A q \in Paths :
                 \/ \A file : Agrees(bg.paths[q], file) => Agrees(new.paths[q], file)
                 \/ q \in Children(d) /\ read[q] # None /\ Agrees(new.paths[q], read[q])
    BY <2>2, PopulateDirKeeps
  <2> HIDE DEF j
  <2> QED
    BY <1>2, <2>1, <2>3
<1>4. subdirs \in SUBSET Paths
  BY DEF SubdirsToScan, ReadChildren, Children
<1>5. subs \in Seq(Queued)
  <2>1. j.rule \in BOOLEAN
    BY <1>1 DEF Job
  <2> HIDE DEF subdirs, j
  <2> QED
    BY <1>4, <2>1, NewJobsType
<1> HIDE DEF subs
<1>6. /\ request' \in [Actors -> Request \cup {None}] /\ jobs' \in Seq(Queued)
      /\ request[a] = None => request' = request
      /\ \A b \in Actors : b # a => request'[b] = request[b]
      /\ request[a] # None =>
           /\ request'[a].step = request[a].step /\ request'[a].paths = request[a].paths
           /\ request'[a].senders = request[a].senders
  <2>1. CASE request[a] = None
    <3>1. request' = request /\ jobs' = jobs \o subs
      BY <2>1 DEF Populate, subs
    <3>2. jobs \in Seq(Queued) /\ request \in [Actors -> Request \cup {None}]
      BY DEF Types, QueueTypes, TaskTypes
    <3>3. jobs \o subs \in Seq(Queued)
      BY <1>5, <3>2
    <3> QED
      BY <2>1, <3>1, <3>2, <3>3
  <2>2. CASE request[a] # None
    <3>1. request[a] \in Request
      BY <2>2 DEF Types, TaskTypes
    <3>2. request[a].local \o subs \in Seq(Queued)
      BY <1>5, <3>1 DEF Request
    <3>3. /\ loading \in Request /\ loading.step = request[a].step
          /\ loading.paths = request[a].paths /\ loading.senders = request[a].senders
      BY <3>1, <3>2 DEF Request
    <3>4. request' = [request EXCEPT ![a] = loading] /\ jobs' = jobs
      BY <2>2 DEF Populate, subs
    <3> HIDE DEF loading
    <3> QED
      BY <2>2, <3>3, <3>4 DEF Types, TaskTypes, QueueTypes
  <2> QED
    BY <2>1, <2>2
<1>7. /\ job' \in [Actors -> Job \cup {None}] /\ job'[a] = None
      /\ \A b \in Actors : b # a => job'[b] = job[b]
  BY DEF Populate, Types, TaskTypes
<1> QED
  BY <1>1, <1>2, <1>3, <1>6, <1>7

LEMMA PopulateTypes == ASSUME Types, NEW a \in Actors, Populate(a) PROVE Types'
<1>1. /\ bg' \in ScannerState /\ request' \in [Actors -> Request \cup {None}]
      /\ jobs' \in Seq(Queued) /\ job' \in [Actors -> Job \cup {None}]
  BY PopulateKeeps
<1> QED
  BY <1>1 DEF Populate, Types, DiskTypes, TaskTypes, QueueTypes, UiTypes, ClientTypes, fsVars, uiVars
(* The jobs of forcibly_load_paths are of directories of the tree. *)
LEMMA LoadJobsType ==
  ASSUME Types, NEW paths \in SUBSET Paths, \A p \in paths : UnloadedAbove(p) # {}
  PROVE  LoadJobs(paths) \in Seq(Queued)
<1> DEFINE order == InOrder(paths)
           above(p) == CHOOSE d \in UnloadedAbove(p) : TRUE
           rule(p) == Rule(bg) /\ above(p) # Root
<1>1. order \in Seq(paths)
  BY InOrderType
<1>2. \A p \in paths : above(p) \in Paths
  BY TreeAssumption DEF UnloadedAbove
<1>3. Rule(bg) \in BOOLEAN
  BY RuleType
<1>4. \A i \in 1 .. Len(order) : NewJob(above(order[i]), rule(order[i])) \in Queued
  <2> HIDE DEF above, order
  <2>1. \A i \in 1 .. Len(order) : order[i] \in paths
    BY <1>1
  <2> QED
    BY <1>2, <1>3, <2>1, NewJobType
<1>5. LoadJobs(paths) = [i \in 1 .. Len(order) |-> NewJob(above(order[i]), rule(order[i]))]
  BY DEF LoadJobs
<1> HIDE DEF order, above, rule
<1> QED
  BY <1>1, <1>4, <1>5

(* A request merges all that wait. *)
LEMMA TakeRequestKeeps ==
  ASSUME Types, NEW a \in Actors, TakeRequest(a)
  PROVE  /\ request' \in [Actors -> Request \cup {None}]
         /\ request'[a].step = "load" /\ MayServe(a) /\ Idle(a)
         /\ \A c \in request'[a].senders : \E i \in 1 .. Len(requests) : c \in requests[i].senders
         /\ \A i \in 1 .. Len(requests) : requests[i].paths \subseteq request'[a].paths
         /\ \A b \in Actors : b # a => request'[b] = request[b]
         /\ bg' \in ScannerState /\ bg'.paths = bg.paths /\ bg'.changed = bg.changed
         /\ bg'.scanId = bg.scanId /\ bg'.completedId = bg.completedId
         /\ requests' = <<>>
         /\ UNCHANGED <<disk, diskRule, fsOps, events, prev, phase, roots, stat, todo, jobs,
                        ignoreJobs, ignoreSnap, job, updates, ui, isScanning, mirror, client>>
<1> DEFINE paths == UNION {requests[i].paths : i \in DOMAIN requests}
           senders == UNION {requests[i].senders : i \in DOMAIN requests}
           unloaded == {p \in paths : UnloadedAbove(p) # {}}
           taken == [paths |-> paths, senders |-> senders, step |-> "load",
                     local |-> LoadJobs(unloaded)]
<1>1. requests \in Seq(Asked) /\ DOMAIN requests = 1 .. Len(requests)
  BY DEF Types, QueueTypes
<1>2. \A i \in DOMAIN requests : requests[i] \in Asked
  BY <1>1
<1>3. paths \in SUBSET Paths /\ senders \in SUBSET Clients
  BY <1>2 DEF Asked
<1>4. /\ \A i \in 1 .. Len(requests) : requests[i].paths \subseteq paths
      /\ \A c \in senders : \E i \in 1 .. Len(requests) : c \in requests[i].senders
  BY <1>1
<1> HIDE DEF paths, senders
<1>5. unloaded \in SUBSET Paths /\ \A p \in unloaded : UnloadedAbove(p) # {}
  BY <1>3
<1> HIDE DEF unloaded
<1>6. taken \in Request
  <2>1. LoadJobs(unloaded) \in Seq(Queued)
    BY <1>5, LoadJobsType
  <2> QED
    BY <1>3, <2>1 DEF Request
<1>7. request' = [request EXCEPT ![a] = taken]
  BY DEF TakeRequest, paths, senders, unloaded
<1>8. /\ taken.paths = paths /\ taken.senders = senders /\ taken.step = "load"
  OBVIOUS
<1> HIDE DEF taken
<1>9. /\ request' \in [Actors -> Request \cup {None}] /\ request'[a] = taken
      /\ \A b \in Actors : b # a => request'[b] = request[b]
  BY <1>6, <1>7 DEF Types, TaskTypes
<1>10. bg' = [bg EXCEPT !.toScan = bg.toScan \cup unloaded]
  BY DEF TakeRequest, paths, unloaded
<1>11. /\ bg' \in ScannerState /\ bg'.paths = bg.paths /\ bg'.changed = bg.changed
       /\ bg'.scanId = bg.scanId /\ bg'.completedId = bg.completedId
  BY <1>5, <1>10 DEF Types, ScannerState
<1> QED
  BY <1>4, <1>8, <1>9, <1>11 DEF TakeRequest, fsVars, queueVars, uiVars

LEMMA TakeRequestTypes == ASSUME Types, NEW a \in Actors, TakeRequest(a) PROVE Types'
<1>1. /\ request' \in [Actors -> Request \cup {None}] /\ bg' \in ScannerState /\ requests' = <<>>
      /\ UNCHANGED <<disk, diskRule, fsOps, events, prev, phase, roots, stat, todo, jobs,
                     ignoreJobs, ignoreSnap, job, updates, ui, isScanning, mirror, client>>
  BY TakeRequestKeeps
<1> QED
  BY <1>1 DEF Types, DiskTypes, TaskTypes, QueueTypes, UiTypes, ClientTypes

LEMMA LoadNextKeeps ==
  ASSUME Types, NEW a \in Actors, LoadNext(a)
  PROVE  /\ request' \in [Actors -> Request \cup {None}] /\ job' \in [Actors -> Job \cup {None}]
         /\ request[a] # None /\ request'[a].step = "load" /\ request[a].step = "load"
         /\ request'[a].paths = request[a].paths /\ request'[a].senders = request[a].senders
         /\ \A b \in Actors : b # a => request'[b] = request[b] /\ job'[b] = job[b]
         /\ job'[a] \in Job /\ ~job'[a].started
<1> DEFINE rest == [request[a] EXCEPT !.local = Tail(@)]
<1>1. request[a] \in Request /\ request[a].local \in Seq(Queued) /\ request[a].local # <<>>
  BY DEF LoadNext, Types, TaskTypes, Request
<1>2. /\ Tail(request[a].local) \in Seq(Queued) /\ Head(request[a].local) \in Queued
      /\ Head(request[a].local) \in Job /\ ~Head(request[a].local).started
  BY <1>1 DEF Queued
<1>4. /\ rest \in Request /\ rest.step = request[a].step /\ rest.paths = request[a].paths
      /\ rest.senders = request[a].senders
  BY <1>1, <1>2 DEF Request
<1>5. request' = [request EXCEPT ![a] = rest] /\ job' = [job EXCEPT ![a] = Head(request[a].local)]
  BY DEF LoadNext
<1> HIDE DEF rest
<1>6. request[a] # None /\ request[a].step = "load"
  BY DEF LoadNext
<1> QED
  BY <1>2, <1>4, <1>5, <1>6 DEF Types, TaskTypes

LEMMA LoadNextTypes == ASSUME Types, NEW a \in Actors, LoadNext(a) PROVE Types'
<1>1. request' \in [Actors -> Request \cup {None}] /\ job' \in [Actors -> Job \cup {None}]
  BY LoadNextKeeps
<1> QED
  BY <1>1 DEF LoadNext, Types, DiskTypes, TaskTypes, QueueTypes, UiTypes, ClientTypes, fsVars,
              queueVars, uiVars

(* A request's scan completes the one before it, if that was complete. *)
LEMMA LoadDoneKeeps ==
  ASSUME Types, NEW a \in Actors, LoadDone(a)
  PROVE  /\ request' \in [Actors -> Request \cup {None}] /\ todo' \in [Actors -> SUBSET Paths]
         /\ request[a] # None /\ request'[a].step = "stat" /\ todo'[a] = request[a].paths
         /\ request'[a].paths = request[a].paths /\ request'[a].senders = request[a].senders
         /\ \A b \in Actors : b # a => request'[b] = request[b] /\ todo'[b] = todo[b]
         /\ bg' \in ScannerState /\ bg'.paths = bg.paths /\ bg'.changed = bg.changed
         /\ bg.completedId = bg.scanId => bg'.completedId = bg'.scanId
<1> DEFINE statting == [request[a] EXCEPT !.step = "stat"]
           scan == IF bg.completedId = bg.scanId THEN bg.completedId + 1 ELSE bg.completedId
           counted == [bg EXCEPT !.scanId = bg.scanId + 1, !.completedId = scan]
<1>1. request[a] \in Request /\ request[a] # None
  BY DEF LoadDone, Types, TaskTypes
<1>2. /\ statting \in Request /\ statting.step = "stat" /\ statting.paths = request[a].paths
      /\ statting.senders = request[a].senders
  BY <1>1 DEF Request
<1>3. request' = [request EXCEPT ![a] = statting] /\ todo' = [todo EXCEPT ![a] = request[a].paths]
  BY DEF LoadDone
<1> HIDE DEF statting
<1>4. /\ request' \in [Actors -> Request \cup {None}] /\ todo' \in [Actors -> SUBSET Paths]
      /\ request'[a] = statting /\ todo'[a] = request[a].paths
      /\ \A b \in Actors : b # a => request'[b] = request[b] /\ todo'[b] = todo[b]
  BY <1>1, <1>2, <1>3 DEF Types, TaskTypes, Request
<1>5. NextScan(bg) = counted
  BY DEF NextScan, Types, ScannerState
<1>6. scan \in Nat /\ (bg.completedId = bg.scanId => scan = bg.scanId + 1)
  BY DEF Types, ScannerState
<1> HIDE DEF scan
<1>a. bg \in ScannerState
  BY DEF Types
<1>b. bg.scanId + 1 \in Nat
  BY <1>a DEF ScannerState
<1>7. /\ counted \in ScannerState /\ counted.paths = bg.paths /\ counted.changed = bg.changed
      /\ counted.scanId = bg.scanId + 1 /\ counted.completedId = scan
  BY <1>6, <1>a, <1>b DEF ScannerState
<1>8. bg' = [counted EXCEPT !.toScan = {}]
  BY <1>5 DEF LoadDone
<1> HIDE DEF counted
<1>9. /\ bg' \in ScannerState /\ bg'.paths = bg.paths /\ bg'.changed = bg.changed
      /\ bg'.scanId = bg.scanId + 1 /\ bg'.completedId = scan
  BY <1>7, <1>8 DEF ScannerState
<1> QED
  BY <1>1, <1>2, <1>4, <1>6, <1>9

LEMMA LoadDoneTypes == ASSUME Types, NEW a \in Actors, LoadDone(a) PROVE Types'
<1>1. /\ request' \in [Actors -> Request \cup {None}] /\ todo' \in [Actors -> SUBSET Paths]
      /\ bg' \in ScannerState
  BY LoadDoneKeeps
<1> QED
  BY <1>1 DEF LoadDone, Types, DiskTypes, TaskTypes, QueueTypes, UiTypes, ClientTypes, fsVars,
              queueVars, uiVars

LEMMA StatKeeps ==
  ASSUME Types, NEW a \in Actors, Stat(a)
  PROVE  /\ stat' \in [Actors -> [Paths -> File]] /\ todo' \in [Actors -> SUBSET Paths]
         /\ \E p \in todo[a] :
              /\ todo'[a] = todo[a] \ {p} /\ stat'[a][p] = disk[p]
              /\ \A q \in Paths : q # p => stat'[a][q] = stat[a][q]
         /\ \A b \in Actors : b # a => stat'[b] = stat[b] /\ todo'[b] = todo[b]
<1>1. PICK p \in todo[a] : stat' = [stat EXCEPT ![a][p] = disk[p]]
                           /\ todo' = [todo EXCEPT ![a] = @ \ {p}]
  BY DEF Stat
<1>2. p \in Paths /\ disk[p] \in File
  BY DEF Types, TaskTypes, DiskTypes
<1> DEFINE read == [stat[a] EXCEPT ![p] = disk[p]]
<1>3. /\ read \in [Paths -> File] /\ read[p] = disk[p]
      /\ \A q \in Paths : q # p => read[q] = stat[a][q]
  BY <1>2 DEF Types, TaskTypes
<1>4. stat' = [stat EXCEPT ![a] = read]
  BY <1>1
<1> HIDE DEF read
<1>5. /\ stat' \in [Actors -> [Paths -> File]] /\ todo' \in [Actors -> SUBSET Paths]
      /\ stat'[a] = read /\ todo'[a] = todo[a] \ {p}
      /\ \A b \in Actors : b # a => stat'[b] = stat[b] /\ todo'[b] = todo[b]
  BY <1>1, <1>3, <1>4 DEF Types, TaskTypes
<1> QED
  BY <1>3, <1>5

LEMMA StatTypes == ASSUME Types, NEW a \in Actors, Stat(a) PROVE Types'
<1>1. stat' \in [Actors -> [Paths -> File]] /\ todo' \in [Actors -> SUBSET Paths]
  BY StatKeeps
<1> QED
  BY <1>1 DEF Stat, Types, DiskTypes, TaskTypes, QueueTypes, UiTypes, ClientTypes, fsVars,
              queueVars, uiVars
(* What a request read is applied, the paths it asked for count as changed. *)
LEMMA ReloadKeeps ==
  ASSUME Types, NEW a \in Actors, Reload(a)
  PROVE  /\ request[a] # None /\ request[a].step = "stat" /\ todo[a] = {}
         /\ request' \in [Actors -> Request \cup {None}] /\ stat' \in [Actors -> [Paths -> File]]
         /\ request'[a].step = "report"
         /\ request'[a].paths = request[a].paths /\ request'[a].senders = request[a].senders
         /\ \A b \in Actors : b # a => request'[b] = request[b] /\ stat'[b] = stat[b]
         /\ Reloaded(bg', bg, request[a].paths, stat[a])
<1>1. /\ request[a] \in Request /\ request[a] # None /\ request[a].step = "stat" /\ todo[a] = {}
      /\ request[a].paths \in SUBSET Paths /\ stat[a] \in [Paths -> File] /\ diskRule \in BOOLEAN
      /\ bg \in ScannerState
  BY DEF Reload, Types, TaskTypes, DiskTypes, Request
<1> DEFINE reporting == [request[a] EXCEPT !.step = "report"]
<1>2. /\ reporting \in Request /\ reporting.step = "report"
      /\ reporting.paths = request[a].paths /\ reporting.senders = request[a].senders
  BY <1>1 DEF Request
<1>3. request' = [request EXCEPT ![a] = reporting] /\ stat' = [stat EXCEPT ![a] = NoPaths]
  BY DEF Reload
<1> HIDE DEF reporting
<1>4. /\ request' \in [Actors -> Request \cup {None}] /\ request'[a] = reporting
      /\ stat' \in [Actors -> [Paths -> File]]
      /\ \A b \in Actors : b # a => request'[b] = request[b] /\ stat'[b] = stat[b]
  BY <1>2, <1>3 DEF Types, TaskTypes, NoPaths, File
<1>5. /\ bg' = ReloadEntries(bg, request[a].paths, stat[a], FALSE, ReadRule)
      /\ ReadRule \in BOOLEAN \cup {None}
  BY <1>1 DEF Reload, ReadRule
<1>6. Reloaded(bg', bg, request[a].paths, stat[a])
  BY <1>1, <1>5, ReloadEntriesKeeps
<1> QED
  BY <1>1, <1>2, <1>4, <1>6

LEMMA ReloadTypes == ASSUME Types, NEW a \in Actors, Reload(a) PROVE Types'
<1>1. /\ request' \in [Actors -> Request \cup {None}] /\ stat' \in [Actors -> [Paths -> File]]
      /\ bg' \in ScannerState
  BY ReloadKeeps DEF Reloaded
<1> QED
  BY <1>1 DEF Reload, Types, DiskTypes, TaskTypes, QueueTypes, UiTypes, ClientTypes, fsVars,
              queueVars, uiVars

(* A request that is reported is served. *)
LEMMA ReportKeeps ==
  ASSUME Types, NEW a \in Actors, Report(a)
  PROVE  /\ request[a] \in Request /\ request[a] # None /\ request[a].step = "report"
         /\ request[a].senders \in SUBSET Clients /\ (a # Main) \in BOOLEAN
         /\ SendStatusUpdate(bg, a # Main, request[a].senders, {})
         /\ request' \in [Actors -> Request \cup {None}] /\ request'[a] = None
         /\ \A b \in Actors : b # a => request'[b] = request[b]
         /\ UNCHANGED <<disk, diskRule, fsOps, events, phase, roots, stat, todo, jobs, ignoreJobs,
                        ignoreSnap, job, requests, ui, isScanning, mirror>>
<1>1. request[a] # None /\ request[a].step = "report" /\ request[a] \in Request
  BY DEF Report, Types, TaskTypes
<1>2. request' = [request EXCEPT ![a] = None]
  BY DEF Report
<1>3. request[a].senders \in SUBSET Clients
  BY <1>1 DEF Request
<1>4. SendStatusUpdate(bg, a # Main, request[a].senders, {})
  BY DEF Report
<1> QED
  BY <1>1, <1>2, <1>3, <1>4 DEF Report, Types, TaskTypes, fsVars, queueVars, uiVars

LEMMA ReportTypes == ASSUME Types, NEW a \in Actors, Report(a) PROVE Types'
<1>1. /\ bg \in ScannerState /\ {} \in SUBSET Paths
      /\ request[a].senders \in SUBSET Clients /\ (a # Main) \in BOOLEAN
      /\ SendStatusUpdate(bg, a # Main, request[a].senders, {})
  BY ReportKeeps DEF Types
<1>2. /\ bg' \in ScannerState /\ prev' \in Snapshot
      /\ updates' \in Seq({Started} \cup StateUpdate) /\ ClientTypes'
  BY <1>1, SendStatusUpdateKeeps
<1>3. /\ request' \in [Actors -> Request \cup {None}]
      /\ UNCHANGED <<disk, diskRule, fsOps, events, phase, roots, stat, todo, jobs, ignoreJobs,
                     ignoreSnap, job, requests, ui, isScanning, mirror>>
  BY ReportKeeps
<1> QED
  BY <1>2, <1>3 DEF Types, DiskTypes, TaskTypes, QueueTypes, UiTypes
(* A batch of events opens a scan, unless nothing is left of it. *)
LEMMA TakeEventsKeeps ==
  ASSUME Types, TakeEvents
  PROVE  /\ phase = "idle" /\ Idle(Main) /\ requests = <<>>
         /\ events' \in Seq(SUBSET Paths) /\ roots' \in SUBSET Paths
         /\ bg' \in ScannerState /\ bg'.paths = bg.paths /\ bg'.changed = bg.changed
         /\ todo' \in [Actors -> SUBSET Paths]
         /\ \/ UNCHANGED <<bg, phase, todo>>
            \/ /\ phase' = "stat" /\ bg'.scanId = bg.scanId + 1
               /\ todo' = [todo EXCEPT ![Main] = roots']
         /\ UNCHANGED <<disk, diskRule, fsOps, prev, stat, request, jobs, ignoreJobs, ignoreSnap,
                        job, requests, updates, ui, isScanning, mirror, client>>
<1>1. /\ phase = "idle" /\ Idle(Main) /\ requests = <<>>
      /\ UNCHANGED <<disk, diskRule, fsOps, prev, stat, request, jobs, ignoreJobs, ignoreSnap,
                     job, requests, updates, ui, isScanning, mirror, client>>
  BY DEF TakeEvents, queueVars, uiVars
<1>2. /\ events \in Seq(SUBSET Paths) /\ bg \in ScannerState /\ bg.scanId + 1 \in Nat
      /\ todo \in [Actors -> SUBSET Paths]
  BY DEF Types, DiskTypes, TaskTypes, ScannerState
<1>3. PICK n \in 1 .. Len(events) :
        LET batch == UNION {events[i] : i \in 1 .. n}
            tops == {p \in batch : Ancestors[p] \cap batch = {p}}
            kept == {p \in tops : p # Root =>
                       bg.paths[Parent[p]] # None /\ bg.paths[Parent[p]].kind = "Dir"}
        IN /\ events' = SubSeq(events, n + 1, Len(events))
           /\ roots' = kept
           /\ \/ UNCHANGED <<bg, phase, todo>>
              \/ /\ bg' = [bg EXCEPT !.scanId = @ + 1]
                 /\ phase' = "stat"
                 /\ todo' = [todo EXCEPT ![Main] = kept]
  BY DEF TakeEvents
<1> DEFINE batch == UNION {events[i] : i \in 1 .. n}
           counted == [bg EXCEPT !.scanId = @ + 1]
<1>4. batch \in SUBSET Paths
  BY <1>2
<1> HIDE DEF batch
<1>5. roots' \in SUBSET Paths
  BY <1>3, <1>4 DEF batch
<1>6. events' \in Seq(SUBSET Paths)
  <2>1. events' = SubSeq(events, n + 1, Len(events)) /\ n + 1 \in 1 .. Len(events) + 1
    BY <1>2, <1>3
  <2> QED
    BY <1>2, <2>1
<1>7. /\ counted \in ScannerState /\ counted.paths = bg.paths /\ counted.changed = bg.changed
      /\ counted.scanId = bg.scanId + 1
  BY <1>2 DEF ScannerState
<1> HIDE DEF counted
<1>8. \/ UNCHANGED <<bg, phase, todo>>
      \/ bg' = counted /\ phase' = "stat" /\ todo' = [todo EXCEPT ![Main] = roots']
  BY <1>3 DEF counted
<1> QED
  BY <1>1, <1>2, <1>5, <1>6, <1>7, <1>8

LEMMA TakeEventsTypes == ASSUME Types, TakeEvents PROVE Types'
<1>1. /\ events' \in Seq(SUBSET Paths) /\ roots' \in SUBSET Paths /\ bg' \in ScannerState
      /\ todo' \in [Actors -> SUBSET Paths] /\ phase' \in {phase, "stat"}
      /\ UNCHANGED <<disk, diskRule, fsOps, prev, stat, request, jobs, ignoreJobs, ignoreSnap,
                     job, requests, updates, ui, isScanning, mirror, client>>
  BY TakeEventsKeeps
<1> QED
  BY <1>1 DEF Types, DiskTypes, TaskTypes, QueueTypes, UiTypes, ClientTypes

(* The batch is applied; ignore statuses are updated from a copy of that. *)
LEMMA EventReloadKeeps ==
  ASSUME Types, EventReload
  PROVE  /\ phase = "stat" /\ phase' = "ignores" /\ todo[Main] = {}
         /\ Reloaded(bg', bg, roots, stat[Main])
         /\ ignoreSnap' \in [paths : Snapshot, rule : BOOLEAN] /\ ignoreSnap'.paths = bg'.paths
         /\ ignoreJobs' \in Seq(Paths) /\ jobs' \in Seq(Queued)
         /\ stat' \in [Actors -> [Paths -> File]]
         /\ \A a \in Workers : stat'[a] = stat[a]
         /\ UNCHANGED <<disk, diskRule, fsOps, events, prev, roots, todo, request, job, requests,
                        updates, ui, isScanning, mirror, client>>
<1> DEFINE loaded == ReloadEntries(bg, roots, stat[Main], TRUE, ReadRule)
<1>1. /\ bg \in ScannerState /\ roots \in SUBSET Paths /\ stat[Main] \in [Paths -> File]
      /\ ReadRule \in BOOLEAN \cup {None} /\ stat \in [Actors -> [Paths -> File]]
  BY MainIsActor DEF Types, TaskTypes, DiskTypes, ReadRule
<1>2. Reloaded(loaded, bg, roots, stat[Main])
  BY <1>1, ReloadEntriesKeeps
<1> HIDE DEF loaded
<1>3. loaded \in ScannerState /\ loaded.ignore \in Ignore /\ loaded.paths \in Snapshot
  BY <1>2 DEF Reloaded, ScannerState, Ignore, Snapshot
<1> DEFINE known == loaded.ignore # None
           present == loaded.paths[Gitignore] # None
           lasting == [loaded.ignore EXCEPT !.needsUpdate = FALSE]
           kept == IF known /\ present THEN lasting ELSE None
           settled == [loaded EXCEPT !.ignore = kept]
<1>4. kept \in Ignore
  <2>1. known => lasting \in Ignore
    BY <1>3 DEF Ignore
  <2> QED
    BY <2>1 DEF Ignore
<1>5. /\ bg' = settled
      /\ ignoreJobs' = IF known /\ loaded.ignore.needsUpdate THEN <<Root>> ELSE <<>>
      /\ ignoreSnap' = [paths |-> settled.paths, rule |-> Rule(settled)]
      /\ jobs' = NewJobs({p \in roots \cap Dirs : /\ stat[Main][p] # None
                                                  /\ loaded.paths[p].kind = "PendingDir"},
                         Rule(loaded))
  BY DEF EventReload, loaded
<1> HIDE DEF kept, lasting, known, present
<1>6. /\ settled \in ScannerState /\ settled.paths = loaded.paths
      /\ settled.scanId = loaded.scanId /\ settled.completedId = loaded.completedId
      /\ settled.changed = loaded.changed
  BY <1>3, <1>4 DEF ScannerState, Ignore
<1> HIDE DEF settled
<1>7. Reloaded(bg', bg, roots, stat[Main])
  BY <1>2, <1>5, <1>6 DEF Reloaded
<1>8. ignoreSnap' \in [paths : Snapshot, rule : BOOLEAN] /\ ignoreSnap'.paths = bg'.paths
  BY <1>3, <1>5, <1>6, RuleType
<1>9. ignoreJobs' \in Seq(Paths)
  <2>1. Root \in Paths /\ <<>> \in Seq(Paths)
    BY TreeAssumption
  <2>2. <<Root>> \in Seq(Paths)
    BY <2>1
  <2> QED
    BY <1>5, <2>1, <2>2
<1>10. jobs' \in Seq(Queued)
  <2> DEFINE dirs == {p \in roots \cap Dirs : /\ stat[Main][p] # None
                                              /\ loaded.paths[p].kind = "PendingDir"}
  <2>1. dirs \in SUBSET Paths /\ jobs' = NewJobs(dirs, Rule(loaded))
    BY <1>1, <1>5
  <2> HIDE DEF dirs
  <2> QED
    BY <2>1, RuleType, NewJobsType
<1>11. /\ stat' \in [Actors -> [Paths -> File]] /\ \A a \in Workers : stat'[a] = stat[a]
  <2>1. stat' = [stat EXCEPT ![Main] = NoPaths] /\ NoPaths \in [Paths -> File]
    BY DEF EventReload, NoPaths, File
  <2> QED
    BY <1>1, <2>1, ActorAssumption, MainIsActor
<1> QED
  BY <1>7, <1>8, <1>9, <1>10, <1>11 DEF EventReload, fsVars, uiVars

LEMMA EventReloadTypes == ASSUME Types, EventReload PROVE Types'
<1>1. /\ bg' \in ScannerState /\ ignoreSnap' \in [paths : Snapshot, rule : BOOLEAN]
      /\ ignoreJobs' \in Seq(Paths) /\ jobs' \in Seq(Queued) /\ stat' \in [Actors -> [Paths -> File]]
      /\ phase' = "ignores"
      /\ UNCHANGED <<disk, diskRule, fsOps, events, prev, roots, todo, request, job, requests,
                     updates, ui, isScanning, mirror, client>>
  BY EventReloadKeeps DEF Reloaded
<1> QED
  BY <1>1 DEF Types, DiskTypes, TaskTypes, QueueTypes, UiTypes, ClientTypes
(* Verdicts are recomputed for entries of the copy: the files they are of  *)
(* stay those of the copy.                                                 *)
LEMMA UpdateIgnoreStatusKeeps ==
  ASSUME Types, NEW w \in Workers, UpdateIgnoreStatus(w)
  PROVE  /\ phase = "ignores" /\ Idle(w) /\ requests = <<>>
         /\ bg' \in ScannerState /\ bg.changed \subseteq bg'.changed
         /\ bg'.scanId = bg.scanId /\ bg'.completedId = bg.completedId
         /\ \A q \in Paths :
              \/ bg'.paths[q] = bg.paths[q]
              \/ /\ q \in bg'.changed /\ ignoreSnap.paths[q] # None
                 /\ \A file : Agrees(ignoreSnap.paths[q], file) => Agrees(bg'.paths[q], file)
         /\ ignoreJobs' \in Seq(Paths) /\ jobs' \in Seq(Queued)
         /\ UNCHANGED <<disk, diskRule, fsOps, events, prev, phase, roots, request, stat, todo,
                        ignoreSnap, job, requests, updates, ui, isScanning, mirror, client>>
<1> DEFINE children == {p \in Children(Head(ignoreJobs)) : ignoreSnap.paths[p] # None}
           updated == [p \in children |->
             [ignoreSnap.paths[p] EXCEPT !.ignored = IsIgnored(ignoreSnap.rule, p)]]
           edits == {p \in children : updated[p] # ignoreSnap.paths[p]}
           revealed == {p \in edits : updated[p].kind = "UnloadedDir" /\ ~updated[p].ignored}
           indexed == [p \in Paths |-> IF p \in edits THEN updated[p] ELSE bg.paths[p]]
           revised == [bg EXCEPT !.paths = indexed, !.changed = bg.changed \cup edits]
<1>1. /\ bg \in ScannerState /\ bg.paths \in Snapshot /\ bg.changed \in SUBSET Paths
      /\ ignoreSnap.paths \in Snapshot /\ jobs \in Seq(Queued) /\ ignoreJobs \in Seq(Paths)
  BY DEF Types, ScannerState, QueueTypes, Snapshot
<1>2. ignoreSnap.rule \in BOOLEAN
  BY DEF Types, QueueTypes
<1>3. children \in SUBSET Paths /\ \A p \in children : ignoreSnap.paths[p] \in Entry
  BY <1>1 DEF Children, Snapshot
<1> HIDE DEF children
<1>4. ASSUME NEW p \in children
      PROVE  /\ updated[p] \in Entry
             /\ \A file : Agrees(ignoreSnap.paths[p], file) => Agrees(updated[p], file)
  <2> DEFINE verdict == IsIgnored(ignoreSnap.rule, p)
  <2>1. verdict \in BOOLEAN
    BY <1>2, VerdictType
  <2>2. ignoreSnap.paths[p] \in Entry /\ ignoreSnap.paths[p] # None
    BY <1>3, NoneAssumption
  <2>3. updated[p] = [ignoreSnap.paths[p] EXCEPT !.ignored = verdict]
    OBVIOUS
  <2> HIDE DEF verdict, updated
  <2>4. /\ updated[p] \in Entry /\ updated[p].inode = ignoreSnap.paths[p].inode
        /\ updated[p].mtime = ignoreSnap.paths[p].mtime
    BY <2>1, <2>2, <2>3 DEF Entry
  <2> QED
    BY <2>2, <2>4, NoneAssumption DEF Agrees
<1>5. /\ bg' = revised /\ ignoreJobs' = Tail(ignoreJobs) \o IgnoreJobsIn(children)
      /\ jobs' = jobs \o NewJobs(revealed, Rule(bg)) /\ ignoreJobs # <<>>
  BY DEF UpdateIgnoreStatus, children
<1> HIDE DEF updated
<1>6. edits \in SUBSET Paths /\ revealed \in SUBSET Paths /\ edits \subseteq children
  BY <1>3
<1> HIDE DEF edits, revealed
<1>7. indexed \in Snapshot
  BY <1>1, <1>4, <1>6 DEF Snapshot
<1>8. \A q \in Paths : indexed[q] = IF q \in edits THEN updated[q] ELSE bg.paths[q]
  OBVIOUS
<1> HIDE DEF indexed
<1>9. /\ bg' \in ScannerState /\ bg'.paths = indexed /\ bg'.changed = bg.changed \cup edits
      /\ bg'.scanId = bg.scanId /\ bg'.completedId = bg.completedId
  BY <1>1, <1>5, <1>6, <1>7 DEF ScannerState, Snapshot
<1>10. \A q \in Paths :
         \/ bg'.paths[q] = bg.paths[q]
         \/ /\ q \in bg'.changed /\ ignoreSnap.paths[q] # None
            /\ \A file : Agrees(ignoreSnap.paths[q], file) => Agrees(bg'.paths[q], file)
  BY <1>3, <1>4, <1>6, <1>8, <1>9, NoneAssumption
<1>11. ignoreJobs' \in Seq(Paths)
  <2>1. IgnoreJobsIn(children) \in Seq(Paths)
    <3>1. children \cap Dirs \in SUBSET Paths
      BY <1>3
    <3> QED
      BY <3>1, InOrderType DEF IgnoreJobsIn
  <2>2. Tail(ignoreJobs) \in Seq(Paths)
    BY <1>1, <1>5
  <2> QED
    BY <1>5, <2>1, <2>2
<1>12. jobs' \in Seq(Queued)
  <2>1. NewJobs(revealed, Rule(bg)) \in Seq(Queued)
    BY <1>6, RuleType, NewJobsType
  <2> QED
    BY <1>1, <1>5, <2>1
<1> QED
  BY <1>9, <1>10, <1>11, <1>12 DEF UpdateIgnoreStatus, fsVars, requestVars, uiVars

LEMMA UpdateIgnoreStatusTypes ==
  ASSUME Types, NEW w \in Workers, UpdateIgnoreStatus(w) PROVE Types'
<1>1. /\ bg' \in ScannerState /\ ignoreJobs' \in Seq(Paths) /\ jobs' \in Seq(Queued)
      /\ UNCHANGED <<disk, diskRule, fsOps, events, prev, phase, roots, request, stat, todo,
                     ignoreSnap, job, requests, updates, ui, isScanning, mirror, client>>
  BY UpdateIgnoreStatusKeeps
<1> QED
  BY <1>1 DEF Types, DiskTypes, TaskTypes, QueueTypes, UiTypes, ClientTypes

LEMMA EndIgnoresTypes == ASSUME Types, EndIgnores PROVE Types'
<1>1. updates' \in Seq({Started} \cup StateUpdate)
  <2>1. updates \in Seq({Started} \cup StateUpdate) /\ updates' = Append(updates, Started)
    BY DEF Types, UiTypes, EndIgnores
  <2>2. \A x \in {Started} \cup StateUpdate, s \in Seq({Started} \cup StateUpdate) :
          Append(s, x) \in Seq({Started} \cup StateUpdate)
    OBVIOUS
  <2> QED
    BY <2>1, <2>2
<1> QED
  BY <1>1 DEF EndIgnores, Types, DiskTypes, TaskTypes, QueueTypes, UiTypes, ClientTypes, fsVars,
              requestVars, queueVars, uiVars

LEMMA ProgressKeeps ==
  ASSUME Types, Progress
  PROVE  /\ phase = "initialScan" /\ bg.changed # {} /\ bg \in ScannerState
         /\ SendStatusUpdate(bg, TRUE, {}, {})
         /\ UNCHANGED <<disk, diskRule, fsOps, events, phase, roots, request, stat, todo, jobs,
                        ignoreJobs, ignoreSnap, job, requests, ui, isScanning, mirror>>
BY DEF Progress, Types, fsVars, requestVars, queueVars, uiVars

LEMMA ProgressTypes == ASSUME Types, Progress PROVE Types'
<1>1. SendStatusUpdate(bg, TRUE, {}, {}) /\ bg \in ScannerState
  BY ProgressKeeps
<1>2. /\ bg' \in ScannerState /\ prev' \in Snapshot
      /\ updates' \in Seq({Started} \cup StateUpdate) /\ ClientTypes'
  <2>1. {} \in SUBSET Paths /\ {} \in SUBSET Clients /\ TRUE \in BOOLEAN
    OBVIOUS
  <2>2. \A scanning \in BOOLEAN :
          SendStatusUpdate(bg, scanning, {}, {}) =>
            /\ bg' \in ScannerState /\ prev' \in Snapshot
            /\ updates' \in Seq({Started} \cup StateUpdate) /\ ClientTypes'
    BY <1>1, <2>1, SendStatusUpdateKeeps
  <2> QED
    BY <1>1, <2>1, <2>2, Zenon
<1>3. UNCHANGED <<disk, diskRule, fsOps, events, phase, roots, request, stat, todo, jobs, ignoreJobs,
                  ignoreSnap, job, requests, ui, isScanning, mirror>>
  BY ProgressKeeps
<1> QED
  BY <1>2, <1>3 DEF Types, DiskTypes, TaskTypes, QueueTypes, UiTypes
(* A scan ends: its number becomes that of the last complete scan. *)
LEMMA EndScanKeeps ==
  ASSUME Types, EndScan
  PROVE  /\ phase \in {"initialScan", "scan"} /\ \A w \in Workers : Idle(w)
         /\ phase' = "idle" /\ roots' = {}
         /\ \E state \in ScannerState :
              /\ state.paths = bg.paths /\ state.changed = bg.changed
              /\ state.scanId = bg.scanId /\ state.completedId = bg.scanId
              /\ SendStatusUpdate(state, FALSE, {}, roots)
         /\ UNCHANGED <<disk, diskRule, fsOps, events, request, stat, todo, jobs, ignoreJobs,
                        ignoreSnap, job, requests, ui, isScanning, mirror>>
<1> DEFINE removedIds == {bg.removed[i].id : i \in {k \in Inodes : bg.removed[k] # None}}
           completed == [bg EXCEPT !.completedId = bg.scanId]
           forgotten == [i \in Inodes |-> None]
           cleared == [completed EXCEPT !.removed = forgotten, !.scannedDirs = @ \ removedIds]
           state == IF phase = "scan" THEN cleared ELSE completed
<1>1. bg \in ScannerState /\ bg.scanId \in Nat
  BY DEF Types, ScannerState
<1>2. /\ completed \in ScannerState /\ completed.paths = bg.paths /\ completed.changed = bg.changed
      /\ completed.scanId = bg.scanId /\ completed.completedId = bg.scanId
  BY <1>1 DEF ScannerState
<1>3. forgotten \in [Inodes -> RemovedEntry \cup {None}]
  OBVIOUS
<1>4. SendStatusUpdate(state, FALSE, {}, roots)
  BY DEF EndScan
<1> HIDE DEF completed, forgotten, removedIds
<1>5. /\ cleared \in ScannerState /\ cleared.paths = bg.paths /\ cleared.changed = bg.changed
      /\ cleared.scanId = bg.scanId /\ cleared.completedId = bg.scanId
  BY <1>2, <1>3 DEF ScannerState
<1> HIDE DEF cleared
<1>6. /\ state \in ScannerState /\ state.paths = bg.paths /\ state.changed = bg.changed
      /\ state.scanId = bg.scanId /\ state.completedId = bg.scanId
  BY <1>2, <1>5
<1> HIDE DEF state
<1>7. /\ phase \in {"initialScan", "scan"} /\ \A w \in Workers : Idle(w)
      /\ phase' = "idle" /\ roots' = {}
      /\ UNCHANGED <<disk, diskRule, fsOps, events, request, stat, todo, jobs, ignoreJobs,
                     ignoreSnap, job, requests, ui, isScanning, mirror>>
  BY DEF EndScan, fsVars, requestVars, queueVars, uiVars
<1> QED
  BY <1>4, <1>6, <1>7

(* The two updates a scan can send, in one form. *)
LEMMA SentTypes ==
  ASSUME Types, NEW state \in ScannerState, NEW scanning \in BOOLEAN, NEW under \in SUBSET Paths,
         SendStatusUpdate(state, scanning, {}, under)
  PROVE  /\ bg' \in ScannerState /\ prev' \in Snapshot
         /\ updates' \in Seq({Started} \cup StateUpdate) /\ ClientTypes'
<1>1. {} \in SUBSET Clients
  OBVIOUS
<1> QED
  BY <1>1, SendStatusUpdateKeeps

LEMMA EndScanTypes == ASSUME Types, EndScan PROVE Types'
<1>1. PICK state \in ScannerState : SendStatusUpdate(state, FALSE, {}, roots)
  BY EndScanKeeps
<1>2. /\ bg' \in ScannerState /\ prev' \in Snapshot
      /\ updates' \in Seq({Started} \cup StateUpdate) /\ ClientTypes'
  <2>1. roots \in SUBSET Paths /\ FALSE \in BOOLEAN
    BY DEF Types, TaskTypes
  <2>2. \A scanning \in BOOLEAN :
          SendStatusUpdate(state, scanning, {}, roots) =>
            /\ bg' \in ScannerState /\ prev' \in Snapshot
            /\ updates' \in Seq({Started} \cup StateUpdate) /\ ClientTypes'
    BY <2>1, SentTypes
  <2> QED
    BY <1>1, <2>1, <2>2, Zenon
<1>3. /\ phase' = "idle" /\ roots' = {}
      /\ UNCHANGED <<disk, diskRule, fsOps, events, request, stat, todo, jobs, ignoreJobs,
                     ignoreSnap, job, requests, ui, isScanning, mirror>>
  BY EndScanKeeps
<1> QED
  BY <1>2, <1>3 DEF Types, DiskTypes, TaskTypes, QueueTypes, UiTypes

(* What the UI thread receives. *)
LEMMA ReceiveScanStateKeeps ==
  ASSUME Types, ReceiveScanState
  PROVE  /\ updates # <<>> /\ updates' = Tail(updates)
         /\ Head(updates) \in {Started} \cup StateUpdate
         /\ \/ /\ Head(updates).started /\ Head(updates) = Started /\ isScanning'
               /\ ui' = ui /\ mirror' = mirror /\ client' = Received
            \/ /\ ~Head(updates).started /\ Head(updates) \in StateUpdate
               /\ isScanning' = Head(updates).scanning
               /\ ui' = [paths |-> Head(updates).paths, scanId |-> Head(updates).scanId,
                         completedId |-> Head(updates).completedId]
               /\ mirror' = [p \in Paths |->
                    IF p \in Head(updates).changes THEN Head(updates).paths[p] ELSE mirror[p]]
               /\ (~Head(updates).scanning) \in BOOLEAN
               /\ client' = Acked(Received, Head(updates).senders, ~Head(updates).scanning, 0)
         /\ UNCHANGED <<disk, diskRule, fsOps, events, bg, prev, phase, roots, request, stat, todo,
                        jobs, ignoreJobs, ignoreSnap, job, requests>>
<1>1. updates \in Seq({Started} \cup StateUpdate) /\ updates # <<>>
  BY DEF Types, UiTypes, ReceiveScanState
<1>2. Head(updates) \in {Started} \cup StateUpdate
  BY <1>1
<1>3. CASE Head(updates) = Started
  <2>1. Head(updates).started
    BY <1>3 DEF Started
  <2> QED
    BY <1>1, <1>2, <1>3, <2>1 DEF ReceiveScanState, fsVars, requestVars, queueVars
<1>4. CASE Head(updates) \in StateUpdate
  <2>1. ~Head(updates).started /\ (~Head(updates).scanning) \in BOOLEAN
    BY <1>4 DEF StateUpdate
  <2> QED
    BY <1>1, <1>2, <1>4, <2>1 DEF ReceiveScanState, fsVars, requestVars, queueVars
<1> QED
  BY <1>2, <1>3, <1>4

(* The client tasks after an update: those it answers are acked. *)
LEMMA ReceivedClients ==
  ASSUME Types, ReceiveScanState
  PROVE  /\ client' \in [Clients -> ClientState] /\ ClientTypes'
         /\ \A c \in Clients :
              /\ SameAsk(client'[c], client[c]) /\ client'[c].seen = client[c].seen
              /\ \/ client'[c].step = client[c].step /\ client'[c].byMain = client[c].byMain
                 \/ /\ ~Head(updates).started /\ c \in Head(updates).senders
                    /\ client'[c].step = "acked"
                    /\ client'[c].byMain = ~Head(updates).scanning
<1>1. /\ Received \in [Clients -> ClientState]
      /\ \A c \in Clients :
           /\ SameAsk(Received[c], client[c]) /\ Received[c].step = client[c].step
           /\ Received[c].byMain = client[c].byMain /\ Received[c].seen = client[c].seen
  BY ReceivedKeeps
<1>2. CASE client' = Received
  BY <1>1, <1>2 DEF Types, ClientTypes, SameAsk
<1>3. CASE /\ ~Head(updates).started
           /\ (~Head(updates).scanning) \in BOOLEAN
           /\ client' = Acked(Received, Head(updates).senders, ~Head(updates).scanning, 0)
  <2> DEFINE idle == ~Head(updates).scanning
             senders == Head(updates).senders
  <2>1. idle \in BOOLEAN /\ client' = Acked(Received, senders, idle, 0) /\ 0 \in Nat
    BY <1>3
  <2> HIDE DEF idle, senders
  <2>2. /\ client' \in [Clients -> ClientState]
        /\ \A c \in Clients : SameAsk(client'[c], Received[c]) /\ client'[c].seen = Received[c].seen
        /\ \A c \in Clients : c \in senders => client'[c].step = "acked" /\ client'[c].byMain = idle
        /\ \A c \in Clients : c \notin senders => client'[c] = Received[c]
    BY <1>1, <2>1, AckedKeeps
  <2> QED
    BY <1>1, <1>3, <2>2 DEF Types, ClientTypes, SameAsk, idle, senders
<1> QED
  BY <1>2, <1>3, ReceiveScanStateKeeps

LEMMA ReceiveScanStateTypes == ASSUME Types, ReceiveScanState PROVE Types'
<1>1. updates' \in Seq({Started} \cup StateUpdate)
  BY ReceiveScanStateKeeps DEF Types, UiTypes
<1>2. /\ ui' \in [paths : Snapshot, scanId : Nat, completedId : Nat]
      /\ isScanning' \in BOOLEAN /\ mirror' \in Snapshot
  <2>1. CASE isScanning' /\ ui' = ui /\ mirror' = mirror
    <3>1. isScanning' \in BOOLEAN
      BY ReceiveScanStateKeeps DEF StateUpdate
    <3> QED
      BY <2>1, <3>1 DEF Types, UiTypes
  <2>2. ASSUME NEW update \in StateUpdate, update = Head(updates),
               isScanning' = update.scanning,
               ui' = [paths |-> update.paths, scanId |-> update.scanId,
                      completedId |-> update.completedId],
               mirror' = [p \in Paths |->
                    IF p \in update.changes THEN update.paths[p] ELSE mirror[p]]
        PROVE  /\ ui' \in [paths : Snapshot, scanId : Nat, completedId : Nat]
               /\ isScanning' \in BOOLEAN /\ mirror' \in Snapshot
    BY <2>2 DEF Types, UiTypes, StateUpdate, Snapshot
  <2> QED
    BY <2>1, <2>2, ReceiveScanStateKeeps
<1>3. ClientTypes'
  BY ReceivedClients
<1> QED
  BY <1>1, <1>2, <1>3, ReceiveScanStateKeeps DEF Types, DiskTypes, TaskTypes, QueueTypes, UiTypes
LEMMA NextTypes == Types /\ [Next]_vars => Types'
<1> SUFFICES ASSUME Types, [Next]_vars PROVE Types'
  OBVIOUS
<1>1. CASE External
  BY <1>1, ExternalTypes
<1>2. ASSUME NEW c \in Clients, ClientStep(c) PROVE Types'
  BY <1>2, ClientStartTypes, ClientSubmitTypes, ClientResumeTypes DEF ClientStep
<1>3. ASSUME NEW a \in Actors, Serve(a) PROVE Types'
  BY <1>3, TakeRequestTypes, LoadNextTypes, LoadDoneTypes, ReadDirTypes, PopulateTypes, StatTypes,
     ReloadTypes, ReportTypes DEF Serve
<1>4. ASSUME NEW w \in Workers, Scan(w) PROVE Types'
  BY <1>4, TakeJobTypes, UpdateIgnoreStatusTypes DEF Scan
<1>5. CASE MainStep
  BY <1>5, TakeEventsTypes, EventReloadTypes, EndIgnoresTypes, ProgressTypes, EndScanTypes
     DEF MainStep
<1>6. CASE ReceiveScanState
  BY <1>6, ReceiveScanStateTypes
<1>7. CASE UNCHANGED vars
  BY <1>7 DEF vars, Types, DiskTypes, TaskTypes, QueueTypes, UiTypes, ClientTypes
<1> QED
  BY <1>1, <1>2, <1>3, <1>4, <1>5, <1>6, <1>7 DEF Next

(* Every variable keeps its type, in any tree and with any workers and     *)
(* clients: no operation on the index leaves an entry of another shape, a  *)
(* path outside the tree or a count below zero.                            *)
THEOREM ScannerTypes == Spec => []TypeOK
<1>1. Spec => []Types
  BY InitTypes, NextTypes, PTL DEF Spec
<1> QED
  BY <1>1, TypesImplyTypeOK, PTL
-----------------------------------------------------------------------------
(***************************************************************************)
(* A finished scan is complete.  While the main task waits for work no     *)
(* worker is busy, and while it does not it serves no request: so a scan   *)
(* that ends, and a request that the main task serves, leave the number of *)
(* the last complete scan equal to that of the last scan.                  *)
(***************************************************************************)
TakesTurns ==
  /\ phase = "idle" => \A w \in Workers : Idle(w)
  /\ phase # "idle" => Idle(Main)

(* Whoever serves is busy, or takes a request in the phase that allows it, *)
(* and leaves the others as they are.                                      *)
LEMMA ServeKeeps ==
  ASSUME Types, NEW a \in Actors, Serve(a)
  PROVE  /\ ~Idle(a) \/ MayServe(a) \/ UNCHANGED <<bg, request, job, updates>>
         /\ \A b \in Actors : b # a => request'[b] = request[b] /\ job'[b] = job[b]
         /\ UNCHANGED <<disk, diskRule, fsOps, events, phase, roots, ignoreJobs, ignoreSnap, ui,
                        isScanning, mirror>>
<1>1. CASE TakeRequest(a)
  BY <1>1, TakeRequestKeeps
<1>2. CASE LoadNext(a)
  BY <1>2, LoadNextKeeps DEF LoadNext, Idle, fsVars, queueVars, uiVars
<1>3. CASE LoadDone(a)
  BY <1>3, LoadDoneKeeps DEF LoadDone, Idle, fsVars, queueVars, uiVars
<1>4. CASE ReadDir(a)
  BY <1>4 DEF ReadDir, Idle, fsVars, requestVars, queueVars, uiVars, Types, TaskTypes
<1>5. CASE Populate(a)
  BY <1>5, PopulateKeeps DEF Populate, Idle, fsVars, queueVars, uiVars
<1>6. CASE Stat(a)
  BY <1>6 DEF Stat, fsVars, queueVars, uiVars
<1>7. CASE Reload(a)
  BY <1>7, ReloadKeeps DEF Reload, Idle, fsVars, queueVars, uiVars
<1>8. CASE Report(a)
  BY <1>8, ReportKeeps DEF Idle
<1> QED
  BY <1>1, <1>2, <1>3, <1>4, <1>5, <1>6, <1>7, <1>8 DEF Serve

LEMMA TakesTurnsNext == Types /\ TakesTurns /\ [Next]_vars => TakesTurns'
<1> SUFFICES ASSUME Types, TakesTurns, [Next]_vars PROVE TakesTurns'
  OBVIOUS
<1>1. ASSUME UNCHANGED <<request, job>>,
             \/ phase' = phase
             \/ phase # "idle" /\ phase' # "idle"
             \/ phase = "idle" /\ Idle(Main)
             \/ phase' = "idle" /\ \A w \in Workers : Idle(w)
      PROVE  TakesTurns'
  <2>1. \A a : Idle(a)' = Idle(a)
    BY <1>1 DEF Idle
  <2> QED
    BY <1>1, <2>1 DEF TakesTurns
<1>2. CASE External \/ ReceiveScanState \/ UNCHANGED vars
  BY <1>1, <1>2 DEF External, ReceiveScanState, vars, requestVars
<1>3. ASSUME NEW c \in Clients, ClientStep(c) PROVE TakesTurns'
  BY <1>1, <1>3 DEF ClientStep, ClientStart, ClientSubmit, ClientResume, requestVars
<1>4. ASSUME NEW a \in Actors, Serve(a) PROVE TakesTurns'
  <2>1. /\ ~Idle(a) \/ MayServe(a) \/ UNCHANGED <<bg, request, job, updates>>
        /\ \A b \in Actors : b # a => request'[b] = request[b] /\ job'[b] = job[b]
        /\ phase' = phase
    BY <1>4, ServeKeeps
  <2>2. \A b \in Actors : b # a => Idle(b)' = Idle(b)
    BY <2>1 DEF Idle
  <2>3. CASE ~Idle(a) \/ MayServe(a)
    BY <2>1, <2>2, <2>3, MainIsActor, ActorAssumption DEF TakesTurns, MayServe, Actors
  <2> QED
    BY <1>1, <2>1, <2>3
<1>5. ASSUME NEW w \in Workers, TakeJob(w) PROVE TakesTurns'
  <2>1. request' = request /\ job'[Main] = job[Main] /\ phase' = phase /\ phase # "idle"
    BY <1>5, MainIsActor, ActorAssumption DEF TakeJob, requestVars, Types, TaskTypes
  <2> QED
    BY <2>1 DEF TakesTurns, Idle
<1>6. ASSUME NEW w \in Workers, UpdateIgnoreStatus(w) PROVE TakesTurns'
  BY <1>1, <1>6 DEF UpdateIgnoreStatus, requestVars
<1>7. CASE TakeEvents
  BY <1>1, <1>7 DEF TakeEvents
<1>8. CASE EventReload \/ EndIgnores \/ Progress
  BY <1>1, <1>8 DEF EventReload, EndIgnores, Progress, requestVars
<1>9. CASE EndScan
  BY <1>1, <1>9 DEF EndScan, requestVars
<1> QED
  BY <1>2, <1>3, <1>4, <1>5, <1>6, <1>7, <1>8, <1>9 DEF Next, Scan, MainStep

(* The numbers of the scans: in the scanner, on their way and in the UI.   *)
NumberedUpdates ==
  {update \in {Started} \cup StateUpdate :
     ~update.started /\ ~update.scanning => update.completedId = update.scanId}

ScanNumbers ==
  /\ phase = "idle" => bg.completedId = bg.scanId
  /\ updates \in Seq(NumberedUpdates)
  /\ ~isScanning => ui.completedId = ui.scanId

LEMMA AppendNumbered ==
  ASSUME NEW update \in NumberedUpdates, NEW queue \in Seq(NumberedUpdates)
  PROVE  Append(queue, update) \in Seq(NumberedUpdates)
OBVIOUS

(* An update says that a scan is over only with the number of that scan.   *)
LEMMA SentNumbers ==
  ASSUME Types, ScanNumbers, NEW state \in ScannerState, NEW scanning \in BOOLEAN,
         NEW senders \in SUBSET Clients, NEW under \in SUBSET Paths,
         SendStatusUpdate(state, scanning, senders, under),
         scanning \/ state.completedId = state.scanId
  PROVE  updates' \in Seq(NumberedUpdates)
<1> DEFINE update == Update(state, senders, scanning, under)
<1>1. \/ updates' = updates
      \/ updates' = Append(updates, update) /\ update \in StateUpdate
  BY SendStatusUpdateKeeps
<1>2. /\ update.scanning = scanning /\ update.scanId = state.scanId
      /\ update.completedId = state.completedId
  BY DEF Update
<1> HIDE DEF update
<1>3. update \in StateUpdate => update \in NumberedUpdates
  BY <1>2 DEF NumberedUpdates
<1> QED
  BY <1>1, <1>3, AppendNumbered DEF ScanNumbers

LEMMA ServeNumbers ==
  ASSUME Types, TakesTurns, ScanNumbers, NEW a \in Actors, Serve(a) PROVE ScanNumbers'
<1>1. UNCHANGED <<phase, ui, isScanning>>
  BY ServeKeeps
<1>2. ASSUME bg.completedId = bg.scanId => bg'.completedId = bg'.scanId, updates' = updates
      PROVE  ScanNumbers'
  BY <1>1, <1>2 DEF ScanNumbers
<1>3. CASE TakeRequest(a)
  BY <1>2, <1>3, TakeRequestKeeps
<1>4. CASE LoadNext(a) \/ ReadDir(a) \/ Stat(a)
  BY <1>2, <1>4 DEF LoadNext, ReadDir, Stat
<1>5. CASE LoadDone(a)
  BY <1>2, <1>5, LoadDoneKeeps DEF LoadDone
<1>6. CASE Populate(a)
  BY <1>2, <1>6, PopulateKeeps DEF Populate
<1>7. CASE Reload(a)
  BY <1>2, <1>7, ReloadKeeps DEF Reload, Reloaded
<1>8. CASE Report(a)
  <2>1. /\ bg \in ScannerState /\ {} \in SUBSET Paths
        /\ request[a].senders \in SUBSET Clients /\ (a # Main) \in BOOLEAN
        /\ SendStatusUpdate(bg, a # Main, request[a].senders, {}) /\ request[a] # None
    BY <1>8, ReportKeeps DEF Types
  <2>2. a = Main => phase = "idle"
    BY <2>1 DEF TakesTurns, Idle
  <2>3. a # Main \/ bg.completedId = bg.scanId
    BY <2>2 DEF ScanNumbers
  <2>4. updates' \in Seq(NumberedUpdates)
    BY <2>1, <2>3, SentNumbers
  <2>5. bg'.scanId = bg.scanId /\ bg'.completedId = bg.completedId
    BY <2>1, SendStatusUpdateKeeps
  <2> QED
    BY <1>1, <2>4, <2>5 DEF ScanNumbers
<1> QED
  BY <1>3, <1>4, <1>5, <1>6, <1>7, <1>8 DEF Serve

LEMMA ScanNumbersNext == Types /\ TakesTurns /\ ScanNumbers /\ [Next]_vars => ScanNumbers'
<1> SUFFICES ASSUME Types, TakesTurns, ScanNumbers, [Next]_vars PROVE ScanNumbers'
  OBVIOUS
<1>1. CASE External \/ UNCHANGED vars
  BY <1>1 DEF External, vars, uiVars, ScanNumbers
<1>2. ASSUME NEW c \in Clients, ClientStep(c) PROVE ScanNumbers'
  BY <1>2 DEF ClientStep, ClientStart, ClientSubmit, ClientResume, uiVars, ScanNumbers
<1>3. ASSUME NEW a \in Actors, Serve(a) PROVE ScanNumbers'
  BY <1>3, ServeNumbers
<1>4. ASSUME NEW w \in Workers, Scan(w) PROVE ScanNumbers'
  <2>1. CASE TakeJob(w)
    BY <2>1 DEF TakeJob, uiVars, ScanNumbers
  <2>2. CASE UpdateIgnoreStatus(w)
    BY <2>2, UpdateIgnoreStatusKeeps DEF ScanNumbers
  <2> QED
    BY <1>4, <2>1, <2>2 DEF Scan
<1>5. CASE TakeEvents
  BY <1>5, TakeEventsKeeps DEF ScanNumbers
<1>6. CASE EventReload
  BY <1>6, EventReloadKeeps DEF ScanNumbers
<1>7. CASE EndIgnores
  <2>1. Started \in NumberedUpdates
    BY DEF NumberedUpdates, Started
  <2>2. updates' = Append(updates, Started) /\ phase' # "idle" /\ UNCHANGED <<ui, isScanning>>
    BY <1>7 DEF EndIgnores, uiVars
  <2> QED
    BY <2>1, <2>2, AppendNumbered DEF ScanNumbers
<1>8. CASE Progress
  <2>1. TRUE \in BOOLEAN /\ {} \in SUBSET Clients /\ {} \in SUBSET Paths
    OBVIOUS
  <2>2. \A scanning \in BOOLEAN : scanning /\ SendStatusUpdate(bg, scanning, {}, {}) =>
          updates' \in Seq(NumberedUpdates)
    BY <1>8, <2>1, ProgressKeeps, SentNumbers
  <2>3. updates' \in Seq(NumberedUpdates)
    BY <1>8, <2>1, <2>2, ProgressKeeps, Zenon
  <2> QED
    BY <1>8, <2>3, ProgressKeeps DEF ScanNumbers
<1>9. CASE EndScan
  <2>1. PICK state \in ScannerState :
          /\ state.scanId = bg.scanId /\ state.completedId = bg.scanId
          /\ SendStatusUpdate(state, FALSE, {}, roots)
    BY <1>9, EndScanKeeps
  <2>2. FALSE \in BOOLEAN /\ {} \in SUBSET Clients /\ roots \in SUBSET Paths
    BY DEF Types, TaskTypes
  <2>3. \A scanning \in BOOLEAN : SendStatusUpdate(state, scanning, {}, roots) =>
          /\ updates' \in Seq(NumberedUpdates)
          /\ bg'.scanId = state.scanId /\ bg'.completedId = state.completedId
    BY <2>1, <2>2, SentNumbers, SendStatusUpdateKeeps
  <2>4. /\ updates' \in Seq(NumberedUpdates)
        /\ bg'.scanId = state.scanId /\ bg'.completedId = state.completedId
    BY <2>1, <2>2, <2>3, Zenon
  <2> QED
    BY <1>9, <2>1, <2>4, EndScanKeeps DEF ScanNumbers
<1>10. CASE ReceiveScanState
  <2>1. /\ updates \in Seq(NumberedUpdates) /\ updates # <<>> /\ updates' = Tail(updates)
        /\ UNCHANGED <<bg, phase>>
    BY <1>10, ReceiveScanStateKeeps DEF ScanNumbers
  <2>2. Head(updates) \in NumberedUpdates /\ updates' \in Seq(NumberedUpdates)
    BY <2>1
  <2>3. \/ isScanning' /\ ui' = ui
        \/ /\ ~Head(updates).started /\ isScanning' = Head(updates).scanning
           /\ ui'.scanId = Head(updates).scanId /\ ui'.completedId = Head(updates).completedId
    BY <1>10, ReceiveScanStateKeeps
  <2> QED
    BY <2>1, <2>2, <2>3 DEF ScanNumbers, NumberedUpdates
<1> QED
  BY <1>1, <1>2, <1>3, <1>4, <1>5, <1>6, <1>7, <1>8, <1>9, <1>10 DEF Next, MainStep

(* Whenever is_scanning is false the snapshot the UI has is that of a      *)
(* completed scan, for any number of workers, clients and changes of the   *)
(* disk: what scan_complete waits for is enough.                           *)
THEOREM NotScanningIsComplete == Spec => []NotScanningMeansComplete
<1>1. Init => TakesTurns /\ ScanNumbers
  <2> SUFFICES ASSUME Init PROVE TakesTurns /\ ScanNumbers
    OBVIOUS
  <2>1. Started \in NumberedUpdates
    BY DEF NumberedUpdates, Started
  <2> QED
    BY <2>1, MainIsActor DEF Init, TakesTurns, Idle, ScanNumbers
<1>2. Types /\ TakesTurns /\ ScanNumbers /\ [Next]_vars => TakesTurns' /\ ScanNumbers'
  BY TakesTurnsNext, ScanNumbersNext
<1>3. ScanNumbers => NotScanningMeansComplete
  BY DEF ScanNumbers, NotScanningMeansComplete
<1> QED
  BY <1>1, <1>2, <1>3, InitTypes, NextTypes, PTL DEF Spec
-----------------------------------------------------------------------------
(***************************************************************************)
(* A listener knows the snapshot.  The list of changed paths covers every  *)
(* difference to the last update sent, so each update names all that it    *)
(* changes of the one before it; the updates on their way lead from the    *)
(* snapshot that the UI has to the last one sent.                          *)
(***************************************************************************)
ChangesCovered ==
  \A q \in Paths : prev[q] # bg.paths[q] => \E p \in bg.changed : q \in Under(p)

UpdatesLead ==
  \E shown \in [0 .. Len(updates) -> Snapshot] :
    /\ shown[0] = ui.paths /\ shown[Len(updates)] = prev
    /\ \A n \in 1 .. Len(updates) :
         \/ updates[n].started /\ shown[n] = shown[n - 1]
         \/ /\ ~updates[n].started /\ shown[n] = updates[n].paths
            /\ \A q \in Paths : shown[n][q] # shown[n - 1][q] => q \in updates[n].changes

InSync == ChangesCovered /\ UpdatesLead /\ mirror = ui.paths

LEMMA AppendLeads ==
  ASSUME Types, UpdatesLead, NEW update, updates' = Append(updates, update), ui' = ui,
         prev' \in Snapshot,
         \/ update.started /\ prev' = prev
         \/ /\ ~update.started /\ prev' = update.paths
            /\ \A q \in Paths : prev'[q] # prev[q] => q \in update.changes
  PROVE  UpdatesLead'
<1> DEFINE last == Len(updates)
<1>1. updates \in Seq({Started} \cup StateUpdate) /\ last \in Nat
  BY DEF Types, UiTypes
<1>2. /\ Len(updates') = last + 1 /\ updates'[last + 1] = update
      /\ \A n \in 1 .. last : updates'[n] = updates[n]
  BY <1>1
<1>3. PICK shown \in [0 .. last -> Snapshot] :
        /\ shown[0] = ui.paths /\ shown[last] = prev
        /\ \A n \in 1 .. last :
             \/ updates[n].started /\ shown[n] = shown[n - 1]
             \/ /\ ~updates[n].started /\ shown[n] = updates[n].paths
                /\ \A q \in Paths : shown[n][q] # shown[n - 1][q] => q \in updates[n].changes
  BY DEF UpdatesLead
<1> HIDE DEF last
<1> DEFINE longer == [n \in 0 .. last + 1 |-> IF n = last + 1 THEN prev' ELSE shown[n]]
<1>4. /\ longer \in [0 .. last + 1 -> Snapshot] /\ longer[last + 1] = prev'
      /\ longer[last] = prev
      /\ longer[0] = ui'.paths /\ \A n \in 0 .. last : longer[n] = shown[n]
  BY <1>1, <1>3
<1> HIDE DEF longer
<1>5. ASSUME NEW n \in 1 .. last + 1
      PROVE  \/ updates'[n].started /\ longer[n] = longer[n - 1]
             \/ /\ ~updates'[n].started /\ longer[n] = updates'[n].paths
                /\ \A q \in Paths : longer[n][q] # longer[n - 1][q] => q \in updates'[n].changes
  <2>1. CASE n = last + 1
    <3>1. n - 1 = last
      BY <1>1, <2>1
    <3> QED
      BY <1>2, <1>4, <2>1, <3>1
  <2>2. CASE n # last + 1
    <3>1. n \in 1 .. last /\ n - 1 \in 0 .. last /\ n \in 0 .. last
      BY <1>1, <2>2
    <3> QED
      BY <1>2, <1>3, <1>4, <3>1
  <2> QED
    BY <2>1, <2>2
<1> QED
  BY <1>2, <1>4, <1>5 DEF UpdatesLead

LEMMA SentInSync ==
  ASSUME Types, InSync, NEW state \in ScannerState, NEW scanning \in BOOLEAN,
         NEW senders \in SUBSET Clients, NEW under \in SUBSET Paths,
         SendStatusUpdate(state, scanning, senders, under),
         state.paths = bg.paths, state.changed = bg.changed, ui' = ui, mirror' = mirror
  PROVE  InSync'
<1> DEFINE update == Update(state, senders, scanning, under)
<1>1. /\ bg'.paths = bg.paths /\ bg'.changed = {} /\ prev' \in Snapshot
      /\ \/ bg.changed = {} /\ prev' = prev /\ updates' = updates
         \/ /\ updates' = Append(updates, update) /\ update \in StateUpdate
            /\ prev' = bg.paths
  BY SendStatusUpdateKeeps
<1>2. CASE bg.changed = {} /\ prev' = prev /\ updates' = updates
  <2>1. ChangesCovered'
    BY <1>1, <1>2 DEF InSync, ChangesCovered
  <2>2. UpdatesLead'
    BY <1>2 DEF InSync, UpdatesLead
  <2> QED
    BY <2>1, <2>2 DEF InSync
<1>3. CASE updates' = Append(updates, update) /\ update \in StateUpdate /\ prev' = bg.paths
  <2>1. /\ ~update.started /\ update.paths = bg.paths
        /\ update.changes = Differing(prev, bg.paths, bg.changed \cup under)
    BY <1>3 DEF Update, StateUpdate
  <2> HIDE DEF update
  <2>2. \A q \in Paths : prev'[q] # prev[q] => q \in update.changes
    BY <1>3, <2>1 DEF InSync, ChangesCovered, Differing
  <2>3. UpdatesLead'
    BY <1>1, <1>3, <2>1, <2>2, AppendLeads DEF InSync
  <2>4. ChangesCovered'
    BY <1>1, <1>3 DEF ChangesCovered
  <2> QED
    BY <2>3, <2>4 DEF InSync
<1> QED
  BY <1>1, <1>2, <1>3

LEMMA ServeInSync == ASSUME Types, InSync, NEW a \in Actors, Serve(a) PROVE InSync'
<1>1. UNCHANGED <<ui, mirror>>
  BY ServeKeeps
<1>2. ASSUME UNCHANGED <<prev, updates>>, bg.changed \subseteq bg'.changed,
             \A q \in Paths : bg'.paths[q] # bg.paths[q] => \E p \in bg'.changed : q \in Under(p)
      PROVE  InSync'
  BY <1>1, <1>2 DEF InSync, ChangesCovered, UpdatesLead
<1>3. CASE TakeRequest(a)
  BY <1>2, <1>3, TakeRequestKeeps
<1>4. CASE LoadNext(a) \/ ReadDir(a) \/ Stat(a)
  BY <1>2, <1>4 DEF LoadNext, ReadDir, Stat
<1>5. CASE LoadDone(a)
  BY <1>2, <1>5, LoadDoneKeeps DEF LoadDone
<1>6. CASE Populate(a)
  BY <1>2, <1>6, PopulateKeeps DEF Populate
<1>7. CASE Reload(a)
  BY <1>2, <1>7, ReloadKeeps DEF Reload, Reloaded
<1>8. CASE Report(a)
  <2>1. /\ bg \in ScannerState /\ {} \in SUBSET Paths
        /\ request[a].senders \in SUBSET Clients /\ (a # Main) \in BOOLEAN
        /\ SendStatusUpdate(bg, a # Main, request[a].senders, {})
    BY <1>8, ReportKeeps DEF Types
  <2> QED
    BY <1>1, <2>1, SentInSync
<1> QED
  BY <1>3, <1>4, <1>5, <1>6, <1>7, <1>8 DEF Serve

LEMMA ReceiveInSync == ASSUME Types, InSync, ReceiveScanState PROVE InSync'
<1> DEFINE last == Len(updates)
           update == Head(updates)
<1>1. /\ updates \in Seq({Started} \cup StateUpdate) /\ last \in Nat \ {0}
      /\ updates' = Tail(updates) /\ update = updates[1]
      /\ UNCHANGED <<bg, prev>> /\ ui.paths \in Snapshot
  BY ReceiveScanStateKeeps DEF Types, UiTypes
<1>2. /\ Len(updates') = last - 1
      /\ \A n \in 1 .. last - 1 : updates'[n] = updates[n + 1]
  BY <1>1
<1>3. PICK shown \in [0 .. last -> Snapshot] :
        /\ shown[0] = ui.paths /\ shown[last] = prev
        /\ \A n \in 1 .. last :
             \/ updates[n].started /\ shown[n] = shown[n - 1]
             \/ /\ ~updates[n].started /\ shown[n] = updates[n].paths
                /\ \A q \in Paths : shown[n][q] # shown[n - 1][q] => q \in updates[n].changes
  BY DEF InSync, UpdatesLead
<1>4. ui'.paths = shown[1] /\ mirror' = ui'.paths
  <2>1. \/ update.started /\ shown[1] = ui.paths
        \/ /\ ~update.started /\ shown[1] = update.paths /\ shown[1] \in Snapshot
           /\ \A q \in Paths : shown[1][q] # ui.paths[q] => q \in update.changes
    <3>1. 1 \in 1 .. last /\ 1 - 1 = 0 /\ 1 \in 0 .. last
      BY <1>1
    <3> QED
      BY <1>1, <1>3, <3>1
  <2>2. CASE update.started /\ shown[1] = ui.paths
    BY <2>2, ReceiveScanStateKeeps DEF InSync
  <2>3. CASE /\ ~update.started /\ shown[1] = update.paths /\ shown[1] \in Snapshot
             /\ \A q \in Paths : shown[1][q] # ui.paths[q] => q \in update.changes
    <3>1. /\ ui'.paths = update.paths
          /\ mirror' = [p \in Paths |->
               IF p \in update.changes THEN update.paths[p] ELSE mirror[p]]
      BY <2>3, ReceiveScanStateKeeps
    <3>2. mirror' = update.paths
      BY <2>3, <3>1 DEF InSync, Snapshot
    <3> QED
      BY <2>3, <3>1, <3>2
  <2> QED
    BY <2>1, <2>2, <2>3
<1> HIDE DEF last, update
<1> DEFINE rest == [n \in 0 .. last - 1 |-> shown[n + 1]]
<1>5. /\ rest \in [0 .. last - 1 -> Snapshot] /\ rest[0] = shown[1]
      /\ rest[last - 1] = shown[last]
      /\ \A n \in 0 .. last - 1 : rest[n] = shown[n + 1]
  BY <1>1
<1> HIDE DEF rest
<1>6. ASSUME NEW n \in 1 .. last - 1
      PROVE  \/ updates'[n].started /\ rest[n] = rest[n - 1]
             \/ /\ ~updates'[n].started /\ rest[n] = updates'[n].paths
                /\ \A q \in Paths : rest[n][q] # rest[n - 1][q] => q \in updates'[n].changes
  <2>1. /\ n + 1 \in 1 .. last /\ (n + 1) - 1 = n /\ (n - 1) + 1 = n
        /\ n \in 0 .. last - 1 /\ n - 1 \in 0 .. last - 1
    BY <1>1
  <2>2. rest[n] = shown[n + 1] /\ rest[n - 1] = shown[n] /\ updates'[n] = updates[n + 1]
    BY <1>2, <1>5, <2>1
  <2> QED
    BY <1>3, <2>1, <2>2
<1>7. UpdatesLead'
  <2>1. rest[0] = ui'.paths /\ rest[last - 1] = prev'
    BY <1>1, <1>3, <1>4, <1>5
  <2> QED
    BY <1>2, <1>5, <1>6, <2>1 DEF UpdatesLead
<1>8. ChangesCovered'
  BY <1>1 DEF InSync, ChangesCovered
<1> QED
  BY <1>4, <1>7, <1>8 DEF InSync

LEMMA InSyncNext == Types /\ InSync /\ [Next]_vars => InSync'
<1> SUFFICES ASSUME Types, InSync, [Next]_vars PROVE InSync'
  OBVIOUS
<1>1. ASSUME UNCHANGED <<prev, updates, ui, mirror>>, bg.changed \subseteq bg'.changed,
             \A q \in Paths : bg'.paths[q] # bg.paths[q] => \E p \in bg'.changed : q \in Under(p)
      PROVE  InSync'
  BY <1>1 DEF InSync, ChangesCovered, UpdatesLead
<1>2. CASE External \/ UNCHANGED vars
  BY <1>1, <1>2 DEF External, vars, uiVars
<1>3. ASSUME NEW c \in Clients, ClientStep(c) PROVE InSync'
  BY <1>1, <1>3 DEF ClientStep, ClientStart, ClientSubmit, ClientResume, uiVars
<1>4. ASSUME NEW a \in Actors, Serve(a) PROVE InSync'
  BY <1>4, ServeInSync
<1>5. ASSUME NEW w \in Workers, TakeJob(w) PROVE InSync'
  BY <1>1, <1>5 DEF TakeJob, uiVars
<1>6. ASSUME NEW w \in Workers, UpdateIgnoreStatus(w) PROVE InSync'
  <2>1. \A q \in Paths : q \in Under(q)
    BY TreeAssumption DEF Under
  <2> QED
    BY <1>1, <1>6, <2>1, UpdateIgnoreStatusKeeps
<1>7. CASE TakeEvents
  BY <1>1, <1>7, TakeEventsKeeps
<1>8. CASE EventReload
  BY <1>1, <1>8, EventReloadKeeps DEF Reloaded
<1>9. CASE EndIgnores
  <2>1. /\ updates' = Append(updates, Started) /\ Started.started
        /\ UNCHANGED <<bg, prev, ui, mirror>> /\ prev \in Snapshot
    BY <1>9 DEF EndIgnores, uiVars, Started, Types
  <2>2. UpdatesLead'
    BY <2>1, AppendLeads DEF InSync
  <2> QED
    BY <2>1, <2>2 DEF InSync, ChangesCovered
<1>10. CASE Progress
  <2>1. TRUE \in BOOLEAN /\ {} \in SUBSET Clients /\ {} \in SUBSET Paths
    OBVIOUS
  <2>2. \A scanning \in BOOLEAN : SendStatusUpdate(bg, scanning, {}, {}) => InSync'
    BY <1>10, <2>1, ProgressKeeps, SentInSync
  <2> QED
    BY <1>10, <2>1, <2>2, ProgressKeeps, Zenon
<1>11. CASE EndScan
  <2>1. PICK state \in ScannerState :
          /\ state.paths = bg.paths /\ state.changed = bg.changed
          /\ SendStatusUpdate(state, FALSE, {}, roots)
    BY <1>11, EndScanKeeps
  <2>2. FALSE \in BOOLEAN /\ {} \in SUBSET Clients /\ roots \in SUBSET Paths
    BY DEF Types, TaskTypes
  <2>3. \A scanning \in BOOLEAN : SendStatusUpdate(state, scanning, {}, roots) => InSync'
    BY <1>11, <2>1, <2>2, EndScanKeeps, SentInSync
  <2> QED
    BY <2>1, <2>2, <2>3, Zenon
<1>12. CASE ReceiveScanState
  BY <1>12, ReceiveInSync
<1> QED
  BY <1>2, <1>3, <1>4, <1>5, <1>6, <1>7, <1>8, <1>9, <1>10, <1>11, <1>12 DEF Next, Scan, MainStep

(* build_diff misses nothing: a listener that applies the UpdatedEntries   *)
(* it receives knows the snapshot they were received with, whoever changed *)
(* the index in between and however many updates are on their way.         *)
THEOREM MirrorStaysInSync == Spec => []MirrorInSync
<1>1. Init => InSync
  <2> SUFFICES ASSUME Init PROVE InSync
    OBVIOUS
  <2>1. Types
    BY InitTypes
  <2>2. UpdatesLead
    <3> DEFINE same == [n \in 0 .. 1 |-> prev]
    <3>1. same \in [0 .. 1 -> Snapshot] /\ same[0] = ui.paths /\ same[1] = prev
      BY <2>1 DEF Init, Types
    <3>2. Len(updates) = 1 /\ updates[1].started
      BY DEF Init, Started
    <3> HIDE DEF same
    <3>3. \A n \in 1 .. 1 : updates[n].started /\ same[n] = same[n - 1]
      BY <2>1, <3>1, <3>2 DEF Init
    <3> QED
      BY <3>1, <3>2, <3>3 DEF UpdatesLead
  <2> QED
    BY <2>2 DEF Init, InSync, ChangesCovered
<1>2. InSync => MirrorInSync
  BY DEF InSync, MirrorInSync
<1> QED
  BY <1>1, <1>2, InitTypes, InSyncNext, NextTypes, PTL DEF Spec
-----------------------------------------------------------------------------
(***************************************************************************)
(* Answers are current.  A task that asked is in one place at a time: in   *)
(* one queued request, with one actor, or in one update on its way.  While *)
(* it waits what its path holds is noted; so what the main task reads for  *)
(* it was on the disk since it asked, and from the moment that is in the   *)
(* index nothing older is on its way to the index or to the UI: no worker  *)
(* was busy, and every later read sees the disk as it was noted.           *)
(***************************************************************************)
InRequests(c) == {i \in 1 .. Len(requests) : c \in requests[i].senders}
InTasks(c) == {a \in Actors : request[a] # None /\ c \in request[a].senders}
InUpdates(c) == {n \in 1 .. Len(updates) : ~updates[n].started /\ c \in updates[n].senders}

Single(S) == \A x, y \in S : x = y

PlacedOnce(c) ==
  /\ Single(InRequests(c)) /\ Single(InTasks(c)) /\ Single(InUpdates(c))
  /\ InRequests(c) # {} => InTasks(c) = {} /\ InUpdates(c) = {}
  /\ InTasks(c) # {} => InUpdates(c) = {}
  /\ InRequests(c) # {} \/ InTasks(c) # {} \/ InUpdates(c) # {} => client[c].step = "waiting"

LEMMA PlacesShrink ==
  ASSUME NEW c \in Clients, PlacedOnce(c),
         InRequests(c)' \subseteq InRequests(c), InTasks(c)' \subseteq InTasks(c),
         InUpdates(c)' \subseteq InUpdates(c),
         \/ client[c].step = "waiting" => client'[c].step = "waiting"
         \/ InRequests(c)' = {} /\ InTasks(c)' = {} /\ InUpdates(c)' = {}
  PROVE  PlacedOnce(c)'
BY DEF PlacedOnce, Single

LEMMA SamePlaces ==
  ASSUME NEW c \in Clients, PlacedOnce(c), UNCHANGED <<requests, request, updates>>,
         client[c].step = "waiting" => client'[c].step = "waiting"
  PROVE  PlacedOnce(c)'
BY PlacesShrink DEF InRequests, InTasks, InUpdates

LEMMA SubmitPlaces ==
  ASSUME Types, NEW k \in Clients, ClientSubmit(k), NEW c \in Clients, PlacedOnce(c)
  PROVE  /\ PlacedOnce(c)'
         /\ \A i \in InRequests(c)' : \/ i \in InRequests(c) /\ requests'[i] = requests[i]
                                      \/ requests'[i].paths = client[c].refresh /\ c = k
<1> DEFINE ask == [paths |-> client[k].refresh, senders |-> {k}]
           first == [paths |-> {Parent[client[k].path]}, senders |-> {}]
           last == Len(requests)
<1>1. /\ \/ requests' = Append(requests, ask)
         \/ requests' = Append(Append(requests, first), ask)
      /\ client[k].step = "changed" /\ client'[k].step = "waiting"
      /\ \A j \in Clients \ {k} : client'[j] = client[j]
      /\ UNCHANGED <<request, updates>>
  BY ClientSubmitKeeps
<1>2. requests \in Seq(Asked) /\ last \in Nat
  BY DEF Types, QueueTypes
<1>3. ask.senders = {k} /\ first.senders = {} /\ ask.paths = client[k].refresh
  OBVIOUS
<1> HIDE DEF ask, first, last
<1>4. /\ \A i \in 1 .. last : requests'[i] = requests[i]
      /\ \/ Len(requests') = last + 1 /\ requests'[last + 1] = ask
         \/ /\ Len(requests') = last + 2 /\ requests'[last + 1] = first
            /\ requests'[last + 2] = ask
  BY <1>1, <1>2 DEF last
<1>5. CASE c = k
  <2>1. InRequests(c) = {} /\ InTasks(c) = {} /\ InUpdates(c) = {}
    BY <1>1, <1>5 DEF PlacedOnce
  <2>2. \A i \in 1 .. last : k \notin requests'[i].senders
    BY <1>4, <1>5, <2>1 DEF InRequests, last
  <2>3. \/ InRequests(c)' = {last + 1} /\ requests'[last + 1] = ask
        \/ InRequests(c)' = {last + 2} /\ requests'[last + 2] = ask
    BY <1>2, <1>3, <1>4, <1>5, <2>2 DEF InRequests
  <2>4. InTasks(c)' = {} /\ InUpdates(c)' = {}
    BY <1>1, <2>1 DEF InTasks, InUpdates
  <2> QED
    BY <1>1, <1>3, <1>5, <2>3, <2>4 DEF PlacedOnce, Single
<1>6. CASE c # k
  <2>1. InRequests(c)' = InRequests(c)
    BY <1>2, <1>3, <1>4, <1>6 DEF InRequests, last
  <2>2. InTasks(c)' = InTasks(c) /\ InUpdates(c)' = InUpdates(c)
    BY <1>1 DEF InTasks, InUpdates
  <2>3. PlacedOnce(c)'
    BY <1>1, <1>6, <2>1, <2>2, PlacesShrink
  <2>4. \A i \in InRequests(c) : i \in 1 .. last
    BY DEF InRequests, last
  <2> QED
    BY <1>4, <2>1, <2>3, <2>4
<1> QED
  BY <1>5, <1>6

LEMMA TakeRequestPlaces ==
  ASSUME Types, NEW a \in Actors, TakeRequest(a), NEW c \in Clients, PlacedOnce(c)
  PROVE  /\ PlacedOnce(c)'
         /\ \A b \in InTasks(c)' : \/ b \in InTasks(c) /\ b # a
                                   \/ \E i \in InRequests(c) : requests[i].paths \subseteq request'[b].paths
<1>1. /\ \A k \in request'[a].senders : \E i \in 1 .. Len(requests) : k \in requests[i].senders
      /\ \A i \in 1 .. Len(requests) : requests[i].paths \subseteq request'[a].paths
      /\ \A b \in Actors : b # a => request'[b] = request[b]
      /\ requests' = <<>> /\ UNCHANGED <<updates, client>> /\ request[a] = None
  BY TakeRequestKeeps DEF Idle
<1>2. InRequests(c)' = {} /\ InUpdates(c)' = InUpdates(c)
  BY <1>1 DEF InRequests, InUpdates
<1>3. InTasks(c)' \subseteq InTasks(c) \cup {a}
  BY <1>1 DEF InTasks
<1>4. CASE a \in InTasks(c)'
  <2>1. InRequests(c) # {}
    BY <1>1, <1>4 DEF InTasks, InRequests
  <2>2. InTasks(c)' = {a} /\ InUpdates(c)' = {} /\ client[c].step = "waiting"
    BY <1>2, <1>3, <1>4, <2>1 DEF PlacedOnce
  <2>3. PlacedOnce(c)'
    BY <1>1, <1>2, <2>2 DEF PlacedOnce, Single
  <2> QED
    BY <1>1, <2>1, <2>2, <2>3 DEF InRequests
<1>5. CASE a \notin InTasks(c)'
  <2>1. InTasks(c)' \subseteq InTasks(c)
    BY <1>3, <1>5
  <2> QED
    BY <1>1, <1>2, <1>5, <2>1, PlacesShrink
<1> QED
  BY <1>4, <1>5

(* A report moves the askers of the request to the update, or answers them. *)
LEMMA SendPlaces ==
  ASSUME Types, NEW state \in ScannerState, NEW scanning \in BOOLEAN,
         NEW senders \in SUBSET Clients, NEW under \in SUBSET Paths,
         SendStatusUpdate(state, scanning, senders, under), requests' = requests,
         NEW c \in Clients, PlacedOnce(c),
         InTasks(c)' \subseteq InTasks(c), c \in senders => InTasks(c) # {} /\ InTasks(c)' = {}
  PROVE  /\ PlacedOnce(c)' /\ SameAsk(client'[c], client[c]) /\ client'[c].seen = client[c].seen
         /\ \/ client'[c] = client[c]
            \/ c \in senders /\ client'[c].step = "acked" /\ ~client'[c].byMain
<1> DEFINE update == Update(state, senders, scanning, under)
<1>1. /\ \/ /\ updates' = updates /\ client' = Acked(client, senders, FALSE, Len(updates))
         \/ /\ updates' = Append(updates, update) /\ update \in StateUpdate /\ client' = client
  BY SendStatusUpdateKeeps
<1>2. InRequests(c)' = InRequests(c)
  BY DEF InRequests
<1>3. CASE updates' = updates /\ client' = Acked(client, senders, FALSE, Len(updates))
  <2>1. client \in [Clients -> ClientState] /\ Len(updates) \in Nat /\ FALSE \in BOOLEAN
    BY DEF Types, ClientTypes, UiTypes
  <2>2. \A main \in BOOLEAN :
          LET new == Acked(client, senders, main, Len(updates)) IN
            /\ SameAsk(new[c], client[c]) /\ new[c].seen = client[c].seen
            /\ c \in senders => new[c].step = "acked" /\ new[c].byMain = main
            /\ c \notin senders => new[c] = client[c]
    BY <2>1, AckedKeeps
  <2>3. /\ SameAsk(client'[c], client[c]) /\ client'[c].seen = client[c].seen
        /\ c \in senders => client'[c].step = "acked" /\ ~client'[c].byMain
        /\ c \notin senders => client'[c] = client[c]
    BY <1>3, <2>1, <2>2, Zenon
  <2>4. InUpdates(c)' = InUpdates(c)
    BY <1>3 DEF InUpdates
  <2>5. CASE c \in senders
    <3>1. InRequests(c)' = {} /\ InTasks(c)' = {} /\ InUpdates(c)' = {}
      BY <1>2, <2>4, <2>5 DEF PlacedOnce
    <3> QED
      BY <1>2, <2>3, <2>4, <2>5, <3>1, PlacesShrink
  <2>6. CASE c \notin senders
    BY <1>2, <2>3, <2>4, <2>6, PlacesShrink
  <2> QED
    BY <2>5, <2>6, <2>3
<1>4. CASE updates' = Append(updates, update) /\ update \in StateUpdate /\ client' = client
  <2>1. update.senders = senders /\ updates \in Seq({Started} \cup StateUpdate)
    BY DEF Update, Types, UiTypes
  <2> HIDE DEF update
  <2>2. InUpdates(c)' \subseteq InUpdates(c) \cup {Len(updates) + 1}
    BY <1>4, <2>1 DEF InUpdates
  <2>3. SameAsk(client'[c], client[c])
    BY <1>4 DEF SameAsk, Types, ClientTypes
  <2>4. CASE c \in senders
    <3>1. /\ InRequests(c)' = {} /\ InTasks(c)' = {} /\ InUpdates(c) = {}
          /\ client[c].step = "waiting"
      BY <1>2, <2>4 DEF PlacedOnce
    <3>2. InUpdates(c)' \subseteq {Len(updates) + 1}
      BY <2>2, <3>1
    <3> QED
      BY <1>4, <2>3, <3>1, <3>2 DEF PlacedOnce, Single
  <2>5. CASE c \notin senders
    <3>1. InUpdates(c)' \subseteq InUpdates(c)
      BY <1>4, <2>1, <2>5 DEF InUpdates
    <3> QED
      BY <1>2, <1>4, <2>3, <3>1, PlacesShrink
  <2> QED
    BY <2>4, <2>5
<1> QED
  BY <1>1, <1>3, <1>4
LEMMA ReceivePlaces ==
  ASSUME Types, ReceiveScanState, NEW c \in Clients, PlacedOnce(c)
  PROVE  /\ PlacedOnce(c)'
         /\ \A n \in InUpdates(c)' : n + 1 \in InUpdates(c) /\ updates'[n] = updates[n + 1]
         /\ \/ client'[c].step = client[c].step /\ client'[c].byMain = client[c].byMain
            \/ /\ 1 \in InUpdates(c) /\ client[c].step = "waiting" /\ client'[c].step = "acked"
               /\ client'[c].byMain = ~updates[1].scanning
<1>1. /\ updates \in Seq({Started} \cup StateUpdate) /\ updates # <<>> /\ updates' = Tail(updates)
      /\ Len(updates) \in Nat \ {0}
      /\ Head(updates) = updates[1] /\ UNCHANGED <<requests, request>>
  BY ReceiveScanStateKeeps DEF Types, UiTypes
<1>2. /\ Len(updates') = Len(updates) - 1
      /\ \A n \in 1 .. Len(updates) - 1 : updates'[n] = updates[n + 1]
  BY <1>1
<1>3. \A n \in InUpdates(c)' : n + 1 \in InUpdates(c) /\ updates'[n] = updates[n + 1]
  BY <1>1, <1>2 DEF InUpdates
<1>4. \/ client'[c].step = client[c].step /\ client'[c].byMain = client[c].byMain
      \/ /\ 1 \in InUpdates(c) /\ client'[c].step = "acked"
         /\ client'[c].byMain = ~updates[1].scanning
  BY <1>1, ReceivedClients DEF InUpdates
<1>5. InRequests(c)' = InRequests(c) /\ InTasks(c)' = InTasks(c)
  BY <1>1 DEF InRequests, InTasks
<1>6. Single(InUpdates(c)')
  <2>1. \A n, m \in InUpdates(c)' : n \in Nat /\ m \in Nat
    BY DEF InUpdates
  <2> QED
    BY <1>3, <2>1 DEF PlacedOnce, Single
<1>7. CASE 1 \in InUpdates(c)
  <2>1. InRequests(c) = {} /\ InTasks(c) = {} /\ client[c].step = "waiting"
    BY <1>7 DEF PlacedOnce
  <2>2. InUpdates(c)' = {}
    <3>1. ASSUME NEW n \in InUpdates(c)' PROVE FALSE
      <4>1. n + 1 = 1
        BY <1>3, <1>7 DEF PlacedOnce, Single
      <4>2. n \in Nat \ {0}
        BY DEF InUpdates
      <4> QED
        BY <4>1, <4>2
    <3> QED
      BY <3>1
  <2>3. PlacedOnce(c)'
    BY <1>5, <2>1, <2>2 DEF PlacedOnce, Single
  <2> QED
    BY <1>3, <1>4, <2>1, <2>3
<1>8. CASE 1 \notin InUpdates(c)
  <2>1. client'[c].step = client[c].step
    BY <1>4, <1>8
  <2>2. InUpdates(c)' # {} => InUpdates(c) # {}
    BY <1>3
  <2>3. PlacedOnce(c)'
    BY <1>5, <1>6, <2>1, <2>2 DEF PlacedOnce
  <2> QED
    BY <1>3, <1>4, <1>8, <2>3
<1> QED
  BY <1>7, <1>8

(* A task's request is for its path, and an actor that has loaded what its *)
(* request needs has no directory left to scan.                            *)
AsksForPath(c) ==
  /\ client[c].step = "changed" => client[c].path \in client[c].refresh
  /\ \A i \in InRequests(c) : client[c].path \in requests[i].paths
  /\ \A a \in InTasks(c) : client[c].path \in request[a].paths

LoadedFirst == \A a \in Actors : request[a] # None /\ request[a].step # "load" => job[a] = None

Asking == LoadedFirst /\ \A c \in Clients : PlacedOnce(c) /\ AsksForPath(c)

(* A step of a request that leaves alone whom it is for. *)
LEMMA ServingPlaces ==
  ASSUME NEW a \in Actors, NEW c \in Clients, PlacedOnce(c), AsksForPath(c),
         request[a] # None, request'[a].senders = request[a].senders,
         request'[a].paths = request[a].paths,
         \A b \in Actors : b # a => request'[b] = request[b],
         UNCHANGED <<requests, updates, client>>
  PROVE  PlacedOnce(c)' /\ AsksForPath(c)'
<1>1. InRequests(c)' = InRequests(c) /\ InUpdates(c)' = InUpdates(c)
  BY DEF InRequests, InUpdates
<1>2. InTasks(c)' \subseteq InTasks(c) /\ \A b \in InTasks(c)' : request'[b].paths = request[b].paths
  BY DEF InTasks
<1>3. PlacedOnce(c)'
  BY <1>1, <1>2, PlacesShrink
<1> QED
  BY <1>1, <1>2, <1>3 DEF AsksForPath

LEMMA SameAsking ==
  ASSUME NEW c \in Clients, PlacedOnce(c), AsksForPath(c), UNCHANGED <<requests, request, updates>>,
         client'[c] = client[c]
  PROVE  PlacedOnce(c)' /\ AsksForPath(c)'
<1>1. InRequests(c)' = InRequests(c) /\ InTasks(c)' = InTasks(c)
  BY DEF InRequests, InTasks
<1> QED
  BY <1>1, SamePlaces DEF AsksForPath
LEMMA ServeAsking == ASSUME Types, Asking, NEW a \in Actors, Serve(a) PROVE Asking'
<1>1. ASSUME \A b \in Actors : b # a => request'[b] = request[b] /\ job'[b] = job[b],
             request'[a] # None /\ request'[a].step # "load" => job'[a] = None
      PROVE  LoadedFirst'
  BY <1>1 DEF Asking, LoadedFirst
<1>2. \A b \in Actors : b # a => request'[b] = request[b] /\ job'[b] = job[b]
  BY ServeKeeps
<1>3. ASSUME UNCHANGED <<requests, updates, client>>,
             \/ request' = request
             \/ /\ request[a] # None /\ request'[a].senders = request[a].senders
                /\ request'[a].paths = request[a].paths
      PROVE  \A c \in Clients : PlacedOnce(c)' /\ AsksForPath(c)'
  <2> TAKE c \in Clients
  <2>1. CASE request' = request
    BY <1>3, <2>1, SameAsking DEF Asking
  <2>2. CASE /\ request[a] # None /\ request'[a].senders = request[a].senders
             /\ request'[a].paths = request[a].paths
    BY <1>2, <1>3, <2>2, ServingPlaces DEF Asking
  <2> QED
    BY <1>3, <2>1, <2>2
<1>4. CASE TakeRequest(a)
  <2>1. LoadedFirst'
    BY <1>1, <1>2, <1>4, TakeRequestKeeps
  <2>2. ASSUME NEW c \in Clients PROVE PlacedOnce(c)' /\ AsksForPath(c)'
    <3>1. PlacedOnce(c) /\ AsksForPath(c)
      BY DEF Asking
    <3>2. /\ PlacedOnce(c)'
          /\ \A b \in InTasks(c)' : \/ b \in InTasks(c) /\ b # a
                                    \/ \E i \in InRequests(c) : requests[i].paths \subseteq request'[b].paths
      BY <1>4, <3>1, TakeRequestPlaces
    <3>3. requests' = <<>> /\ client' = client
      BY <1>4, TakeRequestKeeps
    <3>4. \A b \in InTasks(c)' : client'[c].path \in request'[b].paths
      <4> TAKE b \in InTasks(c)'
      <4>1. b \in Actors
        BY DEF InTasks
      <4> QED
        BY <1>2, <3>1, <3>2, <3>3, <4>1 DEF AsksForPath
    <3>5. InRequests(c)' = {}
      BY <3>3 DEF InRequests
    <3> QED
      BY <3>1, <3>2, <3>3, <3>4, <3>5 DEF AsksForPath
  <2> QED
    BY <2>1, <2>2 DEF Asking
<1>5. CASE LoadNext(a)
  <2>1. /\ request[a] # None /\ request'[a].senders = request[a].senders
        /\ request'[a].paths = request[a].paths /\ request'[a].step = "load"
        /\ UNCHANGED <<requests, updates, client>>
    BY <1>5, LoadNextKeeps DEF LoadNext
  <2> QED
    BY <1>1, <1>2, <1>3, <2>1 DEF Asking
<1>6. CASE LoadDone(a)
  <2>1. /\ request[a] # None /\ request'[a].senders = request[a].senders
        /\ request'[a].paths = request[a].paths /\ job'[a] = None
        /\ UNCHANGED <<requests, updates, client>>
    BY <1>6, LoadDoneKeeps DEF LoadDone
  <2> QED
    BY <1>1, <1>2, <1>3, <2>1 DEF Asking
<1>7. CASE ReadDir(a)
  <2>1. job[a] # None /\ UNCHANGED <<request, requests, updates, client>>
    BY <1>7, ReadDirKeeps
  <2>2. request[a] # None => request[a].step = "load"
    BY <2>1 DEF Asking, LoadedFirst
  <2> QED
    BY <1>1, <1>2, <1>3, <2>1, <2>2 DEF Asking
<1>8. CASE Populate(a)
  <2>1. /\ UNCHANGED <<requests, updates, client>> /\ job'[a] = None
        /\ \/ request' = request
           \/ /\ request[a] # None /\ request'[a].senders = request[a].senders
              /\ request'[a].paths = request[a].paths
    BY <1>8, PopulateKeeps DEF Populate
  <2> QED
    BY <1>1, <1>2, <1>3, <2>1 DEF Asking
<1>9. CASE Stat(a)
  <2>1. UNCHANGED <<job, request, requests, updates, client>>
    BY <1>9 DEF Stat
  <2> QED
    BY <1>3, <2>1 DEF Asking, LoadedFirst
<1>10. CASE Reload(a)
  <2>1. /\ request[a] # None /\ request'[a].senders = request[a].senders
        /\ request'[a].paths = request[a].paths /\ job'[a] = job[a] /\ request[a].step = "stat"
        /\ UNCHANGED <<requests, updates, client>>
    BY <1>10, ReloadKeeps DEF Reload
  <2>2. job[a] = None
    BY <2>1 DEF Asking, LoadedFirst
  <2> QED
    BY <1>1, <1>2, <1>3, <2>1, <2>2 DEF Asking
<1>11. CASE Report(a)
  <2>1. /\ bg \in ScannerState /\ {} \in SUBSET Paths
        /\ request[a].senders \in SUBSET Clients /\ (a # Main) \in BOOLEAN
        /\ SendStatusUpdate(bg, a # Main, request[a].senders, {})
        /\ request[a] # None /\ request'[a] = None /\ requests' = requests
    BY <1>11, ReportKeeps DEF Types
  <2>2. LoadedFirst'
    BY <1>1, <1>2, <2>1
  <2>3. ASSUME NEW c \in Clients PROVE PlacedOnce(c)' /\ AsksForPath(c)'
    <3>1. PlacedOnce(c) /\ AsksForPath(c)
      BY DEF Asking
    <3>2. InTasks(c)' = InTasks(c) \ {a}
      BY <1>2, <2>1 DEF InTasks
    <3>3. c \in request[a].senders => InTasks(c) # {} /\ InTasks(c)' = {}
      BY <2>1, <3>1, <3>2 DEF InTasks, PlacedOnce, Single
    <3>4. InTasks(c)' \subseteq InTasks(c)
      BY <3>2
    <3>5. /\ PlacedOnce(c)' /\ SameAsk(client'[c], client[c])
          /\ \/ client'[c] = client[c]
             \/ client'[c].step = "acked" /\ ~client'[c].byMain
      BY <2>1, <3>1, <3>3, <3>4, SendPlaces
    <3>6. \A b \in InTasks(c)' : b \in InTasks(c) /\ request'[b] = request[b]
      BY <1>2, <3>2 DEF InTasks
    <3>7. InRequests(c)' = InRequests(c)
      BY <2>1 DEF InRequests
    <3> QED
      BY <2>1, <3>1, <3>5, <3>6, <3>7 DEF AsksForPath, SameAsk
  <2> QED
    BY <2>2, <2>3 DEF Asking
<1> QED
  BY <1>4, <1>5, <1>6, <1>7, <1>8, <1>9, <1>10, <1>11 DEF Serve
LEMMA SentAsking ==
  ASSUME Types, Asking, NEW state \in ScannerState, NEW scanning \in BOOLEAN,
         NEW under \in SUBSET Paths, SendStatusUpdate(state, scanning, {}, under),
         UNCHANGED <<request, job, requests>>
  PROVE  Asking' /\ \A c \in Clients : client'[c] = client[c]
<1>1. LoadedFirst'
  BY DEF Asking, LoadedFirst
<1>2. ASSUME NEW c \in Clients PROVE PlacedOnce(c)' /\ AsksForPath(c)' /\ client'[c] = client[c]
  <2>1. PlacedOnce(c) /\ AsksForPath(c) /\ {} \in SUBSET Clients
    BY DEF Asking
  <2>2. InTasks(c)' = InTasks(c) /\ InRequests(c)' = InRequests(c)
    BY DEF InTasks, InRequests
  <2>3. PlacedOnce(c)' /\ client'[c] = client[c]
    BY <2>1, <2>2, SendPlaces
  <2> QED
    BY <2>1, <2>2, <2>3 DEF AsksForPath
<1> QED
  BY <1>1, <1>2 DEF Asking

(* The steps of clients but for the submission leave the places alone. *)
LEMMA StillAsking ==
  ASSUME Asking, UNCHANGED <<request, job, requests, updates>>,
         \A c \in Clients :
           \/ /\ client'[c].path = client[c].path /\ client'[c].refresh = client[c].refresh
              /\ \/ client'[c].step = client[c].step
                 \/ client[c].step = "acked" /\ client'[c].step = "done"
           \/ client[c].step = "idle" /\ client'[c].path \in client'[c].refresh
  PROVE  Asking'
<1>1. LoadedFirst'
  BY DEF Asking, LoadedFirst
<1>2. ASSUME NEW c \in Clients PROVE PlacedOnce(c)' /\ AsksForPath(c)'
  <2>1. /\ PlacedOnce(c) /\ AsksForPath(c)
        /\ \/ /\ client'[c].path = client[c].path /\ client'[c].refresh = client[c].refresh
              /\ \/ client'[c].step = client[c].step
                 \/ client[c].step = "acked" /\ client'[c].step = "done"
           \/ client[c].step = "idle" /\ client'[c].path \in client'[c].refresh
    BY DEF Asking
  <2>2. PlacedOnce(c)'
    BY <2>1, SamePlaces
  <2>3. InRequests(c)' = InRequests(c) /\ InTasks(c)' = InTasks(c)
    BY DEF InRequests, InTasks
  <2>4. client[c].step = "idle" => InRequests(c) = {} /\ InTasks(c) = {}
    BY <2>1 DEF PlacedOnce
  <2> QED
    BY <2>1, <2>2, <2>3, <2>4 DEF AsksForPath
<1> QED
  BY <1>1, <1>2 DEF Asking

LEMMA AskingNext == Types /\ Asking /\ [Next]_vars => Asking'
<1> SUFFICES ASSUME Types, Asking, [Next]_vars PROVE Asking'
  OBVIOUS
<1>1. CASE External
  <2>1. \A c \in Clients : /\ client'[c].path = client[c].path /\ client'[c].step = client[c].step
                           /\ client'[c].refresh = client[c].refresh
    BY <1>1, ExternalTypes, ClientsSeeKeeps DEF External, SameAsk, Types, DiskTypes
  <2>2. UNCHANGED <<request, job, requests, updates>>
    BY <1>1 DEF External, requestVars
  <2> QED
    BY <2>1, <2>2, StillAsking
<1>2. ASSUME NEW k \in Clients, ClientStart(k) PROVE Asking'
  <2>1. /\ client[k].step = "idle" /\ client'[k].path \in client'[k].refresh /\ DiskTypes'
        /\ \A c \in Clients \ {k} : client'[c] = ClientsSee[c]
        /\ UNCHANGED <<request, job, requests, updates>>
    BY <1>2, ClientStartKeeps
  <2>2. \A c \in Clients \ {k} :
          /\ client'[c].path = client[c].path /\ client'[c].step = client[c].step
          /\ client'[c].refresh = client[c].refresh
    BY <2>1, ClientsSeeKeeps DEF SameAsk, DiskTypes
  <2> QED
    BY <2>1, <2>2, StillAsking
<1>3. ASSUME NEW k \in Clients, ClientSubmit(k) PROVE Asking'
  <2>1. /\ SameAsk(client'[k], client[k]) /\ client'[k].step = "waiting"
        /\ client[k].step = "changed" /\ \A j \in Clients \ {k} : client'[j] = client[j]
        /\ UNCHANGED <<request, job, updates>>
    BY <1>3, ClientSubmitKeeps
  <2>2. ASSUME NEW c \in Clients PROVE PlacedOnce(c)' /\ AsksForPath(c)'
    <3>1. PlacedOnce(c) /\ AsksForPath(c)
      BY DEF Asking
    <3>2. /\ PlacedOnce(c)'
          /\ \A i \in InRequests(c)' : \/ i \in InRequests(c) /\ requests'[i] = requests[i]
                                       \/ requests'[i].paths = client[c].refresh /\ c = k
      BY <1>3, <3>1, SubmitPlaces
    <3>3. /\ client'[c].path = client[c].path
          /\ client'[c].step = "changed" => client'[c] = client[c]
      BY <2>1 DEF SameAsk
    <3>4. InTasks(c)' = InTasks(c)
      BY <2>1 DEF InTasks
    <3> QED
      BY <2>1, <3>1, <3>2, <3>3, <3>4 DEF AsksForPath
  <2> QED
    BY <2>1, <2>2 DEF Asking, LoadedFirst
<1>4. ASSUME NEW k \in Clients, ClientResume(k) PROVE Asking'
  <2>1. /\ client[k].step = "acked" /\ client'[k].step = "done"
        /\ client'[k].path = client[k].path /\ client'[k].refresh = client[k].refresh
        /\ \A j \in Clients \ {k} : client'[j] = client[j]
        /\ UNCHANGED <<request, job, requests, updates>>
    BY <1>4, ClientResumeKeeps
  <2> QED
    BY <2>1, StillAsking
<1>5. ASSUME NEW a \in Actors, Serve(a) PROVE Asking'
  BY <1>5, ServeAsking
<1>6. ASSUME NEW w \in Workers, TakeJob(w) PROVE Asking'
  <2>1. /\ request[w] = None /\ \A b \in Actors : b # w => job'[b] = job[b]
        /\ UNCHANGED <<request, requests, updates, client>>
    BY <1>6, TakeJobKeeps DEF Idle
  <2>2. LoadedFirst'
    BY <2>1 DEF Asking, LoadedFirst
  <2> QED
    BY <2>1, <2>2, SameAsking DEF Asking
<1>7. CASE UNCHANGED <<request, job, requests, updates, client>>
  BY <1>7, StillAsking
<1>8. ASSUME NEW w \in Workers, UpdateIgnoreStatus(w) PROVE Asking'
  BY <1>7, <1>8, UpdateIgnoreStatusKeeps
<1>9. CASE TakeEvents
  BY <1>7, <1>9, TakeEventsKeeps
<1>10. CASE EventReload
  BY <1>7, <1>10, EventReloadKeeps
<1>11. CASE EndIgnores
  <2>1. /\ updates' = Append(updates, Started) /\ UNCHANGED <<request, job, requests, client>>
        /\ updates \in Seq({Started} \cup StateUpdate) /\ Started.started
    BY <1>11 DEF EndIgnores, requestVars, Types, UiTypes, Started
  <2>2. ASSUME NEW c \in Clients PROVE PlacedOnce(c)' /\ AsksForPath(c)'
    <3>1. InUpdates(c)' \subseteq InUpdates(c)
      BY <2>1 DEF InUpdates
    <3>2. InRequests(c)' = InRequests(c) /\ InTasks(c)' = InTasks(c)
      BY <2>1 DEF InRequests, InTasks
    <3>3. PlacedOnce(c) /\ AsksForPath(c)
      BY DEF Asking
    <3> QED
      BY <2>1, <3>1, <3>2, <3>3, PlacesShrink DEF AsksForPath
  <2> QED
    BY <2>1, <2>2 DEF Asking, LoadedFirst
<1>12. CASE Progress
  <2>1. TRUE \in BOOLEAN /\ {} \in SUBSET Paths
    OBVIOUS
  <2>2. \A scanning \in BOOLEAN : SendStatusUpdate(bg, scanning, {}, {}) => Asking'
    BY <1>12, <2>1, ProgressKeeps, SentAsking
  <2> QED
    BY <1>12, <2>1, <2>2, ProgressKeeps, Zenon
<1>13. CASE EndScan
  <2>1. PICK state \in ScannerState : SendStatusUpdate(state, FALSE, {}, roots)
    BY <1>13, EndScanKeeps
  <2>2. FALSE \in BOOLEAN /\ roots \in SUBSET Paths
    BY DEF Types, TaskTypes
  <2>3. \A scanning \in BOOLEAN : SendStatusUpdate(state, scanning, {}, roots) => Asking'
    BY <1>13, <2>1, <2>2, EndScanKeeps, SentAsking
  <2> QED
    BY <2>1, <2>2, <2>3, Zenon
<1>14. CASE ReceiveScanState
  <2>1. UNCHANGED <<request, job, requests>>
    BY <1>14, ReceiveScanStateKeeps
  <2>2. ASSUME NEW c \in Clients PROVE PlacedOnce(c)' /\ AsksForPath(c)'
    <3>1. PlacedOnce(c) /\ AsksForPath(c)
      BY DEF Asking
    <3>2. PlacedOnce(c)' /\ client'[c].step \in {client[c].step, "acked"}
      BY <1>14, <3>1, ReceivePlaces
    <3>3. client'[c].path = client[c].path /\ client'[c].refresh = client[c].refresh
      BY <1>14, ReceivedClients DEF SameAsk
    <3>4. InRequests(c)' = InRequests(c) /\ InTasks(c)' = InTasks(c)
      BY <2>1 DEF InRequests, InTasks
    <3> QED
      BY <2>1, <3>1, <3>2, <3>3, <3>4 DEF AsksForPath
  <2> QED
    BY <2>1, <2>2 DEF Asking, LoadedFirst
<1>15. CASE UNCHANGED vars
  BY <1>7, <1>15 DEF vars
<1> QED
  BY <1>1, <1>2, <1>3, <1>4, <1>5, <1>6, <1>8, <1>9, <1>10, <1>11, <1>12, <1>13, <1>14, <1>15
     DEF Next, Scan, MainStep, ClientStep
(* An entry that is of a file in seen, or none; a file that was read.      *)
Current(seen, entry) == \E file \in seen : Agrees(entry, file)
Fresh(seen, entry) == entry = None \/ Current(seen, entry)
FreshRead(seen, file) == file = None \/ file \in seen

(* Nothing in the scanner is older than the task's request: the index, the *)
(* directories being read, the paths read for requests and events, and the *)
(* copy of the index that ignore statuses are updated from.                *)
IndexFresh(c) == Fresh(client[c].seen, bg.paths[client[c].path])

JobsFresh(c) ==
  \A a \in Actors : job[a] # None /\ job[a].started =>
    FreshRead(client[c].seen, job[a].read[client[c].path])

RequestsFresh(c) ==
  \A a \in Actors :
    request[a] # None /\ request[a].step = "stat" /\ client[c].path \in request[a].paths \ todo[a] =>
      FreshRead(client[c].seen, stat[a][client[c].path])

EventsFresh(c) ==
  phase = "stat" /\ client[c].path \in roots \ todo[Main] =>
    FreshRead(client[c].seen, stat[Main][client[c].path])

CopyFresh(c) == phase = "ignores" => Fresh(client[c].seen, ignoreSnap.paths[client[c].path])

ScannerFresh(c) ==
  IndexFresh(c) /\ JobsFresh(c) /\ RequestsFresh(c) /\ EventsFresh(c) /\ CopyFresh(c)

UpdateFresh(c, n) ==
  ~updates[n].started => Fresh(client[c].seen, updates[n].paths[client[c].path])

(* What the task's path holds is noted; what the main task read for it is  *)
(* noted, and so is what it put into the index; and nothing older follows. *)
DiskSeen(c) ==
  client[c].step \in {"waiting", "acked"} => disk[client[c].path] \in client[c].seen

ReadCurrent(c) ==
  Main \in InTasks(c) /\ request[Main].step = "stat" /\ client[c].path \notin todo[Main] =>
    stat[Main][client[c].path] \in client[c].seen

ReportCurrent(c) ==
  Main \in InTasks(c) /\ request[Main].step = "report" =>
    Current(client[c].seen, bg.paths[client[c].path])

UpdatesCurrent(c) ==
  \A n \in InUpdates(c) : ~updates[n].scanning =>
    /\ Current(client[c].seen, updates[n].paths[client[c].path])
    /\ ScannerFresh(c)
    /\ \A m \in n .. Len(updates) : UpdateFresh(c, m)

AckedFresh(c) ==
  client[c].step = "acked" /\ client[c].byMain =>
    /\ Fresh(client[c].seen, ui.paths[client[c].path])
    /\ ScannerFresh(c)
    /\ \A m \in 1 .. Len(updates) : UpdateFresh(c, m)

DoneFresh(c) ==
  client[c].step = "done" /\ client[c].byMain => Fresh(client[c].seen, client[c].result)

AnswersCurrent ==
  \A c \in Clients : /\ DiskSeen(c) /\ ReadCurrent(c) /\ ReportCurrent(c) /\ UpdatesCurrent(c)
                     /\ AckedFresh(c) /\ DoneFresh(c)

(* The life of a task that has asked: it goes on to be answered, once, and *)
(* then to look its path up; until it does what its path holds is noted.   *)
Follows(c) ==
  /\ client'[c].path = client[c].path /\ client[c].seen \subseteq client'[c].seen
  /\ client[c].step # "done" => disk'[client[c].path] \in client'[c].seen
  /\ \/ /\ client'[c].step = client[c].step /\ client'[c].byMain = client[c].byMain
        /\ client'[c].result = client[c].result
     \/ /\ client[c].step = "waiting" /\ client'[c].step = "acked"
        /\ \/ ~client'[c].byMain
           \/ /\ ReceiveScanState /\ 1 \in InUpdates(c)
              /\ client'[c].byMain = ~updates[1].scanning
     \/ /\ client[c].step = "acked" /\ client'[c].step = "done" /\ client'[c].byMain = client[c].byMain
        /\ client'[c].result = ui.paths[client[c].path]

LEMMA ClientFollows ==
  ASSUME Types, Asking, [Next]_vars, NEW c \in Clients, DiskSeen(c),
         client[c].step \in {"waiting", "acked", "done"}
  PROVE  Follows(c)
<1>1. PlacedOnce(c) /\ client[c] \in ClientState
  BY DEF Asking, Types, ClientTypes
<1>2. ASSUME disk' = disk, client'[c] = client[c]
      PROVE  Follows(c)
  BY <1>2 DEF Follows, DiskSeen
<1>3. ASSUME disk' \in [Paths -> File], client'[c] = ClientsSee[c]
      PROVE  Follows(c)
  <2>1. /\ SameAsk(client'[c], client[c]) /\ client'[c].step = client[c].step
        /\ client'[c].byMain = client[c].byMain
        /\ client'[c].seen = IF client[c].step \in {"waiting", "acked"}
             THEN client[c].seen \cup {disk'[client[c].path]} ELSE client[c].seen
    BY <1>3, ClientsSeeKeeps
  <2> QED
    BY <2>1 DEF Follows, SameAsk
<1>4. CASE External
  BY <1>3, <1>4, ExternalTypes DEF External, Types, DiskTypes
<1>5. ASSUME NEW k \in Clients, ClientStart(k) PROVE Follows(c)
  BY <1>3, <1>5, ClientStartKeeps DEF DiskTypes
<1>6. ASSUME NEW k \in Clients, ClientSubmit(k) PROVE Follows(c)
  BY <1>2, <1>6, ClientSubmitKeeps
<1>7. ASSUME NEW k \in Clients, ClientResume(k) PROVE Follows(c)
  <2>1. CASE k = c
    <3>1. /\ client[c].step = "acked" /\ client'[c].step = "done" /\ disk' = disk
          /\ client'[c].path = client[c].path /\ client'[c].seen = client[c].seen
          /\ client'[c].byMain = client[c].byMain /\ client'[c].result = ui.paths[client[c].path]
      BY <1>7, <2>1, ClientResumeKeeps
    <3> QED
      BY <3>1 DEF Follows, DiskSeen
  <2>2. CASE k # c
    BY <1>2, <1>7, <2>2, ClientResumeKeeps
  <2> QED
    BY <2>1, <2>2
<1>8. ASSUME NEW a \in Actors, Serve(a) PROVE Follows(c)
  <2>1. CASE TakeRequest(a) \/ LoadNext(a) \/ LoadDone(a) \/ ReadDir(a) \/ Populate(a) \/ Stat(a)
             \/ Reload(a)
    <3>1. disk' = disk /\ client' = client
      BY <2>1 DEF TakeRequest, LoadNext, LoadDone, ReadDir, Populate, Stat, Reload, fsVars
    <3> QED
      BY <1>2, <3>1
  <2>2. CASE Report(a)
    <3>1. /\ bg \in ScannerState /\ {} \in SUBSET Paths
          /\ request[a].senders \in SUBSET Clients /\ (a # Main) \in BOOLEAN
          /\ SendStatusUpdate(bg, a # Main, request[a].senders, {})
          /\ request[a] # None /\ request'[a] = None /\ requests' = requests /\ disk' = disk
          /\ \A b \in Actors : b # a => request'[b] = request[b]
      BY <2>2, ReportKeeps DEF Types
    <3>2. InTasks(c)' = InTasks(c) \ {a}
      BY <3>1 DEF InTasks
    <3>3. c \in request[a].senders => InTasks(c) # {} /\ InTasks(c)' = {}
      BY <1>1, <3>1, <3>2 DEF InTasks, PlacedOnce, Single
    <3>4. InTasks(c)' \subseteq InTasks(c)
      BY <3>2
    <3>5. /\ SameAsk(client'[c], client[c]) /\ client'[c].seen = client[c].seen
          /\ \/ client'[c] = client[c]
             \/ /\ c \in request[a].senders
                /\ client'[c].step = "acked" /\ ~client'[c].byMain
      BY <1>1, <3>1, <3>3, <3>4, SendPlaces
    <3>6. c \in request[a].senders => client[c].step = "waiting"
      BY <1>1, <3>3 DEF PlacedOnce
    <3> QED
      BY <1>2, <3>1, <3>5, <3>6 DEF Follows, SameAsk, DiskSeen
  <2> QED
    BY <1>8, <2>1, <2>2 DEF Serve
<1>9. ASSUME NEW w \in Workers, Scan(w) PROVE Follows(c)
  BY <1>2, <1>9, TakeJobKeeps, UpdateIgnoreStatusKeeps DEF Scan
<1>10. CASE MainStep
  <2>1. CASE TakeEvents \/ EventReload
    BY <1>2, <2>1, TakeEventsKeeps, EventReloadKeeps
  <2>2. CASE EndIgnores
    BY <1>2, <2>2 DEF EndIgnores, fsVars
  <2>3. CASE Progress
    <3>1. TRUE \in BOOLEAN /\ {} \in SUBSET Paths
      OBVIOUS
    <3>2. \A scanning \in BOOLEAN : SendStatusUpdate(bg, scanning, {}, {}) => client'[c] = client[c]
      BY <2>3, <3>1, ProgressKeeps, SentAsking
    <3>3. client'[c] = client[c] /\ disk' = disk
      BY <2>3, <3>1, <3>2, ProgressKeeps, Zenon
    <3> QED
      BY <1>2, <3>3
  <2>4. CASE EndScan
    <3>1. PICK state \in ScannerState : SendStatusUpdate(state, FALSE, {}, roots)
      BY <2>4, EndScanKeeps
    <3>2. FALSE \in BOOLEAN /\ roots \in SUBSET Paths
      BY DEF Types, TaskTypes
    <3>3. \A scanning \in BOOLEAN :
            SendStatusUpdate(state, scanning, {}, roots) => client'[c] = client[c]
      BY <2>4, <3>1, <3>2, EndScanKeeps, SentAsking
    <3>4. client'[c] = client[c] /\ disk' = disk
      BY <2>4, <3>1, <3>2, <3>3, EndScanKeeps, Zenon
    <3> QED
      BY <1>2, <3>4
  <2> QED
    BY <1>10, <2>1, <2>2, <2>3, <2>4 DEF MainStep
<1>11. CASE ReceiveScanState
  <2>1. /\ disk' = disk /\ SameAsk(client'[c], client[c]) /\ client'[c].seen = client[c].seen
    BY <1>11, ReceiveScanStateKeeps, ReceivedClients
  <2>2. \/ client'[c].step = client[c].step /\ client'[c].byMain = client[c].byMain
        \/ /\ 1 \in InUpdates(c) /\ client[c].step = "waiting" /\ client'[c].step = "acked"
           /\ client'[c].byMain = ~updates[1].scanning
    BY <1>1, <1>11, ReceivePlaces
  <2> QED
    BY <1>11, <2>1, <2>2 DEF Follows, SameAsk, DiskSeen
<1>12. CASE UNCHANGED vars
  BY <1>2, <1>12 DEF vars
<1> QED
  BY <1>4, <1>5, <1>6, <1>7, <1>8, <1>9, <1>10, <1>11, <1>12 DEF Next, ClientStep
(* What is put behind the updates on their way. *)
LEMMA UpdatesFollow ==
  ASSUME Types, [Next]_vars
  PROVE  \/ updates' = updates
         \/ ReceiveScanState
         \/ updates' = Append(updates, Started)
         \/ \E update \in StateUpdate :
              /\ updates' = Append(updates, update)
              /\ update.paths = bg.paths /\ bg'.paths = bg.paths
              /\ \/ update.senders = {}
                 \/ \E a \in Actors : /\ Report(a) /\ update.senders = request[a].senders
                                      /\ update.scanning = (a # Main)
<1> DEFINE Sent(senders, scanning) ==
      \/ updates' = updates
      \/ \E update \in StateUpdate :
           /\ updates' = Append(updates, update)
           /\ update.paths = bg.paths /\ bg'.paths = bg.paths
           /\ update.senders = senders /\ update.scanning = scanning
<1>1. ASSUME NEW state \in ScannerState, NEW scanning \in BOOLEAN, NEW senders \in SUBSET Clients,
             NEW under \in SUBSET Paths, SendStatusUpdate(state, scanning, senders, under),
             state.paths = bg.paths
      PROVE  Sent(senders, scanning)
  <2> DEFINE update == Update(state, senders, scanning, under)
  <2>1. /\ bg'.paths = state.paths
        /\ \/ updates' = updates
           \/ updates' = Append(updates, update) /\ update \in StateUpdate
    BY <1>1, SendStatusUpdateKeeps
  <2>2. update.paths = bg.paths /\ update.senders = senders /\ update.scanning = scanning
    BY <1>1 DEF Update
  <2> HIDE DEF update
  <2> QED
    BY <1>1, <2>1, <2>2
<1> HIDE DEF Sent
<1>2. CASE External \/ UNCHANGED vars
  BY <1>2 DEF External, vars
<1>3. ASSUME NEW c \in Clients, ClientStep(c) PROVE updates' = updates
  BY <1>3 DEF ClientStep, ClientStart, ClientSubmit, ClientResume
<1>4. ASSUME NEW a \in Actors, Serve(a), ~Report(a) PROVE updates' = updates
  BY <1>4 DEF Serve, TakeRequest, LoadNext, LoadDone, ReadDir, Populate, Stat, Reload
<1>5. ASSUME NEW a \in Actors, Report(a) PROVE Sent(request[a].senders, a # Main)
  <2>1. /\ bg \in ScannerState /\ {} \in SUBSET Paths
        /\ request[a].senders \in SUBSET Clients /\ (a # Main) \in BOOLEAN
        /\ SendStatusUpdate(bg, a # Main, request[a].senders, {})
    BY <1>5, ReportKeeps DEF Types
  <2> QED
    BY <1>1, <2>1
<1>6. ASSUME NEW w \in Workers, Scan(w) PROVE updates' = updates
  BY <1>6 DEF Scan, TakeJob, UpdateIgnoreStatus
<1>7. CASE TakeEvents \/ EventReload
  BY <1>7 DEF TakeEvents, EventReload
<1>8. CASE EndIgnores
  BY <1>8 DEF EndIgnores
<1>9. CASE Progress \/ EndScan
  <2>1. TRUE \in BOOLEAN /\ FALSE \in BOOLEAN /\ {} \in SUBSET Paths /\ {} \in SUBSET Clients
        /\ roots \in SUBSET Paths
    BY DEF Types, TaskTypes
  <2>2. \/ SendStatusUpdate(bg, TRUE, {}, {}) /\ bg \in ScannerState
        \/ \E state \in ScannerState :
             state.paths = bg.paths /\ SendStatusUpdate(state, FALSE, {}, roots)
    BY <1>9, ProgressKeeps, EndScanKeeps
  <2>3. \A state \in ScannerState, scanning \in BOOLEAN, under \in SUBSET Paths :
          SendStatusUpdate(state, scanning, {}, under) /\ state.paths = bg.paths =>
            Sent({}, scanning)
    BY <1>1, <2>1
  <2>4. \E scanning \in BOOLEAN : Sent({}, scanning)
    BY <2>1, <2>2, <2>3, Zenon
  <2> QED
    BY <2>4 DEF Sent
<1> QED
  BY <1>2, <1>3, <1>4, <1>5, <1>6, <1>7, <1>8, <1>9 DEF Next, MainStep, Sent

(* What the disk holds while the task waits is noted, so whatever is read  *)
(* is as fresh; what was read is put into the index, and nothing else.     *)
LEMMA ServeFresh ==
  ASSUME Types, TakesTurns, NEW a \in Actors, Serve(a), NEW c \in Clients, ScannerFresh(c),
         client'[c].path = client[c].path, client[c].seen \subseteq client'[c].seen,
         disk'[client[c].path] \in client'[c].seen
  PROVE  ScannerFresh(c)'
<1> DEFINE p == client[c].path
           seen == client[c].seen
           now == client'[c].seen
<1>1. /\ p \in Paths /\ seen \subseteq now /\ client'[c].path = p /\ disk'[p] \in now
      /\ Fresh(seen, bg.paths[p])
      /\ \A b \in Actors : job[b] # None /\ job[b].started => FreshRead(seen, job[b].read[p])
      /\ \A b \in Actors :
           request[b] # None /\ request[b].step = "stat" /\ p \in request[b].paths \ todo[b] =>
             FreshRead(seen, stat[b][p])
      /\ phase = "stat" /\ p \in roots \ todo[Main] => FreshRead(seen, stat[Main][p])
      /\ phase = "ignores" => Fresh(seen, ignoreSnap.paths[p])
  BY DEF ScannerFresh, IndexFresh, JobsFresh, RequestsFresh, EventsFresh, CopyFresh, Types,
         ClientTypes, ClientState
<1>2. /\ \A file : FreshRead(seen, file) => FreshRead(now, file)
      /\ \A entry : Fresh(seen, entry) => Fresh(now, entry)
  BY <1>1 DEF Fresh, FreshRead, Current
<1>3. ASSUME Fresh(now, bg'.paths[p]),
             \A b \in Actors : job'[b] # None /\ job'[b].started => FreshRead(now, job'[b].read[p]),
             \A b \in Actors :
               request'[b] # None /\ request'[b].step = "stat" /\ p \in request'[b].paths \ todo'[b] =>
                 FreshRead(now, stat'[b][p]),
             phase' = "stat" /\ p \in roots' \ todo'[Main] => FreshRead(now, stat'[Main][p])
      PROVE  ScannerFresh(c)'
  <2>1. UNCHANGED <<phase, ignoreSnap>>
    BY ServeKeeps
  <2>2. phase' = "ignores" => Fresh(now, ignoreSnap'.paths[p])
    BY <1>1, <1>2, <2>1
  <2> QED
    BY <1>1, <1>3, <2>2 DEF ScannerFresh, IndexFresh, JobsFresh, RequestsFresh, EventsFresh,
                            CopyFresh
<1>4. UNCHANGED <<phase, roots, disk>> /\ (request[Main] # None => phase # "stat")
  BY ServeKeeps DEF TakesTurns, Idle
<1> HIDE DEF p, seen, now
<1>5. CASE TakeRequest(a)
  <2>1. /\ request'[a].step = "load" /\ \A b \in Actors : b # a => request'[b] = request[b]
        /\ bg'.paths = bg.paths /\ UNCHANGED <<stat, todo, job>>
    BY <1>5, TakeRequestKeeps
  <2> QED
    BY <1>1, <1>2, <1>3, <1>4, <2>1
<1>6. CASE LoadNext(a)
  <2>1. /\ request'[a].step = "load" /\ ~job'[a].started
        /\ \A b \in Actors : b # a => request'[b] = request[b] /\ job'[b] = job[b]
        /\ UNCHANGED <<bg, stat, todo>>
    BY <1>6, LoadNextKeeps DEF LoadNext
  <2> QED
    BY <1>1, <1>2, <1>3, <1>4, <2>1
<1>7. CASE LoadDone(a)
  <2>1. /\ todo'[a] = request'[a].paths /\ request[a] # None
        /\ \A b \in Actors : b # a => request'[b] = request[b] /\ todo'[b] = todo[b]
        /\ bg'.paths = bg.paths /\ UNCHANGED <<stat, job>>
    BY <1>7, LoadDoneKeeps DEF LoadDone
  <2> QED
    BY <1>1, <1>2, <1>3, <1>4, <2>1, MainIsActor
<1>8. CASE ReadDir(a)
  <2>1. /\ \/ job'[a] = None
           \/ \A q \in Paths : job'[a].read[q] \in {None, disk[q]}
        /\ \A b \in Actors : b # a => job'[b] = job[b]
        /\ UNCHANGED <<bg, request, stat, todo>>
    BY <1>8, ReadDirKeeps
  <2>2. job'[a] # None => FreshRead(now, job'[a].read[p])
    BY <1>1, <1>4, <2>1 DEF FreshRead
  <2> QED
    BY <1>1, <1>2, <1>3, <1>4, <2>1, <2>2
<1>9. CASE Populate(a)
  <2>1. /\ \/ \A file : Agrees(bg.paths[p], file) => Agrees(bg'.paths[p], file)
           \/ job[a].read[p] # None /\ Agrees(bg'.paths[p], job[a].read[p])
        /\ job'[a] = None /\ \A b \in Actors : b # a => request'[b] = request[b] /\ job'[b] = job[b]
        /\ \/ request' = request
           \/ request'[a].step = request[a].step /\ request'[a].paths = request[a].paths
              /\ request[a] # None
        /\ UNCHANGED <<stat, todo>> /\ job[a] # None /\ job[a].started
    <3>1. UNCHANGED <<stat, todo>> /\ job[a] # None /\ job[a].started
      BY <1>9 DEF Populate
    <3> QED
      BY <1>1, <1>9, <3>1, PopulateKeeps
  <2>2. Fresh(now, bg'.paths[p])
    <3>1. CASE \A file : Agrees(bg.paths[p], file) => Agrees(bg'.paths[p], file)
      BY <1>1, <1>2, <3>1 DEF Fresh, Current, Agrees
    <3>2. CASE job[a].read[p] # None /\ Agrees(bg'.paths[p], job[a].read[p])
      BY <1>1, <2>1, <3>2 DEF Fresh, FreshRead, Current
    <3> QED
      BY <2>1, <3>1, <3>2
  <2> QED
    BY <1>1, <1>2, <1>3, <1>4, <2>1, <2>2
<1>10. CASE Stat(a)
  <2>1. /\ \E q \in todo[a] : /\ todo'[a] = todo[a] \ {q} /\ stat'[a][q] = disk[q]
                              /\ \A r \in Paths : r # q => stat'[a][r] = stat[a][r]
        /\ \A b \in Actors : b # a => stat'[b] = stat[b] /\ todo'[b] = todo[b]
        /\ UNCHANGED <<bg, job, request>>
    BY <1>10, StatKeeps DEF Stat
  <2>2. p \notin todo'[a] =>
          \/ p \notin todo[a] /\ stat'[a][p] = stat[a][p]
          \/ FreshRead(now, stat'[a][p])
    BY <1>1, <1>4, <2>1 DEF FreshRead
  <2> QED
    BY <1>1, <1>2, <1>3, <1>4, <2>1, <2>2, MainIsActor
<1>11. CASE Reload(a)
  <2>1. /\ request'[a].step = "report" /\ request[a] # None /\ request[a].step = "stat"
        /\ todo[a] = {} /\ Reloaded(bg', bg, request[a].paths, stat[a])
        /\ \A b \in Actors : b # a => request'[b] = request[b] /\ stat'[b] = stat[b]
        /\ UNCHANGED <<todo, job>>
    BY <1>11, ReloadKeeps DEF Reload
  <2>2. \/ bg'.paths[p] \in {None, bg.paths[p]}
        \/ p \in request[a].paths /\ Agrees(bg'.paths[p], stat[a][p])
    BY <1>1, <2>1 DEF Reloaded
  <2>3. Fresh(now, bg'.paths[p])
    BY <1>1, <1>2, <2>1, <2>2 DEF Fresh, FreshRead, Current, Agrees
  <2> QED
    BY <1>1, <1>2, <1>3, <1>4, <2>1, <2>3, MainIsActor
<1>12. CASE Report(a)
  <2>1. /\ request'[a] = None /\ \A b \in Actors : b # a => request'[b] = request[b]
        /\ UNCHANGED <<stat, todo, job>>
    BY <1>12, ReportKeeps
  <2>2. bg'.paths = bg.paths
    BY <1>12 DEF Report, SendStatusUpdate, Types, ScannerState
  <2> QED
    BY <1>1, <1>2, <1>3, <1>4, <2>1, <2>2
<1> QED
  BY <1>5, <1>6, <1>7, <1>8, <1>9, <1>10, <1>11, <1>12 DEF Serve
(* The same for the scanner's other steps, which put nothing newer than    *)
(* what they read into the index; the rest leaves the scanner alone.       *)
LEMMA ScannerFreshNext ==
  ASSUME Types, TakesTurns, [Next]_vars, NEW c \in Clients, ScannerFresh(c),
         client'[c].path = client[c].path, client[c].seen \subseteq client'[c].seen,
         disk'[client[c].path] \in client'[c].seen
  PROVE  ScannerFresh(c)'
<1> DEFINE p == client[c].path
           seen == client[c].seen
           now == client'[c].seen
<1>1. /\ p \in Paths /\ seen \subseteq now /\ client'[c].path = p
      /\ Fresh(seen, bg.paths[p])
      /\ \A b \in Actors : job[b] # None /\ job[b].started => FreshRead(seen, job[b].read[p])
      /\ \A b \in Actors :
           request[b] # None /\ request[b].step = "stat" /\ p \in request[b].paths \ todo[b] =>
             FreshRead(seen, stat[b][p])
      /\ phase = "stat" /\ p \in roots \ todo[Main] => FreshRead(seen, stat[Main][p])
      /\ phase = "ignores" => Fresh(seen, ignoreSnap.paths[p])
  BY DEF ScannerFresh, IndexFresh, JobsFresh, RequestsFresh, EventsFresh, CopyFresh, Types,
         ClientTypes, ClientState
<1>2. /\ \A file : FreshRead(seen, file) => FreshRead(now, file)
      /\ \A entry : Fresh(seen, entry) => Fresh(now, entry)
  BY <1>1 DEF Fresh, FreshRead, Current
<1>3. ASSUME Fresh(now, bg'.paths[p]), request' = request,
             \A b \in Actors : job'[b] # None /\ job'[b].started => job'[b] = job[b],
             \A b \in Actors : request[b] # None => todo'[b] = todo[b] /\ stat'[b] = stat[b],
             phase' = "stat" => p \notin roots' \ todo'[Main],
             phase' = "ignores" => Fresh(now, ignoreSnap'.paths[p])
      PROVE  ScannerFresh(c)'
  <2>1. IndexFresh(c)' /\ CopyFresh(c)' /\ EventsFresh(c)'
    BY <1>1, <1>3 DEF IndexFresh, CopyFresh, EventsFresh
  <2>2. JobsFresh(c)'
    BY <1>1, <1>2, <1>3 DEF JobsFresh
  <2>3. RequestsFresh(c)'
    BY <1>1, <1>2, <1>3 DEF RequestsFresh
  <2> QED
    BY <2>1, <2>2, <2>3 DEF ScannerFresh
<1>4. ASSUME UNCHANGED <<bg, phase, roots, stat, todo, ignoreSnap, request, job>>
      PROVE  ScannerFresh(c)'
  BY <1>1, <1>2, <1>4 DEF ScannerFresh, IndexFresh, JobsFresh, RequestsFresh, EventsFresh, CopyFresh
<1> HIDE DEF p, seen, now
<1>5. CASE External \/ ReceiveScanState \/ UNCHANGED vars
  BY <1>4, <1>5 DEF External, ReceiveScanState, vars, requestVars, queueVars
<1>6. ASSUME NEW k \in Clients, ClientStep(k) PROVE ScannerFresh(c)'
  BY <1>4, <1>6 DEF ClientStep, ClientStart, ClientSubmit, ClientResume, requestVars, queueVars
<1>7. ASSUME NEW a \in Actors, Serve(a) PROVE ScannerFresh(c)'
  BY <1>7, ServeFresh
<1>8. ASSUME NEW w \in Workers, TakeJob(w) PROVE ScannerFresh(c)'
  <2>1. /\ phase \in {"initialScan", "scan"} /\ phase' = phase
        /\ \A b \in Actors : job'[b] # None /\ job'[b].started => job'[b] = job[b]
        /\ UNCHANGED <<bg, request, stat, todo>>
    BY <1>8, TakeJobKeeps
  <2> QED
    BY <1>1, <1>2, <1>3, <2>1
<1>9. ASSUME NEW w \in Workers, UpdateIgnoreStatus(w) PROVE ScannerFresh(c)'
  <2>1. /\ phase = "ignores" /\ UNCHANGED <<phase, request, stat, todo, job, ignoreSnap>>
        /\ \/ bg'.paths[p] = bg.paths[p]
           \/ \A file : Agrees(ignoreSnap.paths[p], file) => Agrees(bg'.paths[p], file)
        /\ ignoreSnap.paths[p] = None => bg'.paths[p] = bg.paths[p]
    BY <1>1, <1>9, UpdateIgnoreStatusKeeps
  <2>2. Fresh(now, ignoreSnap.paths[p])
    BY <1>1, <1>2, <2>1
  <2>3. Fresh(now, bg'.paths[p])
    <3>1. CASE bg'.paths[p] = bg.paths[p]
      BY <1>1, <1>2, <3>1
    <3>2. CASE bg'.paths[p] # bg.paths[p]
      BY <2>1, <2>2, <3>2 DEF Fresh, Current
    <3> QED
      BY <3>1, <3>2
  <2> QED
    BY <1>3, <2>1, <2>2, <2>3
<1>10. CASE TakeEvents
  <2>1. /\ phase = "idle" /\ request' = request /\ Idle(Main) /\ UNCHANGED <<job, stat>>
        /\ bg'.paths = bg.paths
        /\ \/ phase' = phase /\ todo' = todo
           \/ phase' = "stat" /\ todo' = [todo EXCEPT ![Main] = roots']
    BY <1>10, TakeEventsKeeps
  <2>2. \A b \in Actors : request[b] # None => todo'[b] = todo[b]
    BY <2>1 DEF Idle, Types, TaskTypes
  <2>3. phase' = "stat" => todo'[Main] = roots'
    BY <2>1, MainIsActor DEF Types, TaskTypes
  <2>4. phase' # "ignores"
    BY <2>1
  <2> QED
    BY <1>1, <1>2, <1>3, <2>1, <2>2, <2>3, <2>4
<1>11. CASE EventReload
  <2>1. /\ phase = "stat" /\ phase' = "ignores" /\ todo[Main] = {}
        /\ Reloaded(bg', bg, roots, stat[Main]) /\ ignoreSnap'.paths = bg'.paths
        /\ \A a \in Workers : stat'[a] = stat[a]
        /\ UNCHANGED <<todo, request, job>>
    BY <1>11, EventReloadKeeps
  <2>2. \/ bg'.paths[p] \in {None, bg.paths[p]}
        \/ p \in roots /\ Agrees(bg'.paths[p], stat[Main][p])
    BY <1>1, <2>1 DEF Reloaded
  <2>3. Fresh(now, bg'.paths[p])
    BY <1>1, <1>2, <2>1, <2>2 DEF Fresh, FreshRead, Current, Agrees
  <2>4. \A b \in Actors : request[b] # None => stat'[b] = stat[b]
    BY <2>1 DEF TakesTurns, Idle, Actors
  <2> QED
    BY <1>3, <2>1, <2>3, <2>4
<1>12. CASE EndIgnores
  <2>1. phase' = "scan" /\ UNCHANGED <<bg, request, job, stat, todo>>
    BY <1>12 DEF EndIgnores, requestVars
  <2> QED
    BY <1>1, <1>2, <1>3, <2>1
<1>13. CASE Progress
  <2>1. /\ phase = "initialScan" /\ UNCHANGED <<phase, request, job, stat, todo>>
        /\ SendStatusUpdate(bg, TRUE, {}, {})
    BY <1>13, ProgressKeeps
  <2>2. bg'.paths = bg.paths
    BY <2>1 DEF SendStatusUpdate, Types, ScannerState
  <2> QED
    BY <1>1, <1>2, <1>3, <2>1, <2>2
<1>14. CASE EndScan
  <2>1. phase' = "idle" /\ UNCHANGED <<request, job, stat, todo>>
    BY <1>14, EndScanKeeps
  <2>2. PICK state \in ScannerState : /\ state.paths = bg.paths
                                      /\ SendStatusUpdate(state, FALSE, {}, roots)
    BY <1>14, EndScanKeeps
  <2>3. bg'.paths = bg.paths
    BY <2>2 DEF SendStatusUpdate, ScannerState
  <2> QED
    BY <1>1, <1>2, <1>3, <2>1, <2>3
<1> QED
  BY <1>5, <1>6, <1>7, <1>8, <1>9, <1>10, <1>11, <1>12, <1>13, <1>14
     DEF Next, Scan, MainStep
(* A task that did not ask yet is nowhere but in the queue after the step. *)
LEMMA NotAsked ==
  ASSUME Types, Asking, [Next]_vars, NEW c \in Clients, client[c].step \in {"idle", "changed"}
  PROVE  /\ DiskSeen(c)' /\ InTasks(c)' = {} /\ InUpdates(c)' = {}
         /\ client'[c].step \notin {"acked", "done"}
<1>1. /\ PlacedOnce(c) /\ client[c] \in ClientState /\ InTasks(c) = {} /\ InUpdates(c) = {}
      /\ PlacedOnce(c)'
  <2>1. PlacedOnce(c) /\ client[c] \in ClientState /\ Asking'
    BY AskingNext DEF Asking, Types, ClientTypes
  <2> QED
    BY <2>1 DEF PlacedOnce, Asking
<1>2. ASSUME client'[c].step \in {"idle", "changed"}
      PROVE  /\ DiskSeen(c)' /\ InTasks(c)' = {} /\ InUpdates(c)' = {}
             /\ client'[c].step \notin {"acked", "done"}
  BY <1>1, <1>2 DEF PlacedOnce, DiskSeen
<1>3. ASSUME ClientSubmit(c)
      PROVE  /\ DiskSeen(c)' /\ InTasks(c)' = {} /\ InUpdates(c)' = {}
             /\ client'[c].step \notin {"acked", "done"}
  <2>1. /\ client'[c].step = "waiting" /\ client'[c].path = client[c].path
        /\ client'[c].seen = {disk[client[c].path]} /\ UNCHANGED <<disk, request, updates>>
    BY <1>3, ClientSubmitKeeps DEF SameAsk
  <2>2. InTasks(c)' = InTasks(c) /\ InUpdates(c)' = InUpdates(c)
    BY <2>1 DEF InTasks, InUpdates
  <2> QED
    BY <1>1, <2>1, <2>2 DEF DiskSeen
<1>4. client'[c].step \in {"idle", "changed"} \/ ClientSubmit(c)
  <2>1. ASSUME disk' \in [Paths -> File], client'[c] = ClientsSee[c]
        PROVE  client'[c].step = client[c].step
    BY <2>1, ClientsSeeKeeps
  <2>2. CASE External
    BY <2>1, <2>2, ExternalTypes DEF External, Types, DiskTypes
  <2>3. ASSUME NEW k \in Clients, ClientStart(k) PROVE client'[c].step \in {"idle", "changed"}
    BY <2>1, <2>3, ClientStartKeeps DEF DiskTypes
  <2>4. ASSUME NEW k \in Clients, ClientSubmit(k), k # c PROVE client'[c] = client[c]
    BY <2>4, ClientSubmitKeeps
  <2>5. ASSUME NEW k \in Clients, ClientResume(k) PROVE client'[c] = client[c]
    BY <2>5, ClientResumeKeeps
  <2>6. ASSUME NEW a \in Actors, Serve(a) PROVE client'[c] = client[c]
    <3>1. CASE Report(a)
      <4>1. /\ bg \in ScannerState /\ {} \in SUBSET Paths
            /\ request[a].senders \in SUBSET Clients /\ (a # Main) \in BOOLEAN
            /\ SendStatusUpdate(bg, a # Main, request[a].senders, {})
            /\ request[a] # None /\ request'[a] = None /\ requests' = requests
            /\ \A b \in Actors : b # a => request'[b] = request[b]
        BY <3>1, ReportKeeps DEF Types
      <4>2. InTasks(c)' \subseteq InTasks(c) /\ c \notin request[a].senders
        BY <1>1, <4>1 DEF InTasks
      <4> QED
        BY <1>1, <4>1, <4>2, SendPlaces
    <3>2. CASE ~Report(a)
      BY <2>6, <3>2 DEF Serve, TakeRequest, LoadNext, LoadDone, ReadDir, Populate, Stat, Reload
    <3> QED
      BY <3>1, <3>2
  <2>7. ASSUME NEW w \in Workers, Scan(w) PROVE client' = client
    BY <2>7 DEF Scan, TakeJob, UpdateIgnoreStatus
  <2>8. CASE TakeEvents \/ EventReload \/ EndIgnores
    BY <2>8 DEF TakeEvents, EventReload, EndIgnores
  <2>9. CASE Progress \/ EndScan
    <3>1. /\ TRUE \in BOOLEAN /\ FALSE \in BOOLEAN /\ {} \in SUBSET Paths
          /\ roots \in SUBSET Paths
      BY DEF Types, TaskTypes
    <3>2. \/ SendStatusUpdate(bg, TRUE, {}, {}) /\ bg \in ScannerState
          \/ \E state \in ScannerState : SendStatusUpdate(state, FALSE, {}, roots)
      BY <2>9, ProgressKeeps, EndScanKeeps
    <3>3. UNCHANGED <<request, job, requests>>
      BY <2>9, ProgressKeeps, EndScanKeeps
    <3>4. \A state \in ScannerState, scanning \in BOOLEAN, under \in SUBSET Paths :
            SendStatusUpdate(state, scanning, {}, under) => client'[c] = client[c]
      BY <3>3, SentAsking
    <3>5. client'[c] = client[c]
      BY <3>1, <3>2, <3>4, Zenon
    <3> QED
      BY <3>5
  <2>10. CASE ReceiveScanState
    BY <1>1, <2>10, ReceivePlaces
  <2>11. CASE UNCHANGED vars
    BY <2>11 DEF vars
  <2> QED
    BY <2>2, <2>3, <2>4, <2>5, <2>6, <2>7, <2>8, <2>9, <2>10, <2>11
       DEF Next, ClientStep, MainStep
<1> QED
  BY <1>2, <1>3, <1>4

(* Only the main task touches what it reads for a request. *)
LEMMA MainReads ==
  ASSUME Types, TakesTurns, [Next]_vars, request'[Main] # None, request'[Main].step = "stat"
  PROVE  /\ request[Main] # None
         /\ request'[Main].senders = request[Main].senders
         /\ \/ /\ request[Main].step = "stat"
               /\ todo'[Main] = todo[Main] /\ stat'[Main] = stat[Main]
            \/ /\ request[Main].step = "stat"
               /\ \E p \in todo[Main] : /\ todo'[Main] = todo[Main] \ {p} /\ stat'[Main][p] = disk[p]
                                        /\ \A q \in Paths : q # p => stat'[Main][q] = stat[Main][q]
            \/ todo'[Main] = request[Main].paths
<1> DEFINE Goal ==
      /\ request[Main] # None
      /\ request'[Main].senders = request[Main].senders
      /\ \/ /\ request[Main].step = "stat"
            /\ todo'[Main] = todo[Main] /\ stat'[Main] = stat[Main]
         \/ /\ request[Main].step = "stat"
            /\ \E p \in todo[Main] : /\ todo'[Main] = todo[Main] \ {p} /\ stat'[Main][p] = disk[p]
                                     /\ \A q \in Paths : q # p => stat'[Main][q] = stat[Main][q]
         \/ todo'[Main] = request[Main].paths
<1>1. ASSUME request'[Main] = request[Main], todo'[Main] = todo[Main], stat'[Main] = stat[Main]
      PROVE  Goal
  BY <1>1
<1> HIDE DEF Goal
<1>2. CASE External \/ ReceiveScanState \/ UNCHANGED vars
  BY <1>1, <1>2 DEF External, ReceiveScanState, vars, requestVars
<1>3. ASSUME NEW k \in Clients, ClientStep(k) PROVE Goal
  BY <1>1, <1>3 DEF ClientStep, ClientStart, ClientSubmit, ClientResume, requestVars
<1>4. ASSUME NEW w \in Workers, Scan(w) PROVE Goal
  BY <1>1, <1>4 DEF Scan, TakeJob, UpdateIgnoreStatus, requestVars
<1>5. CASE EndIgnores \/ Progress \/ EndScan
  BY <1>1, <1>5 DEF EndIgnores, Progress, EndScan, requestVars
<1>6. CASE TakeEvents
  BY <1>6, TakeEventsKeeps DEF Idle
<1>7. CASE EventReload
  BY <1>7, EventReloadKeeps DEF TakesTurns, Idle
<1>8. ASSUME NEW a \in Actors, Serve(a) PROVE Goal
  <2>1. \A b \in Actors : b # a => request'[b] = request[b]
    BY <1>8, ServeKeeps
  <2>2. CASE TakeRequest(a)
    BY <1>1, <2>1, <2>2, MainIsActor, TakeRequestKeeps
  <2>3. CASE LoadNext(a)
    <3>1. request'[a].step = "load" /\ UNCHANGED <<stat, todo>>
      BY <2>3, LoadNextKeeps DEF LoadNext
    <3> QED
      BY <1>1, <2>1, <3>1, MainIsActor
  <2>4. CASE LoadDone(a)
    <3>1. /\ request[a] # None /\ todo'[a] = request[a].paths
          /\ request'[a].senders = request[a].senders
          /\ \A b \in Actors : b # a => todo'[b] = todo[b]
          /\ stat' = stat
      BY <2>4, LoadDoneKeeps DEF LoadDone
    <3>2. a # Main => Goal
      BY <1>1, <2>1, <3>1, MainIsActor
    <3> QED
      BY <3>1, <3>2 DEF Goal
  <2>5. CASE ReadDir(a)
    BY <1>1, <2>5, ReadDirKeeps
  <2>6. CASE Populate(a)
    <3>1. /\ request[a] = None => request' = request
          /\ request[a] # None => /\ request'[a].step = request[a].step
                                  /\ request'[a].senders = request[a].senders
          /\ UNCHANGED <<stat, todo>>
      BY <2>6, PopulateKeeps DEF Populate
    <3>2. a # Main => Goal
      BY <1>1, <2>1, <3>1, MainIsActor
    <3> QED
      BY <3>1, <3>2 DEF Goal
  <2>7. CASE Stat(a)
    <3>1. /\ \E p \in todo[a] : /\ todo'[a] = todo[a] \ {p} /\ stat'[a][p] = disk[p]
                                /\ \A q \in Paths : q # p => stat'[a][q] = stat[a][q]
          /\ \A b \in Actors : b # a => stat'[b] = stat[b] /\ todo'[b] = todo[b]
          /\ request' = request
      BY <2>7, StatKeeps DEF Stat
    <3>2. a # Main => Goal
      BY <1>1, <3>1, MainIsActor
    <3> QED
      BY <3>1, <3>2 DEF Goal
  <2>8. CASE Reload(a)
    <3>1. /\ request'[a].step = "report" /\ \A b \in Actors : b # a => stat'[b] = stat[b]
          /\ todo' = todo
      BY <2>8, ReloadKeeps DEF Reload
    <3> QED
      BY <1>1, <2>1, <3>1, MainIsActor
  <2>9. CASE Report(a)
    BY <1>1, <2>1, <2>9, MainIsActor, ReportKeeps
  <2> QED
    BY <1>8, <2>2, <2>3, <2>4, <2>5, <2>6, <2>7, <2>8, <2>9 DEF Serve
<1> QED
  BY <1>2, <1>3, <1>4, <1>5, <1>6, <1>7, <1>8 DEF Next, MainStep, Goal

(* While the main task serves a request no one else touches the index, and *)
(* once it has applied what it read neither does it.                       *)
LEMMA MainReports ==
  ASSUME Types, TakesTurns, LoadedFirst, [Next]_vars, request'[Main] # None,
         request'[Main].step = "report"
  PROVE  \/ request'[Main] = request[Main] /\ bg' = bg
         \/ Reload(Main)
<1>1. ASSUME request[Main] # None
      PROVE  phase = "idle" /\ \A w \in Workers : Idle(w)
  BY <1>1 DEF TakesTurns, Idle
<1>2. CASE External \/ ReceiveScanState \/ UNCHANGED vars
  BY <1>2 DEF External, ReceiveScanState, vars, requestVars
<1>3. ASSUME NEW k \in Clients, ClientStep(k) PROVE request'[Main] = request[Main] /\ bg' = bg
  BY <1>3 DEF ClientStep, ClientStart, ClientSubmit, ClientResume, requestVars
<1>4. ASSUME NEW w \in Workers, Scan(w) PROVE FALSE
  BY <1>1, <1>4 DEF Scan, TakeJob, UpdateIgnoreStatus, requestVars
<1>5. CASE EventReload \/ EndIgnores \/ Progress \/ EndScan
  BY <1>1, <1>5 DEF EventReload, EndIgnores, Progress, EndScan, requestVars
<1>6. CASE TakeEvents
  BY <1>6, TakeEventsKeeps DEF Idle
<1>7. ASSUME NEW a \in Actors, Serve(a)
      PROVE  (request'[Main] = request[Main] /\ bg' = bg) \/ Reload(Main)
  <2>1. /\ ~Idle(a) \/ MayServe(a) \/ UNCHANGED <<bg, request, job, updates>>
        /\ \A b \in Actors : b # a => request'[b] = request[b]
    BY <1>7, ServeKeeps
  <2>2. CASE a # Main
    <3>1. request'[Main] = request[Main] /\ a \in Workers
      BY <2>1, <2>2, MainIsActor DEF Actors
    <3> QED
      BY <1>1, <2>1, <2>2, <3>1 DEF MayServe
  <2>3. CASE a = Main
    <3>1. CASE TakeRequest(a) \/ LoadNext(a) \/ LoadDone(a) \/ Report(a)
      BY <2>3, <3>1, TakeRequestKeeps, LoadNextKeeps, LoadDoneKeeps, ReportKeeps
    <3>2. CASE ReadDir(a)
      BY <2>3, <3>2, ReadDirKeeps
    <3>3. CASE Populate(a)
      <4>1. /\ request[a] = None => request' = request
            /\ request[a] # None => request'[a].step = request[a].step
            /\ job[a] # None
        BY <3>3, PopulateKeeps DEF Populate
      <4> QED
        BY <2>3, <4>1, MainIsActor DEF LoadedFirst
    <3>4. CASE Stat(a)
      BY <2>3, <3>4 DEF Stat
    <3> QED
      BY <1>7, <2>3, <3>1, <3>2, <3>3, <3>4 DEF Serve
  <2> QED
    BY <2>2, <2>3
<1> QED
  BY <1>2, <1>3, <1>4, <1>5, <1>6, <1>7 DEF Next, MainStep
(* What was on its way stays as fresh, and so is what is put behind it.    *)
LEMMA UpdatesStayFresh ==
  ASSUME Types, [Next]_vars, ~ReceiveScanState, NEW c \in Clients, IndexFresh(c),
         NEW k \in Nat \ {0}, \A m \in k .. Len(updates) : UpdateFresh(c, m),
         client'[c].path = client[c].path, client[c].seen \subseteq client'[c].seen
  PROVE  \A m \in k .. Len(updates') : UpdateFresh(c, m)'
<1>1. \A entry : Fresh(client[c].seen, entry) => Fresh(client'[c].seen, entry)
  BY DEF Fresh, Current
<1>2. updates \in Seq({Started} \cup StateUpdate)
  BY DEF Types, UiTypes
<1>3. CASE updates' = updates
  BY <1>1, <1>3 DEF UpdateFresh
<1>4. ASSUME NEW update \in {Started} \cup StateUpdate, updates' = Append(updates, update),
             ~update.started => update.paths = bg.paths
      PROVE  \A m \in k .. Len(updates') : UpdateFresh(c, m)'
  <2>1. /\ Len(updates) \in Nat /\ Len(updates') = Len(updates) + 1
        /\ updates'[Len(updates) + 1] = update
        /\ \A m \in 1 .. Len(updates) : updates'[m] = updates[m]
    BY <1>2, <1>4
  <2>2. ASSUME NEW m \in k .. Len(updates), m # Len(updates) + 1 PROVE UpdateFresh(c, m)'
    <3>1. m \in 1 .. Len(updates) /\ UpdateFresh(c, m)
      BY <2>1, <2>2
    <3>2. updates'[m] = updates[m]
      BY <2>1, <3>1
    <3> QED
      BY <1>1, <3>1, <3>2 DEF UpdateFresh
  <2>3. ASSUME NEW m \in {Len(updates) + 1} PROVE UpdateFresh(c, m)'
    <3>1. updates'[m] = update
      BY <2>1, <2>3
    <3> QED
      BY <1>1, <1>4, <3>1 DEF UpdateFresh, IndexFresh
  <2>4. \A m \in k .. Len(updates') : m \in k .. Len(updates) \/ m = Len(updates) + 1
    BY <2>1
  <2>5. \A m \in k .. Len(updates) : m # Len(updates) + 1
    BY <2>1
  <2> QED
    BY <2>2, <2>3, <2>4, <2>5
<1>5. Started \in {Started} \cup StateUpdate /\ Started.started
  BY DEF Started
<1> QED
  BY <1>3, <1>4, <1>5, UpdatesFollow

LEMMA ReceivedStayFresh ==
  ASSUME Types, ReceiveScanState, NEW c \in Clients, NEW k \in Nat \ {0},
         \A m \in k .. Len(updates) : UpdateFresh(c, m),
         client'[c].path = client[c].path, client[c].seen \subseteq client'[c].seen
  PROVE  \A m \in 1 .. Len(updates') : m + 1 >= k => UpdateFresh(c, m)'
<1>1. \A entry : Fresh(client[c].seen, entry) => Fresh(client'[c].seen, entry)
  BY DEF Fresh, Current
<1>2. updates \in Seq({Started} \cup StateUpdate) /\ updates # <<>> /\ updates' = Tail(updates)
  BY ReceiveScanStateKeeps DEF Types, UiTypes
<1>3. /\ Len(updates) \in Nat /\ Len(updates') = Len(updates) - 1
      /\ \A m \in 1 .. Len(updates') : updates'[m] = updates[m + 1]
  BY <1>2
<1> SUFFICES ASSUME NEW m \in 1 .. Len(updates'), m + 1 >= k PROVE UpdateFresh(c, m)'
  OBVIOUS
<1>4. UpdateFresh(c, m + 1)
  BY <1>3
<1> QED
  BY <1>1, <1>3, <1>4 DEF UpdateFresh

(* The task has asked and goes on: each part of what its answer rests on.  *)
LEMMA ReadCurrentNext ==
  ASSUME Types, TakesTurns, Asking, [Next]_vars, NEW c \in Clients, DiskSeen(c), ReadCurrent(c),
         Follows(c)
  PROVE  ReadCurrent(c)'
<1> SUFFICES ASSUME (Main \in InTasks(c))', request'[Main].step = "stat",
                    client'[c].path \notin todo'[Main]
             PROVE  stat'[Main][client'[c].path] \in client'[c].seen
  BY DEF ReadCurrent
<1>1. /\ client'[c].path = client[c].path /\ client[c].seen \subseteq client'[c].seen
      /\ client[c].path \in Paths
  BY DEF Follows, Types, ClientTypes, ClientState
<1>2. request'[Main] # None /\ c \in request'[Main].senders
  BY DEF InTasks
<1>3. /\ request[Main] # None /\ request'[Main].senders = request[Main].senders
      /\ \/ /\ request[Main].step = "stat"
            /\ todo'[Main] = todo[Main] /\ stat'[Main] = stat[Main]
         \/ /\ request[Main].step = "stat"
            /\ \E p \in todo[Main] : /\ todo'[Main] = todo[Main] \ {p} /\ stat'[Main][p] = disk[p]
                                     /\ \A q \in Paths : q # p => stat'[Main][q] = stat[Main][q]
         \/ todo'[Main] = request[Main].paths
  BY <1>2, MainReads
<1>4. Main \in InTasks(c)
  BY <1>2, <1>3, MainIsActor DEF InTasks
<1>5. client[c].path \in request[Main].paths /\ client[c].step = "waiting"
  BY <1>4 DEF Asking, AsksForPath, PlacedOnce
<1>6. disk[client[c].path] \in client[c].seen
  BY <1>5 DEF DiskSeen
<1> QED
  BY <1>1, <1>3, <1>4, <1>5, <1>6 DEF ReadCurrent

LEMMA ReportCurrentNext ==
  ASSUME Types, TakesTurns, Asking, [Next]_vars, NEW c \in Clients, ReadCurrent(c),
         ReportCurrent(c), Follows(c)
  PROVE  ReportCurrent(c)'
<1> SUFFICES ASSUME (Main \in InTasks(c))', request'[Main].step = "report"
             PROVE  Current(client'[c].seen, bg'.paths[client'[c].path])
  BY DEF ReportCurrent
<1>1. /\ client'[c].path = client[c].path /\ client[c].seen \subseteq client'[c].seen
      /\ client[c].path \in Paths
  BY DEF Follows, Types, ClientTypes, ClientState
<1>2. request'[Main] # None /\ c \in request'[Main].senders
  BY DEF InTasks
<1>3. CASE request'[Main] = request[Main] /\ bg' = bg
  <2>1. Main \in InTasks(c) /\ request[Main].step = "report"
    BY <1>2, <1>3, MainIsActor DEF InTasks
  <2> QED
    BY <1>1, <1>3, <2>1 DEF ReportCurrent, Current
<1>4. CASE Reload(Main)
  <2>1. /\ request[Main] # None /\ request[Main].step = "stat" /\ todo[Main] = {}
        /\ request'[Main].senders = request[Main].senders
        /\ Reloaded(bg', bg, request[Main].paths, stat[Main])
    BY <1>4, MainIsActor, ReloadKeeps
  <2>2. Main \in InTasks(c)
    BY <1>2, <2>1, MainIsActor DEF InTasks
  <2>3. client[c].path \in request[Main].paths
    BY <2>2 DEF Asking, AsksForPath
  <2>4. Agrees(bg'.paths[client[c].path], stat[Main][client[c].path])
    BY <2>1, <2>3 DEF Reloaded
  <2> QED
    BY <1>1, <2>1, <2>2, <2>4 DEF ReadCurrent, Current
<1> QED
  BY <1>2, <1>3, <1>4, MainReports DEF Asking

(* When the main task reports to c no one is reading or applying anything. *)
LEMMA ReportedFresh ==
  ASSUME TakesTurns, Asking, NEW c \in Clients, ReportCurrent(c), Main \in InTasks(c),
         request[Main].step = "report"
  PROVE  Current(client[c].seen, bg.paths[client[c].path]) /\ ScannerFresh(c)
<1>1. Current(client[c].seen, bg.paths[client[c].path])
  BY DEF ReportCurrent
<1>2. request[Main] # None /\ job[Main] = None
  BY DEF InTasks, Asking, LoadedFirst
<1>3. phase = "idle" /\ \A w \in Workers : request[w] = None /\ job[w] = None
  BY <1>2 DEF TakesTurns, Idle
<1>4. \A a \in Actors : job[a] = None /\ (request[a] # None => request[a].step = "report")
  BY <1>2, <1>3 DEF Actors
<1> QED
  BY <1>1, <1>3, <1>4 DEF ScannerFresh, IndexFresh, Fresh, JobsFresh, RequestsFresh, EventsFresh,
                          CopyFresh

LEMMA UpdatesCurrentNext ==
  ASSUME Types, TakesTurns, Asking, [Next]_vars, NEW c \in Clients, DiskSeen(c), ReportCurrent(c),
         UpdatesCurrent(c), Follows(c), client[c].step = "waiting"
  PROVE  UpdatesCurrent(c)'
<1> DEFINE seen == client[c].seen
           now == client'[c].seen
           p == client[c].path
<1>1. /\ client'[c].path = p /\ seen \subseteq now
      /\ disk'[client[c].path] \in client'[c].seen
  BY DEF Follows
<1>2. \A entry : Current(seen, entry) => Current(now, entry)
  BY <1>1 DEF Current
<1>3. updates \in Seq({Started} \cup StateUpdate)
  BY DEF Types, UiTypes
<1>4. ScannerFresh(c) => ScannerFresh(c)'
  BY <1>1, ScannerFreshNext
<1> SUFFICES ASSUME NEW n \in Nat \ {0}, (n \in InUpdates(c))', ~updates'[n].scanning
             PROVE  /\ Current(now, updates'[n].paths[client'[c].path])
                    /\ ScannerFresh(c)'
                    /\ \A m \in n .. Len(updates') : UpdateFresh(c, m)'
  BY DEF UpdatesCurrent, InUpdates
<1>5. n \in 1 .. Len(updates') /\ ~updates'[n].started /\ c \in updates'[n].senders
  BY DEF InUpdates
<1> HIDE DEF seen, now, p
<1>6. CASE ReceiveScanState
  <2>1. n + 1 \in InUpdates(c) /\ updates'[n] = updates[n + 1]
    BY <1>6, ReceivePlaces DEF Asking
  <2>2. /\ Current(seen, updates[n + 1].paths[p]) /\ ScannerFresh(c)
        /\ \A m \in n + 1 .. Len(updates) : UpdateFresh(c, m)
    BY <2>1 DEF UpdatesCurrent, seen, p
  <2>3. \A m \in 1 .. Len(updates') : m + 1 >= n + 1 => UpdateFresh(c, m)'
    BY <1>1, <1>6, <2>2, ReceivedStayFresh DEF seen, now, p
  <2> QED
    BY <1>1, <1>2, <1>4, <2>1, <2>2, <2>3
<1>7. CASE n \in InUpdates(c) /\ updates'[n] = updates[n] /\ ~ReceiveScanState
  <2>1. /\ Current(seen, updates[n].paths[p]) /\ ScannerFresh(c)
        /\ \A m \in n .. Len(updates) : UpdateFresh(c, m)
    BY <1>7 DEF UpdatesCurrent, seen, p
  <2>2. \A m \in n .. Len(updates') : UpdateFresh(c, m)'
    BY <1>1, <1>7, <2>1, UpdatesStayFresh DEF seen, now, p, ScannerFresh
  <2> QED
    BY <1>1, <1>2, <1>4, <1>7, <2>1, <2>2
<1>8. ASSUME NEW update \in {Started} \cup StateUpdate, updates' = Append(updates, update),
             ~ReceiveScanState,
             ~update.started =>
               /\ update.paths = bg.paths
               /\ \/ update.senders = {}
                  \/ \E a \in Actors : /\ Report(a) /\ update.senders = request[a].senders
                                       /\ update.scanning = (a # Main)
      PROVE  /\ Current(now, updates'[n].paths[client'[c].path])
             /\ ScannerFresh(c)'
             /\ \A m \in n .. Len(updates') : UpdateFresh(c, m)'
  <2>1. /\ Len(updates) \in Nat /\ Len(updates') = Len(updates) + 1
        /\ updates'[Len(updates) + 1] = update
        /\ \A m \in 1 .. Len(updates) : updates'[m] = updates[m]
    BY <1>3, <1>8
  <2>2. CASE n # Len(updates) + 1
    <3>1. n \in 1 .. Len(updates) /\ updates'[n] = updates[n]
      BY <1>5, <2>1, <2>2
    <3> QED
      BY <1>5, <1>7, <1>8, <3>1 DEF InUpdates
  <2>3. CASE n = Len(updates) + 1
    <3>1. ~update.started /\ c \in update.senders /\ ~update.scanning /\ update.paths = bg.paths
      BY <1>5, <1>8, <2>1, <2>3
    <3>2. Report(Main) /\ c \in request[Main].senders
      BY <1>8, <3>1
    <3>3. Main \in InTasks(c) /\ request[Main].step = "report"
      BY <3>2, MainIsActor DEF Report, InTasks
    <3>4. Current(seen, bg.paths[p]) /\ ScannerFresh(c)
      BY <3>3, ReportedFresh DEF seen, p
    <3>5. \A m \in n .. Len(updates) : UpdateFresh(c, m)
      BY <2>1, <2>3
    <3>6. \A m \in n .. Len(updates') : UpdateFresh(c, m)'
      BY <1>1, <1>8, <3>4, <3>5, UpdatesStayFresh DEF seen, now, p, ScannerFresh
    <3> QED
      BY <1>1, <1>2, <1>4, <2>1, <2>3, <3>1, <3>4, <3>6
  <2> QED
    BY <2>2, <2>3
<1>9. CASE updates' = updates /\ ~ReceiveScanState
  BY <1>5, <1>7, <1>9 DEF InUpdates
<1>10. Started \in {Started} \cup StateUpdate /\ Started.started
  BY DEF Started
<1> QED
  BY <1>6, <1>8, <1>9, <1>10, UpdatesFollow
LEMMA AckedFreshNext ==
  ASSUME Types, TakesTurns, Asking, [Next]_vars, NEW c \in Clients, DiskSeen(c),
         UpdatesCurrent(c), AckedFresh(c), Follows(c)
  PROVE  AckedFresh(c)'
<1> SUFFICES ASSUME client'[c].step = "acked", client'[c].byMain
             PROVE  /\ Fresh(client'[c].seen, ui'.paths[client'[c].path])
                    /\ ScannerFresh(c)'
                    /\ \A m \in 1 .. Len(updates') : UpdateFresh(c, m)'
  BY DEF AckedFresh
<1>1. /\ client'[c].path = client[c].path /\ client[c].seen \subseteq client'[c].seen
      /\ client[c].step # "done" /\ disk'[client[c].path] \in client'[c].seen
  BY DEF Follows
<1>2. \A entry : Fresh(client[c].seen, entry) => Fresh(client'[c].seen, entry)
  BY <1>1 DEF Fresh, Current
<1>3. ScannerFresh(c) => ScannerFresh(c)'
  BY <1>1, ScannerFreshNext
<1>4. 1 \in Nat \ {0}
  OBVIOUS
<1>5. CASE client[c].step = "acked"
  <2>1. /\ Fresh(client[c].seen, ui.paths[client[c].path]) /\ ScannerFresh(c)
        /\ \A m \in 1 .. Len(updates) : UpdateFresh(c, m)
    BY <1>5 DEF Follows, AckedFresh
  <2>2. CASE ReceiveScanState
    <3>1. ui' = ui \/ (~updates[1].started /\ ui'.paths = updates[1].paths)
      BY <2>2, ReceiveScanStateKeeps
    <3>2. 1 \in 1 .. Len(updates)
      BY <2>2, ReceiveScanStateKeeps DEF Types, UiTypes
    <3>3. UpdateFresh(c, 1)
      BY <2>1, <3>2
    <3>4. Fresh(client'[c].seen, ui'.paths[client'[c].path])
      BY <1>1, <1>2, <2>1, <3>1, <3>3 DEF UpdateFresh
    <3>5. \A m \in 1 .. Len(updates') : m + 1 >= 1 => UpdateFresh(c, m)'
      BY <1>1, <1>4, <2>1, <2>2, ReceivedStayFresh
    <3> QED
      BY <1>3, <2>1, <3>4, <3>5
  <2>3. CASE ~ReceiveScanState
    <3>1. ui' = ui
      BY <2>3 DEF Next, External, ClientStep, ClientStart, ClientSubmit, ClientResume, Serve,
                  TakeRequest, LoadNext, LoadDone, ReadDir, Populate, Stat, Reload, Report, Scan,
                  TakeJob, UpdateIgnoreStatus, MainStep, TakeEvents, EventReload, EndIgnores,
                  Progress, EndScan, uiVars, vars
    <3>2. \A m \in 1 .. Len(updates') : UpdateFresh(c, m)'
      BY <1>1, <1>4, <2>1, <2>3, UpdatesStayFresh DEF ScannerFresh
    <3> QED
      BY <1>1, <1>2, <1>3, <2>1, <3>1, <3>2
  <2> QED
    BY <2>2, <2>3
<1>6. CASE client[c].step = "waiting"
  <2>1. ReceiveScanState /\ 1 \in InUpdates(c) /\ ~updates[1].scanning
    BY <1>6 DEF Follows
  <2>2. /\ Current(client[c].seen, updates[1].paths[client[c].path]) /\ ScannerFresh(c)
        /\ \A m \in 1 .. Len(updates) : UpdateFresh(c, m)
    BY <2>1 DEF UpdatesCurrent
  <2>3. ui'.paths = updates[1].paths
    BY <2>1, ReceiveScanStateKeeps DEF InUpdates
  <2>4. \A m \in 1 .. Len(updates') : m + 1 >= 1 => UpdateFresh(c, m)'
    BY <1>1, <2>1, <2>2, ReceivedStayFresh
  <2> QED
    BY <1>1, <1>2, <1>3, <2>2, <2>3, <2>4 DEF Fresh
<1> QED
  BY <1>5, <1>6 DEF Follows

LEMMA DoneFreshNext ==
  ASSUME NEW c \in Clients, AckedFresh(c), DoneFresh(c), Follows(c)
  PROVE  DoneFresh(c)'
BY DEF Follows, AckedFresh, DoneFresh, Fresh, Current

LEMMA AnswersCurrentNext ==
  Types /\ TakesTurns /\ Asking /\ AnswersCurrent /\ [Next]_vars => AnswersCurrent'
<1> SUFFICES ASSUME Types, TakesTurns, Asking, AnswersCurrent, [Next]_vars, NEW c \in Clients
             PROVE  /\ DiskSeen(c)' /\ ReadCurrent(c)' /\ ReportCurrent(c)' /\ UpdatesCurrent(c)'
                    /\ AckedFresh(c)' /\ DoneFresh(c)'
  BY DEF AnswersCurrent
<1>1. /\ DiskSeen(c) /\ ReadCurrent(c) /\ ReportCurrent(c) /\ UpdatesCurrent(c)
      /\ AckedFresh(c) /\ DoneFresh(c)
  BY DEF AnswersCurrent
<1>2. PlacedOnce(c) /\ PlacedOnce(c)'
  BY AskingNext DEF Asking
<1>3. CASE client[c].step \in {"idle", "changed"}
  BY <1>3, NotAsked DEF ReadCurrent, ReportCurrent, UpdatesCurrent, AckedFresh, DoneFresh
<1>4. CASE client[c].step \in {"waiting", "acked", "done"}
  <2>1. Follows(c)
    BY <1>1, <1>4, ClientFollows
  <2>2. DiskSeen(c)'
    BY <2>1 DEF Follows, DiskSeen
  <2>3. ReadCurrent(c)' /\ ReportCurrent(c)'
    BY <1>1, <2>1, ReadCurrentNext, ReportCurrentNext
  <2>4. UpdatesCurrent(c)'
    <3>1. CASE client[c].step = "waiting"
      BY <1>1, <2>1, <3>1, UpdatesCurrentNext
    <3>2. CASE client[c].step # "waiting"
      <4>1. client'[c].step # "waiting"
        BY <2>1, <3>2 DEF Follows
      <4> QED
        BY <1>2, <4>1 DEF PlacedOnce, UpdatesCurrent
    <3> QED
      BY <3>1, <3>2
  <2> QED
    BY <1>1, <2>1, <2>2, <2>3, <2>4, AckedFreshNext, DoneFreshNext
<1> QED
  BY <1>3, <1>4 DEF Types, ClientTypes, ClientState

LEMMA InitAnswers == Init => TakesTurns /\ Asking /\ AnswersCurrent
<1> SUFFICES ASSUME Init PROVE TakesTurns /\ Asking /\ AnswersCurrent
  OBVIOUS
<1>1. /\ \A a \in Actors : request[a] = None /\ job[a] = None
      /\ phase = "initialScan" /\ Len(requests) = 0
      /\ Len(updates) = 1 /\ updates[1].started
      /\ \A c \in Clients : client[c].step = "idle"
  BY DEF Init, IdleClient, Started
<1>2. \A c \in Clients : InRequests(c) = {} /\ InTasks(c) = {} /\ InUpdates(c) = {}
  BY <1>1 DEF InRequests, InTasks, InUpdates
<1>3. TakesTurns
  BY <1>1, MainIsActor DEF TakesTurns, Idle
<1>4. Asking
  BY <1>1, <1>2 DEF Asking, LoadedFirst, PlacedOnce, Single, AsksForPath
<1>5. AnswersCurrent
  BY <1>1, <1>2 DEF AnswersCurrent, DiskSeen, ReadCurrent, ReportCurrent, UpdatesCurrent,
                    AckedFresh, DoneFresh
<1> QED
  BY <1>3, <1>4, <1>5

(* The snapshot with which the idle scanner answers a refresh shows at the *)
(* path what the disk held there at some moment since the task asked, with *)
(* any number of workers, tasks, events and other programs' changes.       *)
THEOREM AnswersStayCurrent == Spec => AnswerIsCurrent
<1> DEFINE Inv == Types /\ TakesTurns /\ Asking /\ AnswersCurrent
           Answer == \A c \in Clients :
             client[c].step = "waiting" /\ client'[c].step = "acked" /\ client'[c].byMain =>
               \E file \in client'[c].seen : Agrees(ui'.paths[client[c].path], file)
<1>1. Init => Inv
  BY InitTypes, InitAnswers
<1>2. Inv /\ [Next]_vars => Inv'
  BY NextTypes, TakesTurnsNext, AskingNext, AnswersCurrentNext
<1>3. Inv /\ [Next]_vars => [Answer]_vars
  <2> SUFFICES ASSUME Inv, [Next]_vars, NEW c \in Clients, client[c].step = "waiting",
                      client'[c].step = "acked", client'[c].byMain
               PROVE  \E file \in client'[c].seen : Agrees(ui'.paths[client[c].path], file)
    OBVIOUS
  <2>1. DiskSeen(c) /\ UpdatesCurrent(c)
    BY DEF AnswersCurrent
  <2>2. Follows(c)
    BY <2>1, ClientFollows
  <2>3. /\ ReceiveScanState /\ 1 \in InUpdates(c) /\ ~updates[1].scanning
        /\ client[c].seen \subseteq client'[c].seen
    BY <2>2 DEF Follows
  <2>4. ui'.paths = updates[1].paths
    BY <2>3, ReceiveScanStateKeeps DEF InUpdates
  <2> QED
    BY <2>1, <2>3, <2>4 DEF UpdatesCurrent, Current
<1> HIDE DEF Inv
<1>4. Spec => [][Answer]_vars
  BY <1>1, <1>2, <1>3, PTL DEF Spec
<1> QED
  BY <1>4 DEF AnswerIsCurrent

(* The entry such a task finds when it goes on is not older than its       *)
(* request either, whatever the UI received in between.                    *)
THEOREM IdleRefreshStaysCurrent == Spec => []IdleRefreshIsCurrent
<1> DEFINE Inv == Types /\ TakesTurns /\ Asking /\ AnswersCurrent
<1>1. Init => Inv
  BY InitTypes, InitAnswers
<1>2. Inv /\ [Next]_vars => Inv'
  BY NextTypes, TakesTurnsNext, AskingNext, AnswersCurrentNext
<1>3. Inv => IdleRefreshIsCurrent
  BY DEF AnswersCurrent, DoneFresh, IdleRefreshIsCurrent, Fresh, Current
<1> HIDE DEF Inv
<1> QED
  BY <1>1, <1>2, <1>3, PTL DEF Spec
=============================================================================
