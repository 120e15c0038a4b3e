------------------------- MODULE RequestEditor_proofs -------------------------
(***************************************************************************)
(* For any number of sends, of tasks and of texts: what a response shows   *)
(* is the answer of the last request, and an editor shows its buffer.      *)
(***************************************************************************)
EXTENDS RequestEditor, TLAPS

(* ShowsOneAnswer and FetchingIsAwaited say what is on screen; to be kept  *)
(* by a step they need to know that ids are given out in order and that    *)
(* the current task has set the headers before it reads the body.          *)
SendsInOrder == \A k \in Ids \ {0} : sent[k] = "none" <=> k > requestId
BodyFollowsHeaders ==
  requestId # 0 /\ sent[requestId] \in {"reading", "language"} =>
    headers = requestId /\ cookies = requestId

ResponseInv ==
  /\ ResponseType /\ ShowsOneAnswer /\ FetchingIsAwaited
  /\ SendsInOrder /\ BodyFollowsHeaders

(* The steps of the task of send k.                                        *)
SendStep(k) ==
  SendFail(k) \/ Progress(k) \/ Receive(k) \/ ReadEnd(k) \/ ReadFail(k) \/ Complete(k)

LEMMA InitResponseInv == ResponseInit => ResponseInv
  BY ResponseAssumption
  DEF ResponseInit, ResponseInv, ResponseType, ShowsOneAnswer, FetchingIsAwaited, SendsInOrder,
      BodyFollowsHeaders, Ids, Statuses, SendSteps

LEMMA SendRequestInv == ResponseInv /\ SendRequest => ResponseInv'
<1> SUFFICES ASSUME ResponseInv, SendRequest PROVE ResponseInv'
  OBVIOUS
<1> DEFINE k == requestId + 1
<1>1. requestId \in Nat /\ k \in Ids \ {0} /\ requestId' = k /\ k # requestId
  BY ResponseAssumption DEF ResponseInv, ResponseType, SendRequest, BeginResponse, Ids
<1>2. sent' = [sent EXCEPT ![k] = "sending"] /\ sent'[k] = "sending"
  BY <1>1 DEF ResponseInv, ResponseType, SendRequest
<1>3. /\ state' = [status |-> "Fetching", of |-> k]
      /\ headers' = 0 /\ cookies' = 0 /\ payload' = 0
  BY DEF SendRequest, BeginResponse
<1>4. ResponseType'
  <2>1. state' \in [status : Statuses, of : Ids]
    BY <1>1, <1>3 DEF Statuses
  <2>2. sent' \in [Ids \ {0} -> SendSteps]
    BY <1>1, <1>2 DEF ResponseInv, ResponseType, SendSteps
  <2>3. 0 \in Ids
    BY ResponseAssumption DEF Ids
  <2>4. QED
    BY <1>1, <1>3, <2>1, <2>2, <2>3 DEF ResponseType
<1>5. ShowsOneAnswer' /\ FetchingIsAwaited' /\ BodyFollowsHeaders'
  BY <1>1, <1>2, <1>3 DEF ShowsOneAnswer, FetchingIsAwaited, BodyFollowsHeaders
<1>6. SendsInOrder'
  BY <1>1, <1>2 DEF ResponseInv, ResponseType, SendsInOrder, Ids
<1>7. QED
  BY <1>4, <1>5, <1>6 DEF ResponseInv

LEMMA SendStepInv ==
  ASSUME NEW k \in Ids \ {0}, ResponseInv, SendStep(k)
  PROVE  ResponseInv'
<1> USE DEF ResponseInv, ResponseType, Ids, Statuses, SendSteps, ShowsOneAnswer,
            FetchingIsAwaited, SendsInOrder, BodyFollowsHeaders, SetState, SetHeaders,
            SetCookies, SetPayload, IsActive
<1>0. k \in Nat /\ MaxSends \in Nat /\ sent[k] # "none" /\ k <= requestId
  BY ResponseAssumption DEF SendStep, SendFail, Progress, Receive, ReadEnd, ReadFail, Complete
<1>1. CASE SendFail(k)
  BY <1>0, <1>1 DEF SendFail
<1>2. CASE Progress(k)
  BY <1>0, <1>2 DEF Progress
<1>3. CASE Receive(k)
  BY <1>0, <1>3 DEF Receive
<1>4. CASE ReadEnd(k)
  BY <1>0, <1>4 DEF ReadEnd
<1>5. CASE ReadFail(k)
  BY <1>0, <1>5 DEF ReadFail
<1>6. CASE Complete(k)
  BY <1>0, <1>6 DEF Complete
<1>7. QED
  BY <1>1, <1>2, <1>3, <1>4, <1>5, <1>6 DEF SendStep

(* The steps of the editor leave the response alone.                       *)
EditingStep ==
  \/ ForeignWrite \/ ForeignDelete
  \/ Scan \/ Deliver
  \/ Edit \/ ReloadStart
  \/ \E i \in Saves : \/ SaveBegin(i) \/ SaveCapture(i) \/ SaveWrite(i) \/ SaveFail(i)
                      \/ SaveLook(i) \/ SaveFinish(i) \/ SaveRecord(i)
  \/ \E j \in Reloads : ReloadLoad(j) \/ ReloadApply(j)

LEMMA EditingLeavesResponse == EditingStep => UNCHANGED responseVars
  BY DEF EditingStep, ForeignWrite, ForeignDelete, Scan, Deliver, Edit, ReloadStart, SaveBegin,
         SaveCapture, SaveWrite, SaveFail, SaveLook, SaveFinish, SaveRecord, ReloadLoad,
         ReloadApply

LEMMA NextSplits ==
  Next => \/ EditingStep
          \/ SendRequest /\ UNCHANGED editingVars
          \/ \E k \in Ids \ {0} : SendStep(k) /\ UNCHANGED editingVars
  BY DEF Next, EditingStep, Send, SendStep

(* A response that nobody touches stays as it is.                          *)
LEMMA ResponseStutters == ResponseInv /\ UNCHANGED responseVars => ResponseInv'
  BY DEF ResponseInv, ResponseType, ShowsOneAnswer, FetchingIsAwaited, SendsInOrder,
         BodyFollowsHeaders, responseVars

LEMMA ResponseInvariant == Spec => []ResponseInv
<1>1. Init => ResponseInv
  BY InitResponseInv DEF Init
<1>2. ResponseInv /\ [Next]_vars => ResponseInv'
  <2> SUFFICES ASSUME ResponseInv, [Next]_vars PROVE ResponseInv'
    OBVIOUS
  <2>1. CASE EditingStep
    BY <2>1, EditingLeavesResponse, ResponseStutters
  <2>2. CASE SendRequest
    BY <2>2, SendRequestInv
  <2>3. CASE \E k \in Ids \ {0} : SendStep(k)
    BY <2>3, SendStepInv
  <2>4. CASE UNCHANGED vars
    BY <2>4, ResponseStutters DEF vars, responseVars
  <2>5. QED
    BY <2>1, <2>2, <2>3, <2>4, NextSplits
<1>3. QED
  BY <1>1, <1>2, PTL DEF Spec

(* However many requests are sent, and whatever of their answers arrives   *)
(* late, the panel shows one answer: that of the request sent last.        *)
THEOREM PanelShowsOneAnswer == Spec => []ShowsOneAnswer
  BY ResponseInvariant, PTL DEF ResponseInv

(* "Fetching" is on screen exactly while the last request's task runs.     *)
THEOREM FetchingHasItsTask == Spec => []FetchingIsAwaited
  BY ResponseInvariant, PTL DEF ResponseInv
-----------------------------------------------------------------------------
(* Whichever way a request buffer changes, the fields change with it.      *)
THEOREM FieldsFollowBuffer == Spec => []EditorShowsBuffer
<1> USE DEF EditorShowsBuffer, editorVars, bufferVars
<1>1. Init => EditorShowsBuffer
  BY DEF Init
<1>2. EditorShowsBuffer /\ [Next]_vars => EditorShowsBuffer'
  <2> SUFFICES ASSUME EditorShowsBuffer, [Next]_vars PROVE EditorShowsBuffer'
    OBVIOUS
  <2>1. CASE EditingStep
    <3>1. CASE ForeignWrite \/ ForeignDelete \/ Scan \/ Deliver \/ ReloadStart
      BY <3>1 DEF ForeignWrite, ForeignDelete, Scan, Deliver, ReloadStart
    <3>2. CASE Edit
      BY <3>2 DEF Edit, MarkEdited
    <3>3. CASE \E i \in Saves : SaveBegin(i)
      BY <3>3 DEF SaveBegin
    <3>4. CASE \E i \in Saves : \/ SaveCapture(i) \/ SaveWrite(i) \/ SaveFail(i)
                                \/ SaveLook(i) \/ SaveFinish(i) \/ SaveRecord(i)
      BY <3>4 DEF SaveCapture, SaveWrite, SaveFail, SaveLook, SaveFinish, SaveRecord
    <3>5. CASE \E j \in Reloads : ReloadLoad(j) \/ ReloadApply(j)
      BY <3>5 DEF ReloadLoad, ReloadApply, DidReload
    <3>6. QED
      BY <2>1, <3>1, <3>2, <3>3, <3>4, <3>5 DEF EditingStep
  <2>2. CASE UNCHANGED editingVars
    BY <2>2 DEF editingVars
  <2>3. CASE UNCHANGED vars
    BY <2>3 DEF vars
  <2>4. QED
    BY <2>1, <2>2, <2>3, NextSplits
<1>3. QED
  BY <1>1, <1>2, PTL DEF Spec
-----------------------------------------------------------------------------
(***************************************************************************)
(* What is shown as saved is on disk.                                      *)
(*                                                                         *)
(* The argument is about the last writer of the dirty mark.  Unless it was *)
(* overtaken, what the editor compares with (snapshot) is what is on disk, *)
(* or the news of another text is still to come: the worktree has not seen *)
(* it, or a reload that will bring it is in progress.                      *)
(***************************************************************************)

(* Every time that is known was a write's.                                 *)
TimesPast ==
  /\ disk.mtime <= writes /\ stat <= writes /\ entry <= writes /\ file <= writes
  /\ \A i \in Saves : save[i].file <= writes

(* A write that was seen stays seen; one that was not is new to the file   *)
(* of the buffer, and to what a save has looked up.                        *)
SeenOnce ==
  disk.mtime # 0 =>
    IF entry = disk.mtime THEN stat = disk.mtime
    ELSE file # disk.mtime /\ \A i \in Saves : save[i].file # disk.mtime

(* What a save took that nothing has overtaken is in the fields; once it   *)
(* has written it is on disk; once it has cleared the mark it is clear.    *)
SaveSound ==
  \A i \in Saves :
    save[i].step # "none" =>
      /\ save[i].snapshot \in Texts
      /\ ~save[i].stale =>
           /\ request = save[i].snapshot
           /\ save[i].step = "write" => save[i].text = save[i].snapshot
           /\ save[i].step \in {"refresh", "stated", "finish", "record"} =>
                disk.text = save[i].snapshot
           /\ save[i].step = "record" => ~dirty

(* A reload that nothing has overtaken has read what is on disk, unless    *)
(* the worktree has not seen the write since.                              *)
ReloadSound ==
  \A j \in Reloads :
    reload[j].step = "parse" /\ ~reload[j].stale /\ disk.mtime # 0 =>
      reload[j].text = disk.text \/ entry # disk.mtime

Recording == \E i \in Saves : save[i].step = "record"
Reloading ==
  \E j \in Reloads : \/ reload[j].step = "load"
                     \/ reload[j].step = "parse" /\ reload[j].text = disk.text

SnapshotSound ==
  /\ request # Invalid => snapshot # Invalid
  /\ ~overtaken /\ ~dirty => snapshot = request \/ Recording
  /\ ~overtaken /\ dirty => snapshot # request
  /\ ~overtaken /\ disk.mtime # 0 =>
       snapshot = disk.text \/ entry # disk.mtime \/ Reloading \/ Recording

EditInv ==
  /\ EditingType /\ EditorShowsBuffer /\ TimesPast /\ SeenOnce /\ SaveSound /\ ReloadSound
  /\ SnapshotSound

LEMMA InitEditInv == Init => EditInv
<1> SUFFICES ASSUME Init PROVE EditInv
  OBVIOUS
<1>1. NoSave \in SaveState /\ NoReload \in ReloadState
  BY DEF NoSave, NoReload, SaveState, ReloadState, SaveSteps, Contents
<1>2. EditingType
  <2>1. \A i \in Saves : save[i] = NoSave
    BY DEF Init
  <2>2. \A i \in Saves : save[i].step # "write"
    BY <2>1 DEF NoSave
  <2>3. disk \in [mtime : Nat, text : Contents]
    BY DEF Init
  <2> QED
    BY <1>1, <2>2, <2>3 DEF Init, EditingType
<1>3. EditorShowsBuffer /\ TimesPast /\ SeenOnce /\ SaveSound /\ ReloadSound
  BY DEF Init, EditorShowsBuffer, TimesPast, SeenOnce, SaveSound, ReloadSound, NoSave, NoReload
<1>4. SnapshotSound
  BY DEF Init, SnapshotSound
<1> QED
  BY <1>2, <1>3, <1>4 DEF EditInv

(* Telling the saves of a change marks them and nothing else.              *)
LEMMA OvertakeMarks ==
  ASSUME EditingType, NEW which, save' = Overtake(which)
  PROVE  /\ save' \in [Saves -> SaveState]
         /\ \A i \in Saves :
              /\ save'[i].step = save[i].step /\ save'[i].snapshot = save[i].snapshot
              /\ save'[i].text = save[i].text /\ save'[i].file = save[i].file
              /\ save'[i].stale =
                   IF save[i].step \notin {"none"} \cup which THEN TRUE ELSE save[i].stale
<1>1. ASSUME NEW i \in Saves
      PROVE  /\ save'[i] \in SaveState
             /\ save'[i].step = save[i].step /\ save'[i].snapshot = save[i].snapshot
             /\ save'[i].text = save[i].text /\ save'[i].file = save[i].file
             /\ save'[i].stale =
                  IF save[i].step \notin {"none"} \cup which THEN TRUE ELSE save[i].stale
  <2>1. save[i] \in SaveState
    BY DEF EditingType
  <2>2. save'[i] = IF save[i].step \notin {"none"} \cup which
                     THEN [save[i] EXCEPT !.stale = TRUE] ELSE save[i]
    BY DEF Overtake
  <2> QED
    BY <2>1, <2>2 DEF SaveState
<1>2. save' = [i \in Saves |-> save'[i]]
  BY DEF Overtake
<1> QED
  BY <1>1, <1>2

LEMMA Typed ==
  ASSUME EditInv
  PROVE  /\ writes \in Nat /\ stat \in Nat /\ entry \in Nat /\ file \in Nat /\ disk.mtime \in Nat
         /\ disk.text \in Contents
         /\ \A i \in Saves :
              /\ save[i] \in SaveState /\ save[i].file \in Nat /\ save[i].step \in SaveSteps
              /\ save[i].snapshot \in Contents /\ save[i].text \in Contents
              /\ save[i].stale \in BOOLEAN /\ save[i].wasDirty \in BOOLEAN
         /\ \A j \in Reloads :
              /\ reload[j] \in ReloadState /\ reload[j].text \in Contents
              /\ reload[j].stale \in BOOLEAN
  BY DEF EditInv, EditingType, SaveState, ReloadState

(* The time of a write is one that nobody has seen.                         *)
LEMMA WriteIsNew ==
  ASSUME EditInv, disk'.mtime \in {0, writes + 1}, writes' = writes + 1,
         UNCHANGED <<stat, entry, file>>, \A i \in Saves : save'[i].file \in {0, save[i].file}
  PROVE  TimesPast' /\ SeenOnce' /\ (disk'.mtime # 0 => entry' # disk'.mtime)
<1>1. TimesPast
  BY DEF EditInv
<1>2. TimesPast'
  BY <1>1, Typed DEF TimesPast
<1>3. disk'.mtime # 0 => /\ entry' # disk'.mtime /\ file' # disk'.mtime
                         /\ \A i \in Saves : save'[i].file # disk'.mtime
  BY <1>1, Typed DEF TimesPast
<1> QED
  BY <1>2, <1>3 DEF SeenOnce

LEMMA ForeignKeeps ==
  ASSUME EditInv, ForeignWrite \/ ForeignDelete PROVE EditInv'
<1>1. /\ disk' \in [mtime : Nat, text : Contents] /\ disk'.mtime \in {0, writes + 1}
      /\ writes' = writes + 1
  <2>1. Invalid \in Contents /\ writes \in Nat
    BY Typed DEF Contents
  <2> QED
    BY <2>1 DEF ForeignWrite, ForeignDelete
<1>2. UNCHANGED <<bound, stat, entry, file, requestFile, dirty, request, snapshot, reload,
                  overtaken>>
  BY DEF ForeignWrite, ForeignDelete, viewVars, bufferVars, editorVars
<1>3. /\ save' \in [Saves -> SaveState]
      /\ \A i \in Saves :
           /\ save'[i].step = save[i].step /\ save'[i].snapshot = save[i].snapshot
           /\ save'[i].text = save[i].text /\ save'[i].file = save[i].file
           /\ save'[i].stale = IF save[i].step \notin {"none", "begin", "write"}
                                 THEN TRUE ELSE save[i].stale
  <2>1. save' = Overtake({"begin", "write"}) /\ EditingType
    BY DEF ForeignWrite, ForeignDelete, EditInv
  <2>2. {"none"} \cup {"begin", "write"} = {"none", "begin", "write"}
    OBVIOUS
  <2>3. \A which : save' = Overtake(which) =>
          /\ save' \in [Saves -> SaveState]
          /\ \A i \in Saves :
               /\ save'[i].step = save[i].step /\ save'[i].snapshot = save[i].snapshot
               /\ save'[i].text = save[i].text /\ save'[i].file = save[i].file
               /\ save'[i].stale = IF save[i].step \notin {"none"} \cup which
                                     THEN TRUE ELSE save[i].stale
    BY <2>1, OvertakeMarks
  <2> QED
    BY <2>1, <2>2, <2>3, ZenonT(40)
<1>4. EditingType'
  <2>1. EditingType /\ writes' \in Nat
    BY <1>1, Typed DEF EditInv
  <2> QED
    BY <1>1, <1>2, <1>3, <2>1 DEF EditingType
<1>5. TimesPast' /\ SeenOnce' /\ (disk'.mtime # 0 => entry' # disk'.mtime)
  BY <1>1, <1>2, <1>3, WriteIsNew
<1>6. SaveSound'
  BY <1>2, <1>3 DEF SaveSound, EditInv
<1>7. ReloadSound' /\ EditorShowsBuffer'
  BY <1>2, <1>5 DEF ReloadSound, EditorShowsBuffer, EditInv
<1>8. SnapshotSound'
  BY <1>2, <1>3, <1>5 DEF SnapshotSound, Recording, EditInv
<1> QED
  BY <1>4, <1>5, <1>6, <1>7, <1>8 DEF EditInv

(* One save has gone a step on; the others are as they were.               *)
SavedAs(i, s) ==
  /\ save' \in [Saves -> SaveState]
  /\ save'[i] = s
  /\ \A k \in Saves \ {i} : save'[k] = save[k]

LEMMA SaveChanged ==
  ASSUME EditInv, NEW i \in Saves, NEW s \in SaveState, save' = [save EXCEPT ![i] = s]
  PROVE  SavedAs(i, s)
  BY DEF EditInv, EditingType, SavedAs

(* The worktree reads the file.                                            *)
LEMMA ScanKeeps ==
  ASSUME EditInv, Scan PROVE EditInv'
<1>1. UNCHANGED <<bound, disk, writes, entry, file, requestFile, dirty, request, snapshot, reload,
                  overtaken>> /\ stat' = disk.mtime
  BY DEF Scan, diskVars, bufferVars, editorVars
<1>2. /\ save' \in [Saves -> SaveState]
      /\ \A i \in Saves :
           /\ save'[i].step = IF save[i].step = "refresh" THEN "stated" ELSE save[i].step
           /\ save'[i].snapshot = save[i].snapshot /\ save'[i].text = save[i].text
           /\ save'[i].file = save[i].file /\ save'[i].stale = save[i].stale
  <2>1. save' = [i \in Saves |-> IF save[i].step = "refresh"
                                  THEN [save[i] EXCEPT !.step = "stated"] ELSE save[i]]
    BY DEF Scan
  <2>2. ASSUME NEW i \in Saves
        PROVE  /\ save'[i] \in SaveState
               /\ save'[i].step = IF save[i].step = "refresh" THEN "stated" ELSE save[i].step
               /\ save'[i].snapshot = save[i].snapshot /\ save'[i].text = save[i].text
               /\ save'[i].file = save[i].file /\ save'[i].stale = save[i].stale
    <3>1. save'[i] = IF save[i].step = "refresh"
                       THEN [save[i] EXCEPT !.step = "stated"] ELSE save[i]
      BY <2>1
    <3>2. save[i] \in SaveState
      BY Typed
    <3> QED
      BY <3>1, <3>2 DEF SaveState, SaveSteps
  <2> QED
    BY <2>1, <2>2
<1>3. EditingType'
  <2>1. EditingType /\ stat' \in Nat
    BY <1>1, Typed DEF EditInv
  <2> QED
    BY <1>1, <1>2, <2>1 DEF EditingType
<1>4. TimesPast' /\ SeenOnce'
  BY <1>1, <1>2, Typed DEF TimesPast, SeenOnce, EditInv
<1>5. SaveSound'
  BY <1>1, <1>2 DEF SaveSound, EditInv
<1>6. ReloadSound' /\ EditorShowsBuffer' /\ SnapshotSound'
  BY <1>1, <1>2 DEF ReloadSound, EditorShowsBuffer, SnapshotSound, Recording, Reloading, EditInv
<1> QED
  BY <1>3, <1>4, <1>5, <1>6 DEF EditInv

(* file_updated: what it does to the reloads.                              *)
LEMMA Updates ==
  ASSUME EditInv, NEW new \in Nat, FileUpdated(new)
  PROVE  /\ file' = new
         /\ reload' \in [Reloads -> ReloadState]
         /\ file = new => reload' = reload
         /\ file # new => \A j \in Reloads : reload'[j].step = "parse" => reload'[j].stale
         /\ file # new /\ ~dirty /\ new # 0 => \E j \in Reloads : reload'[j].step = "load"
<1>1. /\ Outdated \in [Reloads -> ReloadState]
      /\ \A j \in Reloads : Outdated[j].step = "parse" => Outdated[j].stale
  <2>1. ASSUME NEW j \in Reloads
        PROVE  Outdated[j] \in ReloadState /\ (Outdated[j].step = "parse" => Outdated[j].stale)
    <3>1. reload[j] \in ReloadState
      BY Typed
    <3> QED
      BY <3>1 DEF Outdated, ReloadState
  <2> QED
    BY <2>1 DEF Outdated
<1>2. CASE file # new /\ ~dirty /\ new # 0
  <2> DEFINE started == [NoReload EXCEPT !.step = "load"]
  <2>1. PICK j \in Reloads : reload' = [Outdated EXCEPT ![j] = started]
    BY <1>2 DEF FileUpdated
  <2>2. started \in ReloadState /\ started.step = "load"
    BY DEF NoReload, ReloadState, Contents
  <2> HIDE DEF started
  <2> QED
    BY <1>1, <1>2, <2>1, <2>2 DEF FileUpdated
<1>3. CASE ~(file # new /\ ~dirty /\ new # 0)
  BY <1>1, <1>3 DEF FileUpdated, EditInv, EditingType
<1> QED
  BY <1>2, <1>3

(* UpdatedEntries: a clean buffer starts a reload, a dirty one is          *)
(* overtaken.                                                              *)
LEMMA DeliverKeeps ==
  ASSUME EditInv, Deliver PROVE EditInv'
<1>1. /\ UNCHANGED <<bound, disk, writes, stat, requestFile, dirty, request, snapshot, save>>
      /\ entry' = stat /\ stat # entry /\ overtaken' = (overtaken \/ (dirty /\ file # stat))
  BY DEF Deliver, diskVars, bufferVars, editorVars
<1>2. /\ file' = stat /\ reload' \in [Reloads -> ReloadState]
      /\ file = stat => reload' = reload
      /\ file # stat => \A j \in Reloads : reload'[j].step = "parse" => reload'[j].stale
      /\ file # stat /\ ~dirty /\ stat # 0 => \E j \in Reloads : reload'[j].step = "load"
  BY Typed, Updates DEF Deliver
<1>3. EditingType'
  <2>1. EditingType /\ overtaken' \in BOOLEAN
    BY <1>1 DEF EditInv, EditingType
  <2> QED
    BY <1>1, <1>2, <2>1 DEF EditingType
<1>4. TimesPast' /\ SeenOnce'
  BY <1>1, <1>2, Typed DEF TimesPast, SeenOnce, EditInv
<1>5. SaveSound' /\ EditorShowsBuffer'
  BY <1>1 DEF SaveSound, EditorShowsBuffer, EditInv
<1>6. disk.mtime # 0 /\ stat = disk.mtime => file # stat
  BY <1>1, Typed DEF SeenOnce, EditInv
<1>7. ReloadSound'
  BY <1>1, <1>2, <1>6 DEF ReloadSound, EditInv
<1>8. SnapshotSound'
  <2>1. overtaken \in BOOLEAN /\ dirty \in BOOLEAN
    BY DEF EditInv, EditingType
  <2> QED
    BY <1>1, <1>2, <1>6, <2>1 DEF SnapshotSound, Recording, Reloading, EditInv
<1> QED
  BY <1>3, <1>4, <1>5, <1>7, <1>8 DEF EditInv

(* mark_edited.                                                            *)
LEMMA EditKeeps ==
  ASSUME EditInv, Edit PROVE EditInv'
<1>1. /\ UNCHANGED <<bound, disk, writes, stat, entry, file, snapshot, reload, overtaken>>
      /\ request' \in Texts /\ requestFile' = request'
      /\ dirty' = (snapshot # Invalid /\ request' # snapshot) /\ request # Invalid
  BY DEF Edit, MarkEdited, IsReady, diskVars, viewVars
<1>2. /\ save' \in [Saves -> SaveState]
      /\ \A i \in Saves :
           /\ save'[i].step = save[i].step /\ save'[i].snapshot = save[i].snapshot
           /\ save'[i].text = save[i].text /\ save'[i].file = save[i].file
           /\ save'[i].stale = IF save[i].step \notin {"none"} THEN TRUE ELSE save[i].stale
  <2>1. save' = Overtake({}) /\ EditingType
    BY DEF Edit, EditInv
  <2>2. {"none"} \cup {} = {"none"}
    OBVIOUS
  <2> QED
    BY <2>1, <2>2, OvertakeMarks
<1>3. EditingType'
  <2>1. EditingType /\ dirty' \in BOOLEAN /\ request' \in Contents
    BY <1>1 DEF EditInv, Contents
  <2> QED
    BY <1>1, <1>2, <2>1 DEF EditingType
<1>4. TimesPast' /\ SeenOnce'
  BY <1>1, <1>2 DEF TimesPast, SeenOnce, EditInv
<1>5. SaveSound' /\ EditorShowsBuffer' /\ ReloadSound'
  BY <1>1, <1>2 DEF SaveSound, EditorShowsBuffer, ReloadSound, EditInv
<1>6. SnapshotSound'
  BY <1>1, <1>2 DEF SnapshotSound, Recording, Reloading, EditInv
<1> QED
  BY <1>3, <1>4, <1>5, <1>6 DEF EditInv

(* A save goes on, or ends, without being recorded.                        *)
LEMMA SaveMoves ==
  ASSUME EditInv, NEW i \in Saves, NEW s \in SaveState, save' = [save EXCEPT ![i] = s],
         UNCHANGED <<bound, disk, writes, stat, entry, file, requestFile, dirty, request,
                     snapshot, reload, overtaken>>,
         save[i].step # "record", s.step # "record", s.step = "write" => s.text \in Texts,
         s.file \in {0, entry, save[i].file},
         s.step # "none" => s.snapshot \in Texts,
         s.step # "none" /\ ~s.stale =>
           /\ request = s.snapshot
           /\ s.step = "write" => s.text = s.snapshot
           /\ s.step \in {"refresh", "stated", "finish"} => disk.text = s.snapshot
  PROVE  EditInv'
<1>1. SavedAs(i, s)
  BY SaveChanged
<1>2. EditingType'
  <2>1. EditingType
    BY DEF EditInv
  <2> QED
    BY <1>1, <2>1 DEF EditingType, SavedAs
<1>3. TimesPast'
  <2>1. TimesPast
    BY DEF EditInv
  <2>2. s.file <= writes
    BY <2>1, Typed DEF TimesPast
  <2> QED
    BY <1>1, <2>1, <2>2 DEF TimesPast, SavedAs
<1>4. SeenOnce'
  <2>1. disk.mtime # 0 /\ entry # disk.mtime => s.file # disk.mtime
    BY DEF SeenOnce, EditInv
  <2> QED
    BY <1>1, <2>1 DEF SeenOnce, SavedAs, EditInv
<1>5. SaveSound'
  <2>1. s.step \in SaveSteps
    BY DEF SaveState
  <2> QED
    BY <1>1, <2>1 DEF SaveSound, SavedAs, EditInv, SaveSteps
<1>6. ReloadSound' /\ EditorShowsBuffer'
  BY DEF ReloadSound, EditorShowsBuffer, EditInv
<1>7. Recording' = Recording /\ Reloading' = Reloading
  BY <1>1 DEF Recording, Reloading, SavedAs
<1>8. SnapshotSound'
  BY <1>7 DEF SnapshotSound, EditInv
<1> QED
  BY <1>2, <1>3, <1>4, <1>5, <1>6, <1>8 DEF EditInv

LEMMA SaveTaskKeeps ==
  ASSUME EditInv, NEW i \in Saves,
         SaveBegin(i) \/ SaveCapture(i) \/ SaveFail(i) \/ SaveLook(i)
  PROVE  EditInv'
<1>1. /\ UNCHANGED <<bound, disk, writes, stat, entry, file, dirty, request, snapshot, reload,
                     overtaken>>
      /\ requestFile' = requestFile
  BY DEF SaveBegin, SaveCapture, SaveFail, SaveLook, diskVars, viewVars, bufferVars, editorVars,
         EditInv, EditorShowsBuffer
<1>2. /\ save[i] \in SaveState /\ request = requestFile /\ request \in Contents
      /\ save[i].step # "none" => save[i].snapshot \in Texts
      /\ save[i].step # "none" /\ ~save[i].stale =>
           /\ request = save[i].snapshot
           /\ save[i].step = "stated" => disk.text = save[i].snapshot
  BY Typed DEF EditInv, EditingType, EditorShowsBuffer, SaveSound
<1>3. NoSave \in SaveState /\ NoSave.step = "none" /\ NoSave.file = 0
  BY DEF NoSave, SaveState, SaveSteps, Contents
<1>4. CASE SaveBegin(i)
  <2> DEFINE s == [NoSave EXCEPT !.step = "begin", !.snapshot = request]
  <2>1. /\ s \in SaveState /\ s.step = "begin" /\ s.file = 0 /\ s.snapshot = request
        /\ request \in Texts
    BY <1>2, <1>4 DEF NoSave, SaveState, SaveSteps, Contents, SaveBegin, IsReady
  <2>2. save' = [save EXCEPT ![i] = s] /\ save[i].step = "none"
    BY <1>4 DEF SaveBegin
  <2> HIDE DEF s
  <2> QED
    BY <1>1, <2>1, <2>2, SaveMoves
<1>5. CASE SaveCapture(i)
  <2> DEFINE s == IF CanSave
                    THEN [save[i] EXCEPT !.step = "write", !.text = requestFile,
                                         !.wasDirty = dirty]
                    ELSE NoSave
  <2>1. /\ s \in SaveState /\ s.step \in {"none", "write"} /\ s.file \in {0, save[i].file}
        /\ s.step = "write" =>
             /\ s.text = requestFile /\ s.text \in Texts /\ s.snapshot = save[i].snapshot
             /\ s.stale = save[i].stale
    <3>1. dirty \in BOOLEAN /\ (CanSave => requestFile \in Texts)
      BY <1>2 DEF EditInv, EditingType, CanSave, Contents
    <3> QED
      BY <1>2, <1>3, <3>1 DEF SaveState, SaveSteps, Contents
  <2>2. save' = [save EXCEPT ![i] = s] /\ save[i].step = "begin"
    BY <1>5 DEF SaveCapture
  <2> HIDE DEF s
  <2> QED
    BY <1>1, <1>2, <2>1, <2>2, SaveMoves
<1>6. CASE SaveFail(i)
  <2>1. save' = [save EXCEPT ![i] = NoSave] /\ save[i].step # "record"
    BY <1>6 DEF SaveFail
  <2> QED
    BY <1>1, <1>3, <2>1, SaveMoves
<1>7. CASE SaveLook(i)
  <2> DEFINE s == [save[i] EXCEPT !.step = "finish", !.file = entry]
  <2>1. /\ s \in SaveState /\ s.step = "finish" /\ s.file = entry
        /\ s.snapshot = save[i].snapshot /\ s.stale = save[i].stale
    BY <1>2, Typed DEF SaveState, SaveSteps
  <2>2. save' = [save EXCEPT ![i] = s] /\ save[i].step = "stated"
    BY <1>7 DEF SaveLook
  <2> HIDE DEF s
  <2> QED
    BY <1>1, <1>2, <2>1, <2>2, SaveMoves
<1> QED
  BY <1>4, <1>5, <1>6, <1>7

(* A save writes what it captured; those that wrote before are told.       *)
LEMMA SaveWriteKeeps ==
  ASSUME EditInv, NEW i \in Saves, SaveWrite(i) PROVE EditInv'
<1>1. /\ save[i] \in SaveState /\ save[i].step = "write" /\ save[i].text \in Texts
      /\ save[i].snapshot \in Texts
      /\ ~save[i].stale => request = save[i].snapshot /\ save[i].text = save[i].snapshot
  BY Typed DEF SaveWrite, EditInv, EditingType, SaveSound
<1>2. /\ disk' \in [mtime : Nat, text : Contents] /\ disk'.mtime \in {0, writes + 1}
      /\ disk'.text = save[i].text /\ writes' = writes + 1
  BY <1>1, Typed DEF SaveWrite, Contents
<1>3. UNCHANGED <<bound, stat, entry, file, requestFile, dirty, request, snapshot, reload,
                  overtaken>>
  BY DEF SaveWrite, viewVars, bufferVars, editorVars
<1>4. /\ save' \in [Saves -> SaveState]
      /\ /\ save'[i].step = "refresh" /\ save'[i].snapshot = save[i].snapshot
         /\ save'[i].file = save[i].file /\ save'[i].stale = save[i].stale
      /\ \A k \in Saves \ {i} :
           /\ save'[k].step = save[k].step /\ save'[k].snapshot = save[k].snapshot
           /\ save'[k].text = save[k].text /\ save'[k].file = save[k].file
           /\ save'[k].stale = IF save[k].step \notin {"none", "begin", "write"}
                                 THEN TRUE ELSE save[k].stale
  <2> DEFINE s == [save[i] EXCEPT !.step = "refresh", !.text = Invalid]
  <2>1. save' = [Overtake({"begin", "write"}) EXCEPT ![i] = s]
    BY DEF SaveWrite
  <2>2. /\ s \in SaveState /\ s.step = "refresh" /\ s.snapshot = save[i].snapshot
        /\ s.file = save[i].file /\ s.stale = save[i].stale
    BY <1>1 DEF SaveState, SaveSteps, Contents
  <2>3. ASSUME NEW k \in Saves
        PROVE  LET o == Overtake({"begin", "write"})[k]
               IN  /\ o \in SaveState
                   /\ o.step = save[k].step /\ o.snapshot = save[k].snapshot
                   /\ o.text = save[k].text /\ o.file = save[k].file
                   /\ o.stale = IF save[k].step \notin {"none", "begin", "write"}
                                  THEN TRUE ELSE save[k].stale
    <3>1. save[k] \in SaveState
      BY Typed
    <3> QED
      BY <3>1 DEF Overtake, SaveState
  <2> HIDE DEF s
  <2> DEFINE o == Overtake({"begin", "write"})
  <2>4. o = [k \in Saves |-> o[k]]
    BY DEF Overtake
  <2>5. /\ save'[i] = s
        /\ \A k \in Saves : k # i => save'[k] = o[k]
        /\ save' = [k \in Saves |-> save'[k]]
    <3> HIDE DEF o
    <3> QED
      BY <2>1, <2>4 DEF o
  <2>6. \A k \in Saves : o[k] \in SaveState
    BY <2>3
  <2>7. save' \in [Saves -> SaveState]
    <3> HIDE DEF o
    <3>1. \A k \in Saves : save'[k] \in SaveState
      BY <2>2, <2>5, <2>6
    <3> QED
      BY <2>5, <3>1
  <2> QED
    BY <2>2, <2>3, <2>5, <2>7, ZenonT(40)
<1>5. EditingType'
  <2>1. EditingType /\ writes' \in Nat
    BY <1>2, Typed DEF EditInv
  <2> QED
    BY <1>2, <1>3, <1>4, <2>1 DEF EditingType
<1>6. TimesPast' /\ SeenOnce' /\ (disk'.mtime # 0 => entry' # disk'.mtime)
  BY <1>2, <1>3, <1>4, WriteIsNew
<1>7. SaveSound'
  BY <1>1, <1>2, <1>3, <1>4, ZenonT(40) DEF SaveSound, EditInv
<1>8. ReloadSound' /\ EditorShowsBuffer'
  BY <1>3, <1>6 DEF ReloadSound, EditorShowsBuffer, EditInv
<1>9. SnapshotSound'
  BY <1>1, <1>3, <1>4, <1>6 DEF SnapshotSound, Recording, EditInv
<1> QED
  BY <1>5, <1>6, <1>7, <1>8, <1>9 DEF EditInv

(* did_save clears the mark; whether rightly the save knows.               *)
LEMMA SaveFinishKeeps ==
  ASSUME EditInv, NEW i \in Saves, SaveFinish(i) PROVE EditInv'
<1> DEFINE s == [save[i] EXCEPT !.step = "record", !.file = 0, !.wasDirty = FALSE]
<1>1. /\ UNCHANGED <<bound, disk, writes, stat, entry, requestFile, request, snapshot>>
      /\ dirty' = FALSE /\ overtaken' = save[i].stale /\ save[i].step = "finish"
  BY DEF SaveFinish, DidSave, diskVars, viewVars, editorVars
<1>2. /\ s \in SaveState /\ s.step = "record" /\ s.file = 0
      /\ s.snapshot = save[i].snapshot /\ s.stale = save[i].stale
  BY Typed DEF SaveState, SaveSteps
<1>3. SavedAs(i, s)
  <2>1. save' = [save EXCEPT ![i] = s]
    BY DEF SaveFinish
  <2> HIDE DEF s
  <2> QED
    BY <1>2, <2>1, SaveChanged
<1> HIDE DEF s
<1>4. /\ file' \in {file, save[i].file} /\ reload' \in [Reloads -> ReloadState]
      /\ \A j \in Reloads :
           reload'[j].step = "parse" => reload'[j].stale \/ reload'[j] = reload[j]
  <2>1. CASE save[i].wasDirty
    BY <2>1, Typed, Updates DEF SaveFinish
  <2>2. CASE ~save[i].wasDirty
    BY <2>2 DEF SaveFinish, EditInv, EditingType
  <2> QED
    BY <2>1, <2>2
<1>5. EditingType'
  <2>1. EditingType /\ overtaken' \in BOOLEAN /\ file' \in Nat
    BY <1>1, <1>4, Typed DEF EditInv
  <2> QED
    BY <1>1, <1>2, <1>3, <1>4, <2>1 DEF EditingType, SavedAs
<1>6. TimesPast'
  <2>1. 0 <= writes
    BY Typed
  <2> QED
    BY <1>1, <1>2, <1>3, <1>4, <2>1 DEF TimesPast, SavedAs, EditInv
<1>7. SeenOnce'
  BY <1>1, <1>2, <1>3, <1>4 DEF SeenOnce, SavedAs, EditInv
<1>8. SaveSound' /\ EditorShowsBuffer'
  BY <1>1, <1>2, <1>3 DEF SaveSound, EditorShowsBuffer, SavedAs, EditInv
<1>9. ReloadSound'
  BY <1>1, <1>4 DEF ReloadSound, EditInv
<1>10. SnapshotSound'
  <2>1. Recording'
    BY <1>2, <1>3 DEF Recording, SavedAs
  <2> QED
    BY <1>1, <2>1 DEF SnapshotSound, EditInv
<1> QED
  BY <1>5, <1>6, <1>7, <1>8, <1>9, <1>10 DEF EditInv

(* The editor takes what was saved for its snapshot.                       *)
LEMMA SaveRecordKeeps ==
  ASSUME EditInv, NEW i \in Saves, SaveRecord(i) PROVE EditInv'
<1>1. /\ UNCHANGED <<bound, disk, writes, stat, entry, file, requestFile, dirty, request, reload>>
      /\ snapshot' = save[i].snapshot /\ overtaken' = save[i].stale /\ save[i].step = "record"
      /\ save' = [save EXCEPT ![i] = NoSave]
  BY DEF SaveRecord, Record, diskVars, viewVars, bufferVars
<1>2. NoSave \in SaveState /\ NoSave.step = "none" /\ NoSave.file = 0
  BY DEF NoSave, SaveState, SaveSteps, Contents
<1>3. SavedAs(i, NoSave)
  BY <1>1, <1>2, SaveChanged
<1>4. /\ save[i].snapshot \in Texts
      /\ ~save[i].stale => request = save[i].snapshot /\ disk.text = save[i].snapshot /\ ~dirty
  BY <1>1 DEF SaveSound, EditInv
<1>5. EditingType'
  <2>1. EditingType /\ overtaken' \in BOOLEAN /\ snapshot' \in Contents
    BY <1>1, <1>4, Typed DEF EditInv, Contents
  <2> QED
    BY <1>1, <1>2, <1>3, <2>1 DEF EditingType, SavedAs
<1>6. TimesPast' /\ SeenOnce'
  <2>1. 0 <= writes
    BY Typed
  <2> QED
    BY <1>1, <1>2, <1>3, <2>1 DEF TimesPast, SeenOnce, SavedAs, EditInv
<1>7. SaveSound' /\ EditorShowsBuffer' /\ ReloadSound'
  BY <1>1, <1>2, <1>3 DEF SaveSound, EditorShowsBuffer, ReloadSound, SavedAs, EditInv
<1>8. SnapshotSound'
  BY <1>1, <1>4, RequestEditorAssumption DEF SnapshotSound, EditInv
<1> QED
  BY <1>5, <1>6, <1>7, <1>8 DEF EditInv

(* A reload goes a step on.                                                *)
LEMMA ReloadMoves ==
  ASSUME EditInv, NEW j \in Reloads, NEW r \in ReloadState, reload' = [reload EXCEPT ![j] = r],
         UNCHANGED <<bound, disk, writes, stat, entry, file, requestFile, dirty, request,
                     snapshot, save, overtaken>>,
         disk.mtime # 0 => \/ r.step = "load"
                           \/ r.step = "parse" /\ r.text = disk.text
  PROVE  EditInv'
<1>1. /\ reload' \in [Reloads -> ReloadState] /\ reload'[j] = r
      /\ \A k \in Reloads \ {j} : reload'[k] = reload[k]
  BY DEF EditInv, EditingType
<1>2. EditingType'
  BY <1>1 DEF EditInv, EditingType
<1>3. TimesPast' /\ SeenOnce' /\ SaveSound' /\ EditorShowsBuffer'
  BY DEF TimesPast, SeenOnce, SaveSound, EditorShowsBuffer, EditInv
<1>4. ReloadSound'
  BY <1>1 DEF ReloadSound, EditInv
<1>5. SnapshotSound'
  BY <1>1 DEF SnapshotSound, Recording, Reloading, EditInv
<1> QED
  BY <1>2, <1>3, <1>4, <1>5 DEF EditInv

LEMMA ReloadTaskKeeps ==
  ASSUME EditInv, ReloadStart \/ \E j \in Reloads : ReloadLoad(j) PROVE EditInv'
<1>1. UNCHANGED <<bound, disk, writes, stat, entry, file, requestFile, dirty, request,
                  snapshot, save, overtaken>>
  BY DEF ReloadStart, ReloadLoad, diskVars, viewVars, bufferVars, editorVars
<1>2. CASE ReloadStart
  <2> DEFINE r == [NoReload EXCEPT !.step = "load"]
  <2>1. r \in ReloadState /\ r.step = "load"
    BY DEF NoReload, ReloadState, Contents
  <2>2. PICK j \in Reloads : reload' = [reload EXCEPT ![j] = r]
    BY <1>2 DEF ReloadStart
  <2> HIDE DEF r
  <2> QED
    BY <1>1, <2>1, <2>2, ReloadMoves
<1>3. ASSUME NEW j \in Reloads, ReloadLoad(j) PROVE EditInv'
  <2> DEFINE r == IF disk.mtime = 0 THEN NoReload
                  ELSE [reload[j] EXCEPT !.step = "parse", !.text = disk.text]
  <2>1. r \in ReloadState /\ (disk.mtime # 0 => r.step = "parse" /\ r.text = disk.text)
    BY Typed DEF NoReload, ReloadState, Contents
  <2>2. reload' = [reload EXCEPT ![j] = r]
    BY <1>3 DEF ReloadLoad
  <2> HIDE DEF r
  <2> QED
    BY <1>1, <2>1, <2>2, ReloadMoves
<1> QED
  BY <1>2, <1>3

(* did_reload sets the fields, the snapshot and the mark at once.          *)
LEMMA ReloadApplyKeeps ==
  ASSUME EditInv, NEW j \in Reloads, ReloadApply(j) PROVE EditInv'
<1>1. /\ UNCHANGED <<bound, disk, writes, stat, entry, file>>
      /\ requestFile' = reload[j].text /\ dirty' = FALSE
      /\ request' = reload[j].text /\ snapshot' = reload[j].text
      /\ overtaken' = reload[j].stale /\ reload[j].step = "parse"
      /\ reload' = [reload EXCEPT ![j] = NoReload]
  BY DEF ReloadApply, DidReload, diskVars, viewVars
<1>2. /\ save' \in [Saves -> SaveState]
      /\ \A i \in Saves :
           /\ save'[i].step = save[i].step /\ save'[i].snapshot = save[i].snapshot
           /\ save'[i].text = save[i].text /\ save'[i].file = save[i].file
           /\ save'[i].stale = IF save[i].step \notin {"none"} THEN TRUE ELSE save[i].stale
  <2>1. save' = Overtake({}) /\ EditingType
    BY DEF ReloadApply, EditInv
  <2>2. {"none"} \cup {} = {"none"}
    OBVIOUS
  <2> QED
    BY <2>1, <2>2, OvertakeMarks
<1>3. /\ reload' \in [Reloads -> ReloadState] /\ NoReload.step = "none"
      /\ \A k \in Reloads \ {j} : reload'[k] = reload[k]
      /\ reload'[j] = NoReload
  <2>1. NoReload \in ReloadState /\ NoReload.step = "none"
    BY DEF NoReload, ReloadState, Contents
  <2> QED
    BY <1>1, <2>1 DEF EditInv, EditingType
<1>4. EditingType'
  <2>1. EditingType /\ overtaken' \in BOOLEAN /\ reload[j].text \in Contents
    BY <1>1, Typed DEF EditInv
  <2> QED
    BY <1>1, <1>2, <1>3, <2>1 DEF EditingType
<1>5. TimesPast' /\ SeenOnce'
  BY <1>1, <1>2 DEF TimesPast, SeenOnce, EditInv
<1>6. SaveSound' /\ EditorShowsBuffer'
  BY <1>1, <1>2 DEF SaveSound, EditorShowsBuffer, EditInv
<1>7. ReloadSound'
  BY <1>1, <1>3 DEF ReloadSound, EditInv
<1>8. SnapshotSound'
  BY <1>1 DEF SnapshotSound, ReloadSound, EditInv
<1> QED
  BY <1>4, <1>5, <1>6, <1>7, <1>8 DEF EditInv

LEMMA EditStutters == EditInv /\ UNCHANGED editingVars => EditInv'
<1> SUFFICES ASSUME EditInv, UNCHANGED editingVars PROVE EditInv'
  OBVIOUS
<1> USE DEF editingVars, diskVars, viewVars, bufferVars, editorVars
<1>1. EditingType' /\ EditorShowsBuffer' /\ TimesPast'
  BY DEF EditInv, EditingType, EditorShowsBuffer, TimesPast
<1>2. SeenOnce' /\ SaveSound' /\ ReloadSound'
  BY DEF EditInv, SeenOnce, SaveSound, ReloadSound
<1>3. SnapshotSound'
  BY DEF EditInv, SnapshotSound, Recording, Reloading
<1> QED
  BY <1>1, <1>2, <1>3 DEF EditInv

LEMMA EditInvariant == Spec => []EditInv
<1>1. EditInv /\ [Next]_vars => EditInv'
  <2> SUFFICES ASSUME EditInv, [Next]_vars PROVE EditInv'
    OBVIOUS
  <2>1. CASE EditingStep
    BY <2>1, ForeignKeeps, ScanKeeps, DeliverKeeps, EditKeeps, SaveTaskKeeps, SaveWriteKeeps,
       SaveFinishKeeps, SaveRecordKeeps, ReloadTaskKeeps, ReloadApplyKeeps DEF EditingStep
  <2>2. CASE UNCHANGED editingVars
    BY <2>2, EditStutters
  <2>3. CASE UNCHANGED vars
    BY <2>3, EditStutters DEF vars, editingVars
  <2> QED
    BY <2>1, <2>2, <2>3, NextSplits
<1> QED
  BY <1>1, InitEditInv, PTL DEF Spec

(* The response, the buffer, its editor and their tasks stay in the states *)
(* listed; what a save writes is a request (save_request_buffer).          *)
THEOREM EditorTypes == Spec => []TypeOK
<1>1. ResponseInv /\ EditInv => TypeOK
  BY DEF ResponseInv, EditInv, TypeOK
<1> QED
  BY <1>1, ResponseInvariant, EditInvariant, PTL

(* A request shown as saved, with nothing in progress, is what is on disk, *)
(* whatever saves, reloads, edits and foreign writes came before, unless   *)
(* the task that said so was overtaken.                                    *)
THEOREM SavedIsOnDisk == Spec => []CleanMatchesDisk
<1>1. EditInv => CleanMatchesDisk
  <2> SUFFICES ASSUME EditInv, AtRest, ~dirty, ~overtaken, disk.mtime # 0
               PROVE  request = disk.text /\ snapshot = request
    BY DEF CleanMatchesDisk
  <2>1. ~Recording /\ ~Reloading
    BY DEF AtRest, Recording, Reloading
  <2>2. entry = disk.mtime
    BY DEF AtRest
  <2> QED
    BY <2>1, <2>2 DEF SnapshotSound, EditInv
<1> QED
  BY <1>1, EditInvariant, PTL

(* A request shown as changed differs from what was saved or loaded last.  *)
THEOREM ChangedDiffers == Spec => []DirtyMeansChanged
<1>1. EditInv => DirtyMeansChanged
  BY DEF EditInv, SnapshotSound, DirtyMeansChanged
<1> QED
  BY <1>1, EditInvariant, PTL
=============================================================================
