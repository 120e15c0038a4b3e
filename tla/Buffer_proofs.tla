----------------------------- MODULE Buffer_proofs -----------------------------
(***************************************************************************)
(* A buffer that shows no change holds what is on disk, and edits on top   *)
(* of something else are a conflict, for any number of edits, saves,       *)
(* reloads and writes of others.                                           *)
(***************************************************************************)
EXTENDS Buffer, TLAPS

(* The file is there with its last modification time or not there, and     *)
(* nothing carries a time still to come.                                   *)
Times ==
  /\ disk \in {0, Len(log)}
  /\ file.mtime <= Len(log) /\ reload.mtime <= Len(log) /\ opening.file.mtime <= Len(log)
  /\ \A i \in Saves : save[i].file.mtime <= Len(log)

(* Before the buffer is built nothing is done with it.                     *)
Unopened ==
  ~IsOpen =>
    /\ file = NewFile /\ savedMtime = 0 /\ ~overlapped
    /\ reload = NoReload /\ \A i \in Saves : save[i] = NoSave

(* Unless somebody writes meanwhile, an open sees one file.                *)
OpenSound ==
  opening.step = "loading" =>
    /\ opening.refresh = "done" => opening.file.state = "Present"
    /\ ~opening.foreign =>
         /\ disk = stat /\ stat = entry
         /\ opening.load = "text" => disk # 0 /\ opening.text = log[disk]
         /\ opening.load = "missing" => disk = 0
         /\ opening.refresh = "done" => opening.file = Present(disk)

(* Unless somebody writes meanwhile, a save finds what it wrote; a buffer  *)
(* whose file is new is saved as such.                                     *)
Wrote(s) ==
  s.step \in {"refresh", "stated", "look", "finish"} /\ ~s.foreign =>
    /\ disk # 0 /\ log[disk] = s.text
    /\ s.step = "stated" => stat = disk
    /\ s.step = "finish" => s.file.mtime = disk

SaveSound ==
  \A i \in Saves :
    /\ Wrote(save[i])
    /\ save[i].step = "finish" => save[i].file.state = "Present"
    /\ file.state = "New" /\ save[i].step # "none" => save[i].isNew

(* What is loaded for the time that is recorded is what was written at it. *)
ReloadSound ==
  /\ file.state = "New" => reload.mtime = 0
  /\ reload.step \in {"diff", "apply"} /\ reload.mtime = disk /\ disk # 0 =>
       reload.new = log[disk]

(* The file handle follows the entry; behind it, it is so only because     *)
(* what is on disk is what was saved.                                      *)
Known == IsOpen /\ ~overlapped /\ disk # 0 /\ entry = disk

FileSound ==
  /\ file.state = "Deleted" => entry = 0
  /\ file.state = "New" => savedMtime = 0 /\ ~Known
  /\ Known /\ file.mtime # disk =>
       /\ saved = log[disk]
       /\ reload.step \in {"diff", "apply"} => reload.new = log[disk]

(* The buffer saved or loaded what is on disk, if it recorded its time.    *)
SavedSound == disk # 0 /\ savedMtime = disk /\ ~overlapped => saved = log[disk]

BufferInv ==
  TypeOK /\ Times /\ Unopened /\ OpenSound /\ SaveSound /\ ReloadSound /\ FileSound /\ SavedSound
-----------------------------------------------------------------------------
(* What a state of the file is.                                            *)
LEMMA DiskStates ==
  /\ NewFile \in DiskState /\ Deleted \in DiskState
  /\ NewFile.state = "New" /\ NewFile.mtime = 0 /\ Deleted.state = "Deleted" /\ Deleted.mtime = 0
  /\ \A m \in Mtimes \ {0} :
       Present(m) \in DiskState /\ Present(m).state = "Present" /\ Present(m).mtime = m
  /\ \A f \in DiskState :
       /\ f.mtime \in Mtimes /\ f.state \in {"New", "Deleted", "Present"}
       /\ f.state = "Present" => f.mtime # 0 /\ f = Present(f.mtime)
       /\ f.state = "New" => f = NewFile
       /\ f.state = "Deleted" => f = Deleted
<1>1. /\ NewFile \in DiskState /\ Deleted \in DiskState
      /\ NewFile.state = "New" /\ NewFile.mtime = 0
      /\ Deleted.state = "Deleted" /\ Deleted.mtime = 0
  BY DEF DiskState, NewFile, Deleted
<1>2. ASSUME NEW m \in Mtimes \ {0}
      PROVE  Present(m) \in DiskState /\ Present(m).state = "Present" /\ Present(m).mtime = m
  BY DEF DiskState, Present
<1>3. ASSUME NEW f \in DiskState
      PROVE  f = NewFile \/ f = Deleted \/ \E m \in Mtimes \ {0} : f = Present(m)
  BY DEF DiskState
<1>4. 0 \in Mtimes
  BY BufferAssumption DEF Mtimes
<1> QED BY <1>1, <1>2, <1>3, <1>4

(* What a foreign write leaves of a save and of the open.                  *)
LEMMA OvertakenSave ==
  ASSUME NEW s \in SaveState
  PROVE  /\ Overtaken(s) \in SaveState
         /\ Overtaken(s).step = s.step /\ Overtaken(s).text = s.text
         /\ Overtaken(s).isNew = s.isNew /\ Overtaken(s).file = s.file
         /\ Overtaken(s).foreign <=>
              s.foreign \/ s.step \in {"refresh", "stated", "look", "finish"}
BY DEF Overtaken, SaveState

LEMMA OvertakenOpen ==
  ASSUME opening \in OpenState
  PROVE  /\ OpenOvertaken \in OpenState
         /\ OpenOvertaken.step = opening.step /\ OpenOvertaken.load = opening.load
         /\ OpenOvertaken.refresh = opening.refresh /\ OpenOvertaken.text = opening.text
         /\ OpenOvertaken.file = opening.file
         /\ OpenOvertaken.foreign <=> opening.foreign \/ opening.step = "loading"
BY DEF OpenOvertaken, OpenState

(* The records that tasks begin with.                                      *)
LEMMA Beginnings ==
  /\ NoReload \in ReloadState /\ NoReload.step = "none" /\ NoReload.mtime = 0
  /\ NoSave \in SaveState /\ NoSave.step = "none" /\ NoSave.file = NewFile /\ ~NoSave.foreign
  /\ StartOpen \in OpenState /\ StartOpen.step = "loading" /\ StartOpen.load = "pending"
  /\ StartOpen.refresh = "sent" /\ StartOpen.file = NewFile /\ ~StartOpen.foreign
BY BufferAssumption, DiskStates
   DEF NoReload, ReloadState, NoSave, SaveState, StartOpen, OpenState, Contents, Mtimes

LEMMA SpawnedReload ==
  ASSUME text \in Contents
  PROVE  Spawned \in ReloadState /\ Spawned.step = "spawned" /\ Spawned.mtime = 0
BY BufferAssumption DEF Spawned, ReloadState, Contents, Mtimes

LEMMA NothingOvertaken == Overtaken(NoSave) = NoSave
<1>1. \A s, t \in SaveState :
        /\ s.step = t.step /\ s.text = t.text /\ s.isNew = t.isNew /\ s.file = t.file
        /\ s.foreign = t.foreign
        => s = t
  BY DEF SaveState
<1>2. NoSave \in SaveState /\ NoSave.step = "none" /\ NoSave.foreign = FALSE
  BY Beginnings DEF NoSave
<1>3. Overtaken(NoSave).foreign = FALSE
  <2>1. Overtaken(NoSave).foreign \in BOOLEAN
    BY <1>2, OvertakenSave DEF SaveState
  <2>2. ~Overtaken(NoSave).foreign
    BY <1>2, Beginnings, OvertakenSave
  <2> QED BY <2>1, <2>2
<1> DEFINE n == Overtaken(NoSave)
<1>4. /\ n \in SaveState /\ n.step = NoSave.step /\ n.text = NoSave.text
      /\ n.isNew = NoSave.isNew /\ n.file = NoSave.file
  BY <1>2, OvertakenSave
<1> HIDE DEF n
<1>5. n.foreign = NoSave.foreign
  BY <1>2, <1>3 DEF n
<1>6. n = NoSave
  BY <1>1, <1>2, <1>4, <1>5
<1> QED BY <1>6 DEF n

LEMMA BufferInit == Init => BufferInv
<1> SUFFICES ASSUME Init PROVE BufferInv
  OBVIOUS
<1>1. Len(log) \in {0, 1} /\ log \in Seq(Contents) /\ disk = Len(log)
  <2>1. CASE log = <<>>
    BY <2>1 DEF Init
  <2>2. CASE log = <<1>>
    BY <2>2, BufferAssumption DEF Init, Contents
  <2> QED BY <2>1, <2>2 DEF Init
<1>2. TypeOK
  <2>1. disk \in 0 .. Len(log) /\ stat \in 0 .. Len(log) /\ entry \in 0 .. Len(log)
        /\ Len(log) <= MaxWrites /\ savedMtime \in 0 .. Len(log) /\ fresh \in Contents
    BY <1>1, BufferAssumption DEF Init, Contents
  <2>2. deletes \in 0 .. MaxDeletes /\ text \in Contents /\ version \in 0 .. MaxVersion
        /\ saved \in Contents /\ undo \in Seq(Contents) /\ redo \in Seq(Contents)
    BY BufferAssumption DEF Init, Contents
  <2>3. opening \in OpenState /\ file \in DiskState /\ reload \in ReloadState
        /\ save \in [Saves -> SaveState]
    BY Beginnings, DiskStates DEF Init
  <2>4. conflict \in BOOLEAN /\ overlapped \in BOOLEAN
    BY DEF Init
  <2> QED BY <1>1, <2>1, <2>2, <2>3, <2>4 DEF TypeOK
<1>3. Times
  BY <1>1, Beginnings, DiskStates DEF Init, Times
<1>4. Unopened /\ OpenSound /\ SaveSound
  BY <1>1, Beginnings, DiskStates DEF Init, Unopened, OpenSound, SaveSound, Wrote
<1>5. ReloadSound /\ FileSound /\ SavedSound
  BY <1>1, Beginnings, DiskStates DEF Init, ReloadSound, FileSound, SavedSound, Known, IsOpen
<1> QED BY <1>2, <1>3, <1>4, <1>5 DEF BufferInv
-----------------------------------------------------------------------------
(* A write gives the file a time that nothing carries yet.                 *)
LEMMA LogGrows ==
  ASSUME TypeOK, NEW c \in Contents, Len(log) < MaxWrites,
         log' = Append(log, c), disk' = Len(log) + 1
  PROVE  /\ log' \in Seq(Contents) /\ Len(log') = Len(log) + 1 /\ Len(log') <= MaxWrites
         /\ disk' \in 0 .. Len(log') /\ disk' = Len(log') /\ disk' # 0 /\ log'[disk'] = c
BY BufferAssumption DEF TypeOK

LEMMA WriteKeeps ==
  ASSUME BufferInv, NEW c \in Contents, Len(log) < MaxWrites,
         log' = Append(log, c), disk' = Len(log) + 1, fresh' \in Contents,
         opening' = OpenOvertaken, save' \in [Saves -> SaveState],
         \A j \in Saves :
           \/ save'[j] = Overtaken(save[j])
           \/ /\ save[j].step = "write" /\ save'[j].step = "refresh" /\ save'[j].text = c
              /\ save'[j].isNew = save[j].isNew /\ save'[j].file = save[j].file,
         UNCHANGED <<deletes, viewVars, textVars, file, savedVars, reload, overlapped>>
  PROVE  BufferInv'
<1>1. /\ log' \in Seq(Contents) /\ Len(log') = Len(log) + 1 /\ Len(log') <= MaxWrites
      /\ disk' \in 0 .. Len(log') /\ disk' = Len(log') /\ disk' # 0 /\ log'[disk'] = c
  BY LogGrows DEF BufferInv
<1>2. /\ stat \in 0 .. Len(log) /\ entry \in 0 .. Len(log) /\ savedMtime \in 0 .. Len(log)
      /\ Len(log) \in Nat
  BY DEF BufferInv, TypeOK
<1> DEFINE o == OpenOvertaken
<1>3. /\ o \in OpenState /\ o.step = opening.step /\ o.load = opening.load
      /\ o.refresh = opening.refresh /\ o.text = opening.text /\ o.file = opening.file
      /\ o.foreign <=> opening.foreign \/ opening.step = "loading"
  BY OvertakenOpen DEF BufferInv, TypeOK
<1>4. ASSUME NEW j \in Saves
      PROVE  /\ save[j] \in SaveState /\ save'[j] \in SaveState
             /\ save'[j].file = save[j].file /\ save'[j].isNew = save[j].isNew
             /\ save[j].step = "none" => save'[j] = Overtaken(save[j])
             /\ save'[j].step = "none" <=> save[j].step = "none"
             /\ save'[j].step \in {"stated", "look", "finish"} =>
                  save'[j].foreign /\ save[j].step = save'[j].step
             /\ save'[j].step = "refresh" /\ ~save'[j].foreign => save'[j].text = c
  <2>1. save[j] \in SaveState /\ save'[j] \in SaveState
    BY DEF BufferInv, TypeOK
  <2>2. CASE save'[j] = Overtaken(save[j])
    BY <2>1, <2>2, OvertakenSave
  <2>3. CASE /\ save[j].step = "write" /\ save'[j].step = "refresh" /\ save'[j].text = c
             /\ save'[j].isNew = save[j].isNew /\ save'[j].file = save[j].file
    BY <2>1, <2>3
  <2> QED BY <2>2, <2>3
<1>5. TypeOK'
  <2>1. disk' \in 0 .. Len(log') /\ stat' \in 0 .. Len(log') /\ entry' \in 0 .. Len(log')
        /\ savedMtime' \in 0 .. Len(log')
    BY <1>1, <1>2 DEF viewVars, savedVars
  <2> QED BY <1>1, <1>3, <2>1 DEF BufferInv, TypeOK, viewVars, textVars, savedVars
<1>6. Times'
  <2>1. reload.mtime \in Nat /\ file.mtime \in Nat /\ opening.file.mtime \in Nat
        /\ \A j \in Saves : save[j].file.mtime \in Nat
    BY DiskStates, BufferAssumption DEF BufferInv, TypeOK, ReloadState, OpenState, SaveState, Mtimes
  <2>2. \A j \in Saves : save'[j].file.mtime <= Len(log')
    BY <1>1, <1>2, <1>4, <2>1 DEF BufferInv, Times
  <2> QED BY <1>1, <1>2, <1>3, <2>1, <2>2 DEF BufferInv, Times
<1>7. Unopened'
  <2>1. ASSUME ~IsOpen, NEW j \in Saves PROVE save'[j] = NoSave
    <3>1. save[j] = NoSave /\ save'[j] = Overtaken(save[j])
      BY <1>4, <2>1, Beginnings DEF BufferInv, Unopened
    <3> QED BY <3>1, NothingOvertaken
  <2> QED BY <1>3, <2>1 DEF BufferInv, Unopened, IsOpen, savedVars
<1>8. OpenSound'
  BY <1>3 DEF BufferInv, OpenSound
<1>9. SaveSound'
  BY <1>1, <1>4 DEF BufferInv, SaveSound, Wrote
<1>10. ReloadSound' /\ FileSound' /\ SavedSound'
  <2>1. file.mtime <= Len(log) /\ reload.mtime <= Len(log)
    BY DEF BufferInv, Times
  <2>2. entry' # disk' /\ savedMtime' # disk' /\ reload'.mtime # disk'
    BY <1>1, <1>2, <2>1 DEF viewVars, savedVars
  <2> QED BY <1>3, <2>2
       DEF BufferInv, ReloadSound, FileSound, SavedSound, Known, viewVars, savedVars
<1> QED BY <1>5, <1>6, <1>7, <1>8, <1>9, <1>10 DEF BufferInv

LEMMA ForeignWriteKeeps == BufferInv /\ ForeignWrite => BufferInv'
<1> SUFFICES ASSUME BufferInv, ForeignWrite PROVE BufferInv'
  OBVIOUS
<1>1. fresh + 1 \in Contents
  BY BufferAssumption DEF BufferInv, TypeOK, ForeignWrite, Contents
<1>2. save' \in [Saves -> SaveState] /\ \A j \in Saves : save'[j] = Overtaken(save[j])
  BY OvertakenSave DEF ForeignWrite, BufferInv, TypeOK
<1> QED BY <1>1, <1>2, WriteKeeps DEF ForeignWrite

LEMMA SaveWriteKeeps ==
  ASSUME BufferInv, NEW i \in Saves, SaveWrite(i)
  PROVE  BufferInv'
<1> DEFINE t == [save[i] EXCEPT !.step = "refresh"]
<1>1. /\ save[i] \in SaveState /\ save[i].step = "write" /\ save[i].text \in Contents
      /\ t \in SaveState /\ t.step = "refresh" /\ t.text = save[i].text
      /\ t.isNew = save[i].isNew /\ t.file = save[i].file
  BY DEF SaveWrite, BufferInv, TypeOK, SaveState
<1> HIDE DEF t
<1>2. \A j \in Saves : Overtaken(save[j]) \in SaveState
  BY OvertakenSave DEF BufferInv, TypeOK
<1>3. save' = [j \in Saves |-> IF j = i THEN t ELSE Overtaken(save[j])]
  BY DEF SaveWrite, t
<1>4. save' \in [Saves -> SaveState]
  BY <1>1, <1>2, <1>3
<1>5. fresh' \in Contents
  BY DEF SaveWrite, ghostVars, BufferInv, TypeOK
<1>6. \A j \in Saves :
        \/ save'[j] = Overtaken(save[j])
        \/ /\ save[j].step = "write" /\ save'[j].step = "refresh" /\ save'[j].text = save[i].text
           /\ save'[j].isNew = save[j].isNew /\ save'[j].file = save[j].file
  BY <1>1, <1>3
<1> QED BY <1>1, <1>4, <1>5, <1>6, WriteKeeps DEF SaveWrite, ghostVars

LEMMA ForeignDeleteKeeps == BufferInv /\ ForeignDelete => BufferInv'
<1> SUFFICES ASSUME BufferInv, ForeignDelete PROVE BufferInv'
  OBVIOUS
<1> DEFINE o == OpenOvertaken
<1>1. /\ o \in OpenState /\ o.step = opening.step /\ o.load = opening.load
      /\ o.refresh = opening.refresh /\ o.text = opening.text /\ o.file = opening.file
      /\ o.foreign <=> opening.foreign \/ opening.step = "loading"
  BY OvertakenOpen DEF BufferInv, TypeOK
<1>2. ASSUME NEW j \in Saves
      PROVE  /\ save[j] \in SaveState /\ save'[j] = Overtaken(save[j])
             /\ save'[j] \in SaveState
             /\ save'[j].step = save[j].step /\ save'[j].text = save[j].text
             /\ save'[j].isNew = save[j].isNew /\ save'[j].file = save[j].file
             /\ save'[j].foreign <=>
                  save[j].foreign \/ save[j].step \in {"refresh", "stated", "look", "finish"}
  BY OvertakenSave DEF ForeignDelete, BufferInv, TypeOK
<1>3. log' = log /\ disk' = 0 /\ opening' = o
  BY DEF ForeignDelete
<1>4. TypeOK'
  <2>1. save' \in [Saves -> SaveState]
    BY <1>2 DEF ForeignDelete
  <2>2. deletes' \in 0 .. MaxDeletes
    BY BufferAssumption DEF ForeignDelete, BufferInv, TypeOK
  <2> QED BY <1>1, <1>3, <2>1, <2>2
       DEF ForeignDelete, BufferInv, TypeOK, viewVars, textVars, savedVars, ghostVars
<1>5. Times'
  BY <1>1, <1>2, <1>3 DEF ForeignDelete, BufferInv, Times
<1>6. Unopened'
  <2>1. ASSUME ~IsOpen, NEW j \in Saves PROVE save'[j] = NoSave
    <3>1. save[j] = NoSave /\ save'[j] = Overtaken(save[j])
      BY <1>2, <2>1 DEF BufferInv, Unopened
    <3> QED BY <3>1, NothingOvertaken
  <2> QED BY <1>1, <1>3, <2>1 DEF ForeignDelete, BufferInv, Unopened, IsOpen, savedVars, ghostVars
<1>7. OpenSound'
  BY <1>1, <1>3 DEF BufferInv, OpenSound
<1>8. SaveSound'
  BY <1>2, <1>3 DEF ForeignDelete, BufferInv, SaveSound, Wrote
<1>9. ReloadSound' /\ FileSound' /\ SavedSound'
  BY <1>3 DEF ForeignDelete, BufferInv, ReloadSound, FileSound, SavedSound, Known, viewVars,
              savedVars, ghostVars
<1> QED BY <1>4, <1>5, <1>6, <1>7, <1>8, <1>9 DEF BufferInv
-----------------------------------------------------------------------------
(* The scanner, and what the worktree tells the buffer.                    *)
LEMMA ScanKeeps == BufferInv /\ Scan => BufferInv'
<1> SUFFICES ASSUME BufferInv, Scan PROVE BufferInv'
  OBVIOUS
<1>1. /\ opening' \in OpenState /\ opening'.step = opening.step /\ opening'.load = opening.load
      /\ opening'.text = opening.text /\ opening'.file = opening.file
      /\ opening'.foreign = opening.foreign
      /\ opening'.refresh = "done" <=> opening.refresh = "done"
      /\ opening.step # "loading" => opening' = opening
  <2>1. opening \in OpenState
    BY DEF BufferInv, TypeOK
  <2> QED BY <2>1 DEF Scan, OpenState
<1>2. ASSUME NEW j \in Saves
      PROVE  /\ save[j] \in SaveState /\ save'[j] \in SaveState
             /\ save'[j].text = save[j].text /\ save'[j].isNew = save[j].isNew
             /\ save'[j].file = save[j].file /\ save'[j].foreign = save[j].foreign
             /\ save'[j] = save[j] \/ (save[j].step = "refresh" /\ save'[j].step = "stated")
  <2>1. save[j] \in SaveState
    BY DEF BufferInv, TypeOK
  <2>2. CASE save[j].step = "refresh"
    <3>1. save'[j] = [save[j] EXCEPT !.step = "stated"]
      BY <2>2 DEF Scan
    <3> QED BY <2>1, <2>2, <3>1 DEF SaveState
  <2>3. CASE save[j].step # "refresh"
    <3>1. save'[j] = save[j]
      BY <2>3 DEF Scan
    <3> QED BY <2>1, <3>1
  <2> QED BY <2>2, <2>3
<1>3. /\ UNCHANGED <<log, disk, entry, text, version, undo, redo, file, saved, savedMtime>>
      /\ UNCHANGED <<deletes, conflict, reload, fresh, overlapped>>
      /\ stat' = disk /\ disk \in 0 .. Len(log)
  BY DEF Scan, diskVars, textVars, savedVars, ghostVars, BufferInv, TypeOK
<1>4. TypeOK'
  <2>1. save' \in [Saves -> SaveState]
    BY <1>2 DEF Scan
  <2> QED BY <1>1, <1>3, <2>1 DEF BufferInv, TypeOK
<1>5. Times'
  BY <1>1, <1>2, <1>3 DEF BufferInv, Times
<1>6. Unopened'
  <2>1. ASSUME ~IsOpen, NEW j \in Saves PROVE save'[j] = NoSave
    BY <1>2, <2>1, Beginnings DEF BufferInv, Unopened
  <2> QED BY <1>1, <1>3, <2>1 DEF BufferInv, Unopened, IsOpen
<1>7. OpenSound'
  BY <1>1, <1>3 DEF BufferInv, OpenSound
<1>8. SaveSound'
  <2>1. ASSUME NEW j \in Saves PROVE Wrote(save[j])'
    <3>1. Wrote(save[j])
      BY DEF BufferInv, SaveSound
    <3> QED BY <1>2, <1>3, <3>1 DEF Wrote
  <2>2. ASSUME NEW j \in Saves
        PROVE  /\ save'[j].step = "finish" => save'[j].file.state = "Present"
               /\ file'.state = "New" /\ save'[j].step # "none" => save'[j].isNew
    BY <1>2, <1>3 DEF BufferInv, SaveSound
  <2> QED BY <2>1, <2>2 DEF SaveSound
<1>9. ReloadSound' /\ FileSound' /\ SavedSound'
  BY <1>1, <1>3 DEF BufferInv, ReloadSound, FileSound, SavedSound, Known, IsOpen
<1> QED BY <1>4, <1>5, <1>6, <1>7, <1>8, <1>9 DEF BufferInv

(* The file handle is replaced, and a reload may begin.                    *)
LEMMA FileUpdatedTypes ==
  ASSUME text \in Contents, reload \in ReloadState, NEW new \in DiskState, FileUpdated(new)
  PROVE  /\ file' = new
         /\ reload' \in ReloadState
         /\ reload' = reload \/ (reload'.step = "spawned" /\ reload'.mtime = 0)
BY SpawnedReload DEF FileUpdated

LEMMA DeliverKeeps == BufferInv /\ Deliver => BufferInv'
<1> SUFFICES ASSUME BufferInv, Deliver PROVE BufferInv'
  OBVIOUS
<1>1. /\ UNCHANGED <<log, disk, stat, opening, text, version, undo, redo, saved, savedMtime>>
      /\ UNCHANGED <<deletes, conflict, save, fresh, overlapped>>
      /\ entry' = stat /\ stat \in 0 .. Len(log) /\ stat # entry
  BY DEF Deliver, diskVars, textVars, savedVars, ghostVars, BufferInv, TypeOK
<1>2. CASE ~IsOpen
  <2>1. UNCHANGED <<file, reload>> /\ file = NewFile /\ savedMtime = 0 /\ ~IsOpen'
    BY <1>1, <1>2 DEF Deliver, BufferInv, Unopened, IsOpen
  <2>2. TypeOK' /\ Times' /\ Unopened' /\ OpenSound' /\ SaveSound'
    BY <1>1, <2>1
       DEF BufferInv, TypeOK, Times, Unopened, IsOpen, OpenSound, SaveSound, Wrote
  <2>3. ReloadSound' /\ FileSound' /\ SavedSound'
    BY <1>1, <2>1, DiskStates DEF BufferInv, ReloadSound, FileSound, SavedSound, Known, IsOpen
  <2> QED BY <2>2, <2>3 DEF BufferInv
<1>3. CASE IsOpen
  <2> DEFINE new == IF stat = 0 THEN Deleted ELSE Present(stat)
  <2>1. Len(log) <= MaxWrites /\ Len(log) \in Nat
    BY DEF BufferInv, TypeOK
  <2>2. /\ new \in DiskState /\ new.mtime = stat /\ new.state \in {"Deleted", "Present"}
        /\ new.state = "Deleted" <=> stat = 0
    <3>1. CASE stat = 0
      BY <3>1, DiskStates
    <3>2. CASE stat # 0
      <4>1. stat \in Mtimes \ {0}
        BY <1>1, <2>1, <3>2, BufferAssumption DEF Mtimes
      <4> QED BY <3>2, <4>1, DiskStates
    <3> QED BY <3>1, <3>2
  <2>3. FileUpdated(new)
    BY <1>3 DEF Deliver
  <2> HIDE DEF new
  <2>4. /\ file' = new /\ reload' \in ReloadState
        /\ reload' = reload \/ (reload'.step = "spawned" /\ reload'.mtime = 0)
    BY <2>2, <2>3, FileUpdatedTypes DEF BufferInv, TypeOK
  <2>5. TypeOK'
    BY <1>1, <2>2, <2>4 DEF BufferInv, TypeOK
  <2>6. Times'
    BY <1>1, <2>1, <2>2, <2>4 DEF BufferInv, Times
  <2>7. Unopened' /\ OpenSound'
    BY <1>1, <1>3 DEF Unopened, OpenSound, IsOpen
  <2>8. SaveSound'
    BY <1>1, <2>2, <2>4 DEF BufferInv, SaveSound, Wrote
  <2>9. ReloadSound' /\ FileSound' /\ SavedSound'
    BY <1>1, <2>2, <2>4 DEF BufferInv, ReloadSound, FileSound, SavedSound, Known, IsOpen
  <2> QED BY <2>5, <2>6, <2>7, <2>8, <2>9 DEF BufferInv
<1> QED BY <1>2, <1>3
-----------------------------------------------------------------------------
(* Opening: the text that is loaded and the time that is read are of one   *)
(* write, unless another comes between.                                    *)
LEMMA OpeningKeeps ==
  ASSUME BufferInv, opening.step = "loading", opening' \in OpenState,
         opening'.step # "open", opening'.file.mtime <= Len(log), OpenSound',
         UNCHANGED <<diskVars, viewVars, textVars, file, savedVars, reload, save, ghostVars>>
  PROVE  BufferInv'
<1> USE DEF diskVars, viewVars, textVars, savedVars, ghostVars
<1>1. TypeOK' /\ Times'
  BY DEF BufferInv, TypeOK, Times
<1>2. Unopened'
  BY DEF BufferInv, Unopened, IsOpen
<1>3. SaveSound' /\ ReloadSound' /\ SavedSound'
  BY DEF BufferInv, SaveSound, Wrote, ReloadSound, SavedSound
<1>4. FileSound'
  BY DEF BufferInv, FileSound, Known, IsOpen
<1> QED BY <1>1, <1>2, <1>3, <1>4 DEF BufferInv

LEMMA OpenLoadKeeps == BufferInv /\ OpenLoad => BufferInv'
<1> SUFFICES ASSUME BufferInv, OpenLoad PROVE BufferInv'
  OBVIOUS
<1>1. opening \in OpenState /\ (disk # 0 => log[disk] \in Contents)
  BY DEF BufferInv, TypeOK
<1>2. /\ opening' \in OpenState /\ opening'.step = "loading" /\ opening'.file = opening.file
      /\ opening'.refresh = opening.refresh /\ opening'.foreign = opening.foreign
      /\ disk = 0 => opening'.load = "missing"
      /\ disk # 0 => opening'.load = "text" /\ opening'.text = log[disk]
  <2>1. CASE disk = 0
    <3>1. opening' = [opening EXCEPT !.load = "missing"]
      BY <2>1 DEF OpenLoad
    <3> QED BY <1>1, <2>1, <3>1 DEF OpenState, OpenLoad
  <2>2. CASE disk # 0
    <3>1. opening' = [opening EXCEPT !.load = "text", !.text = log[disk]]
      BY <2>2 DEF OpenLoad
    <3> QED BY <1>1, <2>2, <3>1 DEF OpenState, OpenLoad
  <2> QED BY <2>1, <2>2
<1>3. OpenSound'
  BY <1>2 DEF OpenLoad, BufferInv, OpenSound, diskVars, viewVars
<1>4. opening'.file.mtime <= Len(log)
  BY <1>2 DEF BufferInv, Times
<1> QED BY <1>2, <1>3, <1>4, OpeningKeeps DEF OpenLoad

LEMMA OpenLookKeeps == BufferInv /\ OpenLook => BufferInv'
<1> SUFFICES ASSUME BufferInv, OpenLook PROVE BufferInv'
  OBVIOUS
<1>1. opening \in OpenState /\ entry \in 0 .. Len(log) /\ entry \in Mtimes
  BY BufferAssumption DEF BufferInv, TypeOK, Mtimes
<1>2. /\ opening' \in OpenState /\ opening'.step = "loading" /\ opening'.load = opening.load
      /\ opening'.text = opening.text /\ opening'.foreign = opening.foreign
      /\ entry = 0 => opening'.refresh = "failed" /\ opening'.file = opening.file
      /\ entry # 0 => opening'.refresh = "done" /\ opening'.file = Present(entry)
  <2>1. CASE entry = 0
    <3>1. opening' = [opening EXCEPT !.refresh = "failed"]
      BY <2>1 DEF OpenLook
    <3> QED BY <1>1, <2>1, <3>1 DEF OpenState, OpenLook
  <2>2. CASE entry # 0
    <3>1. opening' = [opening EXCEPT !.refresh = "done", !.file = Present(entry)]
      BY <2>2 DEF OpenLook
    <3>2. Present(entry) \in DiskState
      BY <1>1, <2>2, DiskStates
    <3> QED BY <1>1, <2>2, <3>1, <3>2 DEF OpenState, OpenLook
  <2> QED BY <2>1, <2>2
<1>3. entry # 0 => Present(entry).state = "Present" /\ Present(entry).mtime = entry
  BY <1>1, DiskStates
<1>4. OpenSound'
  BY <1>2, <1>3 DEF OpenLook, BufferInv, OpenSound, diskVars, viewVars
<1>5. opening'.file.mtime <= Len(log)
  BY <1>1, <1>2, <1>3 DEF BufferInv, Times
<1> QED BY <1>2, <1>4, <1>5, OpeningKeeps DEF OpenLook

LEMMA OpenFailKeeps == BufferInv /\ OpenFail => BufferInv'
<1> SUFFICES ASSUME BufferInv, OpenFail PROVE BufferInv'
  OBVIOUS
<1>1. opening' \in OpenState /\ opening'.step = "failed" /\ opening'.file = NewFile
  BY Beginnings DEF OpenFail, OpenState
<1>2. opening'.file.mtime <= Len(log)
  BY <1>1, DiskStates DEF BufferInv, TypeOK
<1>3. OpenSound'
  BY <1>1 DEF OpenSound
<1> QED BY <1>1, <1>2, <1>3, OpeningKeeps DEF OpenFail

LEMMA BuildKeeps ==
  ASSUME BufferInv, opening.step = "loading", NEW c \in Contents, NEW f \in DiskState,
         f.state # "Deleted", f.mtime <= Len(log),
         ~opening.foreign => IF f.state = "New" THEN disk = 0
                             ELSE disk = f.mtime /\ c = log[disk],
         BuildBuffer(c, f)
  PROVE  BufferInv'
<1> USE DEF diskVars, viewVars
<1>1. opening' \in OpenState /\ opening'.step = "open" /\ opening'.file = NewFile
  BY Beginnings DEF BuildBuffer, OpenState
<1>2. /\ file' = f /\ savedMtime' = f.mtime /\ saved' = c /\ text' = c
      /\ overlapped' = opening.foreign /\ reload = NoReload
      /\ \A j \in Saves : save[j] = NoSave
      /\ UNCHANGED <<log, disk, deletes, stat, entry, version, undo, redo, conflict, reload, save>>
      /\ UNCHANGED fresh
  BY DEF BuildBuffer, BufferInv, Unopened, IsOpen
<1>3. f.mtime \in 0 .. Len(log)
  BY DiskStates, BufferAssumption DEF BufferInv, TypeOK, Mtimes
<1>4. opening.foreign \in BOOLEAN
  BY DEF BufferInv, TypeOK, OpenState
<1>5. TypeOK'
  BY <1>1, <1>2, <1>3, <1>4 DEF BufferInv, TypeOK
<1>6. Times' /\ Unopened' /\ OpenSound'
  BY <1>1, <1>2, <1>3, DiskStates DEF BufferInv, TypeOK, Times, Unopened, IsOpen, OpenSound
<1>7. SaveSound' /\ ReloadSound'
  BY <1>1, <1>2, Beginnings DEF SaveSound, Wrote, ReloadSound
<1>8. SavedSound'
  BY <1>2, <1>3, DiskStates DEF SavedSound
<1>9. FileSound'
  BY <1>1, <1>2, <1>3, DiskStates, Beginnings DEF FileSound, Known, IsOpen
<1> QED BY <1>5, <1>6, <1>7, <1>8, <1>9 DEF BufferInv

LEMMA OpenBuildKeeps == BufferInv /\ OpenBuild => BufferInv'
<1> SUFFICES ASSUME BufferInv, OpenBuild PROVE BufferInv'
  OBVIOUS
<1>1. opening \in OpenState /\ opening.step = "loading" /\ 0 \in Contents
  BY BufferAssumption DEF BufferInv, TypeOK, OpenBuild, Contents
<1>2. CASE opening.load = "missing" /\ BuildBuffer(0, NewFile)
  <2>1. ~opening.foreign => disk = 0
    BY <1>1, <1>2 DEF BufferInv, OpenSound
  <2>2. NewFile.mtime <= Len(log)
    BY DiskStates DEF BufferInv, TypeOK
  <2> QED BY <1>1, <1>2, <2>1, <2>2, DiskStates, BuildKeeps
<1>3. CASE /\ opening.load = "text" /\ opening.refresh = "done"
           /\ BuildBuffer(opening.text, opening.file)
  <2>1. /\ opening.file.state = "Present"
        /\ ~opening.foreign => opening.file = Present(disk) /\ disk # 0 /\ opening.text = log[disk]
    BY <1>1, <1>3 DEF BufferInv, OpenSound
  <2>2. opening.file \in DiskState /\ opening.text \in Contents /\ opening.file.mtime <= Len(log)
    BY <1>1 DEF OpenState, BufferInv, Times
  <2>3. ~opening.foreign => disk = opening.file.mtime
    BY <2>1 DEF Present
  <2> QED BY <1>1, <1>3, <2>1, <2>2, <2>3, BuildKeeps
<1> QED BY <1>2, <1>3 DEF OpenBuild
-----------------------------------------------------------------------------
(* Editing changes nothing that is known of the file.                      *)
LEMMA EditingKeeps ==
  ASSUME BufferInv, IsOpen, text' \in Contents, version' \in 0 .. MaxVersion,
         undo' \in Seq(Contents), redo' \in Seq(Contents), fresh' \in Contents,
         UNCHANGED <<diskVars, viewVars, opening, file, savedVars, reload, save, overlapped>>
  PROVE  BufferInv'
<1> USE DEF diskVars, viewVars, savedVars
<1>1. TypeOK' /\ Times' /\ Unopened'
  BY DEF BufferInv, TypeOK, Times, Unopened, IsOpen
<1>2. OpenSound' /\ SaveSound' /\ ReloadSound' /\ SavedSound'
  BY DEF BufferInv, OpenSound, SaveSound, Wrote, ReloadSound, SavedSound
<1>3. FileSound'
  BY DEF BufferInv, FileSound, Known, IsOpen
<1> QED BY <1>1, <1>2, <1>3 DEF BufferInv

LEMMA VersionTypes ==
  ASSUME TypeOK, NEW t, NEW u, NEW r, NewVersion(t, u, r)
  PROVE  text' = t /\ undo' = u /\ redo' = r /\ version' \in 0 .. MaxVersion
BY BufferAssumption DEF NewVersion, TypeOK

LEMMA PopTypes ==
  ASSUME NEW s \in Seq(Contents), s # <<>>
  PROVE  s[Len(s)] \in Contents /\ SubSeq(s, 1, Len(s) - 1) \in Seq(Contents)
<1>1. Len(s) \in 1 .. Len(s) /\ Len(s) - 1 \in Nat
  OBVIOUS
<1> QED BY <1>1

LEMMA EditKeeps == BufferInv /\ Edit => BufferInv'
<1> SUFFICES ASSUME BufferInv, Edit PROVE BufferInv'
  OBVIOUS
<1>1. TypeOK /\ 0 \in Contents /\ Append(undo, text) \in Seq(Contents) /\ <<>> \in Seq(Contents)
  BY BufferAssumption DEF BufferInv, TypeOK, Contents
<1>2. fresh' \in Contents /\ (fresh < MaxContent => fresh + 1 \in Contents)
  BY <1>1, BufferAssumption DEF Edit, TypeOK, Contents
<1>3. text' \in Contents /\ version' \in 0 .. MaxVersion
      /\ undo' \in Seq(Contents) /\ redo' \in Seq(Contents)
  <2>1. CASE fresh < MaxContent /\ NewVersion(fresh + 1, Append(undo, text), <<>>)
    BY <1>1, <1>2, <2>1, VersionTypes
  <2>2. CASE NewVersion(0, Append(undo, text), <<>>)
    BY <1>1, <2>2, VersionTypes
  <2> QED BY <2>1, <2>2 DEF Edit
<1> QED BY <1>2, <1>3, EditingKeeps DEF Edit

LEMMA UndoKeeps == BufferInv /\ (Undo \/ Redo) => BufferInv'
<1> SUFFICES ASSUME BufferInv, Undo \/ Redo PROVE BufferInv'
  OBVIOUS
<1>1. /\ TypeOK /\ undo \in Seq(Contents) /\ redo \in Seq(Contents)
      /\ Append(undo, text) \in Seq(Contents) /\ Append(redo, text) \in Seq(Contents)
  BY DEF BufferInv, TypeOK
<1>2. text' \in Contents /\ version' \in 0 .. MaxVersion
      /\ undo' \in Seq(Contents) /\ redo' \in Seq(Contents)
  <2>1. CASE Undo
    <3>1. undo # <<>> /\ NewVersion(undo[Len(undo)], SubSeq(undo, 1, Len(undo) - 1), Append(redo, text))
      BY <2>1 DEF Undo
    <3>2. undo[Len(undo)] \in Contents /\ SubSeq(undo, 1, Len(undo) - 1) \in Seq(Contents)
      BY <1>1, <3>1, PopTypes
    <3>3. /\ text' = undo[Len(undo)] /\ undo' = SubSeq(undo, 1, Len(undo) - 1)
          /\ redo' = Append(redo, text) /\ version' \in 0 .. MaxVersion
      BY <1>1, <3>1, VersionTypes
    <3> QED BY <1>1, <3>2, <3>3
  <2>2. CASE Redo
    <3>1. redo # <<>> /\ NewVersion(redo[Len(redo)], Append(undo, text), SubSeq(redo, 1, Len(redo) - 1))
      BY <2>2 DEF Redo
    <3>2. redo[Len(redo)] \in Contents /\ SubSeq(redo, 1, Len(redo) - 1) \in Seq(Contents)
      BY <1>1, <3>1, PopTypes
    <3>3. /\ text' = redo[Len(redo)] /\ redo' = SubSeq(redo, 1, Len(redo) - 1)
          /\ undo' = Append(undo, text) /\ version' \in 0 .. MaxVersion
      BY <1>1, <3>1, VersionTypes
    <3> QED BY <1>1, <3>2, <3>3
  <2> QED BY <2>1, <2>2
<1>3. fresh' \in Contents
  BY <1>1 DEF Undo, Redo, ghostVars, TypeOK
<1> QED BY <1>2, <1>3, EditingKeeps DEF Undo, Redo, ghostVars
-----------------------------------------------------------------------------
(* Saving.                                                                 *)
LEMMA SavingKeeps ==
  ASSUME BufferInv, NEW i \in Saves, NEW s \in SaveState, save' = [save EXCEPT ![i] = s],
         IsOpen, s.file.mtime <= Len(log), Wrote(s),
         s.step = "finish" => s.file.state = "Present",
         file.state = "New" /\ s.step # "none" => s.isNew,
         UNCHANGED <<diskVars, viewVars, opening, textVars, file, savedVars, reload, ghostVars>>
  PROVE  BufferInv'
<1> USE DEF diskVars, viewVars, textVars, savedVars, ghostVars
<1>1. save \in [Saves -> SaveState]
  BY DEF BufferInv, TypeOK
<1>2. \A j \in Saves : save'[j] = IF j = i THEN s ELSE save[j]
  BY <1>1
<1>3. TypeOK'
  BY <1>1 DEF BufferInv, TypeOK
<1>4. Times' /\ Unopened'
  BY <1>2 DEF BufferInv, Times, Unopened, IsOpen
<1>5. SaveSound'
  BY <1>2 DEF BufferInv, SaveSound, Wrote
<1>6. OpenSound' /\ ReloadSound' /\ FileSound' /\ SavedSound'
  BY DEF BufferInv, OpenSound, ReloadSound, FileSound, SavedSound, Known, IsOpen
<1> QED BY <1>3, <1>4, <1>5, <1>6 DEF BufferInv

LEMMA SaveStartKeeps == ASSUME BufferInv, NEW i \in Saves, SaveStart(i) PROVE BufferInv'
<1> DEFINE s == [step |-> "write", text |-> text, isNew |-> file.state = "New",
                 file |-> NewFile, foreign |-> FALSE]
<1>1. s \in SaveState
  BY DiskStates DEF BufferInv, TypeOK, SaveState
<1>2. s.step = "write" /\ s.file.mtime = 0 /\ (file.state = "New" => s.isNew)
  BY DiskStates
<1>3. 0 <= Len(log)
  BY DEF BufferInv, TypeOK
<1>4. save' = [save EXCEPT ![i] = s] /\ IsOpen
  BY DEF SaveStart
<1> HIDE DEF s
<1>5. Wrote(s)
  BY <1>2 DEF Wrote
<1> QED BY <1>1, <1>2, <1>3, <1>4, <1>5, SavingKeeps DEF SaveStart

(* A save is of an open buffer.                                            *)
LEMMA SavesAreOpen ==
  ASSUME BufferInv, NEW i \in Saves, save[i].step # "none"
  PROVE  IsOpen
BY Beginnings DEF BufferInv, Unopened

LEMMA SaveFailKeeps == ASSUME BufferInv, NEW i \in Saves, SaveFail(i) PROVE BufferInv'
<1>1. IsOpen
  BY SavesAreOpen DEF SaveFail
<1>2. NoSave \in SaveState /\ NoSave.step = "none" /\ NoSave.file.mtime = 0 /\ Wrote(NoSave)
  BY Beginnings, DiskStates DEF Wrote
<1>3. 0 <= Len(log)
  BY DEF BufferInv, TypeOK
<1> QED BY <1>1, <1>2, <1>3, SavingKeeps DEF SaveFail

LEMMA SaveLookKeeps == ASSUME BufferInv, NEW i \in Saves, SaveLook(i) PROVE BufferInv'
<1> DEFINE s == [save[i] EXCEPT !.step = "finish", !.file = Present(entry)]
<1>1. save[i] \in SaveState /\ save[i].step = "stated" /\ stat = entry /\ entry # 0
  BY DEF SaveLook, BufferInv, TypeOK
<1>2. entry \in Mtimes /\ entry <= Len(log)
  BY BufferAssumption DEF BufferInv, TypeOK, Mtimes
<1>3. /\ Present(entry) \in DiskState /\ Present(entry).state = "Present"
      /\ Present(entry).mtime = entry
  BY <1>1, <1>2, DiskStates
<1>4. /\ s \in SaveState /\ s.step = "finish" /\ s.file = Present(entry)
      /\ s.text = save[i].text /\ s.isNew = save[i].isNew /\ s.foreign = save[i].foreign
  BY <1>1, <1>3 DEF SaveState
<1>5. IsOpen
  BY <1>1, SavesAreOpen
<1>6. save' = [save EXCEPT ![i] = s]
  BY DEF SaveLook
<1> HIDE DEF s
<1>7. Wrote(s)
  BY <1>1, <1>3, <1>4 DEF BufferInv, SaveSound, Wrote
<1>8. file.state = "New" => s.isNew
  BY <1>1, <1>4 DEF BufferInv, SaveSound
<1>9. s.file.mtime <= Len(log) /\ s.file.state = "Present"
  BY <1>2, <1>3, <1>4
<1>10. UNCHANGED <<diskVars, viewVars, opening, textVars, file, savedVars, reload, ghostVars>>
  BY DEF SaveLook
<1> QED BY <1>4, <1>5, <1>6, <1>7, <1>8, <1>9, <1>10, SavingKeeps
(* A save that nobody has written over records the time and the text of    *)
(* what is on disk; one that somebody has is not trusted.                  *)
LEMMA SaveFinishKeeps == ASSUME BufferInv, NEW i \in Saves, SaveFinish(i) PROVE BufferInv'
<1> DEFINE s == save[i]
<1>1. /\ s \in SaveState /\ s.step = "finish" /\ s.file \in DiskState
      /\ s.text \in Contents /\ s.foreign \in BOOLEAN
  BY DEF SaveFinish, BufferInv, TypeOK, SaveState
<1>2. /\ s.file.state = "Present" /\ s.file.mtime \in 1 .. Len(log)
      /\ ~s.foreign => disk # 0 /\ log[disk] = s.text /\ s.file.mtime = disk
      /\ file.state = "New" => s.isNew
  <2>1. s.file.state = "Present" /\ (file.state = "New" => s.isNew)
        /\ s.file.mtime <= Len(log) /\ Wrote(s)
    BY <1>1 DEF BufferInv, SaveSound, Times
  <2>2. s.file.mtime \in Mtimes /\ s.file.mtime # 0
    BY <1>1, <2>1, DiskStates
  <2> QED BY <1>1, <2>1, <2>2, BufferAssumption DEF Wrote, Mtimes, BufferInv, TypeOK
<1>3. IsOpen
  BY <1>1, SavesAreOpen
<1>4. /\ UNCHANGED <<log, disk, stat, entry, opening, text, version, undo, redo, deletes, fresh>>
      /\ saved' = s.text /\ savedMtime' = s.file.mtime /\ conflict' = FALSE
      /\ overlapped' = (s.foreign \/ (overlapped /\ file'.mtime # s.file.mtime))
      /\ save' = [save EXCEPT ![i] = NoSave]
  BY DEF SaveFinish, SavedText, SavedMtime, diskVars, viewVars, textVars
<1>5. /\ s.isNew => file' = s.file
      /\ ~s.isNew => file' = file /\ reload' = reload
      /\ reload' \in ReloadState
      /\ reload' = reload \/ (reload'.step = "spawned" /\ reload'.mtime = 0)
  <2>1. CASE s.isNew
    <3>1. FileUpdated(s.file)
      BY <2>1 DEF SaveFinish
    <3> QED BY <1>1, <2>1, <3>1, FileUpdatedTypes DEF BufferInv, TypeOK
  <2>2. CASE ~s.isNew
    <3>1. UNCHANGED <<file, reload>>
      BY <2>2 DEF SaveFinish
    <3> QED BY <2>2, <3>1 DEF BufferInv, TypeOK
  <2> QED BY <2>1, <2>2
<1>6. save \in [Saves -> SaveState] /\ NoSave \in SaveState /\ NoSave.step = "none"
      /\ NoSave.file.mtime = 0
  BY Beginnings, DiskStates DEF BufferInv, TypeOK
<1>7. \A j \in Saves : save'[j] = IF j = i THEN NoSave ELSE save[j]
  BY <1>4, <1>6
<1> HIDE DEF s
<1>8. file' \in DiskState /\ file'.mtime <= Len(log) /\ file'.state # "New"
      /\ (file'.state = "Deleted" => file' = file /\ entry = 0)
  BY <1>1, <1>2, <1>5 DEF BufferInv, TypeOK, Times, FileSound
<1>9. TypeOK'
  <2>1. save' \in [Saves -> SaveState]
    BY <1>4, <1>6
  <2>2. overlapped' \in BOOLEAN /\ conflict' \in BOOLEAN
    BY <1>1, <1>4
  <2>3. saved' \in Contents /\ savedMtime' \in 0 .. Len(log)
    BY <1>1, <1>2, <1>4
  <2> QED BY <1>4, <1>5, <1>8, <2>1, <2>2, <2>3 DEF BufferInv, TypeOK
<1>10. Times'
  BY <1>4, <1>5, <1>6, <1>7, <1>8 DEF BufferInv, Times, TypeOK
<1>11. Unopened' /\ OpenSound'
  BY <1>3, <1>4 DEF Unopened, OpenSound, IsOpen
<1>12. SaveSound'
  BY <1>4, <1>6, <1>7, <1>8 DEF BufferInv, SaveSound, Wrote
<1>13. ReloadSound' /\ SavedSound'
  BY <1>1, <1>2, <1>4, <1>5, <1>8 DEF BufferInv, ReloadSound, SavedSound
<1>14. FileSound'
  <2>1. ASSUME Known', file'.mtime # disk
        PROVE  /\ saved' = log[disk]
               /\ reload'.step \in {"diff", "apply"} => reload'.new = log[disk]
    <3>1. ~s.foreign /\ ~s.isNew /\ ~overlapped
      BY <1>2, <1>4, <1>5, <2>1 DEF Known
    <3>2. Known /\ file.mtime # disk
      BY <1>3, <1>4, <1>5, <2>1, <3>1 DEF Known
    <3> QED BY <1>2, <1>4, <1>5, <3>1, <3>2 DEF BufferInv, FileSound
  <2> QED BY <1>4, <1>8, <2>1 DEF FileSound
<1> QED BY <1>9, <1>10, <1>11, <1>12, <1>13, <1>14 DEF BufferInv
-----------------------------------------------------------------------------
(* Reloading.                                                              *)
LEMMA ReloadingKeeps ==
  ASSUME BufferInv, IsOpen, reload' \in ReloadState, reload'.mtime <= Len(log),
         file.state = "New" => reload'.mtime = 0,
         reload'.step \in {"diff", "apply"} =>
           \/ disk # 0 /\ reload'.new = log[disk]
           \/ /\ reload.step \in {"diff", "apply"}
              /\ reload'.new = reload.new /\ reload'.mtime = reload.mtime,
         UNCHANGED <<diskVars, viewVars, opening, textVars, file, savedVars, save, ghostVars>>
  PROVE  BufferInv'
<1> USE DEF diskVars, viewVars, textVars, savedVars, ghostVars
<1>1. TypeOK' /\ Times' /\ Unopened'
  BY DEF BufferInv, TypeOK, Times, Unopened, IsOpen
<1>2. OpenSound' /\ SaveSound' /\ SavedSound'
  BY DEF BufferInv, OpenSound, SaveSound, Wrote, SavedSound
<1>3. ReloadSound'
  BY DEF BufferInv, ReloadSound
<1>4. FileSound'
  BY DEF BufferInv, FileSound, Known, IsOpen
<1> QED BY <1>1, <1>2, <1>3, <1>4 DEF BufferInv

LEMMA ReloadsAreOpen ==
  ASSUME BufferInv, reload.step # "none"
  PROVE  IsOpen
BY Beginnings DEF BufferInv, Unopened

LEMMA ReloadStartKeeps == BufferInv /\ ReloadStart => BufferInv'
<1> SUFFICES ASSUME BufferInv, ReloadStart PROVE BufferInv'
  OBVIOUS
<1>1. reload' \in ReloadState /\ reload'.step = "spawned" /\ reload'.mtime = 0 /\ 0 <= Len(log)
  BY SpawnedReload DEF ReloadStart, BufferInv, TypeOK
<1> QED BY <1>1, ReloadingKeeps DEF ReloadStart

LEMMA ReloadBeginKeeps == BufferInv /\ ReloadBegin => BufferInv'
<1> SUFFICES ASSUME BufferInv, ReloadBegin PROVE BufferInv'
  OBVIOUS
<1>1. reload \in ReloadState /\ file.mtime \in Mtimes
  BY DiskStates DEF BufferInv, TypeOK
<1>2. reload' \in ReloadState /\ reload'.step = "load" /\ reload'.mtime = file.mtime
  <2>1. reload' = [reload EXCEPT !.step = "load", !.mtime = file.mtime]
    BY DEF ReloadBegin
  <2> QED BY <1>1, <2>1 DEF ReloadState
<1>3. file.mtime <= Len(log) /\ (file.state = "New" => file.mtime = 0)
  BY DiskStates DEF BufferInv, TypeOK, Times
<1>4. IsOpen
  BY ReloadsAreOpen DEF ReloadBegin
<1> QED BY <1>2, <1>3, <1>4, ReloadingKeeps DEF ReloadBegin

LEMMA ReloadLoadKeeps == BufferInv /\ ReloadLoad => BufferInv'
<1> SUFFICES ASSUME BufferInv, ReloadLoad PROVE BufferInv'
  OBVIOUS
<1>1. reload \in ReloadState /\ (disk # 0 => log[disk] \in Contents) /\ 0 <= Len(log)
  BY DEF BufferInv, TypeOK
<1>2. reload.mtime <= Len(log) /\ (file.state = "New" => reload.mtime = 0)
  BY DEF BufferInv, Times, ReloadSound
<1>3. IsOpen
  BY ReloadsAreOpen DEF ReloadLoad
<1>4. UNCHANGED <<diskVars, viewVars, opening, textVars, file, savedVars, save, ghostVars>>
  BY DEF ReloadLoad
<1>5. CASE disk = 0
  <2>1. reload' \in ReloadState /\ reload'.step = "none" /\ reload'.mtime = 0
    BY <1>5, Beginnings DEF ReloadLoad
  <2> QED BY <1>1, <1>3, <1>4, <2>1, ReloadingKeeps
<1>6. CASE disk # 0
  <2>1. reload' \in ReloadState /\ reload'.new = log[disk] /\ reload'.mtime = reload.mtime
    <3>1. reload' = [reload EXCEPT !.step = "diff", !.new = log[disk]]
      BY <1>6 DEF ReloadLoad
    <3> QED BY <1>1, <1>6, <3>1 DEF ReloadState
  <2> QED BY <1>2, <1>3, <1>4, <1>6, <2>1, ReloadingKeeps
<1> QED BY <1>5, <1>6

LEMMA ReloadDiffKeeps == BufferInv /\ ReloadDiff => BufferInv'
<1> SUFFICES ASSUME BufferInv, ReloadDiff PROVE BufferInv'
  OBVIOUS
<1>1. reload \in ReloadState /\ text \in Contents /\ version \in 0 .. MaxVersion
  BY DEF BufferInv, TypeOK
<1>2. reload' \in ReloadState /\ reload'.new = reload.new /\ reload'.mtime = reload.mtime
  <2>1. reload' = [reload EXCEPT !.step = "apply", !.base = text, !.baseVersion = version]
    BY DEF ReloadDiff
  <2> QED BY <1>1, <2>1 DEF ReloadState
<1>3. reload.mtime <= Len(log) /\ (file.state = "New" => reload.mtime = 0) /\ reload.step = "diff"
  BY DEF BufferInv, Times, ReloadSound, ReloadDiff
<1>4. IsOpen
  BY ReloadsAreOpen DEF ReloadDiff
<1> QED BY <1>2, <1>3, <1>4, ReloadingKeeps DEF ReloadDiff

(* What a reload that ends leaves: the saved text is that of its time, or  *)
(* stays; the text itself is of no matter.                                 *)
LEMMA ReloadEnds ==
  ASSUME BufferInv, IsOpen, reload.step = "apply", reload' = NoReload,
         text' \in Contents, version' \in 0 .. MaxVersion,
         undo' \in Seq(Contents), redo' \in Seq(Contents), conflict' \in BOOLEAN,
         \/ /\ saved' = reload.new /\ savedMtime' = reload.mtime
            /\ overlapped' = (overlapped /\ reload.mtime # disk)
         \/ /\ saved' = reload.prev /\ savedMtime' = savedMtime
            /\ overlapped' = (overlapped \/ saved # reload.prev),
         UNCHANGED <<diskVars, viewVars, opening, file, save, fresh>>
  PROVE  BufferInv'
<1> USE DEF diskVars, viewVars
<1>1. /\ reload \in ReloadState /\ reload.new \in Contents /\ reload.prev \in Contents
      /\ reload.mtime \in 0 .. Len(log) /\ NoReload \in ReloadState
      /\ NoReload.step = "none" /\ NoReload.mtime = 0
  BY Beginnings, BufferAssumption DEF BufferInv, TypeOK, Times, ReloadState, Mtimes
<1>2. TypeOK'
  <2>1. saved' \in Contents /\ savedMtime' \in 0 .. Len(log) /\ overlapped' \in BOOLEAN
    BY <1>1 DEF BufferInv, TypeOK
  <2> QED BY <1>1, <2>1 DEF BufferInv, TypeOK
<1>3. Times' /\ Unopened' /\ OpenSound'
  BY <1>1 DEF BufferInv, TypeOK, Times, Unopened, IsOpen, OpenSound
<1>4. SaveSound' /\ ReloadSound'
  BY <1>1 DEF BufferInv, SaveSound, Wrote, ReloadSound
<1>5. SavedSound'
  BY <1>1 DEF BufferInv, SavedSound, ReloadSound
<1>6. FileSound'
  BY <1>1 DEF BufferInv, FileSound, Known, IsOpen, ReloadSound
<1> QED BY <1>2, <1>3, <1>4, <1>5, <1>6 DEF BufferInv

LEMMA ReloadApplyKeeps == BufferInv /\ ReloadApply => BufferInv'
<1> SUFFICES ASSUME BufferInv, ReloadApply PROVE BufferInv'
  OBVIOUS
<1>1. TypeOK /\ Append(undo, text) \in Seq(Contents) /\ <<>> \in Seq(Contents)
      /\ reload.new \in Contents
  BY DEF BufferInv, TypeOK, ReloadState
<1>2. text' \in Contents /\ version' \in 0 .. MaxVersion
      /\ undo' \in Seq(Contents) /\ redo' \in Seq(Contents)
  <2>1. CASE UNCHANGED textVars
    BY <1>1, <2>1 DEF TypeOK, textVars
  <2>2. CASE NewVersion(reload.new, Append(undo, text), <<>>)
    BY <1>1, <2>2, VersionTypes
  <2> QED BY <2>1, <2>2 DEF ReloadApply
<1>3. IsOpen
  BY ReloadsAreOpen DEF ReloadApply
<1> QED BY <1>2, <1>3, ReloadEnds DEF ReloadApply

LEMMA ReloadConflictKeeps == BufferInv /\ ReloadConflict => BufferInv'
<1> SUFFICES ASSUME BufferInv, ReloadConflict PROVE BufferInv'
  OBVIOUS
<1>1. /\ text' \in Contents /\ version' \in 0 .. MaxVersion
      /\ undo' \in Seq(Contents) /\ redo' \in Seq(Contents) /\ conflict' \in BOOLEAN
  BY DEF ReloadConflict, BufferInv, TypeOK, textVars
<1>2. IsOpen
  BY ReloadsAreOpen DEF ReloadConflict
<1> QED BY <1>1, <1>2, ReloadEnds DEF ReloadConflict
-----------------------------------------------------------------------------
LEMMA BufferKeeps == BufferInv /\ [Next]_vars => BufferInv'
<1> SUFFICES ASSUME BufferInv, [Next]_vars PROVE BufferInv'
  OBVIOUS
<1>1. CASE ForeignWrite \/ ForeignDelete
  BY <1>1, ForeignWriteKeeps, ForeignDeleteKeeps
<1>2. CASE Scan \/ Deliver
  BY <1>2, ScanKeeps, DeliverKeeps
<1>3. CASE OpenStep
  BY <1>3, OpenLoadKeeps, OpenLookKeeps, OpenBuildKeeps, OpenFailKeeps DEF OpenStep
<1>4. CASE ReloadStep
  BY <1>4, ReloadBeginKeeps, ReloadLoadKeeps, ReloadDiffKeeps, ReloadApplyKeeps,
     ReloadConflictKeeps DEF ReloadStep
<1>5. CASE UserStep
  BY <1>5, EditKeeps, UndoKeeps, ReloadStartKeeps, SaveStartKeeps DEF UserStep
<1>6. CASE \E i \in Saves : SaveStep(i)
  BY <1>6, SaveWriteKeeps, SaveFailKeeps, SaveLookKeeps, SaveFinishKeeps DEF SaveStep
<1>7. CASE UNCHANGED vars
  <2> USE <1>7 DEF vars, diskVars, viewVars, textVars, savedVars, ghostVars
  <2>1. TypeOK' /\ Times' /\ Unopened' /\ OpenSound'
    BY DEF BufferInv, TypeOK, Times, Unopened, IsOpen, OpenSound
  <2>2. SaveSound' /\ ReloadSound' /\ FileSound' /\ SavedSound'
    BY DEF BufferInv, SaveSound, Wrote, ReloadSound, FileSound, Known, IsOpen, SavedSound
  <2> QED BY <2>1, <2>2 DEF BufferInv
<1> QED BY <1>1, <1>2, <1>3, <1>4, <1>5, <1>6, <1>7 DEF Next

(* What is known of the file, of the tasks that save, load and open it and *)
(* of the writes they raced with holds in every state (did_save, did_reload*)
(* and file_updated of buffer.rs, save_buffer_at of buffer_store.rs).      *)
THEOREM BufferInvariant == Spec => []BufferInv
BY BufferInit, BufferKeeps, PTL DEF Spec

(* The buffer, its tasks and its file stay in the states listed.           *)
THEOREM BufferTypes == Spec => []TypeOK
<1>1. BufferInv => TypeOK
  BY DEF BufferInv
<1> QED BY <1>1, BufferInvariant, PTL

(* At rest, a buffer that shows no change and recorded the time of what is *)
(* on disk holds it (did_save, did_reload and is_dirty of buffer.rs).      *)
LEMMA CleanMatches == BufferInv => CleanMatchesDisk
<1> SUFFICES ASSUME BufferInv, AtRest, ~IsDirty, ~overlapped, disk # 0, savedMtime = disk
             PROVE  text = log[disk]
  BY DEF CleanMatchesDisk
<1>1. saved = log[disk]
  BY DEF BufferInv, SavedSound
<1>2. file.state = "Present"
  <2>1. file.state # "New"
    BY DEF BufferInv, FileSound
  <2>2. file.state # "Deleted"
    BY DEF BufferInv, FileSound, AtRest
  <2> QED BY <2>1, <2>2, DiskStates DEF BufferInv, TypeOK
<1>3. text = saved
  BY <1>2 DEF IsDirty, HasUnsavedEdits
<1> QED BY <1>1, <1>3

THEOREM CleanBufferMatchesDisk == Spec => []CleanMatchesDisk
BY CleanMatches, BufferInvariant, PTL

(* At rest, edits on top of something else than what is on disk are shown  *)
(* as a conflict (has_conflict and file_updated of buffer.rs).             *)
LEMMA ForeignTextConflicts == BufferInv => ForeignTextIsConflict
<1> SUFFICES ASSUME BufferInv, AtRest, HasUnsavedEdits, ~overlapped, disk # 0,
                    text # log[disk], saved # log[disk]
             PROVE  HasConflict
  BY DEF ForeignTextIsConflict
<1>1. Known /\ IsOpen /\ entry = disk
  BY DEF AtRest, Known
<1>2. file.state = "Present" /\ file.mtime = disk
  <2>1. file.state # "New" /\ file.state # "Deleted" /\ file.mtime = disk
    BY <1>1 DEF BufferInv, FileSound
  <2> QED BY <2>1, DiskStates DEF BufferInv, TypeOK
<1>3. savedMtime < disk
  <2>1. savedMtime # disk
    BY DEF BufferInv, SavedSound
  <2>2. disk = Len(log) /\ savedMtime \in 0 .. Len(log)
    BY DEF BufferInv, Times, TypeOK
  <2> QED BY <2>1, <2>2
<1> QED BY <1>2, <1>3 DEF HasConflict

THEOREM ForeignTextIsFlagged == Spec => []ForeignTextIsConflict
BY ForeignTextConflicts, BufferInvariant, PTL
=============================================================================
