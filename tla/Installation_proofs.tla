-------------------------- MODULE Installation_proofs --------------------------
(***************************************************************************)
(* For any number of windows, helpers, releases, failures and starts: the  *)
(* updater keeps its promises while its process ends and starts, an update *)
(* that is offered is staged, a program stays installed, and the version   *)
(* that was promised is the one that starts.                               *)
(***************************************************************************)
EXTENDS Installation, TLAPS
-----------------------------------------------------------------------------
(***************************************************************************)
(* The checks: no manual check is forgotten, and "You're up to date!" is   *)
(* true, for any number of windows, polls and releases.                    *)
(***************************************************************************)
(* The status says that an update is under way exactly while one is, every *)
(* window that waits has seen it begin, and errors met before the poll in  *)
(* progress have other identities than the one it may end with.            *)
CheckInv ==
  /\ TypeOK
  /\ NoCheckForgotten
  /\ Busy(status) <=> poll.step \in {"fetch", "download", "install"}
  /\ poll.step # "none" => polls >= 1
  /\ status.step = "Failed" =>
       status.error.id <= polls /\ (poll.step # "none" => status.error.id < polls)
  /\ \A w \in Windows : check[w].pending =>
       /\ check[w].started <=> poll.step # "spawned"
       /\ check[w].initial.step = "Failed" => check[w].initial.error.id < polls

(* The operators the actions are built from stay within their types.       *)
LEMMA StatusType ==
  ASSUME TypeOK, polls >= 1, NEW cause \in Causes, NEW v \in Versions
  PROVE  /\ Failed(cause) \in UpdateStatus /\ Failed(cause).step = "Failed"
         /\ With("Downloading", v) \in UpdateStatus /\ With("Installing", v) \in UpdateStatus
         /\ With("Updated", v) \in UpdateStatus
  BY BoundAssumption DEF TypeOK, UpdateStatus, Failed, With, Causes, Versions

LEMMA PlainType ==
  /\ Plain("Idle") \in UpdateStatus /\ Plain("Checking") \in UpdateStatus
  /\ Plain("Idle").step = "Idle" /\ Plain("Checking").step = "Checking"
  BY DEF UpdateStatus, Plain, Versions

LEMMA ObservedType ==
  ASSUME NEW c \in ManualCheck, NEW s \in UpdateStatus, NEW type \in {"Automatic", "Manual"}
  PROVE  Observed(c, s, type) \in ManualCheck
  <1>1. \A a \in {"none", "upToDate", "failed", "updated"} : Answered(a) \in ManualCheck
    BY PlainType DEF Answered, NoCheck, ManualCheck
  <1>2. [c EXCEPT !.started = TRUE] \in ManualCheck
    BY DEF ManualCheck
  <1> QED BY <1>1, <1>2 DEF Observed

LEMMA ObservedPending ==
  ASSUME NEW c \in ManualCheck, NEW s \in UpdateStatus, NEW type \in {"Automatic", "Manual"},
         Observed(c, s, type).pending
  PROVE  c.pending
  BY DEF Observed

LEMMA ObservedBusy ==
  ASSUME NEW c \in ManualCheck, NEW s \in UpdateStatus, c.pending, Busy(s)
  PROVE  Observed(c, s, "Manual") = [c EXCEPT !.started = TRUE]
  BY DEF Observed, Busy

LEMMA ObservedWaits ==
  ASSUME NEW c \in ManualCheck, NEW s \in UpdateStatus, ~Busy(s), ~c.started,
         Observed(c, s, "Manual").pending
  PROVE  Observed(c, s, "Manual") = c
  <1>1. \A a : Answered(a).pending = FALSE
    BY DEF Answered, NoCheck
  <1> QED BY <1>1 DEF Observed

(* A window that has seen the update begin, or that meets a new error, is  *)
(* answered by a status that ends it.                                      *)
LEMMA ObservedEnd ==
  ASSUME NEW c \in ManualCheck, NEW s \in UpdateStatus, ~Busy(s),
         c.started \/ (s.step = "Failed" /\ c.initial # s)
  PROVE  ~Observed(c, s, "Manual").pending
  <1>1. s.step \in {"Idle", "Updated", "Failed"}
    BY DEF UpdateStatus, Busy
  <1>2. \A a : Answered(a).pending = FALSE
    BY DEF Answered, NoCheck
  <1> QED BY <1>1, <1>2 DEF Observed, Busy

-----------------------------------------------------------------------------
LEMMA CheckInit == Init => CheckInv
  <1> SUFFICES ASSUME Init PROVE CheckInv OBVIOUS
  <1>1. NoCheck \in ManualCheck
    BY PlainType DEF NoCheck, ManualCheck
  <1>2. TypeOK
    BY <1>1, PlainType, BoundAssumption DEF Init, TypeOK, Versions, PollState, NoPoll
  <1> QED
    BY <1>2 DEF Init, CheckInv, NoCheckForgotten, Plain, NoPoll, NoCheck, Busy

(* What a step of the poll in progress reports keeps the windows in line:  *)
(* they go on waiting, having seen it begin, or it ends and all have been  *)
(* answered.                                                               *)
LEMMA ReportStep ==
  ASSUME CheckInv, poll.step # "none", NEW s \in UpdateStatus, NEW p \in PollState,
         Report(s, p), UNCHANGED <<latest, current, automatic, checkType, dismissed, polls>>,
         ready' \in Versions,
         \/ p.step \in {"fetch", "download", "install"} /\ Busy(s)
         \/ /\ p.step = "none" /\ ~Busy(s)
            /\ \/ poll.step # "spawned"
               \/ s.step = "Failed" /\ s.error.id = polls
               \/ s.step = "Idle" /\ checkType = "Automatic"
            /\ s.step = "Failed" => s.error.id <= polls
  PROVE  CheckInv'
  <1>1. TypeOK'
    <2>1. check' \in [Windows -> ManualCheck]
      BY ObservedType DEF CheckInv, TypeOK, Report
    <2> QED BY <2>1 DEF CheckInv, TypeOK, Report
  <1>2. (Busy(status) <=> poll.step \in {"fetch", "download", "install"})'
    BY DEF Report, Busy
  <1>3. (poll.step # "none" => polls >= 1)'
    BY DEF CheckInv, Report
  <1>4. (status.step = "Failed" =>
          status.error.id <= polls /\ (poll.step # "none" => status.error.id < polls))'
    BY BoundAssumption DEF CheckInv, TypeOK, Report, Busy
  <1>5. ASSUME NEW w \in Windows, check'[w].pending
        PROVE  /\ p.step # "none" /\ checkType = "Manual"
               /\ check'[w].started
               /\ check'[w].initial.step = "Failed" => check'[w].initial.error.id < polls
    <2>1. check[w] \in ManualCheck /\ check'[w] = Observed(check[w], s, checkType)
      BY DEF CheckInv, TypeOK, Report
    <2>2. check[w].pending
      BY <1>5, <2>1, ObservedPending DEF CheckInv, TypeOK
    <2>3. checkType = "Manual"
      BY <2>2 DEF CheckInv, NoCheckForgotten
    <2>4. check[w].started <=> poll.step # "spawned"
      BY <2>2 DEF CheckInv
    <2>5. check[w].initial.step = "Failed" => check[w].initial.error.id < polls
      BY <2>2 DEF CheckInv
    <2>6. CASE Busy(s)
      <3>1. check'[w] = [check[w] EXCEPT !.started = TRUE]
        BY <2>1, <2>2, <2>3, <2>6, ObservedBusy
      <3>2. check'[w].started /\ check'[w].initial = check[w].initial
        BY <2>1, <3>1 DEF ManualCheck
      <3> QED BY <2>3, <2>5, <2>6, <3>2
    <2>7. CASE ~Busy(s)
      <3>1. check[w].started \/ (s.step = "Failed" /\ check[w].initial # s)
        <4>1. CASE poll.step # "spawned" BY <2>4, <4>1
        <4>2. CASE s.step = "Failed" /\ s.error.id = polls
          <5>1. polls \in Nat BY BoundAssumption DEF CheckInv, TypeOK
          <5> QED BY <2>5, <4>2, <5>1
        <4> QED BY <2>3, <2>7, <4>1, <4>2
      <3> QED BY <1>5, <2>1, <2>3, <2>7, <3>1, ObservedEnd
    <2> QED BY <2>6, <2>7
  <1>6. p = poll' /\ p.step # "spawned"
    BY DEF Report
  <1> QED
    BY <1>1, <1>2, <1>3, <1>4, <1>5, <1>6 DEF CheckInv, NoCheckForgotten

(* A check joins the poll in progress, or starts one, before any window    *)
(* sees its status change.                                                 *)
LEMMA PollStep ==
  ASSUME CheckInv, NEW asked \in {"Automatic", "Manual"}, Poll(asked),
         NEW c \in [Windows -> ManualCheck],
         check' = [w \in Windows |-> Observed(c[w], status, checkType')],
         \A w \in Windows : c[w].pending =>
           /\ poll'.step # "none" /\ checkType' = "Manual"
           /\ c[w].started <=> poll'.step # "spawned"
           /\ c[w].initial.step = "Failed" => c[w].initial.error.id < polls'
  PROVE  CheckInv'
  <1> USE BoundAssumption
  <1>1. /\ poll.step = "none" => polls' = polls + 1 /\ poll'.step = "spawned" /\ polls < MaxPolls
        /\ poll.step # "none" => polls' = polls /\ poll' = poll
        /\ checkType' \in {"Automatic", "Manual"} /\ dismissed' \in UpdateStatus \cup {NoError}
        /\ status' = status /\ poll' \in PollState
    <2>1. [NoPoll EXCEPT !.step = "spawned"] \in PollState
          /\ [NoPoll EXCEPT !.step = "spawned"].step = "spawned"
      BY PlainType DEF NoPoll, PollState, Versions
    <2> QED BY <2>1 DEF CheckInv, TypeOK, Poll, JoinedType
  <1>2. TypeOK'
    <2>1. check' \in [Windows -> ManualCheck]
      BY <1>1, ObservedType DEF CheckInv, TypeOK
    <2>2. polls' \in 0 .. MaxPolls
      BY <1>1 DEF CheckInv, TypeOK
    <2> QED BY <1>1, <2>1, <2>2 DEF CheckInv, TypeOK, Poll
  <1>3. (Busy(status) <=> poll.step \in {"fetch", "download", "install"})'
    BY <1>1 DEF CheckInv, Busy
  <1>4. (poll.step # "none" => polls >= 1)'
    BY <1>1 DEF CheckInv, TypeOK
  <1>5. (status.step = "Failed" =>
          status.error.id <= polls /\ (poll.step # "none" => status.error.id < polls))'
    <2>1. status.step = "Failed" => status.error.id \in Nat
      BY DEF CheckInv, TypeOK, UpdateStatus, Plain, NoError
    <2> QED BY <1>1, <2>1 DEF CheckInv, TypeOK
  <1>6. ASSUME NEW w \in Windows, check'[w].pending
        PROVE  /\ c[w].pending /\ poll'.step # "none" /\ checkType' = "Manual"
               /\ check'[w].started <=> poll'.step # "spawned"
               /\ check'[w].initial = c[w].initial
    <2>1. check'[w] = Observed(c[w], status, checkType') /\ c[w] \in ManualCheck
          /\ status \in UpdateStatus
      BY DEF CheckInv, TypeOK
    <2>2. c[w].pending
      BY <1>1, <1>6, <2>1, ObservedPending
    <2>3. CASE Busy(status)
      <3>1. check'[w] = [c[w] EXCEPT !.started = TRUE]
        BY <2>1, <2>2, <2>3, ObservedBusy
      <3>2. poll'.step # "spawned"
        BY <1>1, <1>3, <2>3
      <3> QED BY <2>1, <2>2, <3>1, <3>2 DEF ManualCheck
    <2>4. CASE ~Busy(status)
      <3>1. poll'.step = "spawned"
        BY <1>1, <1>3, <2>2, <2>4 DEF PollState
      <3>2. ~c[w].started
        BY <2>2, <3>1
      <3>3. check'[w] = c[w]
        BY <1>6, <2>1, <2>2, <2>4, <3>2, ObservedWaits
      <3> QED BY <2>2, <3>1, <3>2, <3>3
    <2> QED BY <2>3, <2>4
  <1> QED
    BY <1>2, <1>3, <1>4, <1>5, <1>6 DEF CheckInv, NoCheckForgotten

LEMMA UpdateStepKeeps == CheckInv /\ UpdateStep => CheckInv'
  <1> SUFFICES ASSUME CheckInv, UpdateStep PROVE CheckInv' OBVIOUS
  <1> USE PlainType
  <1>1. poll \in PollState /\ status \in UpdateStatus /\ NoPoll \in PollState /\ NoPoll.step = "none"
    <2>1. poll \in PollState /\ status \in UpdateStatus
      BY DEF CheckInv, TypeOK
    <2>2. NoPoll \in PollState /\ NoPoll.step = "none"
      BY BoundAssumption DEF PollState, NoPoll, Versions
    <2> QED BY <2>1, <2>2
  <1>2. \A step \in {"fetch", "download", "install"}, old \in UpdateStatus, v \in Versions :
          LET p == [poll EXCEPT !.step = step, !.previous = old, !.version = v]
          IN  p \in PollState /\ p.step = step
    BY <1>1 DEF PollState
  <1>3. \A step \in {"Downloading", "Installing", "Updated"}, v \in Versions :
          /\ With(step, v) \in UpdateStatus
          /\ Busy(With(step, v)) <=> step # "Updated"
          /\ With(step, v).step = step
    BY DEF UpdateStatus, With, Busy
  <1>4. CASE Begin
    <2>1. [poll EXCEPT !.step = "fetch", !.previous = status] \in PollState
      BY <1>1 DEF PollState
    <2>2. Busy(Plain("Checking"))
      BY DEF Busy, Plain
    <2>3. [poll EXCEPT !.step = "fetch", !.previous = status].step = "fetch"
      BY <1>1 DEF PollState
    <2> QED BY <1>4, <2>1, <2>2, <2>3, ReportStep DEF Begin, CheckInv, TypeOK
  <1>5. CASE NothingNewer
    <2> DEFINE s == IF poll.previous.step = "Updated" THEN poll.previous ELSE Plain("Idle")
    <2>1. s \in UpdateStatus /\ s.step \in {"Idle", "Updated"}
      BY <1>1 DEF PollState
    <2> QED BY <1>1, <1>5, <2>1, ReportStep DEF NothingNewer, CheckInv, TypeOK, Busy
  <1>6. CASE Newer
    <2>1. latest \in Versions
      BY DEF CheckInv, TypeOK
    <2>2. /\ [poll EXCEPT !.step = "download", !.version = latest] \in PollState
          /\ [poll EXCEPT !.step = "download", !.version = latest].step = "download"
      BY <1>1, <2>1 DEF PollState
    <2> QED BY <1>3, <1>6, <2>1, <2>2, ReportStep DEF Newer, CheckInv, TypeOK
  <1>7. CASE Downloaded
    <2>1. poll.version \in Versions
      BY <1>1 DEF PollState
    <2>2. /\ [poll EXCEPT !.step = "install"] \in PollState
          /\ [poll EXCEPT !.step = "install"].step = "install"
      BY <1>1 DEF PollState
    <2> QED BY <1>3, <1>7, <2>1, <2>2, ReportStep DEF Downloaded, CheckInv, TypeOK
  <1>8. CASE Installed
    <2>1. poll.version \in Versions
      BY <1>1 DEF PollState
    <2> QED BY <1>1, <1>3, <1>8, <2>1, ReportStep DEF Installed, CheckInv, TypeOK
  <1>9. CASE Fail
    <2>1. PICK cause \in Causes :
            /\ poll.step \in {"spawned", "fetch", "download", "install"}
            /\ poll.step = "spawned" => cause = "dependency"
            /\ Report(StatusAfter(cause), NoPoll)
            /\ UNCHANGED <<latest, current, ready, automatic, checkType, dismissed, polls>>
      BY <1>9 DEF Fail
    <2>2. Failed(cause) \in UpdateStatus /\ Failed(cause).step = "Failed"
          /\ Failed(cause).error.id = polls
      <3>1. polls >= 1 /\ TypeOK
        BY <2>1 DEF CheckInv
      <3>2. Failed(cause) \in UpdateStatus /\ Failed(cause).step = "Failed"
        BY <3>1, StatusType, BoundAssumption DEF Versions
      <3> QED BY <3>2 DEF Failed
    <2>3. /\ StatusAfter(cause) \in UpdateStatus
          /\ StatusAfter(cause).step \in {"Idle", "Failed"}
          /\ StatusAfter(cause).step = "Failed" => StatusAfter(cause).error.id = polls
          /\ poll.step # "spawned" \/ StatusAfter(cause).step = "Failed"
      BY <2>1, <2>2 DEF StatusAfter
    <2>4. polls \in Nat
      BY DEF CheckInv, TypeOK
    <2> QED BY <1>1, <2>1, <2>3, <2>4, ReportStep DEF CheckInv, TypeOK, Busy
  <1> QED BY <1>4, <1>5, <1>6, <1>7, <1>8, <1>9 DEF UpdateStep

LEMMA CheckStep == CheckInv /\ [Next]_vars => CheckInv'
  <1> SUFFICES ASSUME CheckInv, [Next]_vars PROVE CheckInv' OBVIOUS
  <1> USE BoundAssumption
  <1>1. CASE Release
    BY <1>1 DEF Release, updaterVars, CheckInv, TypeOK, Versions, NoCheckForgotten
  <1>2. CASE ChangeSetting
    BY <1>2 DEF ChangeSetting, updaterVars, CheckInv, TypeOK, NoCheckForgotten
  <1>3. CASE Dismiss
    <2>1. ~Busy(status)
      BY <1>3 DEF Dismiss, Busy
    <2>2. ASSUME NEW w \in Windows
          PROVE  check'[w] \in ManualCheck /\ (check'[w].pending => check'[w] = check[w])
      <3>1. check[w] \in ManualCheck /\ status \in UpdateStatus
            /\ checkType \in {"Automatic", "Manual"}
            /\ check'[w] = Observed(check[w], status, checkType)
        BY <1>3 DEF Dismiss, CheckInv, TypeOK
      <3>2. check'[w] \in ManualCheck
        BY <3>1, ObservedType
      <3>3. ASSUME check'[w].pending PROVE check'[w] = check[w]
        <4>1. check[w].pending /\ checkType = "Manual"
          BY <3>1, <3>3, ObservedPending DEF CheckInv, NoCheckForgotten
        <4>2. ~check[w].started
          BY <2>1, <3>1, <3>3, <4>1, ObservedEnd
        <4> QED BY <2>1, <3>1, <3>3, <4>1, <4>2, ObservedWaits
      <3> QED BY <3>2, <3>3
    <2>3. TypeOK'
      <3>1. check' \in [Windows -> ManualCheck]
        BY <1>3, <2>2 DEF Dismiss
      <3> QED BY <1>3, <3>1 DEF Dismiss, CheckInv, TypeOK
    <2>4. \A w \in Windows : check'[w].pending => check[w].pending /\ check'[w] = check[w]
      BY <2>2
    <2> QED BY <1>3, <2>3, <2>4 DEF Dismiss, CheckInv, NoCheckForgotten, Busy
  <1>4. ASSUME NEW v \in Versions, Restart(v) PROVE CheckInv'
    <2>1. NoCheck \in ManualCheck /\ NoPoll \in PollState /\ ~NoCheck.pending
      BY PlainType DEF NoCheck, ManualCheck, NoPoll, PollState, Versions
    <2>2. TypeOK'
      BY <1>4, <2>1, PlainType DEF Restart, CheckInv, TypeOK
    <2> QED
      BY <1>4, <2>1, <2>2 DEF Restart, CheckInv, NoCheckForgotten, Busy, Plain, NoPoll
  <1>5. CASE PollAutomatic
    <2>1. ASSUME NEW w \in Windows, check[w].pending
          PROVE  /\ poll'.step # "none" /\ checkType' = "Manual"
                 /\ check[w].started <=> poll'.step # "spawned"
                 /\ check[w].initial.step = "Failed" => check[w].initial.error.id < polls'
      BY <1>5, <2>1 DEF PollAutomatic, Poll, JoinedType, CheckInv, NoCheckForgotten
    <2> QED BY <1>5, <2>1, PollStep DEF PollAutomatic, CheckInv, TypeOK
  <1>6. ASSUME NEW v \in Windows, Check(v) PROVE CheckInv'
    <2> DEFINE new == [NoCheck EXCEPT !.pending = TRUE, !.initial = status, !.started = Busy(status)]
               c == [w \in Windows |-> IF w = v THEN new ELSE check[w]]
    <2>1. new \in ManualCheck /\ new.initial = status /\ new.started = Busy(status)
      <3>1. status \in UpdateStatus
        BY DEF CheckInv, TypeOK
      <3>2. Busy(status) \in BOOLEAN
        BY DEF Busy
      <3>3. NoCheck \in ManualCheck
        BY PlainType DEF NoCheck, ManualCheck
      <3> QED BY <3>1, <3>2, <3>3 DEF ManualCheck
    <2>2. c \in [Windows -> ManualCheck]
      BY <2>1 DEF CheckInv, TypeOK
    <2>3. poll.step = "none" => polls' = polls + 1 /\ poll'.step = "spawned"
      BY <1>6 DEF Check, Poll, NoPoll
    <2>4. poll.step # "none" => polls' = polls /\ poll' = poll
      BY <1>6 DEF Check, Poll
    <2>5. checkType' = "Manual"
      BY <1>6 DEF Check, Poll, JoinedType, CheckInv, TypeOK
    <2>6. status.step = "Failed" => status.error.id \in Nat
      BY DEF CheckInv, TypeOK, UpdateStatus, Plain, NoError
    <2>7. poll \in PollState /\ polls \in Nat
      BY DEF CheckInv, TypeOK
    <2>8. ASSUME NEW w \in Windows, c[w].pending
          PROVE  /\ poll'.step # "none" /\ checkType' = "Manual"
                 /\ c[w].started <=> poll'.step # "spawned"
                 /\ c[w].initial.step = "Failed" => c[w].initial.error.id < polls'
      <3>1. CASE w = v
        <4>1. new.started <=> poll'.step # "spawned"
          BY <2>1, <2>3, <2>4, <2>7 DEF CheckInv, PollState
        <4>2. status.step = "Failed" => status.error.id < polls'
          BY <2>3, <2>4, <2>6, <2>7 DEF CheckInv
        <4>3. poll'.step # "none"
          BY <2>3, <2>4
        <4> QED BY <2>1, <2>5, <3>1, <4>1, <4>2, <4>3
      <3>2. CASE w # v
        <4>1. c[w] = check[w]
          BY <3>2
        <4> QED BY <2>4, <2>5, <2>8, <4>1 DEF CheckInv, NoCheckForgotten
      <3> QED BY <3>1, <3>2
    <2>9. check' = [w \in Windows |-> Observed(c[w], status, checkType')]
      BY <1>6 DEF Check
    <2>10. Poll("Manual")
      BY <1>6 DEF Check
    <2> HIDE DEF c
    <2> QED BY <2>2, <2>8, <2>9, <2>10, PollStep
  <1>7. CASE UpdateStep
    BY <1>7, UpdateStepKeeps
  <1>8. CASE UNCHANGED vars
    BY <1>8 DEF vars, updaterVars, CheckInv, TypeOK, NoCheckForgotten, Busy
  <1> QED BY <1>1, <1>2, <1>3, <1>4, <1>5, <1>6, <1>7, <1>8 DEF Next

THEOREM CheckInvariant == Spec => []CheckInv
  <1>1. Init => CheckInv BY CheckInit
  <1>2. CheckInv /\ [Next]_vars => CheckInv' BY CheckStep
  <1> QED BY <1>1, <1>2, PTL DEF Spec

(* The updater and the windows stay in the states listed, whatever polls,  *)
(* checks and releases come.                                               *)
THEOREM UpdaterTypes == Spec => []TypeOK
  <1>1. CheckInv => TypeOK BY DEF CheckInv
  <1> QED BY <1>1, CheckInvariant, PTL

(* A window that asked for a check waits for a poll that will tell it, in  *)
(* every interleaving of the windows' checks with automatic polls: the     *)
(* safety that answering every check (updater_liveness) rests on.          *)
THEOREM ChecksAreWatched == Spec => []NoCheckForgotten
  <1>1. CheckInv => NoCheckForgotten BY DEF CheckInv
  <1> QED BY <1>1, CheckInvariant, PTL

(* "You're up to date!" is shown only by a step that found nothing newer   *)
(* on the server than the version that runs.                               *)
LEMMA UpToDateStep ==
  ASSUME CheckInv, [Next]_vars, NEW w \in Windows,
         check'[w].answer = "upToDate", check[w].answer # "upToDate"
  PROVE  latest <= current
  <1>1. check[w] \in ManualCheck /\ status \in UpdateStatus /\ checkType \in {"Automatic", "Manual"}
    BY DEF CheckInv, TypeOK
  <1>2. ASSUME NEW c \in ManualCheck, NEW s \in UpdateStatus, NEW type \in {"Automatic", "Manual"},
               Observed(c, s, type).answer = "upToDate", c.answer # "upToDate"
        PROVE  c.pending /\ c.started /\ s.step = "Idle" /\ type = "Manual"
    BY <1>2 DEF Observed, Answered, NoCheck, ManualCheck
  <1>3. ~Busy(status) => ~(check[w].pending /\ check[w].started /\ status.step = "Idle")
    BY DEF CheckInv, NoCheckForgotten, PollState, TypeOK, Busy
  <1>4. CASE Release \/ ChangeSetting \/ UNCHANGED vars
    BY <1>4 DEF Release, ChangeSetting, vars, updaterVars
  <1>5. CASE Dismiss
    BY <1>1, <1>2, <1>3, <1>5 DEF Dismiss, Busy
  <1>6. ASSUME NEW v \in Versions, Restart(v) PROVE FALSE
    BY <1>6 DEF Restart, NoCheck
  <1>7. CASE PollAutomatic
    <2>1. checkType' \in {"Automatic", "Manual"} /\ status' = status
      BY <1>1, <1>7 DEF PollAutomatic, Poll, JoinedType
    <2> QED BY <1>1, <1>2, <1>3, <1>7, <2>1 DEF PollAutomatic, Busy
  <1>8. ASSUME NEW v \in Windows, Check(v) PROVE FALSE
    <2> DEFINE new == [NoCheck EXCEPT !.pending = TRUE, !.initial = status, !.started = Busy(status)]
    <2>1. checkType' \in {"Automatic", "Manual"}
      BY <1>1, <1>8 DEF Check, Poll, JoinedType
    <2>2. new \in ManualCheck /\ new.answer = "none" /\ new.started = Busy(status)
      <3>1. Busy(status) \in BOOLEAN
        BY DEF Busy
      <3>2. NoCheck \in ManualCheck
        BY PlainType DEF NoCheck, ManualCheck
      <3>3. new \in ManualCheck
        BY <1>1, <3>1, <3>2 DEF ManualCheck
      <3>4. new.answer = "none" /\ new.started = Busy(status)
        BY DEF NoCheck
      <3> QED BY <3>3, <3>4
    <2>3. check'[w] = Observed(IF w = v THEN new ELSE check[w], status, checkType')
      BY <1>8 DEF Check
    <2> HIDE DEF new
    <2>4. CASE w = v
      <3>1. check'[w] = Observed(new, status, checkType')
        BY <2>3, <2>4
      <3> QED BY <1>1, <1>2, <2>1, <2>2, <3>1 DEF Busy
    <2>5. CASE w # v
      BY <1>1, <1>2, <1>3, <2>1, <2>3, <2>5 DEF Busy
    <2> QED BY <2>4, <2>5
  <1>9. CASE UpdateStep
    <2>1. ASSUME NEW s \in UpdateStatus, NEW p, Report(s, p)
          PROVE  s.step = "Idle" /\ checkType = "Manual"
      BY <1>1, <1>2, <2>1 DEF Report
    <2>2. poll \in PollState
      BY DEF CheckInv, TypeOK
    <2>3. CASE NothingNewer
      <3> DEFINE s == IF poll.previous.step = "Updated" THEN poll.previous ELSE Plain("Idle")
      <3>1. s \in UpdateStatus
        BY <2>2, PlainType DEF PollState
      <3>2. s.step = "Idle"
        BY <2>1, <2>3, <3>1 DEF NothingNewer
      <3>3. poll.previous.step # "Updated"
        BY <3>2
      <3> QED BY <2>3, <3>3 DEF NothingNewer, Newest
    <2>4. CASE Begin
      BY <2>1, <2>4, PlainType DEF Begin
    <2>5. CASE Newer \/ Downloaded \/ Installed
      <3>1. \A step \in {"Downloading", "Installing", "Updated"}, v \in Versions :
              With(step, v) \in UpdateStatus /\ With(step, v).step # "Idle"
        BY DEF With, UpdateStatus
      <3>2. latest \in Versions /\ poll.version \in Versions
        BY <2>2 DEF CheckInv, TypeOK, PollState
      <3> QED BY <2>1, <2>5, <3>1, <3>2 DEF Newer, Downloaded, Installed
    <2>6. CASE Fail
      <3>1. PICK cause \in Causes : poll.step # "none" /\ Report(StatusAfter(cause), NoPoll)
        BY <2>6 DEF Fail
      <3>2. polls >= 1 /\ TypeOK
        BY <3>1 DEF CheckInv
      <3>3. Failed(cause) \in UpdateStatus /\ Failed(cause).step = "Failed"
        BY <3>2, StatusType, BoundAssumption DEF Versions
      <3>4. StatusAfter(cause) \in UpdateStatus
        BY <3>3, PlainType DEF StatusAfter
      <3>5. checkType = "Manual" /\ StatusAfter(cause).step = "Idle"
        BY <2>1, <3>1, <3>4
      <3> QED BY <3>3, <3>5 DEF StatusAfter
    <2> QED BY <1>9, <2>3, <2>4, <2>5, <2>6 DEF UpdateStep
  <1> QED BY <1>4, <1>5, <1>6, <1>7, <1>8, <1>9 DEF Next

THEOREM UpToDateIsSaidTruly == Spec => UpToDateIsTrue
  <1>1. CheckInv /\ [Next]_vars =>
          [\A w \in Windows :
             check'[w].answer = "upToDate" /\ check[w].answer # "upToDate" => latest <= current]_vars
    BY UpToDateStep
  <1> QED BY <1>1, CheckInvariant, PTL DEF Spec, UpToDateIsTrue
-----------------------------------------------------------------------------
Active(h) == helper[h].step # "none"

(* Between job 2 and job 3, or its undoing, the program is in the          *)
(* directory old only.                                                     *)
Holds(h) == \/ helper[h].step = "apply" /\ helper[h].job = 3
            \/ helper[h].step = "undo" /\ helper[h].job = 2

Types == CheckInv /\ InstallationType

Away == app.step = "off" \/ app.image = "old"

Quiet == excuse \cap {"not undone", "killed", "overlap"} = {}

(* The last copy of the program is either in its place or held by the one  *)
(* helper, from which no process can take it.                              *)
Kept ==
  Quiet =>
    /\ \A g, h \in Helpers : Active(g) /\ Active(h) => g = h
    /\ exe = None => \E h \in Helpers : Holds(h)
    /\ \A h \in Helpers : Holds(h) =>
         /\ exe = None /\ backup.exe # None /\ backup.there
         /\ Away

(* The installer and the poll agree about the update that is under way,    *)
(* and what was staged last is still there when it is offered again.       *)
Staged ==
  bound.windows =>
    /\ installer.step = "prepared" =>
         On /\ poll.step = "download" /\ installer.version = poll.version
    /\ installer.step = "done" => On /\ poll.step = "install"
    /\ On /\ poll.step = "install" =>
         /\ installer.step \in {"place", "mark", "done"} /\ installer.version = poll.version
         /\ "cleaned" \notin excuse =>
              /\ installer.step \in {"mark", "done"} => staged = poll.version
              /\ installer.step = "done" => marker
    /\ On /\ status.step = "Updated" =>
         /\ installer.step = "none"
         /\ "cleaned" \notin excuse => marker /\ staged = status.version
    /\ On /\ poll.step = "fetch" /\ poll.previous.step = "Updated" =>
         /\ installer.step = "none"
         /\ "cleaned" \notin excuse => marker /\ staged = poll.previous.version
    /\ poll.step \in {"none", "spawned"} => poll.previous.step # "Updated"

(* What was promised is staged until the helper has put it in its place.   *)
Working == \E h \in Helpers :
  helper[h].step = "apply" /\ helper[h].job <= 3 /\ staged = promised
Delivered == exe = promised /\ \A h \in Helpers : Active(h) => helper[h].job >= 4
OnTheWay ==
  /\ installer.step = "none"
  /\ \A h \in Helpers : helper[h].step # "undo"
  /\ Working \/ Delivered

(* A helper meets no process that runs from the directory old.             *)
Undisturbed ==
  \A h \in Helpers : helper[h].step = "apply" /\ helper[h].job <= 2 =>
    /\ (app.step = "off" \/ app.image = "exe")
    /\ (helper[h].job = 2 => backup.there)

Alone == app.image = "exe" /\ \A h \in Helpers : ~Active(h)

Promise ==
  /\ ~bound.windows => promised = None
  /\ promised # None => ~On
  /\ excuse = {} => (On => Alone) /\ Undisturbed /\ (promised # None => OnTheWay)

InstallInv == Types /\ Kept /\ Staged /\ Promise
-----------------------------------------------------------------------------
(* Every step of the composition is one of the updater's, or leaves the    *)
(* updater alone.                                                          *)
LEMMA UpdaterSteps == Types /\ [InstallationNext]_allVars => [Next]_vars
  <1> SUFFICES ASSUME Types, [InstallationNext]_allVars PROVE [Next]_vars OBVIOUS
  <1>1. /\ current \in Versions /\ ready \in Versions /\ exe \in File
        /\ \A w \in bound.checking : w \in Windows
    BY DEF Types, CheckInv, TypeOK, InstallationType
  <1>2. CASE ReplacedInPlace
    BY <1>1, <1>2 DEF ReplacedInPlace, Next
  <1>3. CASE UpdaterStep \/ SwitchSetting
    BY <1>1, <1>3 DEF UpdaterStep, SwitchSetting, Next, UpdateStep
  <1>4. CASE InstallStep
    BY <1>4 DEF InstallStep, ClearUpdates, InstallerStarts, InstallerPlaces, InstallerMarks,
                InstallEnds, UpdateFails, Next, UpdateStep
  <1>5. CASE Cleanup \/ CleanupFails \/ ProcessEnds \/ AskRestart
    BY <1>5 DEF Cleanup, CleanupFails, ProcessEnds, AskRestart
  <1>6. CASE Quit \/ RestartByHelper
    BY <1>1, <1>6 DEF Quit, RestartByHelper, Ends, Next
  <1>7. ASSUME Begins PROVE Next
    BY <1>1, <1>7 DEF Begins, File, Next
  <1>8. CASE Start
    BY <1>7, <1>8 DEF Start
  <1>9. ASSUME NEW h \in Helpers,
               \/ HelperApplies(h) \/ HelperSkips(h) \/ HelperFails(h) \/ HelperUndoes(h)
               \/ HelperUndoFails(h) \/ HelperKilled(h)
        PROVE  UNCHANGED vars
    BY <1>9 DEF HelperApplies, HelperSkips, HelperFails, HelperUndoes, HelperUndoFails,
                HelperKilled
  <1>10. ASSUME NEW h \in Helpers, HelperDone(h) PROVE [Next]_vars
    BY <1>7, <1>10 DEF HelperDone
  <1>11. CASE UNCHANGED allVars
    BY <1>11 DEF allVars
  <1> QED
    BY <1>2, <1>3, <1>4, <1>5, <1>6, <1>8, <1>9, <1>10, <1>11 DEF InstallationNext, OnWindows

-----------------------------------------------------------------------------
(* What the steps that concern a helper do to the helpers.                 *)
Becomes(h, step, job, launch) ==
  /\ helper' = [helper EXCEPT ![h] = [step |-> step, job |-> job, launch |-> launch]]
  /\ helper'[h].step = step /\ helper'[h].job = job
  /\ \A g \in Helpers : g # h => helper'[g] = helper[g]

LEMMA HelperFields ==
  ASSUME Types, NEW h \in Helpers
  PROVE  /\ helper[h] \in [step : {"none", "apply", "undo"}, job : 0 .. 6, launch : BOOLEAN]
         /\ helper[h] = [step |-> helper[h].step, job |-> helper[h].job,
                         launch |-> helper[h].launch]
         /\ \/ helper[h].step = "none"
            \/ helper[h].step = "apply" /\ helper[h].job \in 1 .. 6
            \/ helper[h].step = "undo" /\ helper[h].job \in {1, 2}
  <1>1. helper[h] \in HelperState
    BY DEF Types, InstallationType
  <1> QED BY <1>1 DEF HelperState

LEMMA HelperRecord ==
  ASSUME NEW r \in [step : {"none", "apply", "undo"}, job : 0 .. 6, launch : BOOLEAN], NEW j
  PROVE  [r EXCEPT !.job = j] = [step |-> r.step, job |-> j, launch |-> r.launch]
  OBVIOUS

LEMMA HelperBecomes ==
  ASSUME Types, NEW h \in Helpers, NEW step, NEW job, NEW launch,
         helper' = [helper EXCEPT ![h] = [step |-> step, job |-> job, launch |-> launch]]
  PROVE  Becomes(h, step, job, launch)
  BY DEF Becomes, Types, InstallationType

LEMMA HelperGoesOn ==
  ASSUME Types, NEW h \in Helpers, HelperApplies(h) \/ HelperSkips(h)
  PROVE  /\ helper[h].step = "apply" /\ helper[h].job \in 1 .. 5
         /\ Becomes(h, "apply", helper[h].job + 1, helper[h].launch)
  <1>1. helper[h].step = "apply" /\ helper[h].job \in 1 .. 5
    <2>1. helper[h].step = "apply"
      BY DEF HelperApplies, HelperSkips
    <2>2. helper[h].job \in 1 .. 6
      BY <2>1, HelperFields
    <2>3. helper[h].job < 6
      BY DEF HelperApplies, HelperSkips
    <2> QED BY <2>1, <2>2, <2>3
  <1>2. helper' = [helper EXCEPT ![h] =
                    [step |-> "apply", job |-> helper[h].job + 1, launch |-> helper[h].launch]]
    <2>1. helper' = [helper EXCEPT ![h] = [helper[h] EXCEPT !.job = helper[h].job + 1]]
      BY DEF HelperApplies, HelperSkips
    <2>2. helper[h] \in [step : {"none", "apply", "undo"}, job : 0 .. 6, launch : BOOLEAN]
      BY HelperFields
    <2>3. [helper[h] EXCEPT !.job = helper[h].job + 1]
            = [step |-> "apply", job |-> helper[h].job + 1, launch |-> helper[h].launch]
      BY <1>1, <2>2, HelperRecord
    <2> QED BY <2>1, <2>3
  <1> QED BY <1>1, <1>2, HelperBecomes

LEMMA HelperUndoing ==
  ASSUME Types, NEW h \in Helpers, NEW k \in 0 .. 2, Undoing(h, k)
  PROVE  \/ k # 0 /\ Becomes(h, "undo", k, helper[h].launch)
         \/ k = 0 /\ Becomes(h, "none", 0, FALSE)
  <1>1. k > 0 => helper' = [helper EXCEPT ![h] =
                            [step |-> "undo", job |-> k, launch |-> helper[h].launch]]
    BY DEF Undoing
  <1>2. k = 0 => helper' = [helper EXCEPT ![h] = [step |-> "none", job |-> 0, launch |-> FALSE]]
    BY DEF Undoing, NoHelper
  <1>3. k = 0 \/ k > 0
    OBVIOUS
  <1> QED BY <1>1, <1>2, <1>3, HelperBecomes

LEMMA HelperRollsBack ==
  ASSUME Types, NEW h \in Helpers, HelperFails(h) \/ HelperUndoes(h) \/ HelperUndoFails(h)
  PROVE  /\ Active(h)
         /\ \E k \in 0 .. 2 :
              /\ k = helper[h].job - 1
              /\ \/ k # 0 /\ Becomes(h, "undo", k, helper[h].launch)
                 \/ k = 0 /\ Becomes(h, "none", 0, FALSE)
  <1>1. Active(h) /\ helper[h].job - 1 \in 0 .. 2
    <2>1. \/ helper[h].step = "apply" /\ helper[h].job <= 3
          \/ helper[h].step = "undo"
      BY DEF HelperFails, HelperUndoes, HelperUndoFails
    <2>2. \/ helper[h].step = "apply" /\ helper[h].job \in 1 .. 6
          \/ helper[h].step = "undo" /\ helper[h].job \in {1, 2}
      BY <2>1, HelperFields
    <2> QED BY <2>1, <2>2 DEF Active
  <1>2. Undoing(h, helper[h].job - 1)
    BY DEF HelperFails, HelperUndoes, HelperUndoFails, Applied
  <1> QED BY <1>1, <1>2, HelperUndoing

LEMMA HelperEnds ==
  ASSUME Types, NEW h \in Helpers, HelperDone(h) \/ HelperKilled(h)
  PROVE  Active(h) /\ Becomes(h, "none", 0, FALSE)
  <1>1. helper' = [helper EXCEPT ![h] = [step |-> "none", job |-> 0, launch |-> FALSE]]
    BY DEF HelperDone, HelperKilled, NoHelper
  <1> QED BY <1>1, HelperBecomes DEF Active, HelperDone, HelperKilled

LEMMA HelperStarts ==
  ASSUME Types, NEW h \in Helpers, NEW launch \in BOOLEAN, Starts(h, launch)
  PROVE  ~Active(h) /\ Becomes(h, "apply", 1, launch)
  BY HelperBecomes DEF Starts, Active

HelperStep(h) ==
  \/ HelperApplies(h) \/ HelperSkips(h) \/ HelperDone(h) \/ HelperFails(h) \/ HelperUndoes(h)
  \/ HelperUndoFails(h) \/ HelperKilled(h)

(* The steps of the updater and the installer leave the helpers alone.     *)
LEMMA Frame ==
  ASSUME \/ ReplacedInPlace \/ UpdaterStep \/ SwitchSetting \/ InstallStep \/ UNCHANGED allVars
  PROVE  UNCHANGED <<exe, backup, app, helper, promised, excuse>>
  <1>1. CASE ReplacedInPlace \/ UpdaterStep \/ UNCHANGED allVars
    BY <1>1 DEF ReplacedInPlace, UpdaterStep, allVars, installVars, fileVars, processVars
  <1>2. CASE SwitchSetting
    BY <1>2 DEF SwitchSetting, fileVars
  <1>3. CASE InstallStep
    BY <1>3 DEF InstallStep, ClearUpdates, InstallerStarts, InstallerPlaces, InstallerMarks,
                InstallEnds, UpdateFails, fileVars
  <1> QED BY <1>1, <1>2, <1>3

LEMMA Cases ==
  ASSUME [InstallationNext]_allVars
  PROVE  \/ ReplacedInPlace \/ UpdaterStep \/ SwitchSetting \/ InstallStep \/ UNCHANGED allVars
         \/ Cleanup \/ CleanupFails \/ Quit \/ ProcessEnds \/ AskRestart \/ RestartByHelper
         \/ Start \/ \E h \in Helpers : HelperStep(h)
  BY DEF InstallationNext, OnWindows, HelperStep
-----------------------------------------------------------------------------
(* The composition stays in the states listed.                             *)
BoundType ==
  [windows : BOOLEAN, starts : Nat, faults : Nat, polls : Nat, checking : SUBSET Windows]

LEMMA BoundStep ==
  ASSUME Types, [InstallationNext]_allVars
  PROVE  bound' \in BoundType /\ bound'.windows = bound.windows
  <1>1. bound \in BoundType
    BY DEF Types, InstallationType, BoundType
  <1>2. ASSUME Fault PROVE bound' \in BoundType /\ bound'.windows = bound.windows
    BY <1>1, <1>2 DEF Fault, BoundType
  <1>3. CASE UNCHANGED bound
    BY <1>1, <1>3
  <1>4. CASE Start
    <2>1. bound.starts > 0 /\ bound' = [bound EXCEPT !.starts = @ - 1]
      BY <1>4 DEF Start
    <2> QED BY <1>1, <2>1 DEF BoundType
  <1>5. ReplacedInPlace \/ UpdaterStep \/ SwitchSetting \/ InstallStep \/ UNCHANGED allVars
          => UNCHANGED bound
    <2>1. CASE ReplacedInPlace \/ UpdaterStep \/ UNCHANGED allVars
      BY <2>1 DEF ReplacedInPlace, UpdaterStep, allVars, installVars
    <2>2. CASE SwitchSetting
      BY <2>2 DEF SwitchSetting
    <2>3. CASE InstallStep
      BY <2>3 DEF InstallStep, ClearUpdates, InstallerStarts, InstallerPlaces, InstallerMarks,
                  InstallEnds, UpdateFails, NoFault
    <2> QED BY <2>1, <2>2, <2>3
  <1>6. Cleanup \/ Quit \/ ProcessEnds \/ AskRestart \/ RestartByHelper => UNCHANGED bound
    BY DEF Cleanup, Quit, ProcessEnds, AskRestart, RestartByHelper, Ends, NoFault
  <1>7. CleanupFails => Fault \/ UNCHANGED bound
    BY DEF CleanupFails, NoFault
  <1>8. ASSUME NEW h \in Helpers, HelperStep(h) PROVE Fault \/ UNCHANGED bound
    BY <1>8 DEF HelperStep, HelperApplies, HelperSkips, HelperDone, HelperFails, HelperUndoes,
                HelperUndoFails, HelperKilled, NoFault
  <1> QED BY <1>2, <1>3, <1>4, <1>5, <1>6, <1>7, <1>8, Cases

LEMMA HelperTypeStep ==
  ASSUME Types, [InstallationNext]_allVars
  PROVE  helper' \in [Helpers -> HelperState]
  <1>1. helper \in [Helpers -> HelperState]
    BY DEF Types, InstallationType
  <1>2. \A launch \in BOOLEAN :
          /\ \A k \in 1 .. 6 : [step |-> "apply", job |-> k, launch |-> launch] \in HelperState
          /\ \A k \in {1, 2} : [step |-> "undo", job |-> k, launch |-> launch] \in HelperState
          /\ [step |-> "none", job |-> 0, launch |-> FALSE] \in HelperState
    BY DEF HelperState
  <1>3. ASSUME NEW h \in Helpers, NEW step, NEW job, NEW launch, Becomes(h, step, job, launch),
               [step |-> step, job |-> job, launch |-> launch] \in HelperState
        PROVE  helper' \in [Helpers -> HelperState]
    BY <1>1, <1>3 DEF Becomes
  <1>4. CASE UNCHANGED helper
    BY <1>1, <1>4
  <1>5. CASE Quit \/ RestartByHelper
    <2>1. UNCHANGED helper \/ \E h \in Helpers, launch \in BOOLEAN : Starts(h, launch)
      BY <1>5 DEF Quit, RestartByHelper
    <2>2. ASSUME NEW h \in Helpers, NEW launch \in BOOLEAN, Starts(h, launch)
          PROVE  helper' \in [Helpers -> HelperState]
      <3>1. Becomes(h, "apply", 1, launch)
        BY <2>2, HelperStarts
      <3>2. [step |-> "apply", job |-> 1, launch |-> launch] \in HelperState
        BY DEF HelperState
      <3> QED BY <1>3, <3>1, <3>2
    <2> QED BY <1>4, <2>1, <2>2
  <1>6. ASSUME NEW h \in Helpers, HelperStep(h) PROVE helper' \in [Helpers -> HelperState]
    <2>1. helper[h].launch \in BOOLEAN
      BY HelperFields
    <2>2. CASE HelperApplies(h) \/ HelperSkips(h)
      <3>1. /\ helper[h].job + 1 \in 1 .. 6
            /\ Becomes(h, "apply", helper[h].job + 1, helper[h].launch)
        BY <2>2, HelperGoesOn
      <3> QED BY <1>2, <1>3, <2>1, <3>1
    <2>3. CASE HelperFails(h) \/ HelperUndoes(h) \/ HelperUndoFails(h)
      <3>1. PICK k \in 0 .. 2 :
              \/ k # 0 /\ Becomes(h, "undo", k, helper[h].launch)
              \/ k = 0 /\ Becomes(h, "none", 0, FALSE)
        BY <2>3, HelperRollsBack
      <3>2. CASE k # 0 /\ Becomes(h, "undo", k, helper[h].launch)
        <4>1. k \in {1, 2}
          BY <3>2
        <4>2. [step |-> "undo", job |-> k, launch |-> helper[h].launch] \in HelperState
          BY <2>1, <4>1 DEF HelperState
        <4> QED BY <1>3, <3>2, <4>2
      <3>3. CASE Becomes(h, "none", 0, FALSE)
        BY <1>2, <1>3, <3>3
      <3> QED BY <3>1, <3>2, <3>3
    <2>4. CASE HelperDone(h) \/ HelperKilled(h)
      BY <1>2, <1>3, <2>4, HelperEnds
    <2> QED BY <1>6, <2>2, <2>3, <2>4 DEF HelperStep
  <1>7. Cleanup \/ CleanupFails \/ ProcessEnds \/ AskRestart \/ Start => UNCHANGED helper
    BY DEF Cleanup, CleanupFails, ProcessEnds, AskRestart, Start
  <1> QED BY <1>4, <1>5, <1>6, <1>7, Cases, Frame

LEMMA TypesStep == Types /\ [InstallationNext]_allVars => Types'
  <1> SUFFICES ASSUME Types, [InstallationNext]_allVars PROVE Types' OBVIOUS
  <1>1. CheckInv'
    BY UpdaterSteps, CheckStep DEF Types
  <1>2. bound' \in BoundType /\ helper' \in [Helpers -> HelperState]
    BY BoundStep, HelperTypeStep
  <1>3. /\ app \in AppState /\ exe \in File /\ backup \in [there : BOOLEAN, exe : File]
        /\ staged \in File /\ marker \in BOOLEAN /\ installer \in InstallerState
        /\ cleaning \in 0 .. 3 /\ promised \in File
        /\ excuse \subseteq {"cleaned", "early", "overlap", "failed", "not undone", "killed"}
        /\ Len(Directories) = 3
    BY DEF Types, InstallationType, Directories
  <1>4. /\ 0 \in Versions /\ None \in File /\ poll.version \in Versions
        /\ status.version \in Versions /\ Versions \subseteq File
    BY BoundAssumption DEF Types, CheckInv, TypeOK, PollState, UpdateStatus, Plain, Versions, File
  <1>5. app' \in AppState
    <2>1. \A step \in {"on", "quitting", "off"}, image \in {"exe", "old"} :
            /\ [app EXCEPT !.step = step] \in AppState
            /\ [app EXCEPT !.step = step, !.restart = FALSE] \in AppState
            /\ [app EXCEPT !.image = image] \in AppState
            /\ [app EXCEPT !.restart = TRUE] \in AppState
            /\ [step |-> step, image |-> image, restart |-> FALSE] \in AppState
      BY <1>3 DEF AppState
    <2>2. CASE Quit \/ RestartByHelper \/ ProcessEnds \/ AskRestart \/ Start
      BY <2>1, <2>2 DEF Quit, RestartByHelper, Ends, ProcessEnds, AskRestart, Start, Begins
    <2>3. ASSUME NEW h \in Helpers, HelperStep(h) PROVE app' \in AppState
      BY <1>3, <2>1, <2>3 DEF HelperStep, HelperApplies, Apply, Moved, HelperSkips, HelperDone,
           Begins, HelperFails, HelperUndoes, HelperUndoFails, HelperKilled
    <2>4. Cleanup \/ CleanupFails => UNCHANGED app
      BY DEF Cleanup, CleanupFails
    <2> QED BY <1>3, <2>2, <2>3, <2>4, Cases, Frame
  <1>6. /\ exe' \in File /\ backup' \in [there : BOOLEAN, exe : File]
        /\ promised' \in File
    <2>1. NoBackup \in [there : BOOLEAN, exe : File]
      BY <1>4 DEF NoBackup
    <2>2. CASE Cleanup \/ CleanupFails
      BY <1>3, <2>1, <2>2 DEF Cleanup, CleanupFails, fileVars
    <2>3. CASE Quit \/ RestartByHelper \/ ProcessEnds \/ AskRestart \/ Start
      BY <1>3, <1>4, <2>3 DEF Quit, RestartByHelper, Ends, ProcessEnds, AskRestart, Start, Begins,
                               fileVars
    <2>4. ASSUME NEW h \in Helpers, HelperApplies(h)
          PROVE  exe' \in File /\ backup' \in [there : BOOLEAN, exe : File] /\ promised' \in File
      <3>1. /\ [backup EXCEPT !.there = TRUE] \in [there : BOOLEAN, exe : File]
            /\ [there |-> TRUE, exe |-> exe] \in [there : BOOLEAN, exe : File]
        BY <1>3
      <3>2. /\ exe' \in {exe, None, staged} /\ promised' = promised
            /\ backup' \in {backup, [backup EXCEPT !.there = TRUE], [there |-> TRUE, exe |-> exe]}
        BY <2>4 DEF HelperApplies, Apply
      <3> QED BY <1>3, <1>4, <3>1, <3>2
    <2>5. ASSUME NEW h \in Helpers, HelperUndoes(h)
          PROVE  exe' \in File /\ backup' \in [there : BOOLEAN, exe : File] /\ promised' \in File
      BY <1>3, <1>4, <2>1, <2>5 DEF HelperUndoes
    <2>6. ASSUME NEW h \in Helpers, HelperDone(h)
          PROVE  exe' \in File /\ backup' \in [there : BOOLEAN, exe : File] /\ promised' \in File
      BY <1>3, <1>4, <2>1, <2>6 DEF HelperDone, Begins
    <2>7. ASSUME NEW h \in Helpers,
                 HelperSkips(h) \/ HelperFails(h) \/ HelperUndoFails(h) \/ HelperKilled(h)
          PROVE  UNCHANGED <<exe, backup, promised>>
      BY <2>7 DEF HelperSkips, HelperFails, HelperUndoFails, HelperKilled, fileVars
    <2> QED BY <1>3, <2>2, <2>3, <2>4, <2>5, <2>6, <2>7, Cases, Frame DEF HelperStep
  <1>7. cleaning' \in 0 .. 3
    <2>1. ReplacedInPlace \/ UpdaterStep \/ InstallStep \/ UNCHANGED allVars => UNCHANGED cleaning
      BY DEF ReplacedInPlace, UpdaterStep, allVars, installVars, processVars, InstallStep,
             ClearUpdates, InstallerStarts, InstallerPlaces, InstallerMarks, InstallEnds, UpdateFails
    <2>2. Quit \/ RestartByHelper \/ Start \/ CleanupFails \/ SwitchSetting
            => cleaning' \in {0, Len(Directories)}
      BY DEF Quit, RestartByHelper, Ends, Start, Begins, CleanupFails, SwitchSetting
    <2>3. Cleanup => cleaning # 0 /\ cleaning' = cleaning - 1
      BY DEF Cleanup
    <2>4. ProcessEnds \/ AskRestart => UNCHANGED cleaning
      BY DEF ProcessEnds, AskRestart
    <2>5. ASSUME NEW h \in Helpers, HelperStep(h)
          PROVE  cleaning' = cleaning \/ cleaning' \in {0, Len(Directories)}
      BY <2>5 DEF HelperStep, HelperApplies, HelperSkips, HelperDone, Begins,
           HelperFails, HelperUndoes, HelperUndoFails, HelperKilled
    <2>6. cleaning' = cleaning \/ cleaning' \in {0, Len(Directories)}
            \/ (cleaning # 0 /\ cleaning' = cleaning - 1)
      BY <2>1, <2>2, <2>3, <2>4, <2>5, Cases
    <2>7. Len(Directories) = 3 /\ cleaning \in 0 .. 3
      BY <1>3
    <2> QED BY <2>6, <2>7
  <1>8. staged' \in File /\ marker' \in BOOLEAN
    <2>1. CASE ReplacedInPlace \/ UpdaterStep \/ SwitchSetting \/ UNCHANGED allVars
      BY <1>3, <2>1 DEF ReplacedInPlace, UpdaterStep, SwitchSetting, allVars, installVars, fileVars
    <2>2. CASE InstallStep
      <3>1. installer.version \in File
        BY <1>3, <1>4 DEF InstallerState
      <3> QED BY <1>3, <2>2, <3>1
            DEF InstallStep, ClearUpdates, InstallerStarts, InstallerPlaces, InstallerMarks,
                InstallEnds, UpdateFails, fileVars
    <2>3. CASE Cleanup \/ CleanupFails
      BY <1>3, <1>4, <2>3 DEF Cleanup, CleanupFails, fileVars
    <2>4. CASE Quit \/ RestartByHelper \/ ProcessEnds \/ AskRestart \/ Start
      BY <1>3, <2>4 DEF Quit, RestartByHelper, Ends, ProcessEnds, AskRestart, Start, fileVars
    <2>5. ASSUME NEW h \in Helpers, HelperApplies(h)
          PROVE  staged' \in {None, staged} /\ marker' \in {FALSE, marker}
      BY <2>5 DEF HelperApplies, Apply
    <2>6. ASSUME NEW h \in Helpers, HelperStep(h), ~HelperApplies(h)
          PROVE  UNCHANGED <<staged, marker>>
      BY <2>6 DEF HelperStep, HelperSkips, HelperDone, HelperFails, HelperUndoes,
                  HelperUndoFails, HelperKilled, fileVars
    <2> QED BY <1>3, <1>4, <2>1, <2>2, <2>3, <2>4, <2>5, <2>6, Cases
  <1>9. installer' \in InstallerState
    <2>1. NoInstaller \in InstallerState
      BY <1>4 DEF NoInstaller, InstallerState
    <2>2. CASE ReplacedInPlace \/ UpdaterStep \/ SwitchSetting \/ UNCHANGED allVars
      BY <1>3, <2>2 DEF ReplacedInPlace, UpdaterStep, SwitchSetting, allVars, installVars, processVars
    <2>3. CASE InstallStep
      <3>1. /\ [step |-> "prepared", version |-> poll.version] \in InstallerState
            /\ \A step \in {"place", "mark", "done"} :
                 [installer EXCEPT !.step = step] \in InstallerState
        BY <1>3, <1>4 DEF InstallerState
      <3> QED BY <1>3, <2>1, <2>3, <3>1
            DEF InstallStep, ClearUpdates, InstallerStarts, InstallerPlaces, InstallerMarks,
                InstallEnds, UpdateFails
    <2>4. CASE Cleanup \/ CleanupFails \/ ProcessEnds \/ AskRestart \/ Start
      BY <1>3, <2>4 DEF Cleanup, CleanupFails, ProcessEnds, AskRestart, Start
    <2>5. CASE Quit \/ RestartByHelper
      BY <1>3, <2>1, <2>5 DEF Quit, RestartByHelper, Ends
    <2>6. ASSUME NEW h \in Helpers, HelperStep(h) PROVE UNCHANGED installer
      BY <2>6 DEF HelperStep, HelperApplies, HelperSkips, HelperDone, HelperFails, HelperUndoes,
                  HelperUndoFails, HelperKilled
    <2> QED BY <1>3, <2>2, <2>3, <2>4, <2>5, <2>6, Cases
  <1>10. excuse' \subseteq {"cleaned", "early", "overlap", "failed", "not undone", "killed"}
    <2>1. CASE Cleanup \/ CleanupFails
      BY <1>3, <2>1 DEF Cleanup, CleanupFails, Takes
    <2>2. CASE Quit \/ RestartByHelper \/ ProcessEnds \/ AskRestart \/ Start
      BY <1>3, <2>2 DEF Quit, RestartByHelper, Starts, ProcessEnds, AskRestart, Start
    <2>3. ASSUME NEW h \in Helpers, HelperStep(h)
          PROVE  excuse' \subseteq {"cleaned", "early", "overlap", "failed", "not undone", "killed"}
      BY <1>3, <2>3 DEF HelperStep, HelperApplies, Removes, Takes, HelperSkips, HelperDone,
           HelperFails, HelperUndoes, HelperUndoFails, HelperKilled
    <2> QED BY <1>3, <2>1, <2>2, <2>3, Cases, Frame
  <1> QED
    BY <1>1, <1>2, <1>3, <1>5, <1>6, <1>7, <1>8, <1>9, <1>10
    DEF Types, InstallationType, BoundType, Directories
-----------------------------------------------------------------------------
(***************************************************************************)
(* A program stays installed.                                              *)
(***************************************************************************)
LEMMA OneWorks ==
  ASSUME Kept, Quiet, NEW h \in Helpers, Active(h)
  PROVE  /\ \A g \in Helpers : g # h => ~Active(g)
         /\ ~Holds(h) => exe # None
         /\ Holds(h) => /\ exe = None /\ backup.exe # None /\ backup.there
                       /\ Away
  <1>1. \A g \in Helpers : Holds(g) => Active(g)
    BY DEF Holds, Active
  <1> QED BY <1>1 DEF Kept

(* The one helper that works takes a step: it then holds the program, or   *)
(* the program is in its place.                                            *)
LEMMA KeptByOne ==
  ASSUME Kept, NEW h \in Helpers, Active(h), NEW step, NEW job, NEW launch,
         Becomes(h, step, job, launch), excuse \subseteq excuse',
         Quiet' => \/ /\ (step = "apply" /\ job = 3) \/ (step = "undo" /\ job = 2)
                     /\ exe' = None /\ backup'.exe # None /\ backup'.there
                     /\ Away'
                  \/ /\ ~(step = "apply" /\ job = 3) /\ ~(step = "undo" /\ job = 2)
                     /\ exe' # None
  PROVE  Kept'
  <1> SUFFICES ASSUME Quiet'
               PROVE  /\ \A f, g \in Helpers : Active(f)' /\ Active(g)' => f = g
                      /\ exe' = None => \E g \in Helpers : Holds(g)'
                      /\ \A g \in Helpers : Holds(g)' =>
                           /\ exe' = None /\ backup'.exe # None /\ backup'.there
                           /\ Away'
    BY DEF Kept
  <1>1. Quiet
    BY DEF Quiet
  <1>2. \A g \in Helpers : g # h => ~Active(g)' /\ ~Holds(g)'
    BY <1>1, OneWorks DEF Becomes, Active, Holds
  <1>3. Holds(h)' <=> (step = "apply" /\ job = 3) \/ (step = "undo" /\ job = 2)
    BY DEF Becomes, Holds
  <1> QED BY <1>2, <1>3

LEMMA KeptFrame ==
  ASSUME Kept, UNCHANGED <<exe, helper>>, excuse \subseteq excuse',
         backup' = backup \/ (backup' = NoBackup /\ ~OldIsRunning /\ app.step # "off"),
         app'.step \in {app.step, "off"}, app'.image = app.image
  PROVE  Kept'
  <1>1. CASE backup' = backup
    BY <1>1 DEF Kept, Quiet, Active, Holds, Away
  <1>2. CASE backup' = NoBackup /\ ~OldIsRunning /\ app.step # "off"
    <2>1. Quiet => \A h \in Helpers : ~Holds(h)
      BY <1>2 DEF Kept, OldIsRunning, Away
    <2> QED BY <2>1 DEF Kept, Quiet, Active, Holds
  <1> QED BY <1>1, <1>2

(* A helper is started where none works, or beside one.                    *)
LEMMA KeptStarts ==
  ASSUME Types, Kept, NEW h \in Helpers, NEW launch \in BOOLEAN, Starts(h, launch),
         UNCHANGED <<exe, backup>>, app'.image = app.image
  PROVE  Kept'
  <1> SUFFICES ASSUME Quiet' PROVE Kept' BY DEF Kept
  <1>1. Quiet /\ ~Helping
    BY DEF Starts, Quiet
  <1>2. Becomes(h, "apply", 1, launch)
    BY HelperStarts
  <1>3. \A g \in Helpers : ~Active(g) /\ ~Holds(g)
    BY <1>1 DEF Helping, Active, Holds
  <1>4. exe # None
    BY <1>1, <1>3 DEF Kept
  <1>5. \A g \in Helpers : ~Holds(g)' /\ (Active(g)' => g = h)
    BY <1>2, <1>3 DEF Becomes, Active, Holds
  <1> QED BY <1>4, <1>5 DEF Kept

LEMMA KeptBegins ==
  ASSUME Kept, exe # None, UNCHANGED <<exe, backup, helper>>,
         Quiet' => Quiet \/ ~Helping
  PROVE  Kept'
  <1> SUFFICES ASSUME Quiet' PROVE Kept' BY DEF Kept
  <1>1. CASE Quiet
    <2>1. \A g \in Helpers : ~Holds(g)
      BY <1>1 DEF Kept
    <2> QED BY <1>1, <2>1 DEF Kept, Active, Holds
  <1>2. CASE ~Helping
    <2>1. \A g \in Helpers : ~Active(g) /\ ~Holds(g)
      BY <1>2 DEF Helping, Active, Holds
    <2> QED BY <2>1 DEF Kept, Active, Holds
  <1> QED BY <1>1, <1>2

LEMMA KeptStep == Types /\ Kept /\ [InstallationNext]_allVars => Kept'
  <1> SUFFICES ASSUME Types, Kept, [InstallationNext]_allVars PROVE Kept' OBVIOUS
  <1>1. CASE UNCHANGED <<exe, backup, app, helper, promised, excuse>>
    BY <1>1, KeptFrame
  <1>2. CASE Cleanup
    BY <1>2, KeptFrame DEF Cleanup, On, NoBackup
  <1>3. CASE CleanupFails
    BY <1>3, KeptFrame DEF CleanupFails, fileVars
  <1>4. CASE ProcessEnds \/ AskRestart
    <2>1. app \in AppState
      BY DEF Types, InstallationType
    <2>2. app'.step \in {app.step, "off"} /\ app'.image = app.image
      BY <1>4, <2>1 DEF ProcessEnds, AskRestart, AppState
    <2> QED BY <1>4, <2>2, KeptFrame DEF ProcessEnds, AskRestart, fileVars
  <1>5. CASE Quit \/ RestartByHelper
    <2>1. app \in AppState
      BY DEF Types, InstallationType
    <2>2. app'.image = app.image /\ UNCHANGED <<exe, backup>>
      BY <1>5, <2>1 DEF Quit, RestartByHelper, Ends, AppState, fileVars
    <2>3. ASSUME NEW h \in Helpers, NEW launch \in BOOLEAN, Starts(h, launch) PROVE Kept'
      BY <2>2, <2>3, KeptStarts
    <2>4. CASE Quit /\ ~marker
      <3>1. app'.step = "off" /\ UNCHANGED <<helper, excuse>>
        BY <2>1, <2>4 DEF Quit, Ends, AppState
      <3> QED BY <2>2, <3>1, KeptFrame
    <2> QED BY <1>5, <2>3, <2>4 DEF Quit, RestartByHelper
  <1>6. CASE Start
    BY <1>6, KeptBegins DEF Start, Begins, fileVars, Quiet
  <1>7. ASSUME NEW h \in Helpers, HelperStep(h) PROVE Kept'
    <2> DEFINE k == helper[h].job
    <2>0. excuse \subseteq excuse' /\ (Quiet' => Quiet)
      <3>1. excuse \subseteq excuse'
        BY <1>7 DEF HelperStep, HelperApplies, HelperSkips, HelperDone, HelperFails, HelperUndoes,
                    HelperUndoFails, HelperKilled
      <3> QED BY <3>1 DEF Quiet
    <2>1. CASE HelperApplies(h) \/ HelperSkips(h)
      <3>1. helper[h].step = "apply" /\ k \in 1 .. 5 /\ Becomes(h, "apply", k + 1, helper[h].launch)
        BY <2>1, HelperGoesOn
      <3>2. Active(h) /\ (Holds(h) <=> k = 3)
        BY <3>1 DEF Active, Holds
      <3>3. CASE k # 2
        <4>1. ASSUME Quiet' PROVE exe' # None
          <5>1. k # 3 => exe # None
            BY <2>0, <3>2, <4>1, OneWorks
          <5>2. k = 3 => exe' # None
            BY <2>1 DEF HelperApplies, HelperSkips, CanApply, Apply
          <5>3. k # 3 => exe' = exe
            BY <2>1, <3>3 DEF HelperApplies, HelperSkips, Apply, fileVars
          <5> QED BY <5>1, <5>2, <5>3
        <4>2. k + 1 # 3
          BY <3>1, <3>3
        <4> QED BY <2>0, <3>1, <3>2, <4>1, <4>2, KeptByOne
      <3>4. CASE k = 2
        <4>1. /\ exe # None /\ exe' = None /\ backup' = [there |-> TRUE, exe |-> exe]
              /\ app' = Moved("old")
          BY <2>1, <3>4 DEF HelperApplies, HelperSkips, CanApply, Apply
        <4>2. app \in AppState
          BY DEF Types, InstallationType
        <4>3. Away'
          BY <4>1, <4>2 DEF Moved, AppState, Away
        <4>4. backup'.exe # None /\ backup'.there
          BY <4>1
        <4> QED BY <2>0, <3>1, <3>2, <3>4, <4>1, <4>3, <4>4, KeptByOne
      <3> QED BY <3>3, <3>4
    <2>2. CASE HelperDone(h)
      <3>1. Active(h) /\ Becomes(h, "none", 0, FALSE) /\ ~Holds(h) /\ exe' = exe
        <4>1. helper[h].step = "apply" /\ helper[h].job = 6 /\ exe' = exe
          BY <2>2 DEF HelperDone
        <4>2. ~Holds(h)
          BY <4>1 DEF Holds
        <4> QED BY <2>2, <4>1, <4>2, HelperEnds
      <3>2. Quiet' => exe' # None
        BY <2>0, <3>1, OneWorks
      <3> QED BY <2>0, <3>1, <3>2, KeptByOne
    <2>3. CASE HelperKilled(h)
      BY <2>3 DEF HelperKilled, Kept, Quiet
    <2>4. CASE HelperFails(h)
      <3>1. PICK j \in 0 .. 2 :
              /\ j = k - 1
              /\ \/ j # 0 /\ Becomes(h, "undo", j, helper[h].launch)
                 \/ j = 0 /\ Becomes(h, "none", 0, FALSE)
        BY <2>4, HelperRollsBack
      <3>2. helper[h].step = "apply" /\ UNCHANGED <<exe, backup, app>>
        BY <2>4 DEF HelperFails, fileVars
      <3>3. Active(h) /\ (Holds(h) <=> j = 2)
        <4>1. k \in 0 .. 6
          BY HelperFields
        <4> QED BY <3>1, <3>2, <4>1 DEF Active, Holds
      <3>4. Quiet' => IF j = 2 THEN /\ exe' = None /\ backup'.exe # None /\ backup'.there
                                    /\ Away'
                               ELSE exe' # None
        BY <2>0, <3>2, <3>3, OneWorks DEF Away
      <3>5. CASE j = 2 /\ Becomes(h, "undo", j, helper[h].launch)
        <4>1. Becomes(h, "undo", 2, helper[h].launch)
          BY <3>5
        <4>2. Quiet' => exe' = None /\ backup'.exe # None /\ backup'.there /\ Away'
          BY <3>4, <3>5
        <4> QED BY <2>0, <3>3, <4>1, <4>2, KeptByOne
      <3>6. CASE j = 1 /\ Becomes(h, "undo", j, helper[h].launch)
        <4>1. Becomes(h, "undo", 1, helper[h].launch)
          BY <3>6
        <4>2. Quiet' => exe' # None
          BY <3>4, <3>6
        <4> QED BY <2>0, <3>3, <4>1, <4>2, KeptByOne
      <3>7. CASE j = 0 /\ Becomes(h, "none", 0, FALSE)
        <4>1. Quiet' => exe' # None
          BY <3>4, <3>7
        <4> QED BY <2>0, <3>3, <3>7, <4>1, KeptByOne
      <3>8. j \in {0, 1, 2}
        OBVIOUS
      <3> QED BY <3>1, <3>5, <3>6, <3>7, <3>8
    <2>5. CASE HelperUndoes(h) \/ HelperUndoFails(h)
      <3>1. PICK j \in 0 .. 2 :
              /\ j = k - 1
              /\ \/ j # 0 /\ Becomes(h, "undo", j, helper[h].launch)
                 \/ j = 0 /\ Becomes(h, "none", 0, FALSE)
        BY <2>5, HelperRollsBack
      <3>2. helper[h].step = "undo" /\ k \in {1, 2}
        BY <2>5, HelperFields DEF HelperUndoes, HelperUndoFails
      <3>3. Active(h) /\ (Holds(h) <=> k = 2)
        BY <3>2 DEF Active, Holds
      <3>4. ASSUME Quiet' PROVE exe' # None
        <4>1. CASE k = 1
          <5>1. exe # None
            BY <2>0, <3>3, <3>4, <4>1, OneWorks
          <5>2. exe' = exe
            <6>1. HelperUndoFails(h) => exe' = exe
              BY DEF HelperUndoFails, fileVars
            <6>2. HelperUndoes(h) /\ helper[h].job # 2 => exe' = exe
              BY DEF HelperUndoes
            <6> QED BY <2>5, <4>1, <6>1, <6>2
          <5> QED BY <5>1, <5>2
        <4>2. CASE k = 2 /\ HelperUndoes(h)
          BY <4>2 DEF HelperUndoes
        <4>3. CASE k = 2 /\ HelperUndoFails(h)
          <5>1. exe = None /\ backup.exe # None
            BY <2>0, <3>3, <3>4, <4>3, OneWorks
          <5>2. ~ExeIsRunning
            BY <5>1 DEF ExeIsRunning
          <5>3. "not undone" \in excuse'
            BY <4>3, <5>1, <5>2 DEF HelperUndoFails
          <5> QED BY <3>4, <5>3 DEF Quiet
        <4> QED BY <2>5, <3>2, <4>1, <4>2, <4>3
      <3>5. j # 2
        BY <3>1, <3>2
      <3>6. CASE j # 0 /\ Becomes(h, "undo", j, helper[h].launch)
        BY <2>0, <3>3, <3>4, <3>5, <3>6, KeptByOne
      <3>7. CASE j = 0 /\ Becomes(h, "none", 0, FALSE)
        BY <2>0, <3>3, <3>4, <3>5, <3>7, KeptByOne
      <3> QED BY <3>1, <3>6, <3>7
    <2> QED BY <1>7, <2>1, <2>2, <2>3, <2>4, <2>5 DEF HelperStep
  <1> QED BY <1>1, <1>2, <1>3, <1>4, <1>5, <1>6, <1>7, Cases, Frame
-----------------------------------------------------------------------------
(***************************************************************************)
(* An update that is offered is staged.                                    *)
(***************************************************************************)
LEMMA StagedFrame ==
  ASSUME Staged, UNCHANGED <<status, poll, installer, staged, marker>>, On' <=> On,
         bound'.windows = bound.windows, excuse \subseteq excuse'
  PROVE  Staged'
  BY DEF Staged

LEMMA StagedReset ==
  ASSUME status' = Plain("Idle"), poll' = NoPoll, installer'.step \notin {"prepared", "done"}
  PROVE  Staged'
  BY DEF Staged, Plain, NoPoll

(* What takes away what was staged takes it from no update that is offered,*)
(* or is noted.                                                            *)
LEMMA StagedTaken ==
  ASSUME Staged, UNCHANGED <<status, poll, installer, app>>,
         bound'.windows = bound.windows, excuse' = excuse \cup Takes
  PROVE  Staged'
  <1>1. On' <=> On
    BY DEF On
  <1>2. On /\ Staging => "cleaned" \in excuse'
    BY DEF On, Takes
  <1>3. poll.step = "fetch" /\ poll.previous.step = "Updated" => Staging
    BY DEF Staging
  <1>4. status.step = "Updated" \/ poll.step = "install" => Staging
    BY DEF Staging
  <1> QED BY <1>1, <1>2, <1>3, <1>4 DEF Staged

LEMMA StagedInstallStep ==
  ASSUME Types, Staged, bound.windows, bound'.windows, InstallStep
  PROVE  Staged'
  <1>1. installer \in InstallerState /\ poll \in PollState /\ status \in UpdateStatus
    BY DEF Types, InstallationType, CheckInv, TypeOK
  <1>2. status.step = "Updated" => poll.step \notin {"fetch", "download", "install"}
    BY DEF Types, CheckInv, Busy
  <1>3. CASE ClearUpdates
    BY <1>2, <1>3 DEF ClearUpdates, Staged, On, vars, updaterVars
  <1>4. CASE InstallerStarts
    <2>1. /\ status'.step = "Installing" /\ poll'.step = "install" /\ poll'.version = poll.version
          /\ installer'.step = "place" /\ installer'.version = installer.version
          /\ installer.step = "prepared"
      BY <1>1, <1>4 DEF InstallerStarts, Downloaded, Report, With, PollState, InstallerState
    <2> QED BY <2>1 DEF Staged
  <1>5. CASE InstallerPlaces
    <2>1. /\ installer.step = "place" /\ staged' = installer.version
          /\ installer'.step = "mark" /\ installer'.version = installer.version
          /\ UNCHANGED <<status, poll, app, excuse>>
      BY <1>1, <1>5 DEF InstallerPlaces, InstallerState, vars, updaterVars
    <2> QED BY <2>1 DEF Staged, On
  <1>6. CASE InstallerMarks
    <2>1. /\ installer.step = "mark" /\ marker' /\ UNCHANGED <<status, poll, app, excuse, staged>>
      BY <1>6 DEF InstallerMarks, vars, updaterVars
    <2>2. CASE On /\ poll.step = "install"
      <3>1. installer'.step = "done" /\ installer'.version = installer.version
        BY <1>1, <1>6, <2>2 DEF InstallerMarks, InstallerState
      <3> QED BY <1>2, <2>1, <2>2, <3>1 DEF Staged, On
    <2>3. CASE ~(On /\ poll.step = "install")
      <3>1. installer'.step = "none"
        BY <1>6, <2>3 DEF InstallerMarks, NoInstaller
      <3> QED BY <2>1, <2>3, <3>1 DEF Staged, On
    <2> QED BY <2>2, <2>3
  <1>7. CASE InstallEnds
    <2>1. /\ On /\ poll.step = "install" /\ installer.step = "done" /\ installer'.step = "none"
          /\ status'.step = "Updated" /\ status'.version = poll.version /\ poll' = NoPoll
          /\ UNCHANGED <<staged, marker, excuse>>
      BY <1>7 DEF InstallEnds, InstallerEnded, Installed, Report, With, NoInstaller, fileVars
    <2>2. poll'.step = "none" /\ poll'.previous.step # "Updated"
      BY <2>1 DEF NoPoll, Plain
    <2> QED BY <2>1, <2>2 DEF Staged
  <1>8. CASE UpdateFails
    <2>1. /\ On /\ poll' = NoPoll
          /\ installer' = IF poll.step = "install" \/ installer.step = "prepared" THEN NoInstaller
                          ELSE installer
      BY <1>8 DEF UpdateFails, Fail, Report
    <2>2. poll'.step = "none" /\ poll'.previous.step # "Updated"
      BY <2>1 DEF NoPoll, Plain
    <2>3. status'.step \in {"Idle", "Failed"}
      BY <1>8 DEF UpdateFails, Fail, Report, StatusAfter, Failed, Plain
    <2>4. installer'.step \notin {"prepared", "done"}
      BY <2>1, <1>8 DEF Staged, UpdateFails, NoInstaller
    <2> QED BY <2>2, <2>3, <2>4 DEF Staged
  <1> QED BY <1>3, <1>4, <1>5, <1>6, <1>7, <1>8 DEF InstallStep

LEMMA StagedUpdaterStep ==
  ASSUME Types, Staged, bound.windows, UpdaterStep
  PROVE  Staged'
  <1>1. poll \in PollState
    BY DEF Types, CheckInv, TypeOK
  <1>2. UNCHANGED <<bound, app, installer, staged, marker, excuse>> /\ (On' <=> On)
    BY DEF UpdaterStep, installVars, fileVars, processVars, On
  <1>3. CASE Release \/ Dismiss
    BY <1>2, <1>3, StagedFrame DEF Release, Dismiss, updaterVars
  <1>4. ASSUME NEW asked, Poll(asked) PROVE Staged'
    <2>1. status' = status
          /\ (poll' = poll \/ (poll.step = "none" /\ poll' = [NoPoll EXCEPT !.step = "spawned"]))
      BY <1>4 DEF Poll
    <2>2. CASE poll' = poll
      BY <1>2, <2>1, <2>2, StagedFrame
    <2>3. CASE poll.step = "none" /\ poll' = [NoPoll EXCEPT !.step = "spawned"]
      <3>1. poll'.step = "spawned" /\ poll'.previous.step # "Updated"
        BY <2>3 DEF NoPoll, Plain
      <3> QED BY <1>2, <2>1, <2>3, <3>1 DEF Staged
    <2> QED BY <2>1, <2>2, <2>3
  <1>5. CASE Begin
    <2>1. /\ poll.step = "spawned" /\ poll'.step = "fetch" /\ poll'.previous = status
          /\ status'.step = "Checking"
      BY <1>1, <1>5 DEF Begin, Report, Plain, PollState
    <2> QED BY <1>2, <2>1 DEF Staged
  <1>6. CASE NothingNewer
    <2>1. /\ poll.step = "fetch" /\ poll' = NoPoll
          /\ status' = IF poll.previous.step = "Updated" THEN poll.previous ELSE Plain("Idle")
      BY <1>6 DEF NothingNewer, Report
    <2>2. poll'.step = "none" /\ poll'.previous.step # "Updated" /\ Plain("Idle").step = "Idle"
      BY <2>1 DEF NoPoll, Plain
    <2> QED BY <1>2, <2>1, <2>2 DEF Staged
  <1>7. CASE Newer
    <2>1. poll.step = "fetch" /\ poll'.step = "download" /\ status'.step = "Downloading"
      BY <1>1, <1>7 DEF Newer, Report, With, PollState
    <2> QED BY <1>2, <2>1 DEF Staged
  <1> QED BY <1>3, <1>4, <1>5, <1>6, <1>7 DEF UpdaterStep, PollAutomatic, Check

LEMMA StagedBegins ==
  ASSUME Staged, bound.windows, Begins, UNCHANGED installer
  PROVE  Staged'
  <1>1. ~On
    BY DEF Begins, On
  <1>2. installer.step \notin {"prepared", "done"}
    BY <1>1 DEF Staged
  <1> QED BY <1>2, StagedReset DEF Begins, Restart

LEMMA StagedStep == Types /\ Staged /\ [InstallationNext]_allVars => Staged'
  <1> SUFFICES ASSUME Types, Staged, [InstallationNext]_allVars, bound.windows PROVE Staged'
    BY BoundStep DEF Staged
  <1>1. bound'.windows = bound.windows
    BY BoundStep
  <1>2. app \in AppState
    BY DEF Types, InstallationType
  <1>3. CASE UNCHANGED allVars
    BY <1>1, <1>3, StagedFrame DEF allVars, installVars, fileVars, processVars, vars, updaterVars, On
  <1>4. CASE SwitchSetting
    BY <1>1, <1>4, StagedFrame DEF SwitchSetting, ChangeSetting, updaterVars, fileVars, On
  <1>5. CASE Cleanup
    <2>1. \/ excuse' = excuse \cup Takes
          \/ UNCHANGED <<staged, marker, excuse>>
      BY <1>5 DEF Cleanup
    <2>2. UNCHANGED <<status, poll, installer, app>>
      BY <1>5 DEF Cleanup, vars, updaterVars
    <2> QED BY <1>1, <2>1, <2>2, StagedTaken, StagedFrame DEF On
  <1>6. CASE CleanupFails
    BY <1>1, <1>6, StagedFrame DEF CleanupFails, fileVars, vars, updaterVars, On
  <1>7. CASE Quit \/ RestartByHelper
    <2>1. status' = Plain("Idle") /\ poll' = NoPoll /\ installer'.step \notin {"prepared", "done"}
      <3>1. ASSUME NEW step, Ends(step)
            PROVE  /\ status' = Plain("Idle") /\ poll' = NoPoll
                   /\ installer'.step \notin {"prepared", "done"}
        <4>1. \/ installer' = installer /\ installer.step \in {"place", "mark"}
              \/ installer' = NoInstaller
          BY <3>1 DEF Ends
        <4> QED BY <3>1, <4>1 DEF Ends, Restart, NoInstaller
      <3> QED BY <1>7, <3>1 DEF Quit, RestartByHelper
    <2> QED BY <2>1, StagedReset
  <1>8. CASE ProcessEnds \/ AskRestart
    <2>1. On' <=> On
      BY <1>2, <1>8 DEF ProcessEnds, AskRestart, On, AppState
    <2>2. UNCHANGED <<status, poll, installer, staged, marker, excuse>>
      BY <1>8 DEF ProcessEnds, AskRestart, vars, updaterVars, fileVars
    <2> QED BY <1>1, <2>1, <2>2, StagedFrame
  <1>9. CASE Start
    BY <1>9, StagedBegins DEF Start
  <1>10. ASSUME NEW h \in Helpers, HelperStep(h) PROVE Staged'
    <2>1. \A image \in {"exe", "old"} : Moved(image).step = app.step
      BY <1>2 DEF Moved, AppState
    <2>2. CASE HelperDone(h) /\ Begins
      BY <2>2, StagedBegins DEF HelperDone
    <2>3. CASE HelperApplies(h)
      <3>1. UNCHANGED <<status, poll, installer>>
        BY <2>3 DEF HelperApplies, vars, updaterVars
      <3>2. CASE helper[h].job \in {3, 4, 5}
        <4>1. UNCHANGED app /\ excuse' = excuse \cup Takes
          BY <2>3, <3>2 DEF HelperApplies, Apply, Removes
        <4> QED BY <1>1, <3>1, <4>1, StagedTaken
      <3>3. CASE helper[h].job \notin {3, 4, 5}
        <4>1. /\ UNCHANGED <<staged, marker>> /\ excuse \subseteq excuse'
              /\ app' = app \/ app' = Moved("old")
          BY <2>3, <3>3 DEF HelperApplies, Apply
        <4> QED BY <1>1, <2>1, <3>1, <4>1, StagedFrame DEF On
      <3> QED BY <3>2, <3>3
    <2>4. CASE HelperDone(h) /\ ~Begins
      BY <1>1, <2>4, StagedFrame DEF HelperDone, vars, updaterVars, On
    <2>5. CASE HelperUndoes(h)
      <3>1. UNCHANGED <<status, poll, installer, staged, marker, excuse>>
            /\ (app' = app \/ app' = Moved("exe"))
        BY <2>5 DEF HelperUndoes, vars, updaterVars
      <3> QED BY <1>1, <2>1, <3>1, StagedFrame DEF On
    <2>6. CASE HelperSkips(h) \/ HelperFails(h) \/ HelperUndoFails(h) \/ HelperKilled(h)
      <3>1. UNCHANGED <<status, poll, installer, staged, marker, app>> /\ excuse \subseteq excuse'
        BY <2>6 DEF HelperSkips, HelperFails, HelperUndoFails, HelperKilled, vars, updaterVars,
                    fileVars
      <3> QED BY <1>1, <3>1, StagedFrame DEF On
    <2> QED BY <1>10, <2>2, <2>3, <2>4, <2>5, <2>6 DEF HelperStep
  <1>11. ~ReplacedInPlace
    BY DEF ReplacedInPlace
  <1> QED
    BY <1>1, <1>3, <1>4, <1>5, <1>6, <1>7, <1>8, <1>9, <1>10, <1>11, StagedInstallStep,
       StagedUpdaterStep, Cases
-----------------------------------------------------------------------------
(***************************************************************************)
(* What was promised starts.                                               *)
(***************************************************************************)
LEMMA PromiseOn ==
  ASSUME Promise, On, On', app'.image = app.image, UNCHANGED <<helper, promised>>,
         bound'.windows = bound.windows, excuse \subseteq excuse'
  PROVE  Promise'
  <1>1. promised' = None
    BY DEF Promise
  <1>2. ASSUME excuse' = {} PROVE Alone' /\ Undisturbed'
    <2>1. excuse = {}
      BY <1>2
    <2>2. Alone'
      BY <2>1 DEF Promise, Alone, Active
    <2> QED BY <2>2 DEF Alone, Active, Undisturbed
  <1> QED BY <1>1, <1>2 DEF Promise

LEMMA PromiseFrame ==
  ASSUME Promise, UNCHANGED <<exe, backup, staged, helper, promised, excuse, installer>>,
         bound'.windows = bound.windows, app'.image = app.image,
         app' = app \/ app'.step = "off"
  PROVE  Promise'
  BY DEF Promise, On, Alone, Active, Undisturbed, OnTheWay, Working, Delivered

(* The program ends, by itself or by its helper.                           *)
LEMMA PromiseEnds ==
  ASSUME Types, Staged, Promise, [InstallationNext]_allVars, bound.windows, Quit \/ RestartByHelper
  PROVE  Promise'
  <1>1. app \in AppState /\ On /\ bound'.windows
    BY BoundStep DEF Types, InstallationType, Quit, RestartByHelper
  <1>2. PICK step \in {"quitting", "off"} : Ends(step)
    BY DEF Quit, RestartByHelper
  <1>3. /\ app'.step # "on" /\ app'.image = app.image
        /\ UNCHANGED <<exe, backup, staged, marker>>
        /\ promised' = IF status.step = "Updated" THEN status.version ELSE None
    BY <1>1, <1>2 DEF Ends, AppState, fileVars
  <1>4. \/ ~marker /\ Quit /\ UNCHANGED <<helper, excuse>>
        \/ \E h \in Helpers, launch \in BOOLEAN : Starts(h, launch)
    BY DEF Quit, RestartByHelper
  <1>5. excuse \subseteq excuse'
    BY <1>4 DEF Starts
  <1>6. ASSUME excuse' = {} PROVE Undisturbed' /\ (promised' # None => OnTheWay')
    <2>1. excuse = {} /\ Alone
      BY <1>1, <1>5, <1>6 DEF Promise
    <2>2. status.step = "Updated" => installer.step = "none" /\ marker /\ staged = status.version
      BY <1>1, <2>1 DEF Staged
    <2>3. promised' # None => installer'.step = "none" /\ marker /\ staged' = promised'
      <3>1. installer.step = "none" => installer' = NoInstaller
        BY <1>2 DEF Ends
      <3>2. NoInstaller.step = "none"
        BY DEF NoInstaller
      <3> QED BY <1>3, <2>2, <3>1, <3>2
    <2>4. CASE ~marker /\ UNCHANGED <<helper, excuse>>
      BY <2>1, <2>3, <2>4 DEF Undisturbed, Alone, Active
    <2>5. ASSUME NEW h \in Helpers, NEW launch \in BOOLEAN, Starts(h, launch)
          PROVE  Undisturbed' /\ (promised' # None => OnTheWay')
      <3>1. Becomes(h, "apply", 1, launch)
        BY <2>5, HelperStarts
      <3>2. \A g \in Helpers : g # h => helper'[g].step = "none"
        BY <2>1, <3>1 DEF Becomes, Alone, Active
      <3>3. helper'[h].step = "apply" /\ helper'[h].job = 1
        BY <3>1 DEF Becomes
      <3>4. Undisturbed'
        <4>1. app'.image = "exe"
          BY <1>3, <2>1 DEF Alone
        <4> QED BY <3>2, <3>3, <4>1 DEF Undisturbed
      <3>5. promised' # None => OnTheWay'
        BY <2>3, <3>2, <3>3 DEF OnTheWay, Working
      <3> QED BY <3>4, <3>5
    <2> QED BY <1>4, <2>4, <2>5
  <1> QED BY <1>1, <1>3, <1>6 DEF Promise, On

LEMMA PromiseStarts ==
  ASSUME Promise, bound'.windows, Start
  PROVE  Promise'
  <1>1. promised' = None /\ app'.image = "exe" /\ UNCHANGED helper
    BY DEF Start, Begins
  <1>2. excuse' = {} => \A h \in Helpers : ~Active(h)'
    BY <1>1 DEF Start, Helping, Active
  <1> QED BY <1>1, <1>2 DEF Promise, Alone, Active, Undisturbed

(* Where nothing has gone wrong the helper that works is the only one, and *)
(* none of its jobs fails.                                                 *)
LEMMA NothingFails ==
  ASSUME Types, Kept, Promise, excuse = {}, promised # None,
         NEW h \in Helpers, helper[h].step = "apply", helper[h].job <= 3
  PROVE  staged = promised /\ Working /\ CanApply(helper[h].job)
  <1>1. Quiet /\ Active(h)
    BY DEF Quiet, Active
  <1>2. \A g \in Helpers : g # h => ~Active(g)
    BY <1>1, OneWorks
  <1>3. OnTheWay /\ Undisturbed
    BY DEF Promise
  <1>4. Working /\ staged = promised
    <2>1. helper[h].job \in 0 .. 6
      BY HelperFields
    <2>2. ~Delivered
      BY <1>1, <2>1 DEF Delivered
    <2> QED BY <1>3, <2>2 DEF OnTheWay, Working
  <1>5. CASE helper[h].job = 2
    <2>1. ~Holds(h)
      BY <1>5 DEF Holds
    <2>2. exe # None
      BY <1>1, <2>1, OneWorks
    <2>3. backup.there /\ ~OldIsRunning
      BY <1>3, <1>5 DEF Undisturbed, OldIsRunning
    <2> QED BY <1>4, <1>5, <2>2, <2>3 DEF CanApply
  <1>6. CASE helper[h].job = 3
    <2>1. Holds(h)
      BY <1>6 DEF Holds
    <2>2. exe = None
      BY <1>1, <2>1, OneWorks
    <2> QED BY <1>4, <1>6, <2>2 DEF CanApply, ExeIsRunning
  <1>7. CASE helper[h].job \notin {2, 3}
    BY <1>4, <1>7 DEF CanApply
  <1> QED BY <1>5, <1>6, <1>7

(* A helper takes a step while the program does not run, and nothing goes  *)
(* wrong.                                                                  *)
LEMMA PromiseHelper ==
  ASSUME Types, Kept, Promise, NEW h \in Helpers, HelperStep(h), ~Begins,
         excuse = {}, excuse' = {}
  PROVE  Undisturbed' /\ (promised' # None => OnTheWay')
  <1> DEFINE k == helper[h].job
  <1>1. Quiet /\ Active(h) /\ Undisturbed /\ (promised # None => OnTheWay)
    BY DEF Quiet, Active, Promise, HelperStep, HelperApplies, HelperSkips, HelperDone,
           HelperFails, HelperUndoes, HelperUndoFails, HelperKilled
  <1>2. \A g \in Helpers : g # h => helper[g].step = "none"
    BY <1>1, OneWorks DEF Active
  <1>3. UNCHANGED <<promised, installer>>
    BY DEF HelperStep, HelperApplies, HelperSkips, HelperDone,
           HelperFails, HelperUndoes, HelperUndoFails, HelperKilled
  <1>4. ASSUME NEW step \in {"none", "undo"}, NEW job, NEW launch, Becomes(h, step, job, launch),
               promised # None => step = "none" /\ exe' = promised
        PROVE  Undisturbed' /\ (promised' # None => OnTheWay')
    <2>1. \A g \in Helpers : g # h => helper'[g].step = "none"
      BY <1>2, <1>4 DEF Becomes
    <2>2. helper'[h].step = step
      BY <1>4 DEF Becomes
    <2>3. Undisturbed'
      BY <1>4, <2>1, <2>2 DEF Undisturbed
    <2>4. ASSUME promised' # None PROVE OnTheWay'
      <3>1. exe' = promised' /\ installer'.step = "none"
        BY <1>1, <1>3, <1>4, <2>4 DEF OnTheWay
      <3>2. \A g \in Helpers : helper'[g].step = "none"
        BY <1>3, <1>4, <2>1, <2>2, <2>4
      <3> QED BY <3>1, <3>2 DEF OnTheWay, Delivered, Active
    <2> QED BY <2>3, <2>4
  <1>5. ASSUME promised # None, helper[h].step = "apply", k > 3 PROVE exe = promised
    <2>1. ~Working
      <3>1. helper[h].job \in 0 .. 6
        BY HelperFields
      <3>2. ~(helper[h].job <= 3)
        BY <1>5, <3>1
      <3> QED BY <1>2, <3>2 DEF Working
    <2> QED BY <1>1, <1>5, <2>1 DEF OnTheWay, Delivered
  <1>6. CASE HelperApplies(h)
    <2>1. helper[h].step = "apply" /\ k \in 1 .. 5 /\ Becomes(h, "apply", k + 1, helper[h].launch)
      BY <1>6, HelperGoesOn
    <2>2. \A g \in Helpers : g # h => helper'[g].step = "none"
      BY <1>2, <2>1 DEF Becomes
    <2>3. helper'[h].step = "apply" /\ helper'[h].job = k + 1
      BY <2>1 DEF Becomes
    <2>4. Undisturbed'
      <3>1. CASE k = 1
        <4>1. app' = app /\ backup' = [backup EXCEPT !.there = TRUE]
          BY <1>6, <3>1 DEF HelperApplies, Apply
        <4>2. app.step = "off" \/ app.image = "exe"
          BY <1>1, <2>1, <3>1 DEF Undisturbed
        <4>3. backup'.there
          BY <4>1 DEF Types, InstallationType
        <4> QED BY <2>2, <2>3, <4>1, <4>2, <4>3 DEF Undisturbed
      <3>2. CASE k # 1
        <4>1. ~(k + 1 <= 2)
          BY <2>1, <3>2
        <4> QED BY <2>2, <2>3, <4>1 DEF Undisturbed
      <3> QED BY <3>1, <3>2
    <2>5. ASSUME promised' # None PROVE OnTheWay'
      <3>1. installer'.step = "none" /\ promised # None
        BY <1>1, <1>3, <2>5 DEF OnTheWay
      <3>2. \A g \in Helpers : helper'[g].step # "undo"
        BY <2>2, <2>3
      <3>3. CASE k \in {1, 2}
        <4>1. staged = promised
          BY <2>1, <3>1, <3>3, NothingFails
        <4>2. staged' = staged
          BY <1>6, <3>3 DEF HelperApplies, Apply
        <4>3. k + 1 <= 3
          BY <3>3
        <4>4. Working'
          BY <1>3, <2>3, <4>1, <4>2, <4>3 DEF Working
        <4> QED BY <3>1, <3>2, <4>4 DEF OnTheWay
      <3>4. CASE k \in {3, 4, 5}
        <4>1. exe' = promised
          <5>1. CASE k = 3
            <6>1. staged = promised
              BY <2>1, <3>1, <5>1, NothingFails
            <6>2. exe' = staged
              BY <1>6, <5>1 DEF HelperApplies, Apply
            <6> QED BY <6>1, <6>2
          <5>2. CASE k \in {4, 5}
            <6>1. exe' = exe
              BY <1>6, <5>2 DEF HelperApplies, Apply
            <6> QED BY <1>5, <2>1, <3>1, <5>2, <6>1
          <5> QED BY <3>4, <5>1, <5>2
        <4>2. k + 1 >= 4
          BY <3>4
        <4>3. Delivered'
          BY <1>3, <2>2, <2>3, <4>1, <4>2 DEF Delivered, Active
        <4> QED BY <3>1, <3>2, <4>3 DEF OnTheWay
      <3> QED BY <2>1, <3>3, <3>4
    <2> QED BY <2>4, <2>5
  <1>7. CASE HelperSkips(h) \/ HelperKilled(h)
    BY <1>7 DEF HelperSkips, HelperKilled
  <1>8. CASE HelperDone(h)
    <2>1. /\ helper[h].step = "apply" /\ k = 6 /\ exe' = exe
          /\ Becomes(h, "none", 0, FALSE)
      <3>1. helper[h].step = "apply" /\ helper[h].job = 6 /\ exe' = exe
        BY <1>8 DEF HelperDone
      <3> QED BY <1>8, <3>1, HelperEnds
    <2>2. promised # None => exe' = promised
      BY <1>5, <2>1
    <2> QED BY <1>4, <2>1, <2>2
  <1>9. CASE HelperFails(h) \/ HelperUndoes(h) \/ HelperUndoFails(h)
    <2>1. promised = None
      <3>1. CASE HelperFails(h)
        BY <3>1, NothingFails DEF HelperFails
      <3>2. CASE HelperUndoes(h) \/ HelperUndoFails(h)
        BY <1>1, <3>2 DEF HelperUndoes, HelperUndoFails, OnTheWay
      <3> QED BY <1>9, <3>1, <3>2
    <2>2. PICK j \in 0 .. 2 :
            \/ j # 0 /\ Becomes(h, "undo", j, helper[h].launch)
            \/ j = 0 /\ Becomes(h, "none", 0, FALSE)
      BY <1>9, HelperRollsBack
    <2>3. CASE Becomes(h, "undo", j, helper[h].launch)
      BY <1>4, <2>1, <2>3
    <2>4. CASE Becomes(h, "none", 0, FALSE)
      BY <1>4, <2>1, <2>4
    <2> QED BY <2>2, <2>3, <2>4
  <1> QED BY <1>6, <1>7, <1>8, <1>9 DEF HelperStep

(* The helper that is done starts the program again.                       *)
LEMMA PromiseRelaunch ==
  ASSUME Types, Kept, Promise, NEW h \in Helpers, HelperDone(h), Begins, excuse = {}
  PROVE  Alone' /\ Undisturbed' /\ (promised # None => exe = promised)
  <1>1. Quiet /\ Active(h)
    BY DEF Quiet, Active, HelperDone
  <1>2. \A g \in Helpers : g # h => helper[g].step = "none"
    BY <1>1, OneWorks DEF Active
  <1>3. Becomes(h, "none", 0, FALSE)
    BY HelperEnds
  <1>4. \A g \in Helpers : helper'[g].step = "none"
    BY <1>2, <1>3 DEF Becomes
  <1>5. app'.image = "exe"
    BY DEF Begins
  <1>6. ~Working
    BY <1>2 DEF HelperDone, Working
  <1>7. promised # None => exe = promised
    BY <1>6 DEF Promise, OnTheWay, Delivered
  <1> QED BY <1>4, <1>5, <1>7 DEF Alone, Active, Undisturbed

LEMMA PromiseStep ==
  Types /\ Kept /\ Staged /\ Promise /\ [InstallationNext]_allVars => Promise'
  <1> SUFFICES ASSUME Types, Kept, Staged, Promise, [InstallationNext]_allVars PROVE Promise'
    OBVIOUS
  <1>1. bound'.windows = bound.windows /\ app \in AppState
    BY BoundStep DEF Types, InstallationType
  <1>2. CASE ReplacedInPlace \/ UNCHANGED allVars
    BY <1>1, <1>2, PromiseFrame DEF ReplacedInPlace, allVars, installVars, fileVars, processVars
  <1> SUFFICES ASSUME bound.windows, ~ReplacedInPlace PROVE Promise'
    BY <1>2 DEF InstallationNext, OnWindows
  <1>3. CASE On /\ On' /\ UNCHANGED <<helper, promised>> /\ app'.image = app.image
               /\ excuse \subseteq excuse'
    BY <1>1, <1>3, PromiseOn
  <1>4. CASE UpdaterStep \/ SwitchSetting \/ Cleanup \/ CleanupFails
    <2>1. On /\ UNCHANGED <<helper, promised, app>> /\ excuse \subseteq excuse'
      <3>1. CASE UpdaterStep \/ SwitchSetting
        BY <3>1, Frame DEF UpdaterStep, SwitchSetting
      <3>2. CASE Cleanup \/ CleanupFails
        BY <3>2 DEF Cleanup, CleanupFails
      <3> QED BY <1>4, <3>1, <3>2
    <2> QED BY <1>3, <2>1 DEF On
  <1>5. CASE InstallStep
    <2>1. UNCHANGED <<exe, backup, helper, promised, excuse, app>>
      BY <1>5, Frame
    <2>2. CASE On
      BY <1>3, <2>1, <2>2 DEF On
    <2>3. CASE ~On
      <3>1. installer.step # "none"
        BY <1>5, <2>3 DEF InstallStep, ClearUpdates, InstallerStarts, InstallerPlaces,
             InstallerMarks, InstallEnds, UpdateFails
      <3>2. excuse = {} => promised = None
        BY <3>1 DEF Promise, OnTheWay
      <3> QED BY <1>1, <2>1, <2>3, <3>2 DEF Promise, On, Undisturbed
    <2> QED BY <2>2, <2>3
  <1>6. CASE AskRestart
    BY <1>1, <1>3, <1>6 DEF AskRestart, On, AppState
  <1>7. CASE ProcessEnds
    <2>1. app'.step = "off" /\ app'.image = app.image
      BY <1>1, <1>7 DEF ProcessEnds, AppState
    <2> QED BY <1>1, <1>7, <2>1, PromiseFrame DEF ProcessEnds, fileVars
  <1>8. CASE Quit \/ RestartByHelper
    BY <1>8, PromiseEnds
  <1>9. CASE Start
    BY <1>1, <1>9, PromiseStarts
  <1>10. ASSUME NEW h \in Helpers, HelperStep(h) PROVE Promise'
    <2>1. excuse \subseteq excuse'
      BY <1>10 DEF HelperStep, HelperApplies, HelperSkips, HelperDone, HelperFails, HelperUndoes,
                   HelperUndoFails, HelperKilled
    <2>2. CASE Begins
      <3>1. promised' = None /\ HelperDone(h)
        <4>1. app.step = "off" /\ app'.step = "on" /\ promised' = None
          BY <2>2 DEF Begins
        <4>2. Moved("exe") = app /\ Moved("old") = app
          BY <4>1 DEF Moved
        <4>3. app' # app
          BY <4>1
        <4> QED BY <1>10, <4>1, <4>2, <4>3 DEF HelperStep, HelperApplies, HelperSkips, HelperFails,
                  HelperUndoes, HelperUndoFails, HelperKilled, Apply
      <3>2. excuse' = {} => Alone' /\ Undisturbed'
        BY <2>1, <2>2, <3>1, PromiseRelaunch
      <3> QED BY <1>1, <3>1, <3>2 DEF Promise
    <2>3. CASE ~Begins
      <3>1. promised' = promised /\ app'.step = app.step
        <4>1. \A image \in {"exe", "old"} : Moved(image).step = app.step
          BY <1>1 DEF Moved, AppState
        <4> QED BY <1>10, <2>3, <4>1 DEF HelperStep, HelperApplies, HelperSkips, HelperDone,
                  HelperFails, HelperUndoes, HelperUndoFails, HelperKilled, Apply
      <3>2. excuse' = {} => Undisturbed' /\ (promised' # None => OnTheWay')
        BY <1>10, <2>1, <2>3, PromiseHelper
      <3>3. excuse' = {} => ~On
        <4>1. Active(h)
          BY <1>10 DEF HelperStep, HelperApplies, HelperSkips, HelperDone, HelperFails, HelperUndoes,
                       HelperUndoFails, HelperKilled, Active
        <4> QED BY <2>1, <4>1 DEF Promise, Alone
      <3> QED BY <1>1, <3>1, <3>2, <3>3 DEF Promise, On
    <2> QED BY <2>2, <2>3
  <1> QED BY <1>4, <1>5, <1>6, <1>7, <1>8, <1>9, <1>10, Cases, <1>2
-----------------------------------------------------------------------------
(***************************************************************************)
(* The theorems.                                                           *)
(***************************************************************************)
LEMMA InstallInit == InstallationInit => InstallInv
  <1> SUFFICES ASSUME InstallationInit PROVE InstallInv OBVIOUS
  <1> USE BoundAssumption, InstallationAssumption
  <1>1. CheckInv
    BY CheckInit DEF InstallationInit
  <1>2. /\ app = [step |-> "on", image |-> "exe", restart |-> FALSE]
        /\ exe = current /\ backup = NoBackup /\ staged = None /\ marker = FALSE
        /\ installer = NoInstaller /\ cleaning \in {0, Len(Directories)}
        /\ helper = [h \in Helpers |-> NoHelper]
        /\ promised = None /\ excuse = {} /\ bound \in Bounds
    BY DEF InstallationInit
  <1>3. exe \in Versions /\ exe # None /\ 0 \in Versions
    BY <1>1, <1>2 DEF CheckInv, TypeOK, Versions
  <1>4. InstallationType
    <2>1. Len(Directories) = 3
      BY DEF Directories
    <2>2. cleaning \in 0 .. Len(Directories)
      BY <1>2, <2>1
    <2>3. helper \in [Helpers -> HelperState]
      BY <1>2 DEF HelperState, NoHelper
    <2>4. app \in AppState /\ installer \in InstallerState
      BY <1>2, <1>3 DEF AppState, InstallerState, NoInstaller
    <2> QED BY <1>2, <1>3, <2>2, <2>3, <2>4 DEF InstallationType, File, NoBackup
  <1>5. \A h \in Helpers : helper[h].step = "none"
    BY <1>2 DEF NoHelper
  <1>6. Kept
    BY <1>3, <1>5 DEF Kept, Active, Holds
  <1>7. Staged
    <2>1. installer.step = "none" /\ status.step = "Idle" /\ poll.step = "none"
          /\ poll.previous.step = "Idle"
      BY <1>2 DEF InstallationInit, Init, NoInstaller, Plain, NoPoll
    <2> QED BY <2>1 DEF Staged
  <1>8. Promise
    BY <1>2, <1>5 DEF Promise, Alone, Active, Undisturbed
  <1> QED BY <1>1, <1>4, <1>6, <1>7, <1>8 DEF InstallInv, Types

LEMMA InstallStepKeeps == InstallInv /\ [InstallationNext]_allVars => InstallInv'
  BY TypesStep, KeptStep, StagedStep, PromiseStep DEF InstallInv

THEOREM InstallInvariant == InstallationSpec => []InstallInv
  BY InstallInit, InstallStepKeeps, PTL DEF InstallationSpec

(* Program, files, installer, helpers and updater stay in the states       *)
(* listed.                                                                 *)
THEOREM InstallationTypes == InstallationSpec => [](InstallationType /\ TypeOK)
  <1>1. InstallInv => InstallationType /\ TypeOK
    BY DEF InstallInv, Types, CheckInv
  <1> QED BY <1>1, InstallInvariant, PTL

(* With the ends and starts of its process, its installer and its helpers, *)
(* the updater does nothing that the updater by itself may not do: what is *)
(* proved of the updater holds of the program on Windows.                  *)
THEOREM InstallationImplementsUpdater == InstallationSpec => Spec
  <1>1. InstallationInit => Init
    BY DEF InstallationInit
  <1>2. InstallInv /\ [InstallationNext]_allVars => [Next]_vars
    BY UpdaterSteps DEF InstallInv
  <1> QED BY <1>1, <1>2, InstallInvariant, PTL DEF InstallationSpec, Spec

(* No check a window waits for is forgotten, and none is answered falsely, *)
(* while the program ends, is replaced and starts again.                   *)
THEOREM ChecksSurviveInstallation == InstallationSpec => []NoCheckForgotten /\ UpToDateIsTrue
  BY InstallationImplementsUpdater, ChecksAreWatched, UpToDateIsSaidTruly, PTL

(* An update the user is told of is staged and marked, unless a cleanup or *)
(* a helper took it.                                                       *)
THEOREM ReadyIsStaged == InstallationSpec => []ReadyMeansStaged
  <1>1. InstallInv => ReadyMeansStaged
    BY DEF InstallInv, Staged, ReadyMeansStaged
  <1> QED BY <1>1, InstallInvariant, PTL

(* Whatever job fails, the helper leaves a program that can be started,    *)
(* unless a rollback failed as well, it was killed, or another one ran.    *)
THEOREM ProgramIsKept == InstallationSpec => []ProgramStaysInstalled
  <1>1. InstallInv => ProgramStaysInstalled
    BY DEF InstallInv, Kept, Quiet, Holds, Helping, ProgramStaysInstalled
  <1> QED BY <1>1, InstallInvariant, PTL

(* The version that starts next is the one that was promised, when nothing *)
(* went wrong in between.                                                  *)
LEMMA ArrivalStep ==
  ASSUME InstallInv, [InstallationNext]_allVars,
         app.step = "off", On', promised # None, excuse \cup excuse' = {}
  PROVE  current' = promised
  <1>1. Types /\ Kept /\ Promise /\ excuse = {} /\ excuse' = {} /\ ~On
    BY DEF InstallInv, On
  <1>2. app' # app
    BY <1>1 DEF On
  <1>3. CASE Start
    <2>1. ~Helping /\ current' = exe
      BY <1>1, <1>3 DEF Start, Begins, Restart
    <2>2. Delivered
      BY <1>1, <2>1 DEF Promise, OnTheWay, Working, Helping
    <2> QED BY <2>1, <2>2 DEF Delivered
  <1>4. ASSUME NEW h \in Helpers, HelperStep(h) PROVE current' = promised
    <2>1. Moved("exe") = app /\ Moved("old") = app
      BY DEF Moved
    <2>2. HelperDone(h) /\ Begins
      BY <1>2, <1>4, <2>1 DEF HelperStep, HelperApplies, HelperSkips, HelperDone, HelperFails,
           HelperUndoes, HelperUndoFails, HelperKilled, Apply
    <2>3. exe = promised
      BY <1>1, <2>2, PromiseRelaunch
    <2> QED BY <2>2, <2>3 DEF Begins, Restart
  <1>5. ~(Cleanup \/ CleanupFails \/ Quit \/ ProcessEnds \/ AskRestart \/ RestartByHelper)
    BY <1>1 DEF Cleanup, CleanupFails, Quit, ProcessEnds, AskRestart, RestartByHelper
  <1> QED BY <1>2, <1>3, <1>4, <1>5, Cases, Frame

THEOREM UpdatesArrive == InstallationSpec => UpdateArrives
  <1>1. InstallInv /\ [InstallationNext]_allVars =>
          [app.step = "off" /\ On' /\ promised # None /\ excuse \cup excuse' = {}
             => current' = promised]_allVars
    BY ArrivalStep
  <1> QED BY <1>1, InstallInvariant, PTL DEF InstallationSpec, UpdateArrives
=============================================================================
