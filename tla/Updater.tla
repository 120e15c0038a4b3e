------------------------------- MODULE Updater -------------------------------
(***************************************************************************)
(* The updater (crates/updater/src/updater.rs) and the item that shows it  *)
(* in the status bar of every window (update_version.rs): automatic polls, *)
(* checks the user asks for, downloading, installing, dismissing.          *)
(*                                                                         *)
(* Versions are numbers.  An error has a text and an identity, the number  *)
(* of the poll it ended: PartialEq compares the texts, is_same_status the  *)
(* identities.  Windows observe the updater in the turn that changes it,   *)
(* so their copies of its status are left out.                             *)
(***************************************************************************)
EXTENDS Naturals

CONSTANTS
  Windows,     \* open windows
  MaxVersion,  \* bound: releases
  MaxPolls     \* bound: polls

ASSUME BoundAssumption == MaxVersion \in Nat /\ MaxPolls \in Nat

VARIABLES
  latest,      \* the latest release on the server
  current,     \* current_version
  ready,       \* the version installed, which a restart runs
  automatic,   \* the setting, on which the polling task depends
  status, checkType, dismissed,
  poll,        \* pending_poll
  polls,       \* polls so far
  check        \* manual_check of every window, and how its last one was answered

updaterVars == <<status, checkType, dismissed, poll, polls>>
vars == <<latest, current, ready, automatic, updaterVars, check>>

Versions == 0 .. MaxVersion
Causes == {"dependency", "other"}  \* a missing rsync, and everything else
NoError == [cause |-> "none", id |-> 0]

UpdateStatus ==
  [step : {"Idle", "Checking"}, version : {0}, error : {NoError}]
    \cup [step : {"Downloading", "Installing", "Updated"}, version : Versions, error : {NoError}]
    \cup [step : {"Failed"}, version : {0}, error : [cause : Causes, id : 1 .. MaxPolls]]

Plain(step) == [step |-> step, version |-> 0, error |-> NoError]
With(step, v) == [step |-> step, version |-> v, error |-> NoError]
Failed(cause) == [step |-> "Failed", version |-> 0, error |-> [cause |-> cause, id |-> polls]]

Busy(s) == s.step \in {"Checking", "Downloading", "Installing"}

NoPoll == [step |-> "none", previous |-> Plain("Idle"), version |-> 0]
PollState ==
  [step : {"none", "spawned", "fetch", "download", "install"}, previous : UpdateStatus,
   version : Versions]

ManualCheck ==
  [pending : BOOLEAN, initial : UpdateStatus, started : BOOLEAN,
   answer : {"none", "upToDate", "failed", "updated"}]
NoCheck == [pending |-> FALSE, initial |-> Plain("Idle"), started |-> FALSE, answer |-> "none"]
Answered(answer) == [NoCheck EXCEPT !.answer = answer]

TypeOK ==
  /\ latest \in Versions /\ current \in Versions /\ ready \in Versions
  /\ automatic \in BOOLEAN
  /\ status \in UpdateStatus /\ checkType \in {"Automatic", "Manual"}
  /\ dismissed \in UpdateStatus \cup {NoError}
  /\ poll \in PollState /\ polls \in 0 .. MaxPolls
  /\ check \in [Windows -> ManualCheck]
-----------------------------------------------------------------------------
(* update_status of a window: what the check it waits for has come to.     *)
Observed(c, s, type) ==
  CASE ~c.pending \/ type # "Manual"          -> c
    [] c.pending /\ type = "Manual" /\ Busy(s) -> [c EXCEPT !.started = TRUE]
    [] c.pending /\ type = "Manual" /\ c.started /\ s.step = "Idle"    -> Answered("upToDate")
    [] c.pending /\ type = "Manual" /\ c.started /\ s.step = "Updated" -> Answered("updated")
    [] c.pending /\ type = "Manual" /\ s.step = "Failed" /\ (c.started \/ c.initial # s)
                                               -> Answered("failed")
    [] OTHER -> c

(* The status and the poll change and every window observes it.            *)
Report(newStatus, newPoll) ==
  /\ status' = newStatus /\ poll' = newPoll
  /\ check' = [w \in Windows |-> Observed(check[w], newStatus, checkType)]

Release ==
  /\ latest < MaxVersion /\ latest' = latest + 1
  /\ UNCHANGED <<current, ready, automatic, updaterVars, check>>

ChangeSetting ==
  /\ automatic' = ~automatic
  /\ UNCHANGED <<latest, current, ready, updaterVars, check>>

(***************************************************************************)
(* poll                                                                    *)
(***************************************************************************)
(* Variant: the check the user asks for is lost on the one in progress.    *)
JoinedTypeKept(asked) == checkType

(* A check in progress becomes the user's when the user asks for one.      *)
JoinedType(asked) == IF checkType = "Automatic" THEN asked ELSE checkType

Poll(asked) ==
  /\ dismissed' = IF asked = "Manual" THEN NoError ELSE dismissed
  /\ IF poll.step = "none"
       THEN /\ polls < MaxPolls /\ polls' = polls + 1
            /\ checkType' = asked
            /\ poll' = [NoPoll EXCEPT !.step = "spawned"]
       ELSE checkType' = JoinedType(asked) /\ UNCHANGED <<poll, polls>>
  /\ UNCHANGED <<latest, current, ready, automatic, status>>

(* The polling task; its timer does not wait for the poll to end.          *)
PollAutomatic ==
  /\ automatic /\ Poll("Automatic")
  /\ check' = [w \in Windows |-> Observed(check[w], status, checkType')]

(* start_manual_check and check_for_updates, in the same turn.             *)
Check(w) ==
  /\ Poll("Manual")
  /\ LET started == [NoCheck EXCEPT !.pending = TRUE, !.initial = status, !.started = Busy(status)]
     IN  check' = [v \in Windows |->
                    Observed(IF v = w THEN started ELSE check[v], status, checkType')]

(***************************************************************************)
(* update                                                                  *)
(***************************************************************************)
Begin ==
  /\ poll.step = "spawned"
  /\ Report(Plain("Checking"), [poll EXCEPT !.step = "fetch", !.previous = status])
  /\ UNCHANGED <<latest, current, ready, automatic, checkType, dismissed, polls>>

(* check_if_fetched_version_is_newer: than what is installed, or ready.    *)
Newest == IF poll.previous.step = "Updated" THEN poll.previous.version ELSE current

NothingNewer ==
  /\ poll.step = "fetch" /\ latest <= Newest
  /\ Report(IF poll.previous.step = "Updated" THEN poll.previous ELSE Plain("Idle"), NoPoll)
  /\ UNCHANGED <<latest, current, ready, automatic, checkType, dismissed, polls>>

Newer ==
  /\ poll.step = "fetch" /\ latest > Newest
  /\ Report(With("Downloading", latest), [poll EXCEPT !.step = "download", !.version = latest])
  /\ UNCHANGED <<latest, current, ready, automatic, checkType, dismissed, polls>>

Downloaded ==
  /\ poll.step = "download"
  /\ Report(With("Installing", poll.version), [poll EXCEPT !.step = "install"])
  /\ UNCHANGED <<latest, current, ready, automatic, checkType, dismissed, polls>>

Installed ==
  /\ poll.step = "install"
  /\ ready' = poll.version
  /\ Report(With("Updated", poll.version), NoPoll)
  /\ UNCHANGED <<latest, current, automatic, checkType, dismissed, polls>>

(* Any step may fail.  Variant: the failure of a check is never shown.     *)
StatusAfterSilently(cause) == Plain("Idle")
StatusAfterRestored(cause) ==  \* variant: what was ready before is offered again
  IF poll.previous.step = "Updated" THEN poll.previous
  ELSE IF checkType = "Automatic" THEN Plain("Idle") ELSE Failed(cause)

StatusAfter(cause) ==
  IF checkType = "Automatic" /\ cause # "dependency" THEN Plain("Idle") ELSE Failed(cause)

Fail ==
  \E cause \in Causes :
    /\ IF cause = "dependency" THEN poll.step = "spawned"
       ELSE poll.step \in {"fetch", "download", "install"}
    /\ Report(StatusAfter(cause), NoPoll)
    /\ UNCHANGED <<latest, current, ready, automatic, checkType, dismissed, polls>>
-----------------------------------------------------------------------------
Dismiss ==
  /\ status.step \in {"Updated", "Failed"} /\ dismissed' = status
  /\ check' = [w \in Windows |-> Observed(check[w], status, checkType)]
  /\ UNCHANGED <<latest, current, ready, automatic, status, checkType, poll, polls>>

(* The program ends, and runs again as the version v.                      *)
Restart(v) ==
  /\ current' = v /\ ready' = v
  /\ status' = Plain("Idle") /\ checkType' = "Automatic" /\ dismissed' = NoError
  /\ poll' = NoPoll /\ check' = [w \in Windows |-> NoCheck]
  /\ UNCHANGED <<latest, automatic, polls>>

Init ==
  /\ latest \in Versions /\ current = 0 /\ ready = 0
  /\ automatic \in BOOLEAN
  /\ status = Plain("Idle") /\ checkType = "Automatic" /\ dismissed = NoError
  /\ poll = NoPoll /\ polls = 0
  /\ check = [w \in Windows |-> NoCheck]

UpdateStep == Begin \/ NothingNewer \/ Newer \/ Downloaded \/ Installed \/ Fail

Next ==
  \/ Release \/ ChangeSetting \/ Dismiss
  \/ \E v \in Versions : Restart(v)  \* which of them, Installation says
  \/ PollAutomatic \/ \E w \in Windows : Check(w)
  \/ UpdateStep

Spec == Init /\ [][Next]_vars

(* A request, a download or an installation ends or fails in the end.      *)
FairSpec == Spec /\ WF_vars(UpdateStep)
-----------------------------------------------------------------------------
(* A window that waits for an answer waits for the poll in progress, which *)
(* is the user's: none is forgotten by a poll that ends without telling.   *)
NoCheckForgotten ==
  \A w \in Windows : check[w].pending => poll.step # "none" /\ checkType = "Manual"

(* "You're up to date!" is said only when the server has nothing newer,    *)
(* never because a check failed or has not begun.                          *)
UpToDateIsTrue ==
  [][\A w \in Windows :
       check'[w].answer = "upToDate" /\ check[w].answer # "upToDate" => latest <= current]_vars

EveryCheckAnswered == \A w \in Windows : check[w].pending ~> ~check[w].pending
=============================================================================
