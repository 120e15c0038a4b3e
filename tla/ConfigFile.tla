------------------------------ MODULE ConfigFile ------------------------------
(***************************************************************************)
(* A configuration file over FsWatcher: the settings file, its reader      *)
(* (watch_config_file of crates/settings/src/settings_file.rs), what the   *)
(* UI thread makes of its contents (handle_settings_file_changes of        *)
(* crates/zaku/src/settings.rs, set_user_settings and update_settings_file *)
(* of crates/settings/src/settings_store.rs) and the migration of an old   *)
(* file (crates/zaku/src/settings/migrate.rs), which the toolbar of the    *)
(* one workspace offers, while other programs write, replace and delete it.*)
(*                                                                         *)
(* A content is known by the program that wrote it last, 0 being this one, *)
(* by the updates of this program that are in it and by its form: what     *)
(* parsing and migrating it give.  The default settings and the merge with *)
(* them, which other files do not change, are left out, as are migrations  *)
(* that fail.  No other write falls between the truncation of the file and *)
(* the text of one write of this program.                                  *)
(***************************************************************************)
EXTENDS FsWatcher

CONSTANTS
  Config,   \* the client that watches the file
  Reader,   \* the thread of watch_config_file
  Conf,     \* the path of the file
  Updates   \* calls of update_settings_file, numbered in their order

(* writes: changes of the file by other programs; forms: what they make of *)
(* it; updates, migrations: calls of update_settings_file and clicks on    *)
(* the banner; visits: tabs made active and changes of the keymap's file;  *)
(* on: whether there is a reader.                                          *)
ConfigBound(b) ==
  /\ b.writes \in Nat /\ b.updates \in Nat /\ b.migrations \in Nat /\ b.visits \in Nat
  /\ b.on \in BOOLEAN
  /\ b.forms \subseteq {"ok", "partial", "old", "bad"}

ASSUME ConfigAssumption ==
  /\ Config \in Clients /\ Reader \in Threads /\ {Conf, ParentOf(Conf)} \subseteq Paths
  /\ Updates \subseteq Nat
  /\ \A b \in Bounds : ConfigBound(b)

VARIABLES
  conf,        \* what is in the file
  reader,      \* what the reader does next
  sent,        \* contents on their way to the UI thread
  settings,    \* user_settings
  started,     \* the first content has been applied
  notice,      \* the notification of invalid settings is shown
  banner,      \* MigrationBanner: a migration is offered
  update,      \* the updates
  migration,   \* write_settings_migration
  overwritten, \* ghost: updates that other programs, a migration or a write that failed
               \* half-way have overwritten
  late,        \* ghost: the file changed between an update's write and its settings
  unheard      \* ghost: the last change of the file was not heard of

uiVars == <<settings, started, notice, banner>>
ghostVars == <<overwritten, late, unheard>>
taskVars == <<reader, sent, update, migration>>
configVars == <<conf, uiVars, taskVars, ghostVars>>
fileVars == <<watchVars, configVars>>

Content(ups, by, form) == [ups |-> ups, by |-> by, form |-> form]
Missing == Content({}, 0, "missing")
EmptyFile == Content({}, 0, "empty")
CutOff == Content({}, 0, "bad")
InitialSettings == Content({}, 0, "ok")

(* type: the file the banner is for; shown: its place in the toolbar is    *)
(* not Hidden; task: should_migrate_task.                                  *)
Banner(type, shown, task) == [type |-> type, shown |-> shown, task |-> task]
NoBanner == Banner("absent", FALSE, "none")
ResetBanner == Banner("none", FALSE, "none")

NoTask == [step |-> "none"]
HasWritten(u) == update[u].step \in {"set", "done"}
Writing == \E u \in Updates : update[u].step = "fill"
-----------------------------------------------------------------------------
(***************************************************************************)
(* The file.                                                               *)
(***************************************************************************)
Rest == UNCHANGED <<recursive, stateVars, registrations, call, event, pending, tokens, consumer,
                    batch>>
Less(field) == [bound EXCEPT ![field] = @ - 1]
Quiet(left) == bound' = left /\ UNCHANGED systemVars /\ UNCHANGED owed
Unwatched == UNCHANGED watchVars

Heeded == reader \in {"next", "reload"}

(* The file gets another content, over what updates wrote so far.          *)
Overwritten(c) ==
  /\ conf' = c
  /\ overwritten' = overwritten \cup {u \in Updates : HasWritten(u) /\ u \notin c.ups}
  /\ late' = (\E u \in Updates : update[u].step = "set")
  /\ unheard' = (Heeded /\ ~Heard(Conf))

ForeignChange ==
  /\ bound.on /\ bound.writes > 0 /\ ~Writing
  /\ LET left == Less("writes")
     IN  \/ \E form \in bound.forms :
              /\ Overwritten(Content({}, bound.writes, form))
              /\ IF conf = Missing THEN Appears(Conf, left)
                 ELSE Written(Conf, left) \/ Replaced(Conf, left)
         \/ conf # Missing /\ Overwritten(Missing) /\ Vanishes(Conf, left)
  /\ UNCHANGED <<uiVars, taskVars>> /\ Rest
-----------------------------------------------------------------------------
(***************************************************************************)
(* The reader watches the file, or its directory if that fails, and then   *)
(* loads it for the first time.                                            *)
(***************************************************************************)
ReaderWatch ==
  /\ bound.on /\ Idle(Reader)
  /\ \/ reader = "start" /\ AddPath(Reader, Config, Conf) /\ reader' = "file"
     \/ /\ reader = "file" /\ registrations[Config][Conf] = 0
        /\ AddPath(Reader, Config, ParentOf(Conf)) /\ reader' = "directory"
     \/ /\ \/ reader = "file" /\ registrations[Config][Conf] # 0
           \/ reader = "directory"
        /\ reader' = "load" /\ UNCHANGED call
  /\ UNCHANGED <<bound, recursive, stateVars, registrations, systemVars, event, streamVars,
                 conf, uiVars, sent, update, migration, ghostVars>>

ReaderLoad ==
  /\ reader = "load"
  /\ sent' = Append(sent, IF conf = Missing THEN EmptyFile ELSE conf)
  /\ reader' = "next"
  /\ UNCHANGED <<conf, uiVars, update, migration, ghostVars>> /\ Unwatched

ReaderNext ==
  /\ reader = "next" /\ Done(Config)
  /\ reader' = "reload"
  /\ UNCHANGED <<bound, call, conf, uiVars, sent, update, migration, ghostVars>>

(* A file that cannot be loaded is waited for.  Variant: it ends the task. *)
EndsTask == "end"
WaitsForNext == "next"

ReaderReload ==
  /\ reader = "reload"
  /\ IF conf = Missing THEN reader' = WaitsForNext /\ UNCHANGED sent
     ELSE reader' = "next" /\ sent' = Append(sent, conf)
  /\ UNCHANGED <<conf, uiVars, update, migration, ghostVars>> /\ Unwatched

(* Content of a file is loaded: its migration is offered if it is old, by  *)
(* the banner of a workspace, of which there is none at first.             *)
ContentChanged(type, old) ==
  banner' = IF banner = NoBanner THEN NoBanner
            ELSE IF old THEN Banner(type, TRUE, banner.task) ELSE ResetBanner

(* set_user_settings: a file that does not parse changes nothing.          *)
SetUserSettings(c) == settings' = IF c.form = "bad" THEN settings ELSE c

Apply ==
  /\ sent # <<>>
  /\ SetUserSettings(Head(sent))
  /\ notice' = (Head(sent).form \in {"partial", "bad"})
  /\ ContentChanged("settings", Head(sent).form = "old")
  /\ started' = TRUE /\ sent' = Tail(sent)
  /\ UNCHANGED <<conf, reader, update, migration, ghostVars>> /\ Unwatched
-----------------------------------------------------------------------------
(***************************************************************************)
(* The program's own updates, one at a time in the order of their calls.   *)
(***************************************************************************)
Enqueue(u) ==
  /\ started /\ update[u].step = "none" /\ bound.updates > 0
  /\ \A v \in Updates : v < u => update[v].step # "none"
  /\ update' = [update EXCEPT ![u] = [step |-> "queued"]]
  /\ UNCHANGED <<conf, uiVars, reader, sent, migration, ghostVars>>
  /\ Quiet(Less("updates")) /\ Rest

(* Variant: an update does not wait for those before it.                   *)
Concurrent(u) == TRUE
IsNext(u) == \A v \in Updates : v < u => update[v].step \in {"done", "failed"}

(* A file that does not parse is not updated.                              *)
UpdateLoad(u) ==
  /\ update[u].step = "queued" /\ IsNext(u)
  /\ LET old == IF conf = Missing THEN InitialSettings ELSE conf
         new == Content(old.ups \cup {u}, old.by, IF old.form = "empty" THEN "ok" ELSE old.form)
     IN  update' = [update EXCEPT ![u] = IF old.form = "bad" THEN [step |-> "failed"]
                                         ELSE [step |-> "truncate", text |-> new]]
  /\ UNCHANGED <<conf, uiVars, reader, sent, migration, ghostVars>> /\ Unwatched

UpdateTruncate(u) ==
  /\ update[u].step = "truncate"
  /\ conf' = EmptyFile
  /\ unheard' = (Heeded /\ ~Heard(Conf))
  /\ IF conf = Missing THEN Appears(Conf, bound) ELSE Written(Conf, bound)
  /\ update' = [update EXCEPT ![u] = [step |-> "fill", text |-> @.text]]
  /\ UNCHANGED <<uiVars, reader, sent, migration, overwritten, late>> /\ Rest

UpdateFill(u) ==
  /\ update[u].step = "fill"
  /\ conf' = update[u].text
  /\ unheard' = (Heeded /\ ~Heard(Conf))
  /\ Written(Conf, bound)
  /\ update' = [update EXCEPT ![u] = [step |-> "set", text |-> @.text]]
  /\ UNCHANGED <<uiVars, reader, sent, migration, overwritten, late>> /\ Rest

(* The write fails: before it has touched the file, or when it has emptied *)
(* it, with nothing or a part of the text written, which does not parse.   *)
UpdateFail(u) ==
  /\ bound.faults > 0
  /\ update' = [update EXCEPT ![u] = [step |-> "failed"]]
  /\ \/ /\ update[u].step = "truncate"
        /\ Quiet(Less("faults")) /\ UNCHANGED <<conf, overwritten, unheard>>
     \/ /\ update[u].step = "fill"
        /\ overwritten' = overwritten \cup {v \in Updates : HasWritten(v)}
        /\ \/ Quiet(Less("faults")) /\ UNCHANGED <<conf, unheard>>
           \/ /\ conf' = CutOff /\ Written(Conf, Less("faults"))
              /\ unheard' = (Heeded /\ ~Heard(Conf))
  /\ UNCHANGED <<uiVars, reader, sent, migration, late>> /\ Rest

UpdateSet(u) ==
  /\ update[u].step = "set"
  /\ SetUserSettings(update[u].text)
  /\ update' = [update EXCEPT ![u] = [step |-> "done"]]
  /\ UNCHANGED <<conf, started, notice, banner, reader, sent, migration, ghostVars>> /\ Unwatched
-----------------------------------------------------------------------------
(***************************************************************************)
(* The banner.  It is made with the pane of the first workspace, after the *)
(* first content was applied.  A tab made active resets it, and has it ask *)
(* whether the file in the tab, if it is one of the two, is to be migrated.*)
(***************************************************************************)
SetActivePaneItem ==
  /\ started /\ bound.visits > 0
  /\ \E type \in {"none", "settings", "keymap"} : banner' = Banner(type, FALSE, type)
  /\ UNCHANGED <<conf, settings, started, notice, taskVars, ghostVars>>
  /\ Quiet(Less("visits")) /\ Rest

KeymapChanged ==
  /\ started /\ bound.visits > 0
  /\ \E old \in BOOLEAN : ContentChanged("keymap", old)
  /\ UNCHANGED <<conf, settings, started, notice, taskVars, ghostVars>>
  /\ Quiet(Less("visits")) /\ Rest

ShouldMigrate ==
  /\ \/ /\ banner.task = "settings"
        /\ banner' = [banner EXCEPT !.task = IF conf.form = "old" THEN "show" ELSE "none"]
     \/ /\ banner.task = "keymap"
        /\ \E next \in {"show", "none"} : banner' = [banner EXCEPT !.task = next]
     \/ banner.task = "show" /\ banner' = [banner EXCEPT !.task = "none", !.shown = TRUE]
  /\ UNCHANGED <<conf, settings, started, notice, taskVars, ghostVars>> /\ Unwatched

(* The user has the file migrated: the new text replaces the file.         *)
MigrationLoad ==
  /\ banner.shown /\ banner.type = "settings" /\ bound.migrations > 0 /\ migration = NoTask
  /\ migration' = IF conf.form = "old"
                    THEN [step |-> "write", text |-> Content(conf.ups, conf.by, "ok")] ELSE NoTask
  /\ UNCHANGED <<conf, uiVars, reader, sent, update, ghostVars>>
  /\ Quiet(Less("migrations")) /\ Rest

MigrationWrite ==
  /\ migration.step = "write" /\ ~Writing
  /\ Overwritten(migration.text)
  /\ IF conf = Missing THEN Appears(Conf, bound) ELSE Replaced(Conf, bound)
  /\ migration' = NoTask
  /\ UNCHANGED <<uiVars, reader, sent, update>> /\ Rest
-----------------------------------------------------------------------------
(* The file that is there when the program starts, or not.                 *)
FileInit ==
  /\ conf \in {Missing, Content({}, 0, "ok"), Content({}, 0, "old")}
  /\ reader = "start" /\ sent = <<>> /\ settings = Missing
  /\ started = FALSE /\ notice = FALSE /\ banner = NoBanner
  /\ update = [u \in Updates |-> NoTask] /\ migration = NoTask
  /\ overwritten = {} /\ late = FALSE /\ unheard = FALSE

ReaderStep == ReaderWatch \/ ReaderLoad \/ ReaderNext \/ ReaderReload
UpdateStep(u) == UpdateLoad(u) \/ UpdateTruncate(u) \/ UpdateFill(u) \/ UpdateFail(u) \/ UpdateSet(u)

FileNext ==
  \/ ForeignChange \/ ReaderStep \/ Apply
  \/ \E u \in Updates : Enqueue(u) \/ UpdateStep(u)
  \/ SetActivePaneItem \/ KeymapChanged \/ ShouldMigrate \/ MigrationLoad \/ MigrationWrite

-----------------------------------------------------------------------------
(* An update that ended well is in the file for as long as only updates    *)
(* that do not fail half-way write it: none loads the file while another   *)
(* one is writing it, nor takes up what a failing one had in hand.         *)
UpdatesAreKept ==
  \A u \in Updates :
    update[u].step = "done" /\ u \notin overwritten /\ ~Writing => u \in conf.ups

(* What the program uses and shows comes to be what the file says, if its  *)
(* last change was heard of: whatever is in the pipeline when it changes,  *)
(* an older text is never the last to be applied, nor does the banner go   *)
(* on offering the migration of an older text, for which a tab asked.      *)
Followed ==
  IF conf.form = "bad" THEN notice
  ELSE /\ settings = conf /\ notice = (conf.form = "partial")
       /\ banner.shown /\ banner.type = "settings" => conf.form = "old"

ConfigFollowsFile == <>[](bound.on /\ conf # Missing /\ ~unheard /\ ~late => Followed)
===============================================================================
