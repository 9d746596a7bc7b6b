------------------------------ MODULE DebugLog ------------------------------
(* debug.log and the host report in it (src-tauri/src/diagnostics.rs, the   *)
(* snapshot of src-tauri/src/environment/mod.rs and the tasks of            *)
(* src-tauri/src/lib.rs that ask for one): a writer that keeps or reopens   *)
(* its handle, other programs that delete or replace the file, the user's   *)
(* clear, the export of a support bundle, the watch for a recreated log and *)
(* collections of which one runs at a time.  A file is missing, bare, or    *)
(* has the host report (context); the texts, their redaction and failures   *)
(* of the file system other than a missing file are left out.  Two requests *)
(* for a report with the same trigger that wait together count as one.      *)
VARIABLES disk,         \* the file at the path: "missing", "bare" or "context"
          handle,       \* LogState::file: "closed", "disk" or "unlinked"
          recreated,    \* LOG_RECREATED
          asked,        \* the triggers of the tasks that have not started to collect
          collection,   \* IN_FLIGHT and how far it is: "none", "collecting", "emitted"
          lastReport,   \* LAST_REPORT is filled
          watch,        \* spawn_log_recreation_watch: "sleeps", "warns" or "replays"
          deletion,     \* delete_debug_log: "none", "cleared" or "logged"
          onWindows,    \* the handle is closed before each event
          replaced,     \* history: another program put its file in the place of the log
          missed        \* history: a request was dropped for a report that was already out
fileVars == <<disk, handle, recreated>>
taskVars == <<asked, collection, lastReport>>
debugLogVars == <<fileVars, taskVars, watch, deletion, onWindows, replaced, missed>>
-----------------------------------------------------------------------------
(* One event, under the lock of the writer.  A missing file, or a closed    *)
(* handle, is opened again; a handle whose file another program replaced    *)
(* stays where it is on Unix, and the event with it.                        *)
Reopens == disk = "missing" \/ handle = "closed" \/ onWindows
AppendEvent(entries) ==
    /\ handle' = IF Reopens THEN "disk" ELSE handle
    /\ disk' = CASE handle' # "disk" -> disk
                 [] "context" \in entries -> "context"
                 [] disk = "missing" -> "bare"
                 [] OTHER -> disk
    /\ recreated' = (recreated \/ disk = "missing")

DebugLogInit ==
    /\ disk \in {"bare", "context"} /\ handle = "disk" /\ recreated = FALSE
    /\ asked = {"startup"} /\ collection = "none" /\ lastReport = FALSE
    /\ watch = "sleeps" /\ deletion = "none" /\ onWindows \in BOOLEAN
    /\ replaced = FALSE /\ missed = FALSE

(* The events of an action, and of every other part of the program. *)
TraceAction ==
    /\ AppendEvent({"event"})
    /\ UNCHANGED <<taskVars, watch, deletion, onWindows, replaced, missed>>
Replay == AppendEvent(IF lastReport THEN {"event", "context"} ELSE {"event"})
-----------------------------------------------------------------------------
(* Another program deletes the file, or leaves one of its own at the path   *)
(* (an editor that saves the log).                                          *)
Unlink == handle' = IF handle = "disk" THEN "unlinked" ELSE handle
DeleteFile ==
    /\ disk # "missing" /\ disk' = "missing" /\ Unlink /\ replaced' = FALSE
    /\ UNCHANGED <<recreated, taskVars, watch, deletion, onWindows, missed>>
ReplaceFile ==
    /\ disk' = "bare" /\ Unlink /\ replaced' = TRUE
    /\ UNCHANGED <<recreated, taskVars, watch, deletion, onWindows, missed>>

(* The user deletes the log: the handle is taken, the file truncated and    *)
(* opened again; without a file the command fails and the handle is gone.   *)
ClearLog ==
    /\ deletion = "none"
    /\ IF disk = "missing"
       THEN handle' = "closed" /\ UNCHANGED <<disk, deletion, replaced>>
       ELSE handle' = "disk" /\ disk' = "bare" /\ deletion' = "cleared" /\ replaced' = FALSE
    /\ UNCHANGED <<recreated, taskVars, watch, onWindows, missed>>
LogCleared ==
    /\ deletion = "cleared" /\ deletion' = "logged" /\ AppendEvent({"event"})
    /\ UNCHANGED <<taskVars, watch, onWindows, replaced, missed>>
(* The status of the cleared log, then the report again and a new one; the  *)
(* command ends without them when the handle is gone.                       *)
DescribeCleared ==
    /\ deletion = "logged" /\ deletion' = "none"
    /\ IF handle = "closed"
       THEN UNCHANGED <<fileVars, asked>>
       ELSE Replay /\ asked' = asked \cup {"cleared"}
    /\ UNCHANGED <<collection, lastReport, watch, onWindows, replaced, missed>>
(* The export replays the report, copies the log and asks for a new report; *)
(* a file of the bundle that cannot be written ends it before.              *)
ExportBundle ==
    /\ Replay /\ asked' \in {asked, asked \cup {"export"}}
    /\ UNCHANGED <<collection, lastReport, watch, deletion, onWindows, replaced, missed>>
-----------------------------------------------------------------------------
(* Every five seconds the watch takes the flag; when it was set it says so  *)
(* in the log, replays the last report and asks for another.                *)
WatchTakes ==
    /\ watch = "sleeps" /\ recreated /\ recreated' = FALSE /\ watch' = "warns"
    /\ UNCHANGED <<disk, handle, taskVars, deletion, onWindows, replaced, missed>>
WatchWarns ==
    /\ watch = "warns" /\ watch' = "replays" /\ AppendEvent({"event"})
    /\ UNCHANGED <<taskVars, deletion, onWindows, replaced, missed>>
WatchReplaysCached ==
    /\ watch = "replays" /\ watch' = "sleeps" /\ Replay
    /\ UNCHANGED <<taskVars, deletion, onWindows, replaced, missed>>
WatchReplays ==
    /\ watch = "replays" /\ watch' = "sleeps" /\ Replay
    /\ asked' = asked \cup {"recreated"}
    /\ UNCHANGED <<collection, lastReport, deletion, onWindows, replaced, missed>>

(* The watcher of the snapshots asks for a report where the stack came to   *)
(* run, degraded, failed, paused or stopped.                                *)
EnvironmentTrigger ==
    /\ asked' = asked \cup {"stack"}
    /\ UNCHANGED <<fileVars, collection, lastReport, watch, deletion, onWindows, replaced, missed>>
-----------------------------------------------------------------------------
(* A task has read the settings, the rules and the helper and asks for the  *)
(* collection: a second one is dropped with an event.                       *)
StartCollection(t) ==
    /\ t \in asked /\ collection = "none" /\ collection' = "collecting" /\ asked' = asked \ {t}
    /\ UNCHANGED <<fileVars, lastReport, watch, deletion, onWindows, replaced, missed>>
SkipCollection(t) ==
    /\ t \in asked /\ collection # "none" /\ asked' = asked \ {t} /\ AppendEvent({"event"})
    /\ missed' = (missed \/ (collection = "emitted" /\ ~lastReport))
    /\ UNCHANGED <<collection, lastReport, watch, deletion, onWindows, replaced>>
(* The report is logged, and only then kept for a replay. *)
EmitReport ==
    /\ collection = "collecting" /\ collection' = "emitted" /\ AppendEvent({"event", "context"})
    /\ UNCHANGED <<asked, lastReport, watch, deletion, onWindows, replaced, missed>>
KeepReport ==
    /\ collection = "emitted" /\ collection' = "none" /\ lastReport' = TRUE
    /\ UNCHANGED <<fileVars, asked, watch, deletion, onWindows, replaced, missed>>

DebugLogNext ==
    \/ TraceAction \/ DeleteFile \/ ReplaceFile
    \/ ClearLog \/ LogCleared \/ DescribeCleared \/ ExportBundle
    \/ WatchTakes \/ WatchWarns \/ WatchReplays
    \/ EnvironmentTrigger
    \/ \E t \in asked : StartCollection(t) \/ SkipCollection(t)
    \/ EmitReport \/ KeepReport
-----------------------------------------------------------------------------
DebugLogTypeOK ==
    /\ disk \in {"missing", "bare", "context"} /\ handle \in {"closed", "disk", "unlinked"}
    /\ asked \subseteq {"startup", "cleared", "export", "recreated", "stack"}
    /\ collection \in {"none", "collecting", "emitted"}
    /\ watch \in {"sleeps", "warns", "replays"} /\ deletion \in {"none", "cleared", "logged"}
    /\ {recreated, lastReport, onWindows, replaced, missed} \subseteq BOOLEAN

(* The writer holds on to a file that is not at the path only where nothing *)
(* is there, and the next event makes a new one, or where another program   *)
(* has put its own file: a deleted log never swallows the later events.     *)
EventsReachTheFile == handle = "unlinked" /\ disk # "missing" => replaced

(* A log without the host report is going to have one: the flag is set, or  *)
(* a task is on its way that will write it.  Except a file that is not the  *)
(* writer's, and the request that was dropped between the first report and  *)
(* its place in the cache.                                                  *)
ReportIsOnItsWay ==
    recreated \/ asked # {} \/ collection = "collecting" \/ watch # "sleeps" \/ deletion # "none"
HostIsDescribed == disk = "bare" => ReportIsOnItsWay \/ replaced \/ missed

(* What the log keeps through deletions, replacements, clears and exports   *)
(* beside a writer that never stops (src-tauri/src/diagnostics.rs:65).      *)
DebugLogInvariant == DebugLogTypeOK /\ EventsReachTheFile /\ HostIsDescribed
=============================================================================
