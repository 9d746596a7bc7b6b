----------------------------- MODULE Supervisor -----------------------------
(* The privileged helper on macOS: the Mihomo process it supervises        *)
(* (struct Supervisor of crates/iran-split-helper/src/lib.rs), the         *)
(* commands of the desktop (commands.rs) and the absence watch.  Each      *)
(* connection is a task; one mutex protects the record of the child; the   *)
(* DNS procedures of module MacosDns run outside it.  The helper may die   *)
(* at any step; Mihomo, the DNS settings and the recovery file outlive it. *)
(*                                                                         *)
(* Side tunnels, logs and the files of a generation are left out.          *)
EXTENDS MacosDns, Naturals

CONSTANTS
    Connections,   \* the connections of the desktop
    Main,          \* the helper's main task: boot, then the absence watch
    Gens           \* runtime generations

ASSUME HandlersAssumption ==
    /\ Handlers = Connections \union {Main} /\ Main \notin Connections
    /\ IsFiniteSet(Connections)

NoGen == "none"
ASSUME GensAssumption == NoGen \notin Gens

Commands == {"Status", "Start", "Stop", "Restart", "Cleanup"}
Stages == {"idle", "boot", "booting", "status", "check", "lock",
           "orphans", "spawn", "settle", "apply", "applying", "stop", "sweep",
           "release", "releasing", "tun", "restore", "restoring",
           "look", "after", "ok", "err"}

VARIABLES
    child,        \* the record of the child: its generation, or NoGen
    childAlive,   \* the recorded process runs
    strays,       \* Mihomo processes of this helper nobody has a record of
    tun,          \* the TUN interface exists
    holder,       \* the task that holds the child mutex: {} or {h}
    contact,      \* "fresh" or "stale": the desktop was seen within 90 s
    cmd           \* each task's command

supVars == <<child, childAlive, strays, tun, holder, contact, cmd>>
helperVars == <<supVars, dnsVars>>

Cmds == [name : Commands \union {"Watch"}, at : Stages,
         gen : Gens \union {NoGen}, alone : BOOLEAN, swept : BOOLEAN]
IdleCmd == [name |-> "Watch", at |-> "idle", gen |-> NoGen,
            alone |-> TRUE, swept |-> TRUE]

\* A process starts with no record of the Mihomo an earlier one may have left.
HelperInit ==
    /\ DnsInit
    /\ child = NoGen /\ childAlive = FALSE
    /\ strays \in {0, 1} /\ tun \in BOOLEAN /\ (tun => strays = 1)
    /\ holder = {} /\ contact = "fresh"
    /\ cmd = [h \in Handlers |-> IF h = Main THEN [IdleCmd EXCEPT !.at = "boot"]
                                 ELSE IdleCmd]

-----------------------------------------------------------------------------

At(h, stage) == cmd[h].at = stage
Goes(h, stage) == cmd' = [cmd EXCEPT ![h].at = stage]
Serving == ~At(Main, "boot") /\ ~At(Main, "booting")
InFlight == \E c \in Connections : ~At(c, "idle")
Spawning == \E h \in Handlers : At(h, "settle")
MihomoCount ==
    strays + (IF childAlive THEN 1 ELSE 0) + (IF Spawning THEN 1 ELSE 0)

Locks(h) == holder = {} /\ holder' = {h}
Unlocks(h) == holder = {h} /\ holder' = {}
NoDns == UNCHANGED dnsVars
NoProcess == UNCHANGED <<child, childAlive, strays, tun>>
\* The interface goes with the last process.
TunFollows == tun' = (tun /\ MihomoCount' > 0)

\* stop_managed_child: the child is gone, or the record stays.
StopsChild == child' = NoGen /\ childAlive' = FALSE
KeepsChild == UNCHANGED child /\ childAlive' \in {FALSE, childAlive}

-----------------------------------------------------------------------------
(* A command arrives: begin_command and note_desktop_contact.              *)

FirstStage(name) ==
    CASE name = "Status" -> "status"
      [] name = "Start" -> "check"
      [] name \in {"Stop", "Restart", "Cleanup"} -> "stop"

Receive(c) ==
    /\ Serving /\ At(c, "idle")
    /\ \E name \in Commands, g \in Gens \union {NoGen} :
          /\ (name \in {"Start", "Restart"}) = (g \in Gens)
          /\ cmd' = [h \in Handlers |->
                IF h = c
                THEN [name |-> name, at |-> FirstStage(name), gen |-> g,
                      alone |-> \A o \in Handlers \ {c} : At(o, "idle"),
                      swept |-> TRUE]
                ELSE IF h = Main \/ At(h, "idle") THEN cmd[h]
                ELSE [cmd[h] EXCEPT !.alone = FALSE]]
    /\ contact' = "fresh"
    /\ NoProcess /\ NoDns /\ UNCHANGED holder

\* The reply is sent; the in-flight guard drops.
Reply(c) ==
    /\ c \in Connections /\ (At(c, "ok") \/ At(c, "err"))
    /\ cmd' = [cmd EXCEPT ![c] = IdleCmd]
    /\ NoProcess /\ NoDns /\ UNCHANGED <<holder, contact>>

\* status and overlay_running forget a child that has exited.
Status(h) ==
    /\ At(h, "status") /\ holder = {}
    /\ \/ child' = (IF childAlive THEN child ELSE NoGen) /\ Goes(h, "ok")
       \/ Goes(h, "err") /\ UNCHANGED child
    /\ UNCHANGED <<childAlive, strays, tun, holder, contact>> /\ NoDns

-----------------------------------------------------------------------------
(* start.                                                                  *)

\* The binary is intact and the generation is registered, or not.
StartChecks(h) ==
    /\ At(h, "check")
    /\ Goes(h, "lock") \/ Goes(h, "err")
    /\ NoProcess /\ NoDns /\ UNCHANGED <<holder, contact>>

\* Takes the child mutex; a running child of the same generation is all
\* there is to do, any other child is stopped.
StartLocks(h) ==
    /\ At(h, "lock") /\ holder = {}
    /\ \/ /\ childAlive /\ child = cmd[h].gen
          /\ Goes(h, "ok") /\ NoProcess /\ UNCHANGED holder
       \/ /\ ~(childAlive /\ child = cmd[h].gen)
          /\ StopsChild /\ UNCHANGED strays
          /\ Locks(h) /\ Goes(h, "orphans") /\ TunFollows
       \/ /\ child # NoGen /\ KeepsChild /\ UNCHANGED strays
          /\ Goes(h, "err") /\ UNCHANGED holder /\ TunFollows
    /\ NoDns /\ UNCHANGED contact

\* Mutation of StartCleansOrphans: a failed kill is logged only, as in stop.
StartSweepsOrphans(h) ==
    /\ At(h, "orphans") /\ strays' \in 0..strays
    /\ Goes(h, "spawn") /\ UNCHANGED <<holder, child, childAlive>>
    /\ TunFollows /\ NoDns /\ UNCHANGED contact

\* Checks the published file and kills the owned orphans; a process that was
\* sent SIGKILL counts as gone.
StartCleansOrphans(h) ==
    /\ At(h, "orphans")
    /\ \/ strays' = 0 /\ Goes(h, "spawn") /\ UNCHANGED holder
       \/ strays' \in 0..strays /\ Goes(h, "err") /\ Unlocks(h)
    /\ UNCHANGED <<child, childAlive, contact>> /\ TunFollows /\ NoDns

StartSpawns(h) ==
    /\ At(h, "spawn")
    /\ \/ Goes(h, "settle") /\ UNCHANGED holder
       \/ Goes(h, "err") /\ Unlocks(h)
    /\ NoProcess /\ NoDns /\ UNCHANGED contact

\* After 400 ms: the process is recorded, has exited, or cannot be asked.
StartSettles(h) ==
    /\ At(h, "settle") /\ Unlocks(h)
    /\ \/ /\ child' = cmd[h].gen /\ childAlive' = TRUE
          /\ Goes(h, "apply") /\ UNCHANGED strays
       \/ Goes(h, "err") /\ UNCHANGED <<child, childAlive, strays>>
       \/ /\ Goes(h, "err") /\ strays' = strays + 1
          /\ UNCHANGED <<child, childAlive>>
    /\ TunFollows /\ NoDns /\ UNCHANGED contact

StartAppliesDns(h) ==
    /\ At(h, "apply") /\ Goes(h, "applying") /\ BeginApply(h)
    /\ NoProcess /\ UNCHANGED <<holder, contact>>

\* The command fails where the takeover failed; Mihomo stays.
StartReturns(h) ==
    /\ At(h, "applying") /\ DnsReturns(h)
    /\ Goes(h, IF Doing(h, "ok") THEN "ok" ELSE "err")
    /\ NoProcess /\ UNCHANGED <<holder, contact>>

-----------------------------------------------------------------------------
(* stop and cleanup.                                                       *)

\* Where a failed command goes: the watch looks again, the others reply.
Fails(h) == Goes(h, IF h = Main THEN "after" ELSE "err")

StopStopsChild(h) ==
    /\ At(h, "stop") /\ holder = {}
    /\ \/ StopsChild /\ Locks(h) /\ Goes(h, "sweep")
       \/ child # NoGen /\ KeepsChild /\ Fails(h) /\ UNCHANGED holder
    /\ UNCHANGED strays /\ TunFollows /\ NoDns /\ UNCHANGED contact

\* Kills the owned orphans; a failure is logged only.
StopSweepsOrphans(h) ==
    /\ At(h, "sweep") /\ Unlocks(h)
    /\ \/ strays' = 0 /\ Goes(h, "release")
       \/ /\ strays' \in 0..strays
          /\ cmd' = [cmd EXCEPT ![h].at = "release", ![h].swept = FALSE]
    /\ UNCHANGED <<child, childAlive, contact>> /\ TunFollows /\ NoDns

\* release_macos_network restores the DNS; a failure is logged only.
StopReleasesDns(h) ==
    /\ At(h, "release") /\ Goes(h, "releasing") /\ BeginRestore(h)
    /\ NoProcess /\ UNCHANGED <<holder, contact>>

AfterStop(h) ==
    CASE cmd[h].name = "Stop" -> "ok"
      [] cmd[h].name = "Restart" -> "check"
      [] cmd[h].name \in {"Cleanup", "Watch"} -> "tun"
StopReturns(h) ==
    /\ At(h, "releasing") /\ DnsReturns(h) /\ Goes(h, AfterStop(h))
    /\ NoProcess /\ UNCHANGED <<holder, contact>>

\* Deletes the TUN where it is still there.  With it gone, the DNS is
\* restored once more; with it there, the report will carry a warning.
CleanupDeletesTun(h) ==
    /\ At(h, "tun")
    /\ \/ /\ tun' \in {FALSE, tun}
          /\ cmd' = [cmd EXCEPT ![h].at = "restore",
                                ![h].swept = IF tun' THEN FALSE ELSE @]
       \/ tun /\ UNCHANGED tun /\ Fails(h)
    /\ UNCHANGED <<child, childAlive, strays, holder, contact>> /\ NoDns

CleanupRestoresDns(h) ==
    /\ At(h, "restore") /\ Goes(h, "restoring") /\ BeginRestore(h)
    /\ NoProcess /\ UNCHANGED <<holder, contact>>

\* Mutation of CleanupReturns: the result of the restore is logged only.
CleanupReturnsAnyway(h) ==
    /\ At(h, "restoring") /\ DnsReturns(h)
    /\ Goes(h, IF h = Main THEN "after" ELSE "ok")
    /\ NoProcess /\ UNCHANGED <<holder, contact>>

CleanupReturns(h) ==
    /\ At(h, "restoring") /\ DnsReturns(h)
    /\ IF Doing(h, "ok") /\ h # Main THEN Goes(h, "ok") ELSE Fails(h)
    /\ NoProcess /\ UNCHANGED <<holder, contact>>

-----------------------------------------------------------------------------
(* The main task.                                                          *)

\* run_macos restores the DNS before it listens, and goes on when it fails.
Boots ==
    /\ At(Main, "boot") /\ Goes(Main, "booting") /\ BeginRestore(Main)
    /\ NoProcess /\ UNCHANGED <<holder, contact>>
Listens ==
    /\ At(Main, "booting") /\ Goes(Main, "idle") /\ DnsReturns(Main)
    /\ NoProcess /\ UNCHANGED <<holder, contact>>

\* release_if_desktop_absent reads the in-flight counter and the contact ...
WatchReads ==
    /\ At(Main, "idle") /\ ~InFlight /\ contact = "stale"
    /\ cmd' = [cmd EXCEPT ![Main] = [IdleCmd EXCEPT !.at = "look"]]
    /\ NoProcess /\ NoDns /\ UNCHANGED <<holder, contact>>

\* network_captured: waits for the child mutex and forgets an exited child;
\* where the child cannot be asked, only the interface counts.
Captured(captures) ==
    \/ child' = (IF childAlive THEN child ELSE NoGen)
       /\ captures = (childAlive \/ tun)
    \/ UNCHANGED child /\ captures = tun
WatchLooks ==
    /\ At(Main, "look") /\ holder = {}
    /\ \E captures \in BOOLEAN :
          Captured(captures) /\ Goes(Main, IF captures THEN "stop" ELSE "idle")
    /\ UNCHANGED <<childAlive, strays, tun, holder, contact>> /\ NoDns

\* ... and, after its cleanup, forgets the contact where nothing captures.
WatchEnds ==
    /\ At(Main, "after") /\ holder = {}
    /\ \E captures \in BOOLEAN :
          /\ Captured(captures)
          /\ contact' = (IF captures THEN contact ELSE "stale")
    /\ cmd' = [cmd EXCEPT ![Main] = IdleCmd]
    /\ UNCHANGED <<childAlive, strays, tun, holder>> /\ NoDns

-----------------------------------------------------------------------------
(* The environment.                                                        *)

\* 90 seconds pass without a command.
ContactAges ==
    /\ contact = "fresh" /\ contact' = "stale"
    /\ NoProcess /\ NoDns /\ UNCHANGED <<holder, cmd>>

TunComesUp ==
    /\ MihomoCount > 0 /\ ~tun /\ tun' = TRUE
    /\ UNCHANGED <<child, childAlive, strays, holder, contact, cmd>> /\ NoDns

MihomoExits ==
    /\ \/ childAlive /\ childAlive' = FALSE /\ UNCHANGED strays
       \/ strays > 0 /\ strays' = strays - 1 /\ UNCHANGED childAlive
    /\ UNCHANGED <<child, holder, contact, cmd>> /\ TunFollows /\ NoDns

\* The helper dies and is started again; Mihomo goes on unrecorded.
HelperDies ==
    /\ strays' = MihomoCount
    /\ child' = NoGen /\ childAlive' = FALSE /\ UNCHANGED tun
    /\ holder' = {} /\ contact' = "fresh"
    /\ cmd' = [h \in Handlers |->
                  IF h = Main THEN [IdleCmd EXCEPT !.at = "boot"] ELSE IdleCmd]
    /\ DnsCrash

-----------------------------------------------------------------------------

DnsRuns(h) == DnsStep(h) /\ UNCHANGED supVars
CommandStep(h) ==
    \/ Status(h)
    \/ StartChecks(h) \/ StartLocks(h) \/ StartCleansOrphans(h)
    \/ StartSpawns(h) \/ StartSettles(h) \/ StartAppliesDns(h)
    \/ StartReturns(h)
    \/ StopStopsChild(h) \/ StopSweepsOrphans(h) \/ StopReleasesDns(h)
    \/ StopReturns(h)
    \/ CleanupDeletesTun(h) \/ CleanupRestoresDns(h) \/ CleanupReturns(h)
WatchStep == Boots \/ Listens \/ WatchReads \/ WatchLooks \/ WatchEnds
Environment == ContactAges \/ TunComesUp \/ MihomoExits \/ HelperDies

HelperNext ==
    \/ \E c \in Connections : Receive(c) \/ Reply(c)
    \/ \E h \in Handlers : CommandStep(h) \/ DnsRuns(h)
    \/ WatchStep \/ Environment

HelperSpec == HelperInit /\ [][HelperNext]_helperVars

-----------------------------------------------------------------------------
(* Properties.                                                             *)

HelperTypeOK ==
    /\ DnsTypeOK
    /\ child \in Gens \union {NoGen} /\ childAlive \in BOOLEAN
    /\ strays \in Nat /\ tun \in BOOLEAN
    /\ holder \in SUBSET Handlers
    /\ contact \in {"fresh", "stale"}
    /\ cmd \in [Handlers -> Cmds]

\* However often the helper dies, whatever stop or orphan kill fails, and
\* whoever starts Mihomo meanwhile, at most one Mihomo of this helper runs.
OneMihomo == MihomoCount <= 1

\* A cleanup that no other command overlapped, whose orphan kill worked and
\* that reports no warning has left no Mihomo, no TUN, and no DNS to restore.
CleanReportIsTrue ==
    \A c \in Connections :
        At(c, "ok") /\ cmd[c].name = "Cleanup" /\ cmd[c].alone /\ cmd[c].swept
            => MihomoCount = 0 /\ ~tun /\ snapshot = NoSnapshot
=============================================================================
