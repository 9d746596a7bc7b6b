---------------------------- MODULE SideTunnels ----------------------------
(* The helper's side tunnels (crates/iran-split-helper/src/openvpn.rs):    *)
(* OpenVPN processes, the map of running tunnels, and what the kernel      *)
(* keeps for them.  Each connection of the desktop is a task; the map is   *)
(* locked for a single look-up, removal or insertion.  `os` is the build:  *)
(* on Linux all tunnels share one fwmark rule and one routing table, on    *)
(* Windows each adapter has a default route of its own.                    *)
(*                                                                         *)
(* Profiles are audited and copied in one step.  The routes to a profile's *)
(* own networks go with their device and steer nothing else: of them, only *)
(* the commands that may fail are kept.  Logs are left out.                *)
EXTENDS Naturals, FiniteSets

CONSTANTS
    Tasks,      \* connections that send commands
    Clients,    \* configured side-tunnel clients
    Runs        \* how many processes of one client may live at a time

ASSUME RunsAssumption == Runs \in Nat \ {0}

NoPid == <<>>
NoClient == "none"
ASSUME ClientsAssumption == NoClient \notin Clients

Pids == Clients \X (1..Runs)
Systems == {"linux", "windows"}
Names == {"Start", "Stop", "StopAll"}
Places == {"idle", "remove", "unscope", "unrule", "unroute", "kill",
           "stage", "spawn", "wait", "scope", "rerule", "reroute",
           "route", "rule", "insert", "fail", "done"}
Routes == {"none", "onlink", "gateway"}

VARIABLES
    os,          \* the operating system of this build
    running,     \* OpenVPN processes that are alive
    device,      \* the process whose adapter of that client exists
    tap,         \* clients whose adapter is a layer-2 one
    tunnels,     \* Supervisor::side_tunnels: client to recorded process
    rule,        \* Linux: the fwmark rule is installed
    table,       \* Linux: the client of the shared table's default route
    adapter,     \* Windows: the default route of each client's adapter
    leaked,      \* the rule was left by a failed command or a dead helper
    task         \* each connection's command

kernelVars == <<running, device, tap, rule, table, adapter, leaked>>
sideVars == <<os, kernelVars, tunnels, task>>

IdleTask == [name |-> "Stop", at |-> "idle", client |-> NoClient, pid |-> NoPid,
             left |-> {}, retry |-> FALSE, gw |-> FALSE, alone |-> TRUE]
NewTask(name, c, left, alone) ==
    [name |-> name, at |-> "remove", client |-> c, pid |-> NoPid,
     left |-> left, retry |-> FALSE, gw |-> FALSE, alone |-> alone]
SideTasks == [name : Names, at : Places, client : Clients \union {NoClient},
          pid : Pids \union {NoPid}, left : SUBSET Clients, retry : BOOLEAN,
          gw : BOOLEAN, alone : BOOLEAN]

SideTypeOK ==
    /\ os \in Systems /\ running \subseteq Pids /\ tap \subseteq Clients
    /\ device \in [Clients -> Pids \union {NoPid}]
    /\ tunnels \in [Clients -> Pids \union {NoPid}]
    /\ rule \in BOOLEAN /\ leaked \in BOOLEAN
    /\ table \in Clients \union {NoClient}
    /\ adapter \in [Clients -> Routes]
    /\ task \in [Tasks -> SideTasks]

SideInit ==
    /\ os \in Systems
    /\ running = {} /\ device = [c \in Clients |-> NoPid] /\ tap = {}
    /\ rule = FALSE /\ leaked = FALSE /\ table = NoClient
    /\ adapter = [c \in Clients |-> "none"]
    /\ tunnels = [c \in Clients |-> NoPid]
    /\ task = [t \in Tasks |-> IdleTask]

-----------------------------------------------------------------------------
(* The kernel: the routes of an adapter go with it.                        *)

DevicesGo(gone) ==
    /\ device' = [c \in Clients |-> IF c \in gone THEN NoPid ELSE device[c]]
    /\ tap' = tap \ gone
    /\ table' = (IF table \in gone THEN NoClient ELSE table)
    /\ adapter' = [c \in Clients |-> IF c \in gone THEN "none" ELSE adapter[c]]

ProcessesEnd(ended) ==
    /\ running' = running \ ended
    /\ DevicesGo({c \in Clients : device[c] \in ended})
    /\ UNCHANGED <<rule, leaked>>

-----------------------------------------------------------------------------
(* Commands.                                                               *)

At(t, place) == task[t].at = place
Client(t) == task[t].client
Busy(t) == ~At(t, "idle")
Goes(t, place) == task' = [task EXCEPT ![t].at = place]
\* The command returns; the end of a stop of all tunnels is a place of its own.
Ends(t) ==
    task' = [task EXCEPT ![t] = IF @.name # "StopAll" THEN IdleTask
                                ELSE [@ EXCEPT !.at = "done", !.pid = NoPid]]

\* A command arrives: the others no longer run alone.
Receive(t, name, c, left) ==
    /\ At(t, "idle")
    /\ task' = [u \in Tasks |->
          IF u = t THEN NewTask(name, c, left, \A v \in Tasks \ {t} : ~Busy(v))
          ELSE [task[u] EXCEPT !.alone = task[u].alone /\ ~Busy(u)]]
    /\ UNCHANGED <<os, kernelVars, tunnels>>

StartSideTunnel(t) == \E c \in Clients : Receive(t, "Start", c, {})
StopSideTunnel(t) == \E c \in Clients : Receive(t, "Stop", c, {})
\* Mutation of StopAllSideTunnels: the first tunnel only.
StopsFirstSideTunnel(t) ==
    LET known == {c \in Clients : tunnels[c] # NoPid} IN
    /\ known # {}
    /\ \E c \in known : Receive(t, "StopAll", c, {})

\* stop_all_side_tunnels takes the keys of the map before it stops any.
StopAllSideTunnels(t) ==
    LET known == {c \in Clients : tunnels[c] # NoPid} IN
    /\ known # {}
    /\ \E c \in known : Receive(t, "StopAll", c, known \ {c})

Reply(t) ==
    /\ At(t, "done")
    /\ task' = [task EXCEPT ![t] = IdleTask]
    /\ UNCHANGED <<os, kernelVars, tunnels>>

\* stop_side_tunnel has returned to its caller; cleanup goes on after an error.
AfterStop(t, ok) ==
    CASE task[t].name = "Start" /\ ok ->
            task' = [task EXCEPT ![t].at = "stage", ![t].pid = NoPid]
      [] task[t].name = "StopAll" /\ task[t].left # {} ->
            \E c \in task[t].left :
               task' = [task EXCEPT ![t].at = "remove", ![t].client = c,
                                    ![t].left = @ \ {c}, ![t].pid = NoPid]
      [] OTHER -> Ends(t)

Remove(t) ==
    /\ At(t, "remove")
    /\ tunnels' = [tunnels EXCEPT ![Client(t)] = NoPid]
    /\ IF tunnels[Client(t)] = NoPid THEN AfterStop(t, TRUE)
       ELSE task' = [task EXCEPT ![t].at = "unscope",
                                 ![t].pid = tunnels[Client(t)]]
    /\ UNCHANGED <<os, kernelVars>>

\* revert_scoped_routes: on Linux the device is deleted too.
RevertScopedRoutes(t) ==
    /\ At(t, "unscope") /\ Goes(t, "unrule")
    /\ \/ os = "linux" /\ DevicesGo({Client(t)} \intersect {c \in Clients : device[c] # NoPid})
       \/ UNCHANGED <<device, tap, table, adapter>>
    /\ UNCHANGED <<os, running, rule, leaked, tunnels>>

\* revert_policy_routing, in a stop and before an install: its two commands
\* may each fail; on Windows it does nothing.
RevertRule(t) ==
    /\ \/ At(t, "unrule") /\ Goes(t, "unroute")
       \/ At(t, "rerule") /\ Goes(t, "reroute")
    /\ \/ os = "linux" /\ rule' = FALSE /\ leaked' = FALSE
       \/ UNCHANGED rule /\ leaked' = rule
    /\ UNCHANGED <<os, running, device, tap, table, adapter, tunnels>>

FlushTable(t) ==
    /\ \/ At(t, "unroute") /\ Goes(t, "kill")
       \/ At(t, "reroute") /\ Goes(t, "route")
    /\ table' \in (IF os = "linux" THEN {NoClient, table} ELSE {table})
    /\ UNCHANGED <<os, running, device, tap, rule, adapter, leaked, tunnels>>

\* terminate; a child that does not stop in time is dropped, which kills it.
Terminate(t) ==
    /\ At(t, "kill")
    /\ ProcessesEnd({task[t].pid})
    /\ \E ok \in BOOLEAN : AfterStop(t, ok)
    /\ UNCHANGED <<os, tunnels>>

-----------------------------------------------------------------------------
(* start_side_tunnel, after the stop.                                      *)

\* resolve_binary, the pinned remote and the sanitized copy.
StageProfile(t) ==
    /\ At(t, "stage")
    /\ Goes(t, "spawn") \/ Ends(t)
    /\ UNCHANGED <<os, kernelVars, tunnels>>

Known(p) == p \in running \/ p \in {tunnels[c] : c \in Clients}
                          \/ p \in {task[u].pid : u \in Tasks}

SpawnOpenvpn(t) ==
    /\ At(t, "spawn")
    /\ \/ \E n \in 1..Runs :
             LET p == <<Client(t), n>> IN
             /\ ~Known(p)
             /\ running' = running \union {p}
             /\ task' = [task EXCEPT ![t].at = "wait", ![t].pid = p]
       \/ Ends(t) /\ UNCHANGED running
    /\ UNCHANGED <<os, device, tap, rule, table, adapter, leaked, tunnels>>

\* OpenVPN opens its adapter while its starter waits for it.
Opens(t) ==
    /\ At(t, "wait") /\ task[t].pid \in running /\ device[Client(t)] = NoPid
    /\ device' = [device EXCEPT ![Client(t)] = task[t].pid]
    /\ \E layer2, known \in BOOLEAN :
          /\ tap' = (IF os = "windows" /\ layer2 THEN tap \union {Client(t)} ELSE tap)
          /\ adapter' = [adapter EXCEPT ![Client(t)] =
                            IF os = "windows" /\ layer2 THEN "onlink" ELSE "none"]
          /\ task' = [task EXCEPT ![t].gw = known]
    /\ UNCHANGED <<os, running, rule, table, leaked, tunnels>>

OpenvpnExits(p) ==
    /\ p \in running /\ ProcessesEnd({p})
    /\ UNCHANGED <<os, tunnels, task>>

\* wait_for_device: on Linux a device of that name is enough, whoever owns it.
DeviceUp(t) ==
    /\ At(t, "wait") /\ task[t].pid \in running
    /\ \/ os = "linux" /\ device[Client(t)] # NoPid
       \/ device[Client(t)] = task[t].pid
    /\ Goes(t, "scope")
    /\ UNCHANGED <<os, kernelVars, tunnels>>

\* Exited early or out of time: one more attempt through the SOCKS port.
NoDevice(t) ==
    /\ At(t, "wait")
    /\ ProcessesEnd({task[t].pid})
    /\ \/ /\ ~task[t].retry
          /\ task' = [task EXCEPT ![t].at = "spawn", ![t].retry = TRUE, ![t].pid = NoPid]
       \/ Ends(t)
    /\ UNCHANGED <<os, tunnels>>

\* install_scoped_routes; a profile with no address of its own adds none.
InstallScopedRoutes(t) ==
    /\ At(t, "scope")
    /\ Goes(t, "rerule") \/ Goes(t, "fail")
    /\ UNCHANGED <<os, kernelVars, tunnels>>

\* Mutation of ReplaceTable: adds the route, and takes an old one for its own.
AddTableRoute(t) ==
    /\ At(t, "route") /\ os = "linux"
    /\ table' = (IF table = NoClient THEN Client(t) ELSE table) /\ Goes(t, "rule")
    /\ UNCHANGED <<os, running, device, tap, rule, adapter, leaked, tunnels>>

\* install_policy_routing, Linux: the table's route, then the rule, which is
\* refused while there is one.
ReplaceTable(t) ==
    /\ At(t, "route") /\ os = "linux"
    /\ \/ device[Client(t)] # NoPid /\ table' = Client(t) /\ Goes(t, "rule")
       \/ UNCHANGED table /\ Goes(t, "fail")
    /\ UNCHANGED <<os, running, device, tap, rule, adapter, leaked, tunnels>>

AddRule(t) ==
    /\ At(t, "rule")
    /\ \/ ~rule /\ rule' = TRUE /\ Goes(t, "insert")
       \/ UNCHANGED rule /\ Goes(t, "fail")
    /\ UNCHANGED <<os, running, device, tap, table, adapter, leaked, tunnels>>

\* Windows: a layer-2 adapter needs the gateway and loses its on-link route;
\* any other tries the gateway, 0.0.0.0 and no next hop in turn.
RouteAdapter(t) ==
    LET c == Client(t) IN
    /\ At(t, "route") /\ os = "windows"
    /\ \/ /\ device[c] # NoPid
          /\ \E r \in Routes :
                /\ r = "gateway" => task[t].gw
                /\ c \in tap => task[t].gw /\ r # "onlink"
                /\ r = "none" => c \in tap
                /\ adapter' = [adapter EXCEPT ![c] = r]
          /\ Goes(t, "insert")
       \/ UNCHANGED adapter /\ Goes(t, "fail")
    /\ UNCHANGED <<os, running, device, tap, rule, table, leaked, tunnels>>

\* Mutation of Insert: the record is replaced and its child is not dropped.
InsertLeavesOld(t) ==
    /\ At(t, "insert")
    /\ tunnels' = [tunnels EXCEPT ![Client(t)] = task[t].pid]
    /\ Ends(t)
    /\ UNCHANGED <<os, kernelVars>>

\* The record is stored; one that it replaces is dropped with its child.
Insert(t) ==
    /\ At(t, "insert")
    /\ tunnels' = [tunnels EXCEPT ![Client(t)] = task[t].pid]
    /\ ProcessesEnd({tunnels[Client(t)]})
    /\ Ends(t)
    /\ UNCHANGED os

\* The start returns an error: its child is dropped, which kills it.
StartFails(t) ==
    /\ At(t, "fail")
    /\ ProcessesEnd({task[t].pid})
    /\ Ends(t)
    /\ UNCHANGED <<os, tunnels>>

\* The service manager ends every process of the helper's group; the rule has
\* no owner in the next one.
HelperDies ==
    /\ running' = {} /\ DevicesGo(Clients)
    /\ leaked' = rule /\ UNCHANGED <<os, rule>>
    /\ tunnels' = [c \in Clients |-> NoPid]
    /\ task' = [t \in Tasks |-> IdleTask]

-----------------------------------------------------------------------------

StartStep(t) ==
    \/ StageProfile(t) \/ SpawnOpenvpn(t) \/ Opens(t) \/ DeviceUp(t) \/ NoDevice(t)
    \/ InstallScopedRoutes(t) \/ ReplaceTable(t) \/ AddRule(t) \/ RouteAdapter(t)
    \/ Insert(t) \/ StartFails(t)

StopStep(t) ==
    \/ Remove(t) \/ RevertScopedRoutes(t) \/ RevertRule(t) \/ FlushTable(t) \/ Terminate(t)

SideNext ==
    \/ \E t \in Tasks :
          \/ StartSideTunnel(t) \/ StopSideTunnel(t) \/ StopAllSideTunnels(t)
          \/ StopStep(t) \/ StartStep(t) \/ Reply(t)
    \/ \E p \in Pids : OpenvpnExits(p)
    \/ HelperDies

SideSpec == SideInit /\ [][SideNext]_sideVars

-----------------------------------------------------------------------------

\* Every OpenVPN process that runs is in the map or in the hands of a command
\* that starts or stops it, whichever starts and stops of one client overlap:
\* there is always somebody who can end it.
TunnelsAccounted ==
    \A p \in running : \/ \E c \in Clients : tunnels[c] = p
                       \/ \E t \in Tasks : task[t].pid = p

\* The mark is diverted only for a recorded tunnel or one about to be, unless
\* the command that removes the rule failed or the helper died: no sequence of
\* overlapping starts and stops leaves the rule behind.
RuleAccounted ==
    rule /\ ~leaked => \/ \E c \in Clients : tunnels[c] # NoPid
                       \/ \E t \in Tasks : task[t].at \in {"insert", "unscope", "unrule"}

\* A stop of all tunnels that ran alone ends every tunnel, whatever failed.
StopAllEndsTunnels ==
    \A t \in Tasks : At(t, "done") /\ task[t].alone
                        => running = {}

\* A start that ran alone and reports success has routed the mark to its own
\* device for as long as that device is there, although it found the rule and
\* the table of another tunnel.
StartRoutesItsTunnel ==
    os = "linux" =>
    \A t \in Tasks : At(t, "insert") /\ task[t].alone /\ device[Client(t)] # NoPid
                        => rule /\ table = Client(t)

\* What a command promises that no other command disturbed.
LoneCommandsKeepTheirWord == StopAllEndsTunnels /\ StartRoutesItsTunnel

\* A TAP adapter whose tunnel is recorded has no on-link default route: Windows
\* would look up every destination on it and reach none.
TapNeverOnLink ==
    \A c \in tap : tunnels[c] = device[c] => adapter[c] # "onlink"

\* What every step of every command keeps: each process has an owner, the rule
\* goes with the last tunnel, and no adapter black-holes what is sent to it.
TunnelsInvariant == SideTypeOK /\ TunnelsAccounted /\ RuleAccounted /\ TapNeverOnLink

\* ADR 0067: each instance's outbound leaves by its own device.  While nothing
\* is being started or stopped, the mark of a recorded tunnel leads to it.
RecordedTunnelIsRouted ==
    os = "linux" /\ (\A t \in Tasks : ~Busy(t)) =>
    \A c \in Clients : tunnels[c] # NoPid /\ device[c] = tunnels[c]
                          => rule /\ table = c
=============================================================================
