------------------------------ MODULE Backend ------------------------------
(* The egress state that a platform backend keeps between the operations of *)
(* the engine: handles, cached probes, side-tunnel credentials, the prepared *)
(* and the validated generation.  One client of each EgressKind is enabled:  *)
(* a local proxy, which is a program of its own, and an OpenVPN side tunnel, *)
(* which the helper runs.                                                    *)
(*                                                                           *)
(* Three tasks call the backend: the holder of the lifecycle lock, the       *)
(* health task, and one command about a single client, which only looks at   *)
(* the lock before it begins.                                                *)
EXTENDS Naturals, FiniteSets

CONSTANT Platform  \* of the build: iran-split-platform-linux, -macos or -win
ASSUME PlatformAssumption == Platform \in {"linux", "macos", "windows"}

Egresses == {"proxy", "tunnel"}
Defaults == Egresses \union {"DIRECT"}
NoGeneration == [match |-> "none", unique |-> TRUE]
MaxHandles == 2     \* bound: handles of one client that are told apart

VARIABLES
    default,             \* the default route of AppConfig
    port,                \* the proxy's port: "off", "open" or "flows"
    tunnel,              \* its process in the helper: "off", "up" or "dead"
    core,                \* what Mihomo runs
    handles,             \* egress_handles, as a bag
    proved, exit,        \* client_exit_ips of the proxy, egress_exit_ip is set
    auth,                \* side_tunnel_auth_files holds the tunnel's file
    prepared, validated, \* the staged generation, the hash that passed mihomo -t
    stack,               \* the phase, as far as the backend's callers look at it
    op, at, ends, fresh, \* the lock holder: operation, place, the phase an undone or
                         \* completed operation leaves, the handles of this connect
    command,             \* the command about one client
    recovering,          \* who is inside recover_local_proxy_clients, and where
    abandoned,           \* the helper serves a start whose caller was cancelled
    raced                \* history: a command or an abandoned start since the connect

world == <<port, tunnel>>
egress == <<handles, proved, exit, auth>>
generations == <<prepared, validated>>
lock == <<stack, op, at, ends, fresh>>
tasks == <<command, recovering, abandoned, raced>>
backendVars == <<default, world, core, egress, generations, lock, tasks>>

Places == {"idle", "proxy", "launch", "probe", "dialing", "recover",
           "prepare", "validate", "core", "ready", "stopCore", "stopProxy", "cleanup", "clearing"}
Recoverers == {"health", "apply"}
Configs == [match : Defaults \union {"REJECT", "none"}, unique : BOOLEAN]

BackendTypeOK ==
    /\ default \in Defaults
    /\ port \in {"off", "open", "flows"} /\ tunnel \in {"off", "up", "dead"}
    /\ {core, prepared, validated} \subseteq Configs
    /\ handles \in [Egresses -> 0..MaxHandles] /\ fresh \subseteq Egresses
    /\ {proved, exit, auth, abandoned, raced} \subseteq BOOLEAN
    /\ {stack, ends} \subseteq {"stopped", "working", "connected", "paused", "error"}
    /\ op \in {"start", "resume", "apply", "stop", "pause"} /\ at \in Places
    /\ at \in {"validate", "core"} => prepared # NoGeneration
    /\ command \in {"none", "asked", "dialing", "up", "detaching", "detached"}
    /\ recovering \in [Recoverers -> {"no", "asked", "probing"}]

BackendInit ==
    /\ default \in Defaults
    /\ port \in {"off", "flows"} /\ tunnel = "off" /\ core = NoGeneration
    /\ handles = [c \in Egresses |-> 0] /\ proved = FALSE /\ exit = FALSE
    /\ auth = FALSE /\ prepared = NoGeneration /\ validated = NoGeneration
    /\ stack = "stopped" /\ op = "stop" /\ at = "idle" /\ ends = "stopped" /\ fresh = {}
    /\ command = "none" /\ recovering = [who \in Recoverers |-> "no"] /\ abandoned = FALSE /\ raced = FALSE

Only(clients) == [c \in Egresses |-> IF c \in clients THEN 1 ELSE 0]
Required(c) == default = c
Goes(from, to) == at = from /\ at' = to /\ UNCHANGED <<op, stack, ends>>
Moves(from, to) == Goes(from, to) /\ UNCHANGED <<fresh, prepared>>
Ends(result) ==
    /\ at' = "idle" /\ stack' = result /\ op' = "stop" /\ ends' = "stopped"
    /\ fresh' = {} /\ prepared' = NoGeneration
AtMost(n) == IF n > MaxHandles THEN MaxHandles ELSE n
Push(c) == [handles EXCEPT ![c] = AtMost(@ + 1)]

\* The start failed: rolled back when Mihomo was started, else left as it is.
StartFails ==
    IF at = "ready" THEN Moves(at, "stopCore") ELSE Ends(ends)

-----------------------------------------------------------------------------
(* ensure_enabled_clients: the clients one after the other.                *)

BeginStart ==
    /\ at = "idle" /\ stack \in {"stopped", "error", "paused"}
    /\ at' = "proxy" /\ stack' = "working"
    /\ IF stack = "paused" THEN op' = "resume" /\ ends' = "paused"
       ELSE op' = "start" /\ ends' = "error"
    /\ exit' = FALSE /\ UNCHANGED <<fresh, prepared>>
    /\ raced' = (command # "none" \/ abandoned)
    /\ UNCHANGED <<default, world, core, handles, proved, auth, validated,
                   command, recovering, abandoned>>

\* A handle is published at once, in place of what was published before.
Publishes(c, next) ==
    /\ fresh' = fresh \union {c} /\ handles' = Only(fresh') /\ Goes(at, next) /\ UNCHANGED prepared

Skips(c, next) == IF Required(c) THEN StartFails ELSE Moves(at, next)

ReuseCachedEgress ==
    /\ at = "proxy" /\ proved /\ port # "off"
    /\ exit' = (exit \/ Required("proxy")) /\ Publishes("proxy", "dialing")
    /\ UNCHANGED <<default, world, core, proved, auth, validated, tasks>>

FindListening ==
    /\ Moves("proxy", "probe") /\ port # "off"
    /\ UNCHANGED <<default, world, core, egress, validated, tasks>>

\* An optional client is launched and not waited for.
SpawnLocalProxy ==
    /\ at = "proxy" /\ port = "off"
    /\ \/ Required("proxy") /\ Moves("proxy", "launch")
       \/ Skips("proxy", "dialing")
    /\ UNCHANGED <<default, world, core, egress, validated, tasks>>

LaunchTimesOut ==
    /\ at = "launch" /\ port = "off" /\ Skips("proxy", "dialing")
    /\ UNCHANGED <<default, world, core, egress, validated, tasks>>

LaunchOpens ==
    /\ Moves("launch", "probe") /\ port # "off"
    /\ UNCHANGED <<default, world, core, egress, validated, tasks>>

ProbeFlows ==
    /\ at = "probe" /\ port = "flows" /\ proved' = TRUE
    /\ exit' = (exit \/ Required("proxy")) /\ Publishes("proxy", "dialing")
    /\ UNCHANGED <<default, world, core, auth, validated, tasks>>

ProbeFails ==
    /\ at = "probe" /\ port # "flows" /\ Skips("proxy", "dialing")
    /\ UNCHANGED <<default, world, core, egress, validated, tasks>>

\* The credentials are kept for OpenVPN's soft restarts.
TunnelStarts ==
    /\ at = "dialing" /\ tunnel' = "up" /\ auth' = TRUE /\ Publishes("tunnel", "prepare")
    /\ UNCHANGED <<default, port, core, proved, exit, validated, tasks>>

\* Mutation of TunnelFails: the client's handle is published anyway.
TunnelFailsPublished ==
    /\ at = "dialing" /\ auth' \in {auth, TRUE} /\ Publishes("tunnel", "prepare")
    /\ UNCHANGED <<default, world, core, proved, exit, validated, tasks>>

\* Refused by the helper, or up and down: then its file is kept all the same.
TunnelFails ==
    /\ at = "dialing" /\ auth' \in {auth, TRUE}
    /\ IF Required("tunnel") THEN StartFails /\ UNCHANGED handles
       ELSE Moves("dialing", "prepare") /\ handles' = Only(fresh)
    /\ UNCHANGED <<default, world, core, proved, exit, validated, tasks>>

\* A cancelled connect is undone; the helper goes on with a start it was asked for.
Cancel ==
    /\ op \in {"start", "resume"} /\ at \in {"proxy", "launch", "probe", "dialing", "prepare",
                              "validate", "ready"}
    /\ at' = "stopCore" /\ ends' = (IF op = "start" THEN "stopped" ELSE "paused")
    /\ UNCHANGED <<op, stack, fresh, prepared>>
    /\ abandoned' = (abandoned \/ at = "dialing") /\ raced' = (raced \/ at = "dialing")
    /\ UNCHANGED <<default, world, core, egress, validated, command, recovering>>

AbandonedStartEnds ==
    /\ abandoned /\ abandoned' = FALSE /\ tunnel' \in {tunnel, "up"}
    /\ UNCHANGED <<default, port, core, egress, generations, lock, command, recovering, raced>>

-----------------------------------------------------------------------------
(* prepare_runtime, validate_runtime, start_core and reload_core.          *)

\* The MATCH rule, as Routing has it; without any handle all are synthesized.
MatchOf(ready) ==
    IF default = "DIRECT" \/ default \in ready \/ ready = {} THEN default ELSE "REJECT"
Ready == {c \in Egresses : handles[c] > 0}

PrepareRuntime ==
    /\ Goes("prepare", "validate")
    /\ prepared' = [match |-> MatchOf(Ready), unique |-> \A c \in Egresses : handles[c] <= 1]
    /\ UNCHANGED <<default, world, core, egress, fresh, validated, tasks>>

\* Mutation of ValidateRuntime: validated once is enough.
ValidateOnce ==
    /\ Moves("validate", "core")
    /\ validated # NoGeneration \/ prepared.unique
    /\ validated' = prepared
    /\ UNCHANGED <<default, world, core, egress, tasks>>

\* mihomo -t refuses two proxies of one name.
ValidateRuntime ==
    /\ Moves("validate", "core") /\ validated' = prepared
    /\ validated = prepared \/ prepared.unique
    /\ UNCHANGED <<default, world, core, egress, tasks>>

ApplyFails == op = "apply" /\ Ends("connected")

ValidationFails ==
    /\ at = "validate" /\ validated # prepared
    /\ IF op = "apply" THEN ApplyFails ELSE StartFails
    /\ UNCHANGED <<default, world, core, egress, validated, tasks>>

StartCore ==
    /\ at = "core" /\ (op = "apply" => core = NoGeneration) /\ core' \in {core, prepared}
    /\ \/ core' = prepared /\ Moves("core", "ready")
       \/ IF op = "apply" THEN ApplyFails ELSE StartFails
    /\ UNCHANGED <<default, world, egress, validated, tasks>>

\* ensure_default_interface_route: Windows wants the default tunnel's adapter.
AdapterMissing == Platform = "windows" /\ Required("tunnel") /\ handles["tunnel"] = 0

ReloadCore ==
    /\ at = "core" /\ op = "apply" /\ core # NoGeneration
    /\ \/ ~AdapterMissing /\ core' = prepared /\ Moves("core", "ready")
       \/ ~AdapterMissing /\ core' \in {core, prepared} /\ ApplyFails
       \/ AdapterMissing /\ UNCHANGED core /\ ApplyFails
    /\ UNCHANGED <<default, world, egress, validated, tasks>>

\* Mutation of CheckReadiness: Mihomo is not looked at.
CheckReadinessOfProxy ==
    /\ at = "ready" /\ UNCHANGED exit
    /\ IF op = "apply" THEN Ends("connected")
       ELSE \/ (Required("proxy") => exit) /\ Ends("connected")
            \/ StartFails
    /\ UNCHANGED <<default, world, core, handles, proved, auth, validated, tasks>>

\* check_readiness: a default proxy without its probe is refused.
CheckReadiness ==
    /\ at = "ready"
    /\ exit' \in (IF Required("tunnel") THEN {exit, TRUE} ELSE {exit})
    /\ IF op = "apply" THEN Ends("connected")
       ELSE \/ core # NoGeneration /\ (Required("proxy") => exit) /\ Ends("connected")
            \/ StartFails
    /\ UNCHANGED <<default, world, core, handles, proved, auth, validated, tasks>>

-----------------------------------------------------------------------------
(* Rollback and stop.                                                      *)

BeginStop ==
    /\ at = "idle" /\ stack' = "working"
    /\ \/ stack \in {"connected", "paused"} /\ at' = "stopCore" /\ op' = "stop" /\ ends' = "stopped"
       \/ stack = "error" /\ at' = "stopProxy" /\ op' = "stop" /\ ends' = "stopped"
       \/ stack = "connected" /\ at' = "stopCore" /\ op' = "pause" /\ ends' = "paused"
    /\ UNCHANGED <<default, world, core, egress, fresh, generations, tasks>>

StopCore ==
    /\ Moves("stopCore", IF op = "stop" THEN "stopProxy" ELSE "cleanup")
    /\ core' \in {core, NoGeneration}
    /\ UNCHANGED <<default, world, egress, validated, tasks>>

\* Only with stop_with_stack; on macOS the child is "open", not the program.
StopUserProxy ==
    /\ Moves("stopProxy", "cleanup")
    /\ port' \in (IF Platform = "macos" THEN {port} ELSE {port, "off"})
    /\ UNCHANGED <<default, tunnel, core, handles, proved, exit, auth, validated, tasks>>

\* cleanup_owned_state, before it asks the helper.
BeginCleanup ==
    /\ Moves("cleanup", "clearing") /\ handles' = [handles EXCEPT !["tunnel"] = 0] /\ auth' = FALSE
    /\ UNCHANGED <<default, world, core, proved, exit, validated, tasks>>

\* forget_client_egress: only a completed stop forgets.
Forget ==
    /\ handles' = Only({}) /\ exit' = FALSE /\ proved' = FALSE /\ auth' = FALSE
    /\ validated' = NoGeneration

CleanupOwnedState ==
    /\ at = "clearing" /\ core' = NoGeneration /\ tunnel' = "off"
    /\ IF op = "stop" THEN Forget ELSE UNCHANGED <<handles, exit, proved, auth, validated>>
    /\ Ends(ends)
    /\ UNCHANGED <<default, port, tasks>>

CleanupFails ==
    /\ at = "clearing" /\ Ends("error")
    /\ core' \in {core, NoGeneration} /\ tunnel' \in {tunnel, "off"}
    /\ UNCHANGED <<default, port, egress, validated, tasks>>

-----------------------------------------------------------------------------
(* What is done while the stack is connected.                              *)

\* apply_user_rules recovers the local proxies first.
BeginApply ==
    /\ at = "idle" /\ stack = "connected"
    /\ at' = "recover" /\ op' = "apply" /\ UNCHANGED <<stack, ends, fresh, prepared>>
    /\ UNCHANGED <<default, world, core, egress, validated, tasks>>

\* The health task looks at the phase and the lock, and goes on to its probe.
\* A connect_client of a local proxy does the same.
AskRecover ==
    /\ recovering["health"] = "no" /\ stack = "connected" /\ at = "idle"
    /\ recovering' = [recovering EXCEPT !["health"] = "asked"]
    /\ UNCHANGED <<default, world, core, egress, generations, lock, command, abandoned, raced>>

\* A proxy that has no handle and listens is probed; no lock is held.
Probed == handles["proxy"] = 0 /\ port # "off"

TickProbes ==
    /\ recovering["health"] = "asked"
    /\ recovering' = [recovering EXCEPT !["health"] = IF Probed THEN "probing" ELSE "no"]
    /\ UNCHANGED <<default, world, core, egress, generations, lock, command, abandoned, raced>>

ApplyProbes ==
    /\ at = "recover" /\ recovering["apply"] = "no" /\ Probed
    /\ recovering' = [recovering EXCEPT !["apply"] = "probing"]
    /\ UNCHANGED <<default, world, core, egress, generations, lock, command, abandoned, raced>>

Continues(who) ==
    IF who = "apply" THEN Moves("recover", "prepare") ELSE UNCHANGED <<lock, prepared>>

Recovered(who) ==
    /\ recovering[who] = "probing" /\ recovering' = [recovering EXCEPT ![who] = "no"]
    /\ port = "flows" /\ Continues(who)
    /\ handles' = Push("proxy") /\ proved' = TRUE /\ exit' = (exit \/ Required("proxy"))
    /\ UNCHANGED <<default, world, core, auth, validated, command, abandoned, raced>>

NotRecovered(who) ==
    /\ recovering[who] = "probing" /\ recovering' = [recovering EXCEPT ![who] = "no"]
    /\ port # "flows" /\ Continues(who)
    /\ UNCHANGED <<default, world, core, egress, validated, command, abandoned, raced>>

\* After 30 seconds the apply is dropped where it is.
ApplyTimesOut ==
    /\ at # "idle" /\ ApplyFails /\ recovering' = [recovering EXCEPT !["apply"] = "no"]
    /\ UNCHANGED <<default, world, core, egress, validated, command, abandoned, raced>>

ApplyRecovered ==
    /\ Moves("recover", "prepare") /\ recovering["apply"] = "no" /\ ~Probed
    /\ UNCHANGED <<default, world, core, egress, validated, tasks>>

-----------------------------------------------------------------------------
(* connect_client, retry_side_tunnels and disconnect_client.               *)

AskCommand ==
    /\ command = "none" /\ at = "idle" /\ stack = "connected"
    /\ command' = "asked" /\ raced' = TRUE
    /\ UNCHANGED <<default, world, core, egress, generations, lock, recovering, abandoned>>

\* A connect drops the handle it has; a retry is for a tunnel without one.
ConnectSideTunnel ==
    /\ command = "asked" /\ command' = "dialing" /\ handles' = [handles EXCEPT !["tunnel"] = 0]
    /\ UNCHANGED <<default, world, core, proved, exit, auth, generations, lock, recovering,
                   abandoned, raced>>

SideTunnelStarts ==
    /\ command = "dialing" /\ command' = "up" /\ tunnel' = "up" /\ auth' = TRUE
    /\ UNCHANGED <<default, port, core, handles, proved, exit, generations, lock, recovering,
                   abandoned, raced>>

SideTunnelFails ==
    /\ command = "dialing" /\ command' = "none" /\ auth' \in {auth, TRUE}
    /\ UNCHANGED <<default, world, core, handles, proved, exit, generations, lock, recovering,
                   abandoned, raced>>

PublishSideTunnel ==
    /\ command = "up" /\ command' = "none" /\ handles' = Push("tunnel")
    /\ UNCHANGED <<default, world, core, proved, exit, auth, generations, lock, recovering,
                   abandoned, raced>>

\* The lock is looked at, the phase is not.
AskDisconnect ==
    /\ command = "none" /\ at = "idle" /\ command' = "detaching" /\ raced' = TRUE
    /\ UNCHANGED <<default, world, core, egress, generations, lock, recovering, abandoned>>

DisconnectSideTunnel ==
    /\ command = "detaching"
    /\ \/ command' = "detached" /\ tunnel' = "off"
       \/ command' = "none" /\ UNCHANGED tunnel
    /\ UNCHANGED <<default, port, core, egress, generations, lock, recovering, abandoned, raced>>

\* Mutation of ForgetSideTunnel: the handles are cleared, not filtered.
ForgetEveryHandle ==
    /\ command = "detached" /\ command' = "none" /\ handles' = Only({})
    /\ UNCHANGED <<default, world, core, proved, exit, auth, generations, lock, recovering,
                   abandoned, raced>>

ForgetSideTunnel ==
    /\ command = "detached" /\ command' = "none" /\ handles' = [handles EXCEPT !["tunnel"] = 0]
    /\ UNCHANGED <<default, world, core, proved, exit, auth, generations, lock, recovering,
                   abandoned, raced>>

-----------------------------------------------------------------------------
(* The programs around the backend.                                        *)

ProxyChanges ==
    /\ port' \in {"off", "open", "flows"} \ {port}
    /\ UNCHANGED <<default, tunnel, core, egress, generations, lock, tasks>>

TunnelDies ==
    /\ tunnel = "up" /\ tunnel' = "dead"
    /\ UNCHANGED <<default, port, core, egress, generations, lock, tasks>>

CoreDies ==
    /\ core # NoGeneration /\ core' = NoGeneration
    /\ UNCHANGED <<default, world, egress, generations, lock, tasks>>

EnsureStep ==
    \/ ReuseCachedEgress \/ FindListening \/ SpawnLocalProxy \/ LaunchTimesOut \/ LaunchOpens
    \/ ProbeFlows \/ ProbeFails \/ TunnelStarts \/ TunnelFails
CoreStep ==
    \/ PrepareRuntime \/ ValidateRuntime \/ ValidationFails \/ StartCore \/ ReloadCore
    \/ CheckReadiness
StopStep == StopCore \/ StopUserProxy \/ BeginCleanup \/ CleanupOwnedState \/ CleanupFails
RecoverStep(who) == Recovered(who) \/ NotRecovered(who)
LockStep ==
    \/ EnsureStep \/ CoreStep \/ StopStep \/ ApplyProbes \/ RecoverStep("apply") \/ ApplyRecovered \/ ApplyTimesOut
CommandStep ==
    \/ AskCommand \/ ConnectSideTunnel \/ SideTunnelStarts \/ SideTunnelFails
    \/ PublishSideTunnel \/ AskDisconnect \/ DisconnectSideTunnel \/ ForgetSideTunnel

BackendNext ==
    \/ BeginStart \/ BeginApply \/ BeginStop \/ Cancel \/ LockStep
    \/ AskRecover \/ TickProbes \/ RecoverStep("health")
    \/ CommandStep \/ AbandonedStartEnds
    \/ ProxyChanges \/ TunnelDies \/ CoreDies

BackendSpec == BackendInit /\ [][BackendNext]_backendVars

-----------------------------------------------------------------------------

Contract == INSTANCE StackContract WITH phase <- stack, capturing <- core # NoGeneration

\* The backend under the engine keeps the promise of StackContract: the phase
\* Stopped means that Mihomo is down, Connected is reached with Mihomo up, and
\* no apply, command or failure starts Mihomo in any other phase.
KeepsStackContract == Contract!ContractSpec

\* Mihomo never runs a generation that mihomo -t would refuse, although the
\* handles may be duplicated while a generation is prepared and validated.
CoreRunsValidConfig == core.unique

\* While the stack is connected, unmatched traffic keeps going to the default
\* proxy: no recovery, apply, command or cleanup takes its handle away.
DefaultProxyStaysRouted ==
    stack = "connected" /\ default = "proxy" =>
        /\ exit /\ handles["proxy"] > 0
        /\ core # NoGeneration => core.match = "proxy"

\* Unless a command about that client runs beside the lock, a side tunnel that
\* has a handle has its process and keeps the credentials it restarts with.
HandlesAreBacked ==
    handles["tunnel"] > 0 /\ ~raced /\ stack = "connected" =>
        tunnel # "off" /\ auth

\* After a stop nothing of the stack runs, but for a side tunnel that a command
\* or an abandoned start brought up behind its back.
StoppedStackIsDown ==
    stack = "stopped" => core = NoGeneration /\ (tunnel = "off" \/ raced)

\* What every backend call and every command beside the lock keeps.
BackendInvariant ==
    BackendTypeOK /\ HandlesAreBacked /\ StoppedStackIsDown /\ DefaultProxyStaysRouted

\* ADR 0076: "recovery never touches clients that already hold a handle".
AtMostOneHandle == \A c \in Egresses : handles[c] <= 1
=============================================================================
