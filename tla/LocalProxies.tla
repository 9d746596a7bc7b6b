---------------------------- MODULE LocalProxies ----------------------------
(* Several local proxies in one connect (iran-split-platform-macos): the    *)
(* clients one after the other, the required one launched and waited for,   *)
(* the others launched and left to a later recovery, with the failure that  *)
(* is kept for each, its cached probe and its handle.  Module Backend has   *)
(* one proxy beside a side tunnel and the core; here the core is one step   *)
(* that succeeds or fails.                                                  *)
EXTENDS Naturals, Sequences, FiniteSets

CONSTANTS Clients,       \* the enabled clients, in the order of the configuration
          Hiddify        \* the one whose child is stopped with the stack
All == {Clients[i] : i \in DOMAIN Clients}
(* A configuration has at most one client of each preset. *)
ASSUME ClientsAssumption ==
    /\ Clients \in Seq(All) /\ Hiddify \in All
    /\ \A i, j \in DOMAIN Clients : Clients[i] = Clients[j] => i = j

VARIABLES
    required,            \* the client of the default route, or "none"
    program,             \* each client's port: "off", "open" or "flows"
    attached,            \* the clients with a handle in egress_handles
    failed,              \* client_failures
    exits, defaultExit,  \* client_exit_ips; egress_exit_ip is set
    launched,            \* launched_hiddify holds a child
    connection,          \* "stopped", "connected", "paused" or "error"
    stage, next, ready,  \* the operation, the client it is at, the handles of this connect
    recovery,            \* what each recovery still has to look at
    crossed              \* history: two of them at once since the connect

found == <<failed, exits, defaultExit>>
operation == <<connection, stage, next, ready>>
proxyVars == <<required, program, attached, found, launched, operation, recovery, crossed>>

Recoveries == {"tick", "command"}
Current == Clients[next]
IsRequired(c) == required = c
Recovering == \E who \in Recoveries : recovery[who] # {}
-----------------------------------------------------------------------------
ProxiesInit ==
    /\ required \in {"none", Clients[1]} /\ program \in [All -> {"off", "flows"}]
    /\ attached = {} /\ failed = {} /\ exits = {} /\ defaultExit = FALSE /\ launched = FALSE
    /\ connection = "stopped" /\ stage = "idle" /\ next = 1 /\ ready = {}
    /\ recovery = [who \in Recoveries |-> {}] /\ crossed = FALSE

(* A client starts to listen, loses its traffic or stops. *)
ProgramChanges(c) ==
    /\ \E p \in {"off", "open", "flows"} \ {program[c]} : program' = [program EXCEPT ![c] = p]
    /\ UNCHANGED <<required, attached, found, launched, operation, recovery, crossed>>

BeginEnsure ==
    /\ stage = "idle" /\ connection # "connected"
    /\ stage' = "client" /\ next' = 1 /\ ready' = {} /\ defaultExit' = FALSE
    /\ crossed' = Recovering
    /\ UNCHANGED <<required, program, attached, failed, exits, launched, connection, recovery>>

(* The next client, or the end: only then what was attached before goes.    *)
NextClient ==
    IF next < Len(Clients)
    THEN next' = next + 1 /\ stage' = "client"
    ELSE next' = 1 /\ stage' = "core"
Last(handles) == IF next = Len(Clients) THEN handles ELSE attached

(* A client that is up: its handle is published at once, with those of this *)
(* connect only.                                                            *)
Attach(c) ==
    /\ failed' = failed \ {c} /\ exits' = exits \cup {c}
    /\ defaultExit' = (defaultExit \/ IsRequired(c))
    /\ ready' = ready \cup {c} /\ attached' = ready' /\ NextClient
    /\ UNCHANGED <<required, program, launched, connection, recovery, crossed>>
(* Mutation of GiveUp: the failure of an optional client is only logged. *)
GiveUpSilently(c) ==
    /\ IF IsRequired(c)
       THEN stage' = "failed" /\ failed' = failed \cup {c} /\ UNCHANGED <<next, attached>>
       ELSE NextClient /\ attached' = Last(ready) /\ UNCHANGED failed
    /\ UNCHANGED <<required, program, exits, defaultExit, connection, ready, recovery, crossed>>
(* A client that is not: its failure is kept, and a required one ends the   *)
(* connect.                                                                 *)
GiveUp(c) ==
    /\ failed' = failed \cup {c}
    /\ IF IsRequired(c)
       THEN stage' = "failed" /\ UNCHANGED <<next, attached>>
       ELSE NextClient /\ attached' = Last(ready)
    /\ UNCHANGED <<required, program, exits, defaultExit, connection, ready, recovery, crossed>>

ReuseProbe ==
    /\ stage = "client" /\ Current \in exits /\ program[Current] # "off" /\ Attach(Current)
(* A port that is closed: the program is launched.  A required client is    *)
(* waited for, twice its start time; an optional one fails for now.         *)
LaunchLocalProxy ==
    /\ stage = "client" /\ program[Current] = "off"
    /\ \/ launched' = (launched \/ Current = Hiddify)
       \/ UNCHANGED launched       \* no executable was found, or it did not start
    /\ \/ ~IsRequired(Current) /\ GiveUp(Current)
       \/ /\ IsRequired(Current) /\ stage' = "launch"
          /\ UNCHANGED <<required, program, attached, found, connection, next, ready, recovery,
                         crossed>>
LaunchFails ==
    /\ stage = "launch" /\ program[Current] = "off" /\ GiveUp(Current) /\ UNCHANGED launched
ProbeEgress ==
    /\ \/ stage = "client" /\ Current \notin exits
       \/ stage = "launch"
    /\ \/ program[Current] = "flows" /\ Attach(Current)
       \/ program[Current] = "open" /\ GiveUp(Current) /\ UNCHANGED launched

Rest == <<required, program, attached, found, launched, next, ready, recovery, crossed>>
(* The readiness check refuses a default proxy whose address is not known.  *)
Connected ==
    /\ stage = "core" /\ stage' = "idle" /\ connection' = "connected"
    /\ required # "none" => defaultExit
    /\ UNCHANGED Rest
(* A start that fails, or that is cancelled anywhere, forgets nothing.      *)
ConnectFails ==
    /\ stage \in {"failed", "core"} /\ stage' = "idle" /\ UNCHANGED Rest
    /\ connection' = (IF connection = "paused" THEN "paused" ELSE "error")
Cancelled ==
    /\ stage \in {"client", "launch", "core"} /\ stage' = "idle" /\ UNCHANGED Rest
    /\ connection' = (IF connection = "paused" THEN "paused" ELSE "stopped")

(* A pause keeps the local proxies and their probes. *)
Pause ==
    /\ stage = "idle" /\ connection = "connected" /\ connection' = "paused"
    /\ UNCHANGED <<stage, Rest>>
(* A stop takes the child it holds with it, where the user wants that and   *)
(* the child is the program, not the "open" of its bundle; a cleanup that   *)
(* fails leaves the rest.                                                   *)
StopLaunched ==
    /\ stage = "idle" /\ connection # "stopped" /\ stage' = "stopping"
    /\ \/ UNCHANGED <<launched, program>>
       \/ /\ launched /\ launched' = FALSE
          /\ program' \in {program, [program EXCEPT ![Hiddify] = "off"]}
    /\ UNCHANGED <<required, attached, found, connection, next, ready, recovery, crossed>>
ForgetClientEgress ==
    /\ stage = "stopping" /\ stage' = "idle"
    /\ \/ connection' = "error" /\ UNCHANGED <<attached, exits, defaultExit>>
       \/ connection' = "stopped" /\ attached' = {} /\ exits' = {} /\ defaultExit' = FALSE
    /\ UNCHANGED <<required, program, failed, launched, next, ready, recovery, crossed>>
-----------------------------------------------------------------------------
(* recover_local_proxy_clients of the health task, or of a command about a  *)
(* client: what has no handle when it begins is looked at in turn.          *)
BeginRecovery(who) ==
    /\ stage = "idle" /\ connection = "connected" /\ recovery[who] = {}
    /\ recovery' = [recovery EXCEPT ![who] = All \ attached]
    /\ crossed' = (crossed \/ Recovering)
    /\ UNCHANGED <<required, program, attached, found, launched, operation>>
RecoverClient(who, c) ==
    /\ c \in recovery[who] /\ recovery' = [recovery EXCEPT ![who] = @ \ {c}]
    /\ CASE program[c] = "flows" ->
                /\ failed' = failed \ {c} /\ exits' = exits \cup {c}
                /\ attached' = attached \cup {c}
                /\ defaultExit' = (defaultExit \/ IsRequired(c))
         [] program[c] = "open" ->
                failed' = failed \cup {c} /\ UNCHANGED <<exits, attached, defaultExit>>
         [] OTHER -> UNCHANGED <<attached, found>>
    /\ UNCHANGED <<required, program, launched, operation, crossed>>

ProxiesNext ==
    \/ \E c \in All : ProgramChanges(c)
    \/ BeginEnsure \/ ReuseProbe \/ LaunchLocalProxy \/ LaunchFails \/ ProbeEgress
    \/ Connected \/ ConnectFails \/ Cancelled
    \/ Pause \/ StopLaunched \/ ForgetClientEgress
    \/ \E who \in Recoveries : BeginRecovery(who) \/ \E c \in All : RecoverClient(who, c)
-----------------------------------------------------------------------------
ProxiesTypeOK ==
    /\ program \in [All -> {"off", "open", "flows"}] /\ next \in DOMAIN Clients
    /\ attached \cup failed \cup exits \cup ready \subseteq All
    /\ {defaultExit, launched, crossed} \subseteq BOOLEAN
    /\ stage \in {"idle", "client", "launch", "core", "failed", "stopping"}
    /\ recovery \in [Recoveries -> SUBSET All]
AtRest == stage = "idle" /\ connection = "connected"

(* A client that the routing leaves out has the failure that the card of    *)
(* the client shows, whatever was launched, recovered and reconnected; and  *)
(* one that is in the routing has none.  Except where two of the tasks that *)
(* write both crossed since the connect.                                    *)
EveryClientIsExplained ==
    AtRest /\ ~crossed => \A c \in All : c \in attached <=> c \notin failed

(* A connected stack has the client of its default route in the routing,    *)
(* and the address it leaves by.                                            *)
DefaultIsAttached ==
    AtRest /\ required # "none" /\ ~crossed => required \in attached /\ defaultExit

(* What is kept of the local proxies of a connected stack                   *)
(* (iran-split-platform-macos/src/lib.rs:580, :638).                        *)
ProxiesInvariant == ProxiesTypeOK /\ EveryClientIsExplained /\ DefaultIsAttached
=============================================================================
