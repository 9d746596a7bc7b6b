----------------------------- MODULE HostReport -----------------------------
(* The host report in debug.log (src-tauri/src/environment/mod.rs): tasks   *)
(* that sample the phase of the stack before they ask for a collection, of  *)
(* which one runs at a time, the machine that changes while it is read, and *)
(* the findings that are made of both.  A finding is its name without the   *)
(* detail; the parsers of the collectors, redaction, and the findings about *)
(* services, Kubernetes, the taskbar and the versions of programs, which    *)
(* are read and reported alone, are left out.                               *)
VARIABLES stackPhase,  \* of the snapshot; "busy" while an operation runs
          pieces,      \* what a running stack has on the machine, or a stop left there
          side,        \* the device of a side tunnel is up
          foreign,     \* what other programs have there
          listens,     \* the port of the enabled local proxy listens
          systemProxy, \* where the proxy setting of the system points
          config,      \* the configuration could be loaded
          waiting,     \* a task has been spawned and has not sampled the phase
          contexts,    \* what the tasks that ask for a collection hold
          collecting,  \* the collection in flight
          report,      \* LAST_REPORT
          told         \* history: "owed" since the phase last changed, "logged" when a
                       \* report of it was, "dropped" when a request was
hostVars == <<pieces, side, foreign, listens, systemProxy>>
reportVars == <<stackPhase, hostVars, config, waiting, contexts, collecting, report, told>>

Pieces == {"adapter", "routes", "dns"}   \* TUN, its routes and rules, fake-ip servers
LeftBehind == {{}, {"dns"}, Pieces}   \* the routes go with the adapter
Foreign == {"tunnel", "route", "listener", "process"}
Proxies == {"off", "mixed", "client", "other_local", "remote"}
Phases == {"busy", "running", "error", "idle"}   \* idle: paused or stopped
(* old: the phase or the machine has changed since it was sampled. *)
Contexts == [phase : Phases, old : BOOLEAN]
NoCollection == [step |-> "none"]
NoReport == [phase |-> "none", old |-> FALSE, findings |-> {}]
Aged(c) == IF "old" \in DOMAIN c THEN [c EXCEPT !.old = TRUE] ELSE c
-----------------------------------------------------------------------------
(* The findings; without a configuration the ports and the names of BiFlow  *)
(* are not known.                                                           *)
Named(holds, name) == IF holds THEN {name} ELSE {}
IdleFindings ==
    Named(config /\ "adapter" \in pieces, "leftover_tun_adapter")
    \cup Named(config /\ "routes" \in pieces, "leftover_tun_routes")
    \cup Named("dns" \in pieces, "leftover_fake_ip_dns")
    \cup Named(config /\ systemProxy = "mixed", "leftover_system_proxy_to_mihomo")
RunningFindings == Named(config /\ systemProxy = "client", "system_proxy_bypasses_split_routing")
StateFindings(sampled) ==
    CASE sampled = "idle" -> IdleFindings
      [] sampled = "running" -> RunningFindings
      [] OTHER -> {}
PortFindings ==
    Named(config /\ "listener" \in foreign, "port_conflict")
    \cup Named(systemProxy = "other_local" \/ (~config /\ systemProxy \in {"mixed", "client"}),
               "system_proxy_unknown_local_port")
    \cup Named(systemProxy = "remote", "system_proxy_not_local")
(* Mutation of NetworkFindings: the devices of side tunnels are not known. *)
NetworkFindingsOfTun ==
    Named("tunnel" \in foreign \/ side \/ (~config /\ "adapter" \in pieces),
          "other_tunnel_adapter_up")
    \cup Named("route" \in foreign \/ (~config /\ "routes" \in pieces), "split_default_route")
NetworkFindings ==
    Named("tunnel" \in foreign \/ (~config /\ (side \/ "adapter" \in pieces)),
          "other_tunnel_adapter_up")
    \cup Named("route" \in foreign \/ (~config /\ "routes" \in pieces), "split_default_route")
(* Mihomo and openvpn are never reported, an enabled client is ours. *)
HostFindings == Named("process" \in foreign \/ (~config /\ listens), "other_vpn_process")
ClientFindings == Named(config /\ ~listens, "client_port_not_listening")
LoopbackFindings(listened) == Named(config /\ ~listened, "client_port_refused_on_loopback")
Findings(c) ==
    ClientFindings \cup PortFindings \cup NetworkFindings \cup HostFindings
    \cup StateFindings(c.phase) \cup LoopbackFindings(c.listened)
-----------------------------------------------------------------------------
ReportInit ==
    /\ stackPhase = "idle" /\ pieces \in LeftBehind /\ side = FALSE /\ listens \in BOOLEAN
    /\ \/ foreign = {} /\ systemProxy \in {"off", "mixed", "client"} /\ config = TRUE
       \/ foreign = Foreign /\ systemProxy \in {"other_local", "remote"} /\ config = TRUE
       \/ foreign = {} /\ systemProxy = "mixed" /\ config = FALSE
    /\ waiting = TRUE /\ contexts = {} /\ collecting = NoCollection /\ report = NoReport
    /\ told = "owed"

(* Of a report that is no longer true only the phase is followed. *)
Ages ==
    /\ contexts' = {Aged(c) : c \in contexts}
    /\ collecting' = Aged(collecting) /\ report' = [Aged(report) EXCEPT !.findings = {}]

(* The phase changes with the machine: a running stack has all its pieces,  *)
(* and an end may leave some.  The watcher asks for a report wherever the   *)
(* stack has come to rest.                                                  *)
PhaseChanges ==
    /\ \/ stackPhase # "busy" /\ stackPhase' = "busy" /\ UNCHANGED <<pieces, side, waiting>>
       \/ /\ stackPhase = "busy" /\ stackPhase' \in Phases \ {"busy"} /\ waiting' = TRUE
          /\ IF stackPhase' = "running"
             THEN pieces' = Pieces /\ side' \in BOOLEAN
             ELSE pieces' \in LeftBehind /\ side' \in {FALSE, side}
    /\ Ages /\ told' = "owed"
    /\ UNCHANGED <<foreign, listens, systemProxy, config>>
HostChanges ==
    /\ listens' = ~listens /\ Ages
    /\ UNCHANGED <<stackPhase, pieces, side, foreign, systemProxy, config, waiting, told>>

(* A clear, an export and a recreated log ask at any time. *)
AsksForSnapshot ==
    /\ ~waiting /\ waiting' = TRUE
    /\ UNCHANGED <<stackPhase, hostVars, config, contexts, collecting, report, told>>
(* The settings, the rules and the helper are read, then the phase.  Bound: *)
(* one task at a time is between that and its request.                      *)
SampleContext ==
    /\ waiting /\ waiting' = FALSE /\ contexts = {}
    /\ contexts' = contexts \cup {[phase |-> stackPhase, old |-> FALSE]}
    /\ UNCHANGED <<stackPhase, hostVars, config, collecting, report, told>>
BeginCollect(c) ==
    /\ collecting.step = "none"
    /\ collecting' = [step |-> "probe", phase |-> c.phase, old |-> c.old]
    /\ contexts' = contexts \ {c}
    /\ UNCHANGED <<stackPhase, hostVars, config, waiting, report, told>>
SkipSnapshot(c) ==
    /\ collecting.step # "none" /\ contexts' = contexts \ {c}
    /\ told' = IF told = "owed" THEN "dropped" ELSE told
    /\ UNCHANGED <<stackPhase, hostVars, config, waiting, collecting, report>>
(* The self-test of the loopback comes before the rest of the host. *)
ProbeLoopback ==
    /\ collecting.step = "probe"
    /\ collecting' = [step |-> "collect", phase |-> collecting.phase, old |-> collecting.old,
                      listened |-> listens]
    /\ UNCHANGED <<stackPhase, hostVars, config, waiting, contexts, report, told>>
Collect ==
    /\ collecting.step = "collect" /\ collecting' = NoCollection
    /\ report' = [phase |-> collecting.phase, old |-> collecting.old,
                  findings |-> IF collecting.old THEN {} ELSE Findings(collecting)]
    /\ told' = IF collecting.phase = stackPhase THEN "logged" ELSE told
    /\ UNCHANGED <<stackPhase, hostVars, config, waiting, contexts>>

ReportNext ==
    \/ PhaseChanges \/ HostChanges \/ AsksForSnapshot \/ SampleContext
    \/ \E c \in contexts : BeginCollect(c) \/ SkipSnapshot(c)
    \/ ProbeLoopback \/ Collect
-----------------------------------------------------------------------------
ReportTypeOK ==
    /\ stackPhase \in Phases /\ pieces \subseteq Pieces /\ foreign \subseteq Foreign
    /\ systemProxy \in Proxies /\ {side, listens, config, waiting} \subseteq BOOLEAN
    /\ told \in {"owed", "logged", "dropped"}
    /\ contexts \subseteq Contexts /\ collecting.step \in {"none", "probe", "collect"}
Reported == report.phase # "none" /\ ~report.old /\ config

(* What BiFlow itself has on the machine is no conflict: the report of a    *)
(* connected stack without other programs has no finding.                   *)
OwnStackIsQuiet ==
    Reported /\ report.phase = "running" /\ foreign = {} /\ listens
    /\ systemProxy \in {"off", "mixed"}
        => report.findings = {}

(* What a pause or a disconnect left behind is a finding, and nothing else  *)
(* is taken for it.                                                         *)
Leftovers == {"leftover_tun_adapter", "leftover_tun_routes", "leftover_fake_ip_dns",
              "leftover_system_proxy_to_mihomo"}
LeftoversAreFound ==
    Reported => (report.findings \cap Leftovers # {} <=>
                 report.phase = "idle" /\ (pieces # {} \/ systemProxy = "mixed"))

(* A stack at rest has a report of its phase in the log, or one is on its   *)
(* way; except where a request met a collection in flight and was dropped.  *)
PhaseIsDescribed ==
    stackPhase # "busy" /\ told = "owed" =>
        waiting \/ \E c \in contexts \cup {collecting} :
                       "phase" \in DOMAIN c /\ c.phase = stackPhase

(* What the reports say of a machine that changes while they are made       *)
(* (src-tauri/src/environment/mod.rs:397, :1196).                           *)
HostReportInvariant ==
    ReportTypeOK /\ OwnStackIsQuiet /\ LeftoversAreFound /\ PhaseIsDescribed
=============================================================================
