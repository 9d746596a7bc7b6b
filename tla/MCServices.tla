---------------------------- MODULE MCServices ----------------------------
(* The rule document, the routing made of one, the settings, the update and *)
(* the way of a configuration to Mihomo share no variable, nor does what is *)
(* shown in the Windows taskbar: each behaviour is one of the parts, the    *)
(* others keep the state they start in.                                     *)
EXTENDS Routing, RuleStore, Settings, UpdateFlow, HotReload, Taskbar, TLC
CONSTANTS p1, t1, google, gstatic, w1, w2, k1
VARIABLE part
MCProxies == {p1}
MCTunnels == {t1}
MCRegistry == <<p1, t1>>
MCHosts == {google, gstatic}
MCPinClients == {p1}
MCClientIds == {k1}
MCCallers == {w1, w2}
MCPorts == {1, 2}
MCLayouts == {{}, {<<3, 4>>}, {<<3, 8>>}, {<<3, 5>>, <<6, 7>>}, {<<3, 4>>, <<12, 13>>}}
MCSymmetry == Permutations(MCCallers)

TheRouting ==
    /\ app = [enabled |-> {}, default |-> Direct, failClosed |-> TRUE, allowDirect |-> {},
              pins |-> [d \in Destinations |-> NoPin]]
    /\ readyClients = {} /\ config = NotGenerated
TheRules ==
    /\ document = Empty /\ caller = [c \in Callers |-> Idle] /\ created = 0 /\ forked = FALSE
TheSettings == SettingsInit /\ profile = "production"
TheUpdate == UpdateInit /\ installKind = "deb" /\ pinsFile
TheReload == ReloadInit /\ platform = "unix"
TheTaskbar == TaskbarInit /\ bar.controls = {}

MCInit ==
    /\ part \in {"routing", "rules", "settings", "update", "reload", "taskbar"}
    /\ IF part = "routing" THEN RoutingInit ELSE TheRouting
    /\ IF part = "rules" THEN RuleInit ELSE TheRules
    /\ IF part = "settings" THEN SettingsInit ELSE TheSettings
    /\ IF part = "update" THEN UpdateInit ELSE TheUpdate
    /\ IF part = "reload" THEN ReloadInit ELSE TheReload
    /\ IF part = "taskbar" THEN TaskbarInit ELSE TheTaskbar
Keeps(p, vars) == IF part = p THEN TRUE ELSE UNCHANGED vars
MCNext ==
    /\ UNCHANGED part
    /\ \/ part = "routing" /\ RoutingNext
       \/ part = "rules" /\ RuleNext
       \/ part = "settings" /\ SettingsNext
       \/ part = "update" /\ UpdateNext
       \/ part = "reload" /\ ReloadNext
       \/ part = "taskbar" /\ TaskbarNext
    /\ Keeps("routing", routingVars) /\ Keeps("rules", ruleVars) /\ Keeps("settings", settingsVars)
    /\ Keeps("update", updateVars) /\ Keeps("reload", reloadVars) /\ Keeps("taskbar", taskbarVars)
allVars == <<part, routingVars, ruleVars, settingsVars, updateVars, reloadVars, taskbarVars>>
MCSpec == MCInit /\ [][MCNext]_allVars
=============================================================================
