--------------------------- MODULE MCObservations ---------------------------
(* The observations of a stack and of its host, what is done to the user's  *)
(* own programs, and the rule sets that are kept on the network.  They      *)
(* share no variable, and each behaviour is one of them: the others stand   *)
(* still where they began.                                                  *)
EXTENDS Observations, CloudRules, TLC
CONSTANTS k1, k2, w1, w2
VARIABLE part

MCClients == <<k1, k2>>
MCCallers == {w1, w2}
MCCallerSymmetry == Permutations(MCCallers)
(* The commands of GNOME and KDE, of networksetup for each service, and the *)
(* registry.                                                                *)
MCPlaces == [linux |-> {"gnome", "kde"}, macos |-> {"wifi", "ethernet"}, windows |-> {"wininet"}]

TheComponents == ComponentsInit /\ ~polls /\ \A c \in ProxyClients : ~clientUp[c]
TheReport == ReportInit /\ ~config /\ ~listens /\ pieces = {}
TheLog == DebugLogInit /\ disk = "bare" /\ ~onWindows
TheProxies == ProxiesInit /\ required = "none" /\ \A c \in All : program[c] = "off"
TheSetting == SystemProxyInit /\ desktop = "windows" /\ \A p \in Here : setting[p] = "off"
TheFolder == FreshInit /\ hiddify = "off" /\ \A e \in Entries : folder[e] = "none"

MCInit ==
    /\ part \in {"components", "traffic", "report", "log", "proxies", "setting", "folder", "cloud"}
    /\ TrafficInit /\ CloudInit
    /\ IF part = "components" THEN ComponentsInit ELSE TheComponents
    /\ IF part = "report" THEN ReportInit ELSE TheReport
    /\ IF part = "log" THEN DebugLogInit ELSE TheLog
    /\ IF part = "proxies" THEN ProxiesInit ELSE TheProxies
    /\ IF part = "setting" THEN SystemProxyInit ELSE TheSetting
    /\ IF part = "folder" THEN FreshInit ELSE TheFolder
Keeps(p, vars) == IF part = p THEN TRUE ELSE UNCHANGED vars
MCNext ==
    /\ UNCHANGED part
    /\ \/ part = "components" /\ ComponentsNext
       \/ part = "traffic" /\ TrafficNext
       \/ part = "report" /\ ReportNext
       \/ part = "log" /\ DebugLogNext
       \/ part = "proxies" /\ ProxiesNext
       \/ part = "setting" /\ SystemProxyNext
       \/ part = "folder" /\ FreshNext
       \/ part = "cloud" /\ CloudNext
    /\ Keeps("components", componentVars) /\ Keeps("traffic", trafficVars)
    /\ Keeps("report", reportVars) /\ Keeps("log", debugLogVars)
    /\ Keeps("proxies", proxyVars) /\ Keeps("setting", systemProxyVars)
    /\ Keeps("folder", freshVars) /\ Keeps("cloud", cloudVars)
MCSpec ==
    MCInit /\ [][MCNext]_<<part, componentVars, trafficVars, reportVars, debugLogVars,
                           proxyVars, systemProxyVars, freshVars, cloudVars>>
=============================================================================
