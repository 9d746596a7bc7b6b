---------------------------- MODULE Observations ----------------------------
(* What is observed of a stack and of its host (the statuses of the         *)
(* components, the traffic of the session, the report on the host and the   *)
(* log it is written to), and what is done to the user's own programs (the  *)
(* local proxies of a connect, the proxy setting of the desktop, the files  *)
(* of Hiddify).  They share no variable: each goes its way.                 *)
EXTENDS Components, Traffic, HostReport, DebugLog, LocalProxies, SystemProxy, FreshStart

ComponentsSpec == ComponentsInit /\ [][ComponentsNext]_componentVars
TrafficSpec == TrafficInit /\ [][TrafficNext]_trafficVars
ReportSpec == ReportInit /\ [][ReportNext]_reportVars
DebugLogSpec == DebugLogInit /\ [][DebugLogNext]_debugLogVars
ProxiesSpec == ProxiesInit /\ [][ProxiesNext]_proxyVars
SystemProxySpec == SystemProxyInit /\ [][SystemProxyNext]_systemProxyVars
FreshSpec == FreshInit /\ [][FreshNext]_freshVars

ObservationSpec == ComponentsSpec /\ TrafficSpec /\ ReportSpec /\ DebugLogSpec
ProgramsSpec == ProxiesSpec /\ SystemProxySpec /\ FreshSpec

(* What the user is told of a stack and of its host keeps to what happened  *)
(* to them: the statuses, the traffic, the reports and the log.             *)
ObservationInvariant ==
    /\ ComponentsInvariant /\ TrafficInvariant /\ HostReportInvariant /\ DebugLogInvariant

(* What BiFlow does to the user's own programs keeps its word: which local  *)
(* proxies are routed, whose proxy setting is taken away, what is moved.    *)
ProgramsInvariant == ProxiesInvariant /\ SystemProxyInvariant /\ FreshStartInvariant
=============================================================================
