----------------------------- MODULE HealthLoop -----------------------------
(* The health task of the desktop (spawn_health_loop of src-tauri) and what *)
(* it calls in the engine: refresh_health, recover_clients, the egress      *)
(* watchdog and the re-application of routing.  Connect and disconnect are  *)
(* reduced to their lock, their phases and what they leave of the machine.  *)
(* The engine runs on several threads: a phase that was read may have       *)
(* changed when the update that follows it is published.                    *)
EXTENDS Naturals

CONSTANTS
    MaxRuns,     \* bound: connects of one process
    Threshold,   \* PRIMARY_EGRESS_FAILURE_THRESHOLD
    Attempts,    \* how many times a foreign MATCH rule is reconciled
    RouteChanges \* the default route may move from and to a local proxy

ASSUME HealthAssumption == {MaxRuns, Threshold, Attempts} \subseteq Nat /\ RouteChanges \in BOOLEAN

Settled == {"Stopped", "Running", "Degraded", "Error"}
TickPlaces == {"idle", "health", "publish", "proxy", "recover", "probe", "verdict",
               "degrade", "restore", "clients", "match", "apply", "applying"}

VARIABLES
    phase, busy,     \* of the published snapshot; busy is "None", "Op" or "Apply"
    shown,           \* the live MATCH rule of the snapshot
    match,           \* the live MATCH rule: "agrees", "differs" or "unknown"
    up,              \* Mihomo runs
    client,          \* an optional client: see Clients
    egress,          \* the default route's local proxy: "ok", "dead" or "none"
    proxy,           \* Hiddify has set the desktop's system proxy
    at, seen,        \* the health task, and what its last await returned
    pending,         \* route_refresh_pending
    attempts,        \* match_reconcile_attempts
    failures,        \* primary_egress_failures
    flag,            \* probe_degraded
    run              \* connects so far

snapshot == <<phase, busy, shown>>
machine == <<match, up, client, egress, proxy>>
flags == <<pending, attempts, failures, flag>>
healthVars == <<snapshot, machine, at, seen, flags, run>>

\* Not answering; answering, without a handle; with a handle; in live routing.
ClientStates == {"off", "serving", "joined", "routed"}
Matches == {"agrees", "differs", "unknown"}
Egresses == {"ok", "dead", "none"}

HealthTypeOK ==
    /\ phase \in Settled \union {"Working"} /\ busy \in {"None", "Op", "Apply"}
    /\ shown \in Matches /\ match \in Matches /\ up \in BOOLEAN
    /\ client \in ClientStates /\ egress \in Egresses /\ proxy \in BOOLEAN
    /\ at \in TickPlaces /\ seen \in Matches \union Egresses
    /\ pending \in BOOLEAN /\ flag \in BOOLEAN
    /\ attempts \in 0..Attempts /\ failures \in 0..Threshold
    /\ run \in 0..MaxRuns

HealthInit ==
    /\ phase = "Stopped" /\ busy = "None" /\ shown = "unknown"
    /\ match = "unknown" /\ up = FALSE /\ client = "off"
    /\ egress \in Egresses /\ proxy = FALSE
    /\ at = "idle" /\ seen = "unknown"
    /\ pending = FALSE /\ attempts = 0 /\ failures = 0 /\ flag = FALSE
    /\ run = 0

Live == phase \in {"Running", "Degraded"}
AtMost(n, bound) == IF n > bound THEN bound ELSE n

-----------------------------------------------------------------------------
(* The worker.                                                             *)

Reserve ==
    /\ busy = "None" /\ busy' = "Op"
    /\ UNCHANGED <<phase, shown, machine, at, seen, flags, run>>

Announce ==
    /\ busy = "Op" /\ phase # "Working" /\ phase' = "Working"
    /\ UNCHANGED <<busy, shown, machine, at, seen, flags, run>>

\* ensure_clients gives a handle to each client that answers, or skips it.
Connected ==
    /\ busy = "Op" /\ phase = "Working" /\ run < MaxRuns
    /\ phase' = "Running" /\ up' = TRUE /\ run' = run + 1 /\ busy' = "None"
    /\ client' \in (IF client = "off" THEN {"off"} ELSE {"serving", "routed"})
    /\ match' \in {"agrees", "differs"}
    /\ UNCHANGED <<shown, egress, proxy, at, seen, flags>>

Disconnected ==
    /\ busy = "Op" /\ phase = "Working"
    /\ phase' \in {"Stopped", "Error"} /\ up' = FALSE /\ busy' = "None"
    /\ match' = "unknown" /\ client' = (IF client = "routed" THEN "joined" ELSE client)
    /\ UNCHANGED <<shown, egress, proxy, at, seen, flags, run>>

-----------------------------------------------------------------------------
(* The world around it.                                                    *)

ClientServes ==
    /\ client = "off" /\ client' = "serving"
    /\ UNCHANGED <<snapshot, match, up, egress, proxy, at, seen, flags, run>>

EgressChanges ==
    /\ egress' \in Egresses \ {egress}
    /\ "none" \in {egress, egress'} => RouteChanges
    /\ UNCHANGED <<snapshot, match, up, client, proxy, at, seen, flags, run>>

HiddifySetsProxy ==
    /\ ~proxy /\ proxy' = TRUE
    /\ UNCHANGED <<snapshot, match, up, client, egress, at, seen, flags, run>>

-----------------------------------------------------------------------------
(* The health task.                                                        *)

TickGoes(from, to) == at = from /\ at' = to
KeepsFlags == UNCHANGED flags

TickBegins ==
    /\ TickGoes("idle", "health") /\ phase \in Settled
    /\ UNCHANGED <<snapshot, machine, seen, run>> /\ KeepsFlags

RuntimeHealth ==
    /\ TickGoes("health", "publish") /\ seen' = match
    /\ UNCHANGED <<snapshot, machine, run>> /\ KeepsFlags

PublishHealth ==
    /\ TickGoes("publish", "proxy") /\ shown' = seen /\ seen' = "unknown"
    /\ UNCHANGED <<phase, busy, machine, run>> /\ KeepsFlags

\* Mutation of ClearSystemProxy: only while everything is well.
ClearSystemProxyWhenRunning ==
    /\ TickGoes("proxy", "recover")
    /\ proxy' \in (IF phase = "Running" THEN {proxy, FALSE} ELSE {proxy})
    /\ UNCHANGED <<snapshot, match, up, client, egress, seen, run>> /\ KeepsFlags

\* clear_hiddify_system_proxy may fail.
ClearSystemProxy ==
    /\ TickGoes("proxy", "recover")
    /\ proxy' \in (IF Live THEN {proxy, FALSE} ELSE {proxy})
    /\ UNCHANGED <<snapshot, match, up, client, egress, seen, run>> /\ KeepsFlags

RecoverClients ==
    /\ at = "recover"
    /\ IF Live
       THEN at' = (IF busy = "None" THEN "probe" ELSE "idle") /\ KeepsFlags
       ELSE /\ at' = "idle"
            /\ pending' = FALSE /\ failures' = 0 /\ flag' = FALSE /\ UNCHANGED attempts
    /\ UNCHANGED <<snapshot, machine, seen, run>>

ProbePrimaryEgress ==
    /\ TickGoes("probe", "verdict") /\ seen' = egress
    /\ UNCHANGED <<snapshot, machine, run>> /\ KeepsFlags

\* Mutation of ProbeFailed: one failure is enough.
ProbeFailedOnce ==
    /\ at = "verdict" /\ seen = "dead"
    /\ failures' = AtMost(failures + 1, Threshold)
    /\ IF phase = "Running" THEN flag' = TRUE /\ at' = "degrade"
       ELSE UNCHANGED flag /\ at' = "clients"
    /\ seen' = "unknown"
    /\ UNCHANGED <<snapshot, machine, pending, attempts, run>>

ProbeFailed ==
    /\ at = "verdict" /\ seen = "dead"
    /\ failures' = AtMost(failures + 1, Threshold)
    /\ IF failures + 1 >= Threshold /\ phase = "Running"
       THEN flag' = TRUE /\ at' = "degrade"
       ELSE UNCHANGED flag /\ at' = "clients"
    /\ seen' = "unknown"
    /\ UNCHANGED <<snapshot, machine, pending, attempts, run>>

\* Mutation of ProbeSucceeded: the flag goes before the phase is looked at.
ProbeSucceededFirst ==
    /\ at = "verdict" /\ seen = "ok"
    /\ failures' = 0 /\ flag' = FALSE
    /\ at' = (IF flag' /\ phase = "Degraded" THEN "restore" ELSE "clients")
    /\ seen' = "unknown"
    /\ UNCHANGED <<snapshot, machine, pending, attempts, run>>

ProbeSucceeded ==
    /\ at = "verdict" /\ seen = "ok"
    /\ failures' = 0 /\ flag' = FALSE
    /\ at' = (IF flag /\ phase = "Degraded" THEN "restore" ELSE "clients")
    /\ seen' = "unknown"
    /\ UNCHANGED <<snapshot, machine, pending, attempts, run>>

NothingToProbe ==
    /\ TickGoes("verdict", "clients") /\ seen = "none"
    /\ failures' = 0 /\ flag' = FALSE /\ seen' = "unknown"
    /\ UNCHANGED <<snapshot, machine, pending, attempts, run>>

\* The update is published although the phase may have moved.
PublishDegraded ==
    /\ TickGoes("degrade", "clients") /\ phase' = "Degraded"
    /\ UNCHANGED <<busy, shown, machine, seen, run>> /\ KeepsFlags

PublishRecovered ==
    /\ TickGoes("restore", "clients") /\ phase' = "Running"
    /\ UNCHANGED <<busy, shown, machine, seen, run>> /\ KeepsFlags

SetsPending == pending' = TRUE

\* The backend's recover_clients: a client that answers gets its handle.
BackendRecovers ==
    /\ TickGoes("clients", "match")
    /\ \/ /\ client = "serving" /\ client' = "joined"
          /\ SetsPending /\ UNCHANGED <<attempts, failures, flag>>
       \/ UNCHANGED client /\ KeepsFlags
    /\ UNCHANGED <<snapshot, match, up, egress, proxy, seen, run>>

\* Mutation of ReconcileMatch: no limit on the attempts.
ReconcileMatchAlways ==
    /\ at = "match"
    /\ IF shown = "differs" /\ busy = "None" THEN SetsPending ELSE UNCHANGED pending
    /\ at' = (IF pending' THEN "apply" ELSE "idle")
    /\ UNCHANGED <<snapshot, machine, seen, attempts, failures, flag, run>>

ReconcileMatch ==
    /\ at = "match"
    /\ IF shown = "differs" /\ busy = "None"
       THEN /\ attempts' = AtMost(attempts + 1, Attempts)
            /\ IF attempts < Attempts THEN SetsPending ELSE UNCHANGED pending
       ELSE /\ attempts' = (IF shown = "differs" THEN attempts ELSE 0)
            /\ UNCHANGED pending
    /\ at' = (IF pending' THEN "apply" ELSE "idle")
    /\ UNCHANGED <<snapshot, machine, seen, failures, flag, run>>

\* apply_user_rules: done where there is nothing live, refused under a lock.
ApplySkipped ==
    /\ TickGoes("apply", "idle") /\ ~Live /\ pending' = FALSE
    /\ UNCHANGED <<snapshot, machine, seen, attempts, failures, flag, run>>

ApplyRefused ==
    /\ TickGoes("apply", "idle") /\ Live /\ busy = "Op"
    /\ UNCHANGED <<snapshot, machine, seen, run>> /\ KeepsFlags

ApplyBegins ==
    /\ TickGoes("apply", "applying") /\ Live /\ busy = "None" /\ busy' = "Apply"
    /\ UNCHANGED <<phase, shown, machine, seen, run>> /\ KeepsFlags

ApplySucceeds ==
    /\ TickGoes("applying", "idle") /\ busy' = "None" /\ pending' = FALSE
    /\ client' \in (IF client = "off" THEN {"off"}
                    ELSE IF client = "serving" THEN {"serving", "routed"} ELSE {"routed"})
    /\ match' \in {"agrees", "differs"} /\ up' = TRUE
    /\ UNCHANGED <<phase, shown, egress, proxy, seen, attempts, failures, flag, run>>

\* Mutation of ApplyFails: the refresh is not tried again.
ApplyFailsForGood ==
    /\ TickGoes("applying", "idle") /\ busy' = "None" /\ pending' = FALSE
    /\ UNCHANGED <<phase, shown, machine, seen, attempts, failures, flag, run>>

\* The refresh stays pending for the next tick.
ApplyFails ==
    /\ TickGoes("applying", "idle") /\ busy' = "None"
    /\ UNCHANGED <<phase, shown, machine, seen, run>> /\ KeepsFlags

-----------------------------------------------------------------------------

WorkerEnds == Connected \/ Disconnected
TickStep ==
    \/ TickBegins \/ RuntimeHealth \/ PublishHealth \/ ClearSystemProxy \/ RecoverClients
    \/ ProbePrimaryEgress \/ ProbeFailed \/ ProbeSucceeded \/ NothingToProbe
    \/ PublishDegraded \/ PublishRecovered \/ BackendRecovers \/ ReconcileMatch
    \/ ApplySkipped \/ ApplyRefused \/ ApplyBegins \/ ApplySucceeds \/ ApplyFails

HealthNext ==
    \/ Reserve \/ Announce \/ WorkerEnds
    \/ ClientServes \/ EgressChanges \/ HiddifySetsProxy \/ TickStep

HealthSpec == HealthInit /\ [][HealthNext]_healthVars

\* The worker and the health task go on; a backend call that is repeated
\* forever is not refused forever.
HealthFairSpec ==
    /\ HealthSpec
    /\ WF_healthVars(TickStep) /\ WF_healthVars(Announce) /\ WF_healthVars(WorkerEnds)
    /\ SF_healthVars(ApplySucceeds) /\ SF_healthVars(ClearSystemProxy /\ ~proxy')

-----------------------------------------------------------------------------

\* The watchdog degrades the stack for an outage, not for one slow probe: since
\* the last answer or the last tick without a live stack it has failed Threshold
\* times.
DegradedByOutage == at = "degrade" => failures >= Threshold

\* What every step of the health task and of the operations beside it keeps.
HealthInvariant == HealthTypeOK /\ DegradedByOutage

\* A client that came back reaches the live routing, or the stack leaves
\* Running: a refresh that was refused or failed is tried on a later tick.
RecoveredClientIsRouted == client = "joined" /\ pending ~> client = "routed" \/ ~Live

\* While the default route answers and no operation intervenes, a Degraded stack
\* does not stay Degraded.
DegradedStackRecovers ==
    <>[](egress = "ok" /\ busy # "Op") => []<>(phase # "Degraded")

\* A live stack heals: its clients are routed again, and it is Running again.
LiveStackHeals == RecoveredClientIsRouted /\ DegradedStackRecovers

\* A system proxy that Hiddify puts back under a running stack is removed.
SystemProxyIsCleared == <>[](Live /\ busy # "Op") => []<>(~proxy)

\* A MATCH rule that stays foreign is not reconciled forever: unless applies
\* fail again and again, the health task stops reloading Mihomo.
ReconciliationStops ==
    <>[](shown = "differs" /\ busy # "Op") =>
       <>[](at # "applying") \/ []<>(~Live) \/ []<><<ApplyFails>>_healthVars

\* What others change beside a live stack is put right, and not for ever.
InterferenceEnds == SystemProxyIsCleared /\ ReconciliationStops
=============================================================================
