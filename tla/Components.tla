----------------------------- MODULE Components -----------------------------
(* The component statuses of the snapshot (iran-split-core): what an        *)
(* operation announces, what its polls and the samples of the health task   *)
(* find of the machine (iran-split-platform-win), and how each of them is   *)
(* written over the other.  A sample is read in two steps and published in  *)
(* a third; the publication itself is one step (HealthLoop has updates that *)
(* overtake each other).  The texts of the statuses are left out.            *)
VARIABLES stackIs,    \* the phase between operations: "stopped", "running", "paused", "error"
          doing,      \* the operation and how far it is, see StartPlaces
          status,     \* the statuses of the snapshot
          clientUp,   \* the clients that run
          coreUp,     \* Mihomo's controller answers and its TUN is enabled
          samples,    \* what the health task and the operation hold of the machine
          polls,      \* the progress of a connect is a probe of its own, as on Windows
          late, died  \* history: the last publication was of an older sample; the core
                      \* stopped answering since the connect
componentVars == <<stackIs, doing, status, clientUp, coreUp, samples, polls, late, died>>

ProxyClients == {"client"}   \* a proxy that listens, or a tunnel with a ready handle
Cores == {"mihomo", "tun"}
StartPlaces == {"idle", "clients", "core", "failed", "cancelled", "stop", "pause"}
Samplers == {"tick", "operation"}
NoSample == [step |-> "none", old |-> FALSE, of |-> [c \in {} |-> "none"]]

(* client_component, mihomo_component and tun_component of a full sample;   *)
(* connect_progress_health has the core starting until it is open.          *)
Found(up) == IF up THEN "Running" ELSE "Stopped"
ClientHealth == [c \in ProxyClients |-> Found(clientUp[c])]
ProgressHealth == [c \in Cores |->
    IF coreUp /\ c = "mihomo" THEN "Running" ELSE IF polls THEN "Starting" ELSE Found(coreUp)]
CoreHealth == [c \in Cores |-> Found(coreUp)]
(* The statuses of the clients beside those of the core. *)
Statuses(clients, cores) ==
    [c \in ProxyClients \cup Cores |-> IF c \in Cores THEN cores[c] ELSE clients[c]]
Everywhere(cs, as) == [c \in cs |-> as]
-----------------------------------------------------------------------------
ComponentsInit ==
    /\ stackIs = "stopped" /\ doing = "idle"
    /\ clientUp \in [ProxyClients -> BOOLEAN] /\ coreUp = FALSE
    /\ status = Statuses(ClientHealth, CoreHealth)
    /\ samples = [s \in Samplers |-> NoSample] /\ polls \in BOOLEAN
    /\ late = FALSE /\ died = FALSE

(* The programs around it: a proxy opens or closes its port, a handle       *)
(* of a side tunnel comes or goes, Mihomo stops or fails to answer.         *)
ClientChanges(c) ==
    /\ clientUp' = [clientUp EXCEPT ![c] = ~@]
    /\ UNCHANGED <<stackIs, doing, status, coreUp, samples, polls, late, died>>
CoreDies ==
    /\ coreUp /\ coreUp' = FALSE /\ died' = TRUE
    /\ UNCHANGED <<stackIs, doing, status, clientUp, samples, polls, late>>

(* runtime_health: the ports of the core first, the clients at last.        *)
MaySample(s) ==
    s = "tick" \/ doing = "failed" \/ (doing \in {"cancelled", "stop", "pause"} /\ ~coreUp)
BeginSample(s) ==
    /\ MaySample(s) /\ samples[s].step = "none"
    /\ samples' = [samples EXCEPT ![s] = [step |-> "core", old |-> FALSE, of |-> CoreHealth]]
    /\ UNCHANGED <<stackIs, doing, status, clientUp, coreUp, polls, late, died>>
SampleClients(s) ==
    /\ samples[s].step = "core"
    /\ samples' = [samples EXCEPT ![s].step = "ready",
                                  ![s].of = Statuses(ClientHealth, @)]
    /\ UNCHANGED <<stackIs, doing, status, clientUp, coreUp, polls, late, died>>

(* refresh_health replaces every status, whatever the stack does meanwhile. *)
TickPublishes ==
    /\ samples["tick"].step = "ready" /\ status' = samples["tick"].of
    /\ samples' = [samples EXCEPT !["tick"] = NoSample] /\ late' = samples["tick"].old
    /\ UNCHANGED <<stackIs, doing, clientUp, coreUp, polls, died>>
-----------------------------------------------------------------------------
(* start_enabled_clients announces every enabled client.                    *)
BeginStart ==
    /\ doing = "idle" /\ stackIs # "running" /\ doing' = "clients"
    /\ status' = Statuses(Everywhere(ProxyClients, "Starting"), status)
    /\ UNCHANGED <<stackIs, clientUp, coreUp, samples, polls, late, died>>

(* merge_clients_during_connect keeps a starting client only for a status   *)
(* without a text, and every status of a client has one.                    *)
PublishClientProgress ==
    /\ doing = "clients" /\ status' = Statuses(ClientHealth, status)
    /\ UNCHANGED <<stackIs, doing, clientUp, coreUp, samples, polls, late, died>>

(* The clients are up or optional: prepared and validated, the core starts. *)
StartCore ==
    /\ doing = "clients" /\ doing' = "core"
    /\ coreUp' \in BOOLEAN /\ died' = FALSE
    /\ status' = Statuses(ClientHealth, Everywhere(Cores, "Starting"))
    /\ UNCHANGED <<stackIs, clientUp, samples, polls, late>>
CoreOpens ==
    /\ doing = "core" /\ ~coreUp /\ ~died /\ coreUp' = TRUE
    /\ UNCHANGED <<stackIs, doing, status, clientUp, samples, polls, late, died>>

(* apply_core_health_during_connect: a component does not fall back.        *)
PreserveStarting(current, found) ==
    IF found = "Running" \/ current \notin {"Running", "Starting"} THEN found ELSE current
PublishCoreProgress ==
    /\ doing = "core"
    /\ status' = Statuses(status, [c \in Cores |-> PreserveStarting(status[c], ProgressHealth[c])])
    /\ UNCHANGED <<stackIs, doing, clientUp, coreUp, samples, polls, late, died>>

(* An operation that ends: what others still hold of before is old.         *)
Settles(as) ==
    /\ doing' = "idle" /\ stackIs' = as /\ late' = FALSE
    /\ samples' = [s \in Samplers |-> IF s = "operation" \/ samples[s].step = "none"
                                      THEN NoSample ELSE [samples[s] EXCEPT !.old = TRUE]]
StartSucceeds ==
    /\ doing = "core" /\ coreUp /\ Settles("running")
    /\ status' = Statuses(status, Everywhere(Cores, "Running"))
    /\ UNCHANGED <<clientUp, coreUp, polls, died>>

(* A failure, or a cancellation that was rolled back; the rollback may fail *)
(* in its turn.  A resume that was rolled back ends like a pause.           *)
StartEnds(as) ==
    /\ as = "pause" <=> (stackIs = "paused" /\ as # "failed")
    /\ doing \in {"clients", "core"} /\ doing' = as
    /\ coreUp' \in (IF as = "failed" THEN {coreUp, FALSE} ELSE {FALSE})
    /\ UNCHANGED <<stackIs, status, clientUp, samples, polls, late, died>>
OperationHealth == samples["operation"].step = "ready"

(* Mutation of WorkerFails: the error is shown without a new sample. *)
WorkerFailsUnsampled ==
    /\ doing = "failed" /\ OperationHealth /\ Settles("error")
    /\ UNCHANGED <<status, clientUp, coreUp, polls, died>>
(* The worker publishes a full sample with the error.  Its explanation is   *)
(* for a core without a text, which no sample has.                          *)
WorkerFails ==
    /\ doing = "failed" /\ OperationHealth /\ Settles("error")
    /\ status' = samples["operation"].of
    /\ UNCHANGED <<clientUp, coreUp, polls, died>>
SetStopped ==
    /\ doing \in {"cancelled", "stop"} /\ OperationHealth /\ Settles("stopped")
    /\ status' = samples["operation"].of
    /\ UNCHANGED <<clientUp, coreUp, polls, died>>
SetPaused ==
    /\ doing = "pause" /\ OperationHealth /\ Settles("paused")
    /\ status' = Statuses(samples["operation"].of, Everywhere(Cores, "Stopped"))
    /\ UNCHANGED <<clientUp, coreUp, polls, died>>

(* Stop and pause take the core down before they look at the machine; what  *)
(* cannot be cleaned up fails like a start.                                 *)
BeginStop(as) ==
    /\ doing = "idle" /\ (as = "pause" => stackIs = "running") /\ doing' = as
    /\ UNCHANGED <<stackIs, status, clientUp, coreUp, samples, polls, late, died>>
StopCore ==
    /\ doing \in {"stop", "pause"} /\ coreUp
    /\ \/ coreUp' = FALSE /\ UNCHANGED doing
       \/ coreUp' \in BOOLEAN /\ doing' = "failed"
    /\ UNCHANGED <<stackIs, status, clientUp, samples, polls, late, died>>

ComponentsNext ==
    \/ \E c \in ProxyClients : ClientChanges(c)
    \/ CoreDies
    \/ \E s \in Samplers : BeginSample(s) \/ SampleClients(s)
    \/ TickPublishes
    \/ BeginStart \/ PublishClientProgress \/ StartCore \/ CoreOpens \/ PublishCoreProgress
    \/ StartSucceeds \/ \E as \in {"failed", "cancelled", "pause"} : StartEnds(as)
    \/ WorkerFails \/ SetStopped \/ SetPaused
    \/ \E as \in {"stop", "pause"} : BeginStop(as)
    \/ StopCore
-----------------------------------------------------------------------------
ComponentsTypeOK ==
    /\ stackIs \in {"stopped", "running", "paused", "error"} /\ doing \in StartPlaces
    /\ status \in [ProxyClients \cup Cores -> {"Stopped", "Starting", "Running"}]
    /\ clientUp \in [ProxyClients -> BOOLEAN]
    /\ {coreUp, polls, late, died} \subseteq BOOLEAN

(* However an operation ends, and whatever the health task publishes        *)
(* meanwhile, no component is left starting.                                *)
NothingLeftStarting == doing = "idle" => \A c \in DOMAIN status : status[c] # "Starting"

(* Between operations the snapshot shows the core as the phase has it,      *)
(* unless it stopped answering or the health task has just published what   *)
(* it had read before the operation ended.                                  *)
CoreShownAsPhase ==
    doing = "idle" /\ ~late =>
        \A c \in Cores : CASE stackIs = "running" -> died \/ status[c] = "Running"
                           [] stackIs \in {"stopped", "paused"} -> status[c] = "Stopped"
                           [] OTHER -> TRUE

(* What the statuses of a snapshot keep to beside samples that arrive late  *)
(* (iran-split-core/src/lib.rs:2194, :2237).                                *)
ComponentsInvariant == ComponentsTypeOK /\ NothingLeftStarting /\ CoreShownAsPhase
=============================================================================
