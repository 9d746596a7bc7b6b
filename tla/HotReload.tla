----------------------------- MODULE HotReload -----------------------------
(* How a generated configuration reaches Mihomo: the desktop stages and      *)
(* validates a generation, the helper registers it and either starts Mihomo  *)
(* in its directory or copies it over the directory of the running Mihomo    *)
(* (overlay), and the controller loads it from the body of PUT /configs.     *)
(* The three are separate processes: a caller that stops waiting leaves its  *)
(* request behind, and the helper and Mihomo may die at any step.            *)
(*                                                                           *)
(* A generation stands for what is in it: its config.yaml and its rule files.*)
EXTENDS Naturals

CONSTANT MaxGenerations  \* bound: generations that are staged
ASSUME ReloadAssumption == MaxGenerations \in Nat

Generations == 1..MaxGenerations
NoGeneration == 0           \* nothing, or a file that is half written
NoMihomo == [home |-> 0, config |-> 0, rules |-> 0]

VARIABLES
    platform,   \* Windows reads back what the overlay wrote, the others the staged file
    task,       \* the desktop's operation: what it is, where, the file it reads
    newest,     \* the generation that is prepared
    requests,   \* in the helper; mine: the desktop still waits for it
    puts,       \* bodies that the controller has to load, and of which Mihomo
    registered, \* by this helper process
    homes,      \* the files of each generation's directory
    child,      \* whom the helper supervises
    mihomo,     \* the process: its directory, the configuration and the rules it has loaded
    connections, \* to the host whose rule moves: the configurations that routed them
    stale,      \* history: those that the controller did not close when it was asked to
    outcome,    \* what the last operation reported
    disturbed   \* history: an earlier request was still in progress when the operation began

reloadVars == <<platform, task, newest, requests, puts, registered, homes, child, mihomo,
               connections, stale, outcome, disturbed>>
live == <<mihomo, connections, stale>>
world == <<registered, homes, child, live>>

Files == [config : 0..MaxGenerations, rules : 0..MaxGenerations]
Request(kind, generation) == [kind |-> kind, of |-> generation, at |-> "asked", mine |-> TRUE]
IdleTask == [op |-> "none", at |-> "idle", file |-> NoGeneration]

ReloadTypeOK ==
    /\ platform \in {"unix", "windows"} /\ newest \in 0..MaxGenerations
    /\ task \in [op : {"none", "start", "apply", "stop"}, file : 0..MaxGenerations,
                 at : {"idle", "prepare", "register", "overlay", "spawn", "send", "put", "match", "close",
                       "ready", "stop"}]
    /\ requests \subseteq [kind : {"register", "overlay", "spawn", "stop"}, of : 0..MaxGenerations,
                           at : {"asked", "rules", "config", "spawning"}, mine : BOOLEAN]
    /\ puts \subseteq [config : 0..MaxGenerations, to : 0..MaxGenerations, mine : BOOLEAN]
    /\ registered \subseteq Generations /\ homes \in [Generations -> Files]
    /\ child \in 0..MaxGenerations
    /\ mihomo \in [home : 0..MaxGenerations, config : 0..MaxGenerations, rules : 0..MaxGenerations]
    /\ connections \subseteq Generations /\ stale \subseteq connections
    /\ outcome \in {"none", "running", "unapplied", "failed", "stopped"} /\ disturbed \in BOOLEAN

ReloadInit ==
    /\ platform \in {"unix", "windows"} /\ task = IdleTask /\ newest = NoGeneration
    /\ requests = {} /\ puts = {} /\ registered = {}
    /\ homes = [g \in Generations |-> [config |-> 0, rules |-> 0]]
    /\ child = NoGeneration /\ mihomo = NoMihomo /\ connections = {} /\ stale = {}
    /\ outcome = "none" /\ disturbed = FALSE

-----------------------------------------------------------------------------
(* The desktop.                                                             *)

Begin(op, at) ==
    /\ task.at = "idle" /\ task' = [IdleTask EXCEPT !.op = op, !.at = at]
    /\ outcome' = "none" /\ disturbed' = (requests # {} \/ puts # {})

\* Connect; apply_user_rules of a live stack; Disconnect.
BeginStart ==
    /\ outcome \in {"none", "stopped", "failed"} /\ Begin("start", "prepare")
    /\ UNCHANGED <<platform, newest, requests, puts, world>>
BeginApply ==
    /\ outcome \in {"running", "unapplied"} /\ Begin("apply", "prepare")
    /\ UNCHANGED <<platform, newest, requests, puts, world>>
BeginStop ==
    /\ Begin("stop", "stop") /\ requests' = requests \union {Request("stop", 0)}
    /\ UNCHANGED <<platform, newest, puts, world>>

Moves(at) == task' = [task EXCEPT !.at = at] /\ UNCHANGED outcome
Ends(result) == task' = IdleTask /\ outcome' = result

\* A start that fails is undone by a stop, an apply leaves the stack running.
Fails(rest) ==
    IF task.op = "start" /\ task.at # "stop"
    THEN Moves("stop") /\ requests' = rest \union {Request("stop", 0)}
    ELSE Ends(IF task.op = "apply" THEN "unapplied" ELSE "failed") /\ requests' = rest

\* A directory of its own, each file written beside its name and renamed; older
\* directories are pruned.
Stages == newest < MaxGenerations /\ newest' = newest + 1

\* Staged, validated, and on to the helper.
PrepareAndValidate ==
    /\ task.at = "prepare"
    /\ \/ /\ Stages /\ Moves("register")
          /\ requests' = requests \union {Request("register", newest')}
       \/ Fails(requests) /\ UNCHANGED newest
    /\ UNCHANGED <<platform, puts, world, disturbed>>

\* The body of the PUT is read when it is sent.
Body == IF platform = "windows" THEN homes[task.file].config ELSE newest
SendPut ==
    /\ task.at = "send" /\ Moves("put")
    /\ puts' = puts \union {[config |-> Body, to |-> mihomo.home, mine |-> TRUE]}
    /\ UNCHANGED <<platform, newest, requests, world, disturbed>>

\* ensure_live_match: a reload is refused when the live MATCH is not that of the
\* file, which other configurations may have in common; unreadable is accepted.
CheckLiveMatch ==
    /\ task.at = "match"
    /\ \/ Moves("close") /\ UNCHANGED requests
       \/ mihomo # NoMihomo /\ mihomo.config # Body /\ Fails(requests)
    /\ UNCHANGED <<platform, newest, puts, world, disturbed>>

\* The connections of the moved host are listed and closed one by one: some may
\* stay, or all when the list fails, which is only logged.
CloseConnections ==
    /\ task.at = "close" /\ Moves("ready")
    /\ \E left \in SUBSET connections : connections' = left /\ stale' = left
    /\ UNCHANGED <<platform, newest, requests, puts, registered, homes, child, mihomo, disturbed>>

\* wait_until_ready: a controller that answers and providers that are loaded.
CheckReady ==
    /\ task.at = "ready"
    /\ \/ mihomo # NoMihomo /\ Ends("running") /\ UNCHANGED requests
       \/ Fails(requests)
    /\ UNCHANGED <<platform, newest, puts, world, disturbed>>

\* The apply's 30 seconds, the budget of an exchange or of the PUT are over; the
\* helper or the controller goes on with what it was asked.
GiveUp ==
    /\ task.at \in {"register", "overlay", "spawn", "put", "stop"} /\ disturbed' = TRUE
    /\ Fails({[r EXCEPT !.mine = FALSE] : r \in requests})
    /\ puts' = {[p EXCEPT !.mine = FALSE] : p \in puts}
    /\ UNCHANGED <<platform, newest, world>>

-----------------------------------------------------------------------------
(* The helper.                                                              *)

Others(r) == requests \ {r}
Locked == \E r \in requests : r.at # "asked"
Advances(r, at) == requests' = Others(r) \union {[r EXCEPT !.at = at]} /\ UNCHANGED <<task, outcome>>
Asks(r, kind) == Moves(kind) /\ requests' = Others(r) \union {Request(kind, newest)}
Refused(r) == IF r.mine THEN Fails(Others(r)) ELSE requests' = Others(r) /\ UNCHANGED <<task, outcome>>
Unheard(r) == ~r.mine /\ requests' = Others(r) /\ UNCHANGED <<task, outcome>>
Ended == mihomo' = NoMihomo /\ connections' = {} /\ stale' = {}
MayEnd == Ended \/ UNCHANGED live
Alive == child # NoGeneration /\ mihomo # NoMihomo /\ mihomo.home = child
HelperKeeps == UNCHANGED <<platform, newest, puts, disturbed>>

\* The copy is renamed into place as a whole.
RegisterGeneration(r) ==
    /\ r.kind = "register"
    /\ \/ /\ homes' = [homes EXCEPT ![r.of] = [config |-> r.of, rules |-> r.of]]
          /\ registered' = registered \union {r.of}
          /\ \/ r.mine /\ Asks(r, IF task.op = "start" THEN "spawn" ELSE "overlay")
             \/ Unheard(r)
       \/ Refused(r) /\ UNCHANGED <<homes, registered>>
    /\ UNCHANGED <<child, live>> /\ HelperKeeps

\* Without a running Mihomo there is nothing to overlay: it is started instead.
OverlayFindsNothing(r) ==
    /\ r.kind = "overlay" /\ r.at = "asked" /\ r.of \in registered /\ ~Locked /\ ~Alive
    /\ child' = NoGeneration
    /\ \/ r.mine /\ Asks(r, "spawn")
       \/ Unheard(r)
    /\ UNCHANGED <<registered, homes, live>> /\ HelperKeeps

\* The rule files are copied first, one after the other, the configuration last.
OverlayRules(r) ==
    /\ r.kind = "overlay" /\ r.at = "asked" /\ r.of \in registered /\ ~Locked /\ Alive
    /\ homes' = [homes EXCEPT ![child].rules = NoGeneration] /\ Advances(r, "rules")
    /\ UNCHANGED <<registered, child, live>> /\ HelperKeeps

\* Mutation of OverlayConfig: files that are already there stay.
OverlayKeepsRules(r) ==
    /\ r.at = "rules" /\ Advances(r, "config")
    /\ homes' = [homes EXCEPT ![child] = [config |-> NoGeneration, rules |-> mihomo.rules]]
    /\ UNCHANGED <<registered, child, live>> /\ HelperKeeps

OverlayConfig(r) ==
    /\ r.at = "rules" /\ Advances(r, "config")
    /\ homes' = [homes EXCEPT ![child] = [config |-> NoGeneration, rules |-> r.of]]
    /\ UNCHANGED <<registered, child, live>> /\ HelperKeeps

OverlayEnds(r) ==
    /\ r.at = "config" /\ homes' = [homes EXCEPT ![child].config = r.of]
    /\ \/ /\ r.mine /\ requests' = Others(r) /\ UNCHANGED outcome
          /\ task' = [task EXCEPT !.at = "send", !.file = child]
       \/ Unheard(r)
    /\ UNCHANGED <<registered, child, live>> /\ HelperKeeps

\* A copy fails, or the generation is not registered with this helper.
OverlayFails(r) ==
    /\ r.kind = "overlay" /\ (r.at = "asked" => ~Locked /\ r.of \notin registered) /\ Refused(r)
    /\ UNCHANGED world /\ HelperKeeps

\* The Mihomo of the record is stopped before another is started.
SpawnStopsChild(r) ==
    /\ r.kind = "spawn" /\ r.at = "asked" /\ r.of \in registered /\ ~Locked
    /\ child' = NoGeneration /\ IF Alive THEN Ended ELSE UNCHANGED live
    /\ Advances(r, "spawning") /\ UNCHANGED <<registered, homes>> /\ HelperKeeps

\* An orphan is killed, the published configuration is that which was registered.
SpawnMihomo(r) ==
    /\ r.at = "spawning" /\ homes[r.of].config = r.of
    /\ child' = r.of /\ mihomo' = [home |-> r.of, config |-> r.of, rules |-> homes[r.of].rules]
    /\ connections' = {} /\ stale' = {}
    /\ \/ r.mine /\ requests' = Others(r) /\ Moves("ready")
       \/ Unheard(r)
    /\ UNCHANGED <<registered, homes>> /\ HelperKeeps

\* Not registered, the old one does not stop, or the new one exits at once.
SpawnFails(r) ==
    /\ r.kind = "spawn" /\ (r.at = "asked" => ~Locked) /\ Refused(r)
    /\ IF r.at = "asked" THEN UNCHANGED live ELSE MayEnd
    /\ UNCHANGED <<registered, homes, child>> /\ HelperKeeps

\* An orphan that cannot be killed is logged only.
StopMihomo(r) ==
    /\ r.kind = "stop" /\ ~Locked
    /\ \/ /\ child' = NoGeneration /\ IF Alive THEN Ended ELSE MayEnd
          /\ \/ r.mine /\ requests' = Others(r) /\ Ends(IF task.op = "stop" THEN "stopped" ELSE "failed")
             \/ Unheard(r)
       \/ Refused(r) /\ UNCHANGED <<child, live>>
    /\ UNCHANGED <<registered, homes>> /\ HelperKeeps

\* Mihomo outlives the helper; the next process has registered nothing.
HelperDies ==
    /\ registered' = {} /\ child' = NoGeneration
    /\ IF \E r \in requests : r.mine THEN Fails({}) ELSE requests' = {} /\ UNCHANGED <<task, outcome>>
    /\ UNCHANGED <<homes, live>> /\ HelperKeeps

HelperStep(r) ==
    \/ RegisterGeneration(r) \/ OverlayFindsNothing(r) \/ OverlayRules(r) \/ OverlayConfig(r)
    \/ OverlayEnds(r) \/ OverlayFails(r) \/ SpawnStopsChild(r) \/ SpawnMihomo(r) \/ SpawnFails(r)
    \/ StopMihomo(r)

-----------------------------------------------------------------------------
(* Mihomo: the rule files are read from the directory it was started in.    *)

LoadsConfig(p) ==
    /\ p.config # NoGeneration /\ mihomo # NoMihomo /\ p.to = mihomo.home /\ puts' = puts \ {p}
    /\ mihomo' = [mihomo EXCEPT !.config = p.config, !.rules = homes[mihomo.home].rules]
    /\ IF p.mine THEN Moves("match") ELSE UNCHANGED <<task, outcome>>
    /\ UNCHANGED <<platform, newest, requests, registered, homes, child, connections, stale, disturbed>>

ConnectionOpens ==
    /\ mihomo # NoMihomo /\ connections' = connections \union {mihomo.config}
    /\ UNCHANGED <<platform, task, newest, requests, puts, registered, homes, child, mihomo, stale>>
    /\ UNCHANGED <<outcome, disturbed>>

RejectsConfig(p) ==
    /\ puts' = puts \ {p}
    /\ IF p.mine THEN Fails(requests) ELSE UNCHANGED <<task, outcome, requests>>
    /\ UNCHANGED <<platform, newest, world, disturbed>>

MihomoDies ==
    /\ mihomo # NoMihomo /\ Ended /\ puts' = {}
    /\ IF task.at = "put" THEN Fails(requests) ELSE UNCHANGED <<task, outcome, requests>>
    /\ UNCHANGED <<platform, newest, registered, homes, child, disturbed>>

ReloadNext ==
    \/ BeginStart \/ BeginApply \/ BeginStop
    \/ PrepareAndValidate \/ SendPut \/ CheckLiveMatch \/ CloseConnections \/ CheckReady \/ GiveUp
    \/ \E r \in requests : HelperStep(r)
    \/ HelperDies
    \/ \E p \in puts : LoadsConfig(p) \/ RejectsConfig(p)
    \/ ConnectionOpens \/ MihomoDies

ReloadSpec == ReloadInit /\ [][ReloadNext]_reloadVars

-----------------------------------------------------------------------------

\* What an operation reports as running is what runs: Mihomo has the prepared
\* configuration with the rule files of the same generation, and no connection
\* of the host whose rule moved goes on under an earlier one, unless it could not
\* be closed or a request of an earlier operation was still in progress.
AppliedIsLive ==
    task.at = "idle" /\ outcome = "running" /\ ~disturbed /\ mihomo # NoMihomo =>
        mihomo.config = newest /\ mihomo.rules = newest /\ connections \ stale \subseteq {newest}

\* What the reload of a live stack and its start keep.
ReloadInvariant == ReloadTypeOK /\ AppliedIsLive
=============================================================================
