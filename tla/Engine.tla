------------------------------ MODULE Engine --------------------------------
(***************************************************************************)
(* The stack operations of the engine (crates/iran-split-core/src/lib.rs)  *)
(* on top of the operation queue: what Connect, Disconnect, Pause, Resume, *)
(* startup reconciliation, a live rule apply and a client connect do to    *)
(* the Mihomo process, to the capture of the machine's traffic (TUN,       *)
(* routes, DNS) and to the side tunnels, one backend call at a time, with  *)
(* every call able to fail, an operation able to time out at every await,  *)
(* and the rollbacks of the code.                                          *)
(*                                                                         *)
(* Backend calls that change nothing modelled (status reads, health reads, *)
(* the system-proxy clear) are part of the neighbouring step.              *)
(***************************************************************************)
EXTENDS OperationQueue

CONSTANTS
    DirtyStart,  \* whether an earlier session may have left its state behind
    ClientCalls, \* whether callers connect and disconnect single clients
    CoreMayDie   \* whether Mihomo may exit by itself

ASSUME EngineAssumption ==
    /\ DirtyStart \in BOOLEAN /\ CoreMayDie \in BOOLEAN
    /\ ClientCalls \in BOOLEAN
    /\ ClientCalls => "Apply" \in Commands  \* connect_client applies the rules

VARIABLES
    step,     \* the await the executed operation is at
    started,  \* core_started of run_start and run_resume
    err,      \* how the operation ended
    apply,    \* per caller: the await of run_apply_rules it is at
    client,   \* per caller: where it is in connect_client
    core,     \* a helper-owned Mihomo process runs
    capture,  \* TUN, routes or DNS of the machine are captured
    tunnel    \* a helper-owned side tunnel runs

body == <<step, started, err>>
net == <<core, capture, tunnel>>
calls == <<apply, client>>
engineVars == <<body, calls, net>>
allVars == <<vars, engineVars>>

Steps == {"none", "begin", "entry", "probe", "helper", "clients", "stage", "core",
          "ready", "confirm", "publish", "stop_core", "clean", "check",
          "verify", "done"}
Outcomes == {"None", "Ok", "Cancelled", "StartFailed", "CoreFailed",
             "NotReady", "CleanupFailed", "Timeout"}

\* Types, the engine's own variables included.
EngineTypeOK ==
    /\ TypeOK
    /\ step \in Steps /\ started \in BOOLEAN /\ err \in Outcomes
    /\ apply \in [Callers -> {"stage", "reload", "ready"}]
    /\ client \in [Callers -> {"none", "bypass", "tunnel", "reroute"}]
    /\ core \in BOOLEAN /\ capture \in BOOLEAN /\ tunnel \in BOOLEAN

EngineInit ==
    /\ Init
    /\ step = "none" /\ started = FALSE /\ err = "None"
    /\ apply = [c \in Callers |-> "stage"]
    /\ client = [c \in Callers |-> "none"]
    /\ core \in {FALSE, DirtyStart}
    /\ capture \in {FALSE, DirtyStart}
    /\ tunnel \in {FALSE, DirtyStart}

-----------------------------------------------------------------------------
(* Steps of the operation the worker executes.                             *)

Body(where) == WorkerAt("running") /\ step = where
Kind(kinds) == worker.kind \in kinds
TokenCancelled == worker.id \in cancelled

\* Mutation of Announce: publishes settled phases only.
AnnounceSettled(p, id) ==
    /\ phase' = (IF p = "Working" THEN phase ELSE p) /\ current' = id
    /\ UNCHANGED <<cancelled, worker, caller, lock>>

Announce(p, id) ==
    /\ phase' = p /\ current' = id
    /\ UNCHANGED <<cancelled, worker, caller, lock>>
Quiet == UNCHANGED vars

Await(where) == step' = where /\ UNCHANGED <<started, err>>
Done(outcome) == step' = "done" /\ err' = outcome /\ UNCHANGED started
\* A backend call stopped half way may already have taken these down.
TakenDown == core' \in {core, FALSE} /\ capture' \in {capture, FALSE}

\* run_reconcile, run_start, run_stop, run_pause, run_resume up to their
\* first await.
BeginOperation ==
    /\ Body("begin")
    /\ CASE Kind({"Start", "Resume"}) ->
              /\ IF phase = "Running" THEN Done("Ok") ELSE Await("helper")
              /\ Quiet
         [] Kind({"Reconcile"}) ->
              Announce("Working", worker.id) /\ Await("entry")
         [] Kind({"Stop"}) ->
              /\ Announce("Working", worker.id)
              /\ Await(IF phase \in Live \cup {"Paused"}
                       THEN "stop_core" ELSE "clean")
         [] Kind({"Pause"}) ->
              Announce("Working", worker.id) /\ Await("stop_core")
    /\ UNCHANGED <<calls, net>>

\* run_reconcile, with its identifier published: the one time it looks at its
\* token.
EnterReconcile ==
    /\ Body("entry")
    /\ IF TokenCancelled THEN Done("Cancelled") ELSE Await("probe")
    /\ Quiet
    /\ UNCHANGED <<calls, net>>

\* run_reconcile: an unreachable helper, or a status call that fails, reads
\* as "nothing is left".
ProbeOwnedState ==
    /\ Body("probe")
    /\ \/ (core \/ capture) /\ Await("clean") /\ Quiet
       \/ Announce("Stopped", NoOp) /\ Done("Ok")
    /\ UNCHANGED <<calls, net>>

\* Mutation of StartFails: rolls back a cancellation only.
StartFailsCancelOnly(outcome) ==
    /\ err' = outcome
    /\ UNCHANGED started
    /\ IF outcome = "Cancelled"
       THEN Announce("Working", worker.id) /\ step' = "stop_core"
       ELSE /\ step' = "done"
            /\ IF Kind({"Resume"}) THEN Announce("Paused", NoOp) ELSE Quiet

\* run_start and run_resume once start_steps has returned an error: roll back
\* what was started, or leave; a resume publishes Paused when it leaves.
StartFails(outcome) ==
    /\ err' = outcome
    /\ UNCHANGED started
    /\ IF started \/ outcome = "Cancelled"
       THEN Announce("Working", worker.id) /\ step' = "stop_core"
       ELSE /\ step' = "done"
            /\ IF Kind({"Resume"}) THEN Announce("Paused", NoOp) ELSE Quiet

\* An await of start_steps that publishes "working", then succeeds, fails or
\* notices the cancellation.
StartStep(where, then, failure) ==
    /\ Body(where)
    /\ \/ Announce("Working", worker.id) /\ Await(then)
       \/ StartFails(failure)
       \/ TokenCancelled /\ StartFails("Cancelled")

\* Mutation of CheckHelper: starts the clients unannounced.
CheckHelperSilently ==
    /\ Body("helper")
    /\ \/ Quiet /\ Await("clients")
       \/ StartFails("StartFailed")
    /\ UNCHANGED <<calls, net>>

CheckHelper ==
    /\ Body("helper")
    /\ \/ Announce("Working", worker.id) /\ Await("clients")
       \/ StartFails("StartFailed")
    /\ UNCHANGED <<calls, net>>

StartEnabledClients ==
    /\ StartStep("clients", "stage", "StartFailed")
    /\ tunnel' \in {tunnel, TRUE}
    /\ UNCHANGED <<calls, core, capture>>

\* prepare_runtime and validate_runtime.
StageRuntime ==
    /\ StartStep("stage", "core", "StartFailed")
    /\ UNCHANGED <<calls, net>>

\* start_core cannot be cancelled; the token is looked at when it returns.
\* An error leaves core_started unset whatever the helper had done by then.
StartCore ==
    /\ Body("core")
    /\ \/ /\ core' = TRUE /\ capture' = TRUE
          /\ \/ /\ ~TokenCancelled
                /\ Announce("Working", worker.id)
                /\ step' = "ready" /\ started' = TRUE /\ UNCHANGED err
             \/ TokenCancelled /\ StartFails("Cancelled")
       \/ /\ core' \in BOOLEAN /\ capture' \in BOOLEAN
          /\ StartFails("CoreFailed")
    /\ UNCHANGED <<calls, tunnel>>

WaitForReadiness ==
    /\ StartStep("ready", "confirm", "NotReady")
    /\ UNCHANGED <<calls, net>>

ConfirmCoreAndTun ==
    /\ Body("confirm")
    /\ \/ core /\ capture /\ Quiet /\ Await("publish")
       \/ StartFails("NotReady")
       \/ TokenCancelled /\ StartFails("Cancelled")
    /\ UNCHANGED <<calls, net>>

\* After the system proxy was cleared, successfully or not.
PublishRunning ==
    /\ Body("publish")
    /\ Announce("Running", worker.id) /\ Done("Ok")
    /\ UNCHANGED <<calls, net>>

\* The stop_core call of run_stop, run_pause, rollback and rollback_pause: a
\* failure is only logged.
StopCore ==
    /\ Body("stop_core")
    /\ Await("clean") /\ Quiet
    /\ TakenDown /\ UNCHANGED <<calls, tunnel>>

\* Mutation of CleanUp: takes a report with warnings for a clean one.
CleanUpIgnoresWarnings ==
    /\ Body("clean")
    /\ TakenDown /\ tunnel' \in {tunnel, FALSE}
    /\ IF Kind({"Reconcile"})
       THEN Announce("Stopped", NoOp) /\ Done("Ok")
       ELSE Await("check") /\ Quiet
    /\ UNCHANGED calls

\* cleanup_owned_state: a clean report, or an error or a report with
\* warnings, which fails the operation.
CleanUp ==
    /\ Body("clean")
    /\ \/ /\ core' = FALSE /\ capture' = FALSE /\ tunnel' = FALSE
          /\ IF Kind({"Reconcile"})
             THEN Announce("Stopped", NoOp) /\ Done("Ok")
             ELSE Await("check") /\ Quiet
       \/ /\ TakenDown /\ tunnel' \in {tunnel, FALSE}
          /\ Done("CleanupFailed") /\ Quiet
    /\ UNCHANGED calls

\* What an operation publishes once the TUN is known to be gone.
Released ==
    CASE Kind({"Stop"}) -> Announce("Stopped", NoOp) /\ Done("Ok")
      [] Kind({"Pause"}) -> Quiet /\ Await("verify")
      [] Kind({"Resume"}) -> Announce("Paused", NoOp) /\ Done(err)
      [] Kind({"Start"}) ->
           /\ IF err = "Cancelled" THEN Announce("Stopped", NoOp) ELSE Quiet
           /\ Done(err)

\* tun_status after the cleanup.
CheckTun ==
    /\ Body("check")
    /\ \/ ~capture /\ Released
       \/ Done("CleanupFailed") /\ Quiet
    /\ UNCHANGED <<calls, net>>

\* verify_not_intercepting, the last step of a pause.
VerifyNotIntercepting ==
    /\ Body("verify")
    /\ \/ ~capture /\ Announce("Paused", NoOp) /\ Done("Ok")
       \/ Done("CleanupFailed") /\ Quiet
    /\ UNCHANGED <<calls, net>>

ReturnOk ==
    /\ step = "done" /\ err \in {"Ok", "Cancelled"}
    /\ Finish
    /\ step' = "none" /\ UNCHANGED <<started, err, calls, net>>

\* Mutation of ReturnError: an error is not reported as a failure.
ReturnErrorQuietly ==
    /\ step = "done" /\ err \notin {"Ok", "Cancelled"}
    /\ Finish
    /\ step' = "none" /\ UNCHANGED <<started, err, calls, net>>

ReturnError ==
    /\ step = "done" /\ err \notin {"Ok", "Cancelled"}
    /\ Fail /\ cancelled' = cancelled
    /\ step' = "none" /\ UNCHANGED <<started, err, calls, net>>

\* execute_item: the budget ends while the operation waits.  Its future is
\* dropped, nothing is rolled back, and the helper may have carried out the
\* call that was waited for, or part of it.
TimeOut ==
    /\ step \notin {"none", "begin", "entry", "done"}
    /\ Fail /\ cancelled' = cancelled \cup {worker.id}
    /\ step' = "none" /\ err' = "Timeout"
    /\ CASE step = "core" -> core' \in BOOLEAN /\ capture' \in BOOLEAN
                               /\ UNCHANGED tunnel
         [] step = "clients" -> tunnel' \in {tunnel, TRUE}
                               /\ UNCHANGED <<core, capture>>
         [] step = "stop_core" -> TakenDown /\ UNCHANGED tunnel
         [] step = "clean" -> TakenDown /\ tunnel' \in {tunnel, FALSE}
         [] OTHER -> UNCHANGED net
    /\ UNCHANGED <<started, calls>>

BodyStep ==
    \/ BeginOperation \/ EnterReconcile \/ ProbeOwnedState
    \/ CheckHelper \/ StartEnabledClients \/ StageRuntime \/ StartCore
    \/ WaitForReadiness \/ ConfirmCoreAndTun \/ PublishRunning
    \/ StopCore \/ CleanUp \/ CheckTun \/ VerifyNotIntercepting
    \/ ReturnOk \/ ReturnError \/ TimeOut

-----------------------------------------------------------------------------
(* A live rule apply, in the task of its caller.                           *)

\* recover_clients, prepare_runtime and validate_runtime.
ApplyStages(c) ==
    /\ At(c, "applying") /\ apply[c] = "stage"
    /\ apply' = [apply EXCEPT ![c] = "reload"]
    /\ UNCHANGED <<vars, body, client, net>>

\* reload_core: a running Mihomo loads the new files; when the helper reports
\* that none runs, one is spawned.
ApplyReloads(c) ==
    /\ At(c, "applying") /\ apply[c] = "reload"
    /\ apply' = [apply EXCEPT ![c] = "ready"]
    /\ IF core THEN UNCHANGED <<core, capture>>
       ELSE core' = TRUE /\ capture' = TRUE
    /\ UNCHANGED <<vars, body, client, tunnel>>

\* Success after the readiness check, an error at any call, or 30 seconds.
ApplyEnds(c) ==
    /\ ApplyReturns(c)
    /\ apply' = [apply EXCEPT ![c] = "stage"]
    /\ IF apply[c] = "reload" /\ ~core
       THEN core' \in BOOLEAN /\ capture' \in BOOLEAN
       ELSE UNCHANGED <<core, capture>>
    /\ UNCHANGED <<body, client, tunnel>>

-----------------------------------------------------------------------------
(* connect_client and disconnect_client.                                   *)

ClientGoto(c, where) == client' = [client EXCEPT ![c] = where]

\* Both look at the lock once and do not take it.
ConnectClient(c) ==
    /\ ClientCalls /\ At(c, "idle") /\ client[c] = "none"
    /\ phase \in Live /\ busy = "None"
    /\ ClientGoto(c, "bypass")
    /\ UNCHANGED <<vars, body, apply, net>>

\* apply_user_rules before (bypass) and after (reroute) the tunnel starts.
\* It returns at once on a stack that is no longer live; errors of the first
\* are only logged.
ClientApplies(c, then) ==
    /\ ClientGoto(c, then)
    /\ \/ phase \in Live /\ Call(c, "reserve", "ApplyRules", "applying")
       \/ phase \notin Live /\ UNCHANGED caller
    /\ UNCHANGED <<phase, current, cancelled, worker, lock, body, apply, net>>

BypassClient(c) ==
    At(c, "idle") /\ client[c] = "bypass" /\ ClientApplies(c, "tunnel")

ConnectSideTunnel(c) ==
    /\ At(c, "idle") /\ client[c] = "tunnel"
    /\ \/ tunnel' = TRUE /\ ClientGoto(c, "reroute")
       \/ UNCHANGED tunnel /\ ClientGoto(c, "none")
    /\ UNCHANGED <<vars, body, apply, core, capture>>

DisconnectClient(c) ==
    /\ ClientCalls /\ At(c, "idle") /\ client[c] = "none"
    /\ busy = "None"
    /\ tunnel' = FALSE /\ ClientGoto(c, "reroute")
    /\ UNCHANGED <<vars, body, apply, core, capture>>

RerouteClient(c) ==
    At(c, "idle") /\ client[c] = "reroute" /\ ClientApplies(c, "none")

ClientStep(c) == BypassClient(c) \/ ConnectSideTunnel(c) \/ RerouteClient(c)

-----------------------------------------------------------------------------

\* Mihomo exits by itself; its TUN may go with it.
CoreDies ==
    /\ CoreMayDie /\ core
    /\ core' = FALSE /\ capture' \in {capture, FALSE}
    /\ UNCHANGED <<vars, body, calls, tunnel>>

StartOperation == Dequeue /\ step' = "begin" /\ UNCHANGED <<started, err, calls, net>>

\* Mutation of EndOperation: returns to the channel with the kind pending.
EndOperationKeepsPending ==
    /\ WorkerAt("forget") /\ worker' = IdleWorker
    /\ started' = FALSE /\ err' = "None"
    /\ UNCHANGED <<phase, busy, current, pending, operations, cancelled, queue,
                   caller, step, calls, net>>

EndOperation ==
    /\ ForgetPending
    /\ started' = FALSE /\ err' = "None"
    /\ UNCHANGED <<step, calls, net>>

\* Steps of the queue that touch nothing else.
QueueStep(c) ==
    /\ \/ client[c] = "none" /\ NewCall(c)
       \/ PrepareSucceeds(c) \/ PrepareFails(c) \/ StartStack(c)
       \/ Reserve(c) \/ PublishBusy(c) \/ Enqueue(c)
       \/ ReleaseIfIdle(c) \/ Unpublish(c)
    /\ UNCHANGED engineVars

ApplyStep(c) == ApplyStages(c) \/ ApplyReloads(c) \/ ApplyEnds(c)

WorkerTailStep ==
    /\ PublishFailure \/ ClearBusy \/ Unregister
    /\ UNCHANGED engineVars

EngineNext ==
    \/ \E c \in Callers :
          \/ QueueStep(c) \/ ApplyStep(c)
          \/ ConnectClient(c) \/ DisconnectClient(c) \/ ClientStep(c)
    \/ StartOperation \/ BodyStep \/ WorkerTailStep \/ EndOperation
    \/ CancelOperation /\ UNCHANGED engineVars
    \/ WatchPrimaryEgress /\ UNCHANGED engineVars
    \/ CoreDies

EngineSpec == EngineInit /\ [][EngineNext]_allVars

\* The worker and the timeouts of its operations are scheduled.
EngineFairSpec ==
    /\ EngineSpec
    /\ WF_allVars(StartOperation) /\ WF_allVars(BodyStep)
    /\ WF_allVars(WorkerTailStep) /\ WF_allVars(EndOperation)

-----------------------------------------------------------------------------
(* Properties.                                                             *)

NetworkFree == ~core /\ ~capture
AllReleased == NetworkFree /\ ~tunnel

\* Disconnect tears the owned TUN and routes down: when it reports success,
\* no owned Mihomo and no owned side tunnel runs and nothing captures the
\* machine's traffic, whatever failed or timed out before it.
DisconnectReleases ==
    WorkerAt("clear") /\ Kind({"Stop"}) /\ err = "Ok" => AllReleased

\* A released machine stays released for as long as the stack says Stopped.
StoppedStaysReleased ==
    [][phase = "Stopped" /\ phase' = "Stopped" /\ NetworkFree => NetworkFree']_allVars

\* No side tunnel comes up on a stack that says Stopped.
StoppedStartsNoTunnel ==
    [][phase = "Stopped" /\ phase' = "Stopped" /\ ~tunnel => ~tunnel']_allVars

\* A start or resume that fails after Mihomo started, or is cancelled, has
\* undone everything by the time it reports, or reports that it could not.
FailedStartIsUndone ==
    /\ worker.pc \in {"failed", "clear"}
    /\ Kind({"Start", "Resume"}) /\ err \in {"NotReady", "Cancelled"}
    => AllReleased

\* README: a failed start rolls back instead of leaving a half-applied
\* network (the rollback's own failure, which is reported, aside).
FailedStartRollsBack ==
    WorkerAt("failed") /\ Kind({"Start"}) /\ err # "CleanupFailed"
    => NetworkFree

\* No operation, however it ends, leaves the stack in a phase it only passes
\* through: the health loop looks at settled phases only, so such a stack
\* would never be looked at again.  The one exception is a startup
\* reconciliation cancelled right after it published its identifier, which
\* returns Cancelled in the Recovering phase.
NoPhaseLeftBehind ==
    WorkerAt("clear") /\ phase = "Working"
    => Kind({"Reconcile"}) /\ err = "Cancelled"

\* An accepted disconnect ends: the stack is stopped, or shows an error.
DisconnectSettles ==
    WorkerAt("running") /\ Kind({"Stop"}) ~> phase \in {"Stopped", "Error"}

-----------------------------------------------------------------------------
(* The inductive invariant.                                                *)

StartSteps == {"helper", "clients", "stage", "core", "ready", "confirm", "publish"}
UndoSteps == {"stop_core", "clean", "check"}
StepsOf(kind) ==
    {"begin", "done"} \cup
    CASE kind \in {"Start", "Resume"} -> StartSteps \cup UndoSteps
      [] kind = "Stop" -> UndoSteps
      [] kind = "Pause" -> UndoSteps \cup {"verify"}
      [] kind = "Reconcile" -> {"entry", "probe", "clean"}

\* An operation is only ever at an await of its own, and only in the worker.
StepFitsKind ==
    IF WorkerAt("running") THEN step \in StepsOf(worker.kind) ELSE step = "none"

ClientsAreCalled == \A c \in Callers : client[c] # "none" => ClientCalls

EngineInv == QueueInv /\ EngineTypeOK /\ StepFitsKind /\ ClientsAreCalled

\* Where no caller applies rules, nobody but the operation touches the machine.
NobodyApplies ==
    \A c \in Callers : ~At(c, "applying") /\ caller[c].next # "applying"
                         /\ client[c] = "none"

\* The outcome an operation has recorded when it gets to a step.
OutcomeSoFar ==
    /\ WorkerAt("idle") \/ step \in {"begin"} \cup StartSteps => err = "None"
    /\ WorkerAt("running") /\ step \in {"ready", "confirm"} => started
    /\ WorkerAt("running") /\ Kind({"Stop", "Pause", "Reconcile"})
          /\ step # "done" => err = "None"
    /\ WorkerAt("failed") => err \notin {"Ok", "Cancelled"}

\* From the clean report on, everything stays released until the end.
ReleasedSinceCleanup ==
    /\ step \in {"check", "verify"} => AllReleased
    /\ step = "done" /\ Kind({"Stop"}) /\ err = "Ok" => AllReleased
    /\ step = "done" /\ Kind({"Start", "Resume"})
          /\ err \in {"NotReady", "Cancelled"} => AllReleased

\* Nothing is started in any other phase than one of the passing phases.
StartsWhileWorking == step \in {"clients", "stage", "core"} => phase = "Working"

LifecycleInv ==
    /\ NobodyApplies
    /\ OutcomeSoFar
    /\ ReleasedSinceCleanup
    /\ StartsWhileWorking
    /\ DisconnectReleases
    /\ FailedStartIsUndone

\* What an operation has published when it is about to end.
SettledWhenDone ==
    WorkerAt("running") =>
        /\ step \in UndoSteps \cup {"verify"} => err # "Ok"
        /\ step = "done" /\ err \in {"Ok", "Cancelled"} /\ phase = "Working"
           => Kind({"Reconcile"}) /\ err = "Cancelled"

PhaseInv == OutcomeSoFar /\ SettledWhenDone /\ NoPhaseLeftBehind

\* The engine implements the operation queue.
QueueSpec == Spec
=============================================================================
