--------------------------- MODULE EngineProofs -----------------------------
(***************************************************************************)
(* Proofs about the engine: it implements the operation queue, and, as     *)
(* long as no live rule apply runs, a disconnect that reports success has  *)
(* released the machine, a start that is undone is undone entirely, and a  *)
(* released machine stays released while the stack says Stopped; a process *)
(* that quits after its own disconnect leaves the network free.            *)
(***************************************************************************)
EXTENDS Desktop, OperationQueueProofs

-----------------------------------------------------------------------------
(* The engine implements the queue.                                        *)

\* What an operation publishes is a step of the abstract operation.
LEMMA AnnounceExecutes ==
  ASSUME WorkerAt("running"), NEW p \in Phases, NEW id \in {worker.id, NoOp},
         Announce(p, id)
  PROVE  ExecuteStep
BY DEF Announce, ExecuteStep

\* A failed start step publishes what the queue allows an operation to publish.
LEMMA StartFailsExecutes ==
  ASSUME WorkerAt("running"), NEW outcome, StartFails(outcome)
  PROVE  ExecuteStep \/ UNCHANGED vars
BY AnnounceExecutes DEF StartFails, Quiet, Phases

\* So does every await of start_steps.
LEMMA StartStepExecutes ==
  ASSUME NEW where, NEW then, NEW failure, StartStep(where, then, failure)
  PROVE  ExecuteStep \/ UNCHANGED vars
BY AnnounceExecutes, StartFailsExecutes DEF StartStep, Body, Phases

\* Every step of an executed operation is a step of the queue, or leaves it alone.
LEMMA BodyStepMoves ==
  ASSUME EngineInv, BodyStep
  PROVE  ExecuteStep \/ UNCHANGED vars \/ Finish \/ Fail
<1>0. WorkerAt("running") => worker.kind \in QueuedKinds
  BY DEF EngineInv, QueueInv, QueueAccounting, HeldIsRegistered, WorkerAt
<1> USE AnnounceExecutes, StartFailsExecutes DEF Body, Quiet, Phases
<1>1. ASSUME BeginOperation PROVE ExecuteStep \/ UNCHANGED vars
  <2>1. WorkerAt("running")
    BY <1>1 DEF BeginOperation
  <2>2. CASE Kind({"Start", "Resume"})
    BY <1>1, <2>2 DEF BeginOperation, Kind
  <2>3. CASE Kind({"Reconcile", "Stop", "Pause"})
    BY <1>1, <2>1, <2>3 DEF BeginOperation, Kind
  <2> QED
    BY <1>0, <2>1, <2>2, <2>3 DEF Kind, QueuedKinds
<1>2. ASSUME EnterReconcile \/ ProbeOwnedState PROVE ExecuteStep \/ UNCHANGED vars
  BY <1>2 DEF EnterReconcile, ProbeOwnedState
<1>3. ASSUME CheckHelper PROVE ExecuteStep \/ UNCHANGED vars
  BY <1>3 DEF CheckHelper
<1>4. ASSUME StartEnabledClients \/ StageRuntime \/ WaitForReadiness
      PROVE  ExecuteStep \/ UNCHANGED vars
  BY <1>4, StartStepExecutes DEF StartEnabledClients, StageRuntime, WaitForReadiness
<1>5. ASSUME StartCore PROVE ExecuteStep \/ UNCHANGED vars
  BY <1>5 DEF StartCore
<1>6. ASSUME ConfirmCoreAndTun \/ PublishRunning PROVE ExecuteStep \/ UNCHANGED vars
  BY <1>6 DEF ConfirmCoreAndTun, PublishRunning
<1>7. ASSUME StopCore \/ CleanUp PROVE ExecuteStep \/ UNCHANGED vars
  BY <1>7 DEF StopCore, CleanUp
<1>8. ASSUME CheckTun PROVE ExecuteStep \/ UNCHANGED vars
  <2>1. /\ WorkerAt("running") /\ (Released \/ Quiet)
        /\ worker.kind \in {"Start", "Resume", "Stop", "Pause"}
    BY <1>0, <1>8 DEF CheckTun, EngineInv, StepFitsKind, StepsOf, StartSteps, UndoSteps,
       QueuedKinds
  <2>2. CASE Released
    BY <2>1, <2>2 DEF Released, Kind
  <2> QED
    BY <2>1, <2>2
<1>9. ASSUME VerifyNotIntercepting PROVE ExecuteStep \/ UNCHANGED vars
  BY <1>9 DEF VerifyNotIntercepting
<1>10. ASSUME ReturnOk \/ ReturnError \/ TimeOut PROVE Finish \/ Fail
  BY <1>10 DEF ReturnOk, ReturnError, TimeOut
<1> QED
  BY <1>1, <1>2, <1>3, <1>4, <1>5, <1>6, <1>7, <1>8, <1>9, <1>10
     DEF BodyStep

\* Every step of the engine is a step of the queue, or leaves it alone.
LEMMA StepImplements == EngineInv /\ [EngineNext]_allVars => [Next]_vars
<1> SUFFICES ASSUME EngineInv, [EngineNext]_allVars PROVE [Next]_vars
  OBVIOUS
<1>1. ASSUME NEW c \in Callers, QueueStep(c) PROVE Next
  BY <1>1 DEF QueueStep, Next, CallerStep
<1>2. ASSUME NEW c \in Callers, ApplyStep(c) PROVE [Next]_vars
  BY <1>2 DEF ApplyStep, ApplyStages, ApplyReloads, ApplyEnds, Next, CallerStep
<1>3. ASSUME NEW c \in Callers,
             ConnectClient(c) \/ DisconnectClient(c) \/ ConnectSideTunnel(c)
      PROVE  UNCHANGED vars
  BY <1>3 DEF ConnectClient, DisconnectClient, ConnectSideTunnel
<1>4. ASSUME NEW c \in Callers, BypassClient(c) \/ RerouteClient(c)
      PROVE  [Next]_vars
  <2>1. "Apply" \in Commands
    BY <1>4, EngineAssumption
       DEF EngineInv, ClientsAreCalled, BypassClient, RerouteClient
  <2>2. ASSUME NEW then, At(c, "idle"), ClientApplies(c, then)
        PROVE  ApplyUserRules(c) \/ UNCHANGED vars
    BY <2>1, <2>2 DEF ClientApplies, ApplyUserRules, vars, lock
  <2> QED
    BY <1>4, <2>2 DEF BypassClient, RerouteClient, Next, NewCall
<1>5. ASSUME StartOperation \/ EndOperation \/ WorkerTailStep PROVE Next
  BY <1>5 DEF StartOperation, EndOperation, WorkerTailStep, Next, WorkerTail
<1>6. ASSUME CoreDies \/ UNCHANGED allVars PROVE UNCHANGED vars
  BY <1>6 DEF CoreDies, allVars
<1> QED
  BY <1>1, <1>2, <1>3, <1>4, <1>5, <1>6, BodyStepMoves
     DEF EngineNext, ClientStep, Next, WorkerReturns

-----------------------------------------------------------------------------
(* The engine's own variables.                                             *)

\* A step of the queue alone does not touch the worker.
LEMMA QueueStepFrame ==
  ASSUME EngineInv, NEW c \in Callers, QueueStep(c)
  PROVE  UNCHANGED <<engineVars, worker>>
BY DEF QueueStep, NewCall, Connect, RequestOperation, ApplyUserRules, PrepareSucceeds,
   PrepareFails, StartStack, Reserve, PublishBusy, Enqueue, ReleaseIfIdle, Unpublish

\* A failed start step leads to an undo step or ends the operation.
LEMMA StartFailsStep ==
  ASSUME WorkerAt("running"), worker.kind \in {"Start", "Resume"},
         NEW outcome \in Outcomes, StartFails(outcome)
  PROVE  /\ UNCHANGED <<worker, started>> /\ step' \in {"stop_core", "done"}
         /\ err' = outcome
BY DEF StartFails, Announce, Quiet, vars

\* An await of start_steps leads to the next, to an undo step or to the end.
LEMMA StartStepStep ==
  ASSUME EngineInv, NEW where, NEW then, NEW failure \in Outcomes,
         worker.kind \in {"Start", "Resume"}, StartStep(where, then, failure)
  PROVE  /\ UNCHANGED <<worker, started>> /\ step' \in {then, "stop_core", "done"}
         /\ err' \in Outcomes
         /\ WorkerAt("running") /\ step = where
<1>1. WorkerAt("running") /\ step = where
  BY DEF StartStep, Body
<1>2. CASE Announce("Working", worker.id) /\ Await(then)
  BY <1>1, <1>2 DEF Announce, Await, EngineInv, EngineTypeOK
<1>3. CASE StartFails(failure)
  BY <1>1, <1>3, StartFailsStep
<1>4. CASE StartFails("Cancelled")
  BY <1>1, <1>4, StartFailsStep DEF Outcomes
<1> QED
  BY <1>2, <1>3, <1>4 DEF StartStep

BodyFits ==
    /\ step' \in Steps /\ started' \in BOOLEAN /\ err' \in Outcomes
    /\ UNCHANGED worker => step' \in StepsOf(worker.kind)
    /\ ~UNCHANGED worker => worker'.pc # "running" /\ step' = "none"
    /\ UNCHANGED calls
    /\ core' \in BOOLEAN /\ capture' \in BOOLEAN /\ tunnel' \in BOOLEAN

\* Every step of an operation leads to a step of its own kind.
LEMMA BodyStepFits == EngineInv /\ BodyStep => BodyFits
<1> SUFFICES ASSUME EngineInv, BodyStep PROVE BodyFits
  OBVIOUS
<1>0. WorkerAt("running") =>
        /\ worker.kind \in {"Start", "Resume", "Stop", "Pause", "Reconcile"}
        /\ step \in StepsOf(worker.kind)
  BY DEF EngineInv, QueueInv, QueueAccounting, HeldIsRegistered, WorkerAt, StepFitsKind,
     QueuedKinds
<1> USE <1>0 DEF BodyFits, Body, StepsOf, StartSteps, UndoSteps, Steps, Outcomes, calls,
        net, EngineInv, EngineTypeOK, Kind, Await, Done, Quiet, Announce, vars
<1>1. ASSUME BeginOperation PROVE BodyFits
  <2>1. WorkerAt("running") /\ UNCHANGED <<worker, started, calls, net>>
    BY <1>0, <1>1 DEF BeginOperation
  <2>2. err' \in Outcomes
    BY <1>0, <1>1 DEF BeginOperation
  <2>3. step' \in StepsOf(worker.kind)
    <3>1. CASE worker.kind \in {"Start", "Resume"}
      BY <1>1, <3>1 DEF BeginOperation
    <3>2. CASE worker.kind \in {"Stop", "Pause", "Reconcile"}
      BY <1>1, <3>2 DEF BeginOperation
    <3> QED
      BY <1>0, <2>1, <3>1, <3>2
  <2> QED
    BY <1>0, <2>1, <2>2, <2>3
<1>2. ASSUME EnterReconcile \/ ProbeOwnedState PROVE BodyFits
  BY <1>2 DEF EnterReconcile, ProbeOwnedState
<1>3. ASSUME CheckHelper PROVE BodyFits
  BY <1>3, StartFailsStep DEF CheckHelper
<1>4. ASSUME StartEnabledClients \/ StageRuntime \/ WaitForReadiness PROVE BodyFits
  <2>1. WorkerAt("running") /\ worker.kind \in {"Start", "Resume"}
    BY <1>4 DEF StartEnabledClients, StageRuntime, WaitForReadiness, StartStep
  <2>2. /\ UNCHANGED <<worker, started>>
        /\ step' \in {"stage", "core", "confirm", "stop_core", "done"}
        /\ err' \in Outcomes
    BY <1>4, <2>1, StartStepStep DEF StartEnabledClients, StageRuntime, WaitForReadiness
  <2> QED
    BY <1>4, <2>1, <2>2 DEF StartEnabledClients, StageRuntime, WaitForReadiness
<1>5. ASSUME StartCore PROVE BodyFits
  BY <1>5, StartFailsStep DEF StartCore
<1>6. ASSUME ConfirmCoreAndTun \/ PublishRunning PROVE BodyFits
  BY <1>6, StartFailsStep DEF ConfirmCoreAndTun, PublishRunning
<1>7. ASSUME StopCore \/ CleanUp PROVE BodyFits
  <2>1. CASE StopCore
    <3>1. WorkerAt("running") /\ step = "stop_core" /\ step' = "clean"
      BY <2>1 DEF StopCore
    <3>2. UNCHANGED <<worker, started, err, calls, tunnel>>
      BY <2>1 DEF StopCore
    <3>3. core' \in BOOLEAN /\ capture' \in BOOLEAN
      BY <2>1 DEF StopCore, TakenDown
    <3> QED
      BY <1>0, <3>1, <3>2, <3>3
  <2>2. CASE CleanUp
    <3>1. WorkerAt("running") /\ UNCHANGED <<worker, started, calls>>
      <4>1. WorkerAt("running") /\ UNCHANGED calls
        BY <2>2 DEF CleanUp
      <4>2. UNCHANGED <<worker, started>>
        BY <2>2 DEF CleanUp
      <4> QED
        BY <4>1, <4>2
    <3>2. step' \in {"check", "done"} /\ err' \in Outcomes
      BY <2>2 DEF CleanUp
    <3>3. core' \in BOOLEAN /\ capture' \in BOOLEAN /\ tunnel' \in BOOLEAN
      BY <2>2 DEF CleanUp, TakenDown
    <3>4. Kind({"Reconcile"}) => step' = "done"
      BY <2>2 DEF CleanUp
    <3> QED
      BY <1>0, <3>1, <3>2, <3>3, <3>4
  <2> QED
    BY <1>7, <2>1, <2>2
<1>8. ASSUME CheckTun \/ VerifyNotIntercepting PROVE BodyFits
  <2>1. CASE CheckTun
    <3>1. WorkerAt("running") /\ UNCHANGED <<worker, started, calls, net>>
      BY <1>0, <2>1 DEF CheckTun, Released
    <3>2. step' \in {"verify", "done"} /\ err' \in Outcomes
      BY <1>0, <2>1 DEF CheckTun, Released
    <3>3. step' = "verify" => worker.kind = "Pause"
      BY <1>0, <2>1 DEF CheckTun, Released
    <3> QED
      BY <1>0, <3>1, <3>2, <3>3
  <2>2. CASE VerifyNotIntercepting
    BY <2>2 DEF VerifyNotIntercepting
  <2> QED
    BY <1>8, <2>1, <2>2
<1>9. ASSUME ReturnOk \/ ReturnError \/ TimeOut PROVE BodyFits
  <2>1. worker'.pc # "running" /\ worker.pc = "running" /\ step' = "none"
    BY <1>9 DEF ReturnOk, ReturnError, TimeOut, Finish, Fail, WorkerAt, WorkerGoto, TypeOK,
       WorkerStates
  <2> QED
    BY <1>9, <2>1 DEF ReturnOk, ReturnError, TimeOut, TakenDown
<1> QED
  BY <1>1, <1>2, <1>3, <1>4, <1>5, <1>6, <1>7, <1>8, <1>9 DEF BodyStep

\* Rule applies and client calls keep the types of the engine.
LEMMA CallsTypes ==
  ASSUME EngineInv, NEW c \in Callers,
         ApplyStep(c) \/ ConnectClient(c) \/ DisconnectClient(c) \/ ClientStep(c)
  PROVE  /\ UNCHANGED <<body, worker>>
         /\ apply' \in [Callers -> {"stage", "reload", "ready"}]
         /\ client' \in [Callers -> {"none", "bypass", "tunnel", "reroute"}]
         /\ core' \in BOOLEAN /\ capture' \in BOOLEAN /\ tunnel' \in BOOLEAN
         /\ ClientsAreCalled'
<1> USE DEF EngineInv, EngineTypeOK, ClientsAreCalled, net, calls, vars
<1>1. CASE ApplyStep(c)
  BY <1>1 DEF ApplyStep, ApplyStages, ApplyReloads, ApplyEnds, ApplyReturns
<1>2. CASE ConnectClient(c) \/ DisconnectClient(c)
  BY <1>2 DEF ConnectClient, DisconnectClient, ClientGoto
<1>3. CASE ClientStep(c)
  BY <1>3 DEF ClientStep, BypassClient, ConnectSideTunnel, RerouteClient, ClientApplies,
     ClientGoto
<1> QED
  BY <1>1, <1>2, <1>3

\* Every step keeps the inductive invariant.
LEMMA EngineInvStep == EngineInv /\ [EngineNext]_allVars => EngineInv'
<1> SUFFICES ASSUME EngineInv, [EngineNext]_allVars PROVE EngineInv'
  OBVIOUS
<1>0. QueueInv' /\ TypeOK'
  BY StepImplements, InvStep DEF EngineInv, QueueInv
<1> USE <1>0
<1>1. ASSUME UNCHANGED <<engineVars, worker>> PROVE EngineInv'
  BY <1>1 DEF EngineInv, EngineTypeOK, StepFitsKind, ClientsAreCalled, engineVars, body,
     calls, net, WorkerAt
<1>2. ASSUME NEW c \in Callers, QueueStep(c) PROVE EngineInv'
  BY <1>1, <1>2, QueueStepFrame
<1>3. ASSUME NEW c \in Callers,
             ApplyStep(c) \/ ConnectClient(c) \/ DisconnectClient(c) \/ ClientStep(c)
      PROVE  EngineInv'
  <2>1. /\ UNCHANGED <<step, started, err, worker>>
        /\ apply' \in [Callers -> {"stage", "reload", "ready"}]
        /\ client' \in [Callers -> {"none", "bypass", "tunnel", "reroute"}]
        /\ core' \in BOOLEAN /\ capture' \in BOOLEAN /\ tunnel' \in BOOLEAN
        /\ ClientsAreCalled'
    BY <1>3, CallsTypes DEF body
  <2>2. EngineTypeOK' /\ StepFitsKind'
    BY <2>1 DEF EngineInv, EngineTypeOK, StepFitsKind, WorkerAt
  <2> QED
    BY <2>1, <2>2 DEF EngineInv
<1>4. ASSUME BodyStep PROVE EngineInv'
  <2>1. BodyFits
    BY <1>4, BodyStepFits
  <2>2. WorkerAt("running")
    BY <1>4 DEF BodyStep, BeginOperation, EnterReconcile, ProbeOwnedState, CheckHelper,
       StartEnabledClients, StageRuntime, StartCore, WaitForReadiness, ConfirmCoreAndTun,
       PublishRunning, StopCore, CleanUp, CheckTun, VerifyNotIntercepting, ReturnOk,
       ReturnError, TimeOut, StartStep, Body, Finish, Fail
  <2>3. StepFitsKind'
    BY <2>1, <2>2 DEF BodyFits, StepFitsKind, WorkerAt
  <2> QED
    BY <2>1, <2>3 DEF BodyFits, EngineInv, EngineTypeOK, ClientsAreCalled, calls
<1>5. ASSUME StartOperation PROVE EngineInv'
  <2>1. worker'.pc = "running" /\ step' = "begin" /\ UNCHANGED <<started, err, calls, net>>
    BY <1>5 DEF StartOperation, Dequeue
  <2>2. step' \in StepsOf(worker'.kind)
    BY <2>1 DEF StepsOf
  <2> QED
    BY <2>1, <2>2 DEF EngineInv, EngineTypeOK, StepFitsKind, ClientsAreCalled, calls, net,
       WorkerAt, Steps
<1>6. ASSUME EndOperation PROVE EngineInv'
  <2>1. /\ worker'.pc = "idle" /\ worker.pc = "forget"
        /\ UNCHANGED <<step, apply, client, core, capture, tunnel>>
        /\ started' = FALSE /\ err' = "None"
    BY <1>6 DEF EndOperation, ForgetPending, IdleWorker, WorkerAt, calls, net
  <2> QED
    BY <2>1 DEF EngineInv, EngineTypeOK, StepFitsKind, ClientsAreCalled, WorkerAt, Outcomes
<1>7. ASSUME WorkerTailStep PROVE EngineInv'
  <2>1. /\ worker'.pc # "running" /\ worker.pc # "running"
        /\ UNCHANGED engineVars
    BY <1>7 DEF WorkerTailStep, PublishFailure, ClearBusy, Unregister, WorkerAt, WorkerGoto,
       EngineInv, QueueInv, TypeOK, WorkerStates
  <2> QED
    BY <2>1 DEF EngineInv, EngineTypeOK, StepFitsKind, ClientsAreCalled, engineVars, body,
       calls, net, WorkerAt
<1>8. ASSUME (CancelOperation \/ WatchPrimaryEgress) /\ UNCHANGED engineVars
      PROVE  EngineInv'
  BY <1>1, <1>8 DEF CancelOperation, WatchPrimaryEgress
<1>9. ASSUME CoreDies PROVE EngineInv'
  BY <1>9 DEF CoreDies, EngineInv, EngineTypeOK, StepFitsKind, ClientsAreCalled, vars, body,
     calls, WorkerAt
<1>10. ASSUME UNCHANGED allVars PROVE EngineInv'
  BY <1>1, <1>10 DEF allVars, vars
<1> QED
  BY <1>2, <1>3, <1>4, <1>5, <1>6, <1>7, <1>8, <1>9, <1>10 DEF EngineNext

\* The inductive invariant holds initially.
LEMMA EngineInitInv == EngineInit => EngineInv
<1> SUFFICES ASSUME EngineInit PROVE EngineInv
  OBVIOUS
<1>1. Init /\ QueueInv
  BY InitInv DEF EngineInit
<1>2. EngineTypeOK
  BY <1>1, EngineAssumption DEF EngineInit, EngineTypeOK, QueueInv, Steps, Outcomes
<1>3. StepFitsKind /\ ClientsAreCalled
  BY <1>1 DEF EngineInit, Init, StepFitsKind, ClientsAreCalled, WorkerAt, IdleWorker
<1> QED
  BY <1>1, <1>2, <1>3 DEF EngineInv

\* Every operation of the engine keeps its types, and an operation is only ever
\* at an await of its own.
THEOREM EngineInvariantHolds == EngineSpec => []EngineInv
  BY EngineInitInv, EngineInvStep, PTL DEF EngineSpec

\* Every variable of the engine keeps its type, the process, capture and tunnel
\* records among them (EngineTypeOK).
THEOREM EngineTypeCorrect == EngineSpec => []EngineTypeOK
<1>1. EngineInv => EngineTypeOK
  BY DEF EngineInv
<1> QED
  BY <1>1, EngineInvariantHolds, PTL

\* Every step of the engine is a step of the operation queue, or leaves it
\* alone: what is proved of the queue holds of the engine.
THEOREM EngineImplementsQueue == EngineSpec => QueueSpec
<1>1. EngineInit => Init
  BY DEF EngineInit
<1>2. EngineInv /\ [EngineNext]_allVars => [Next]_vars
  BY StepImplements
<1> QED
  BY <1>1, <1>2, EngineInvariantHolds, PTL DEF EngineSpec, QueueSpec, Spec

-----------------------------------------------------------------------------
(* No operation leaves the stack in a passing phase; rule applies and       *)
(* client calls do not publish any.                                         *)

\* Every step of an operation keeps what it has published on its way to its end.
LEMMA BodyStepPhase ==
  ASSUME EngineInv, PhaseInv, BodyStep
  PROVE  PhaseInv'
<1>0. WorkerAt("running") =>
        /\ worker.kind \in {"Start", "Resume", "Stop", "Pause", "Reconcile"}
        /\ step \in StepsOf(worker.kind)
  BY DEF EngineInv, QueueInv, QueueAccounting, HeldIsRegistered, WorkerAt, StepFitsKind,
     QueuedKinds
<1> USE <1>0 DEF PhaseInv, OutcomeSoFar, SettledWhenDone, NoPhaseLeftBehind, Body, StepsOf,
        StartSteps, UndoSteps, Kind, Await, Done, Quiet, Announce, vars, WorkerAt
<1>1. ASSUME BeginOperation PROVE PhaseInv'
  BY <1>1 DEF BeginOperation, Live
<1>2. ASSUME EnterReconcile \/ ProbeOwnedState PROVE PhaseInv'
  BY <1>2 DEF EnterReconcile, ProbeOwnedState
<1>3. ASSUME CheckHelper PROVE PhaseInv'
  BY <1>3 DEF CheckHelper, StartFails
<1>4. ASSUME StartEnabledClients PROVE PhaseInv'
  BY <1>4 DEF StartEnabledClients, StartStep, StartFails
<1>5. ASSUME StageRuntime PROVE PhaseInv'
  BY <1>5 DEF StageRuntime, StartStep, StartFails
<1>6. ASSUME WaitForReadiness PROVE PhaseInv'
  BY <1>6 DEF WaitForReadiness, StartStep, StartFails
<1>7. ASSUME StartCore PROVE PhaseInv'
  BY <1>7 DEF StartCore, StartFails
<1>8. ASSUME ConfirmCoreAndTun \/ PublishRunning PROVE PhaseInv'
  BY <1>8 DEF ConfirmCoreAndTun, PublishRunning, StartFails
<1>9. ASSUME StopCore \/ CleanUp PROVE PhaseInv'
  BY <1>9 DEF StopCore, CleanUp
<1>10. ASSUME CheckTun PROVE PhaseInv'
  BY <1>10 DEF CheckTun, Released
<1>11. ASSUME VerifyNotIntercepting PROVE PhaseInv'
  BY <1>11 DEF VerifyNotIntercepting
<1>12. ASSUME ReturnOk \/ ReturnError \/ TimeOut PROVE PhaseInv'
  <2> USE DEF EngineInv, TypeOK, WorkerStates, WorkerGoto
  <2>1. CASE ReturnOk
    <3>1. /\ worker.pc = "running" /\ worker'.kind = worker.kind /\ step' = "none"
          /\ worker'.pc = "clear" /\ step = "done" /\ UNCHANGED <<err, phase>>
          /\ err \in {"Ok", "Cancelled"}
      BY <2>1 DEF ReturnOk, Finish
    <3> QED
      BY <3>1
  <2>2. CASE ReturnError
    <3>1. /\ worker'.pc = "failed" /\ step' = "none" /\ UNCHANGED err
          /\ err \notin {"Ok", "Cancelled"}
      BY <2>2 DEF ReturnError, Fail
    <3> QED
      BY <3>1
  <2>3. CASE TimeOut
    <3>1. worker'.pc = "failed" /\ step' = "none" /\ err' = "Timeout"
      BY <2>3 DEF TimeOut, Fail
    <3> QED
      BY <3>1
  <2> QED
    BY <1>12, <2>1, <2>2, <2>3
<1> QED
  BY <1>1, <1>2, <1>3, <1>4, <1>5, <1>6, <1>7, <1>8, <1>9, <1>10, <1>11, <1>12 DEF BodyStep

\* Every step does, whatever the callers do meanwhile.
LEMMA PhaseStep ==
  ASSUME EngineInv, PhaseInv, [EngineNext]_allVars
  PROVE  PhaseInv'
<1> USE DEF PhaseInv, OutcomeSoFar, SettledWhenDone, NoPhaseLeftBehind, Kind, WorkerAt
<1>1. ASSUME UNCHANGED <<phase, worker, body>> PROVE PhaseInv'
  BY <1>1 DEF body
<1>2. ASSUME NEW c \in Callers, QueueStep(c) PROVE PhaseInv'
  <2>1. UNCHANGED phase
    BY <1>2 DEF QueueStep, NewCall, Connect, RequestOperation, ApplyUserRules,
       PrepareSucceeds, PrepareFails, StartStack, Reserve, PublishBusy, Enqueue,
       ReleaseIfIdle, Unpublish
  <2> QED
    BY <1>1, <1>2, <2>1, QueueStepFrame DEF engineVars
<1>3. ASSUME NEW c \in Callers,
             ApplyStep(c) \/ ConnectClient(c) \/ DisconnectClient(c) \/ ClientStep(c)
      PROVE  PhaseInv'
  <2>1. UNCHANGED phase
    BY <1>3 DEF ApplyStep, ApplyStages, ApplyReloads, ApplyEnds, ApplyReturns, ConnectClient,
       DisconnectClient, ClientStep, BypassClient, ConnectSideTunnel, RerouteClient,
       ClientApplies, vars
  <2> QED
    BY <1>1, <1>3, <2>1, CallsTypes
<1>4. ASSUME BodyStep PROVE PhaseInv'
  BY <1>4, BodyStepPhase
<1>5. ASSUME StartOperation PROVE PhaseInv'
  BY <1>5 DEF StartOperation, Dequeue, StartSteps, UndoSteps
<1>6. ASSUME EndOperation PROVE PhaseInv'
  <2>1. worker.pc = "forget" /\ worker'.pc = "idle" /\ err' = "None" /\ step' = step
          /\ step = "none"
    BY <1>6 DEF EndOperation, ForgetPending, IdleWorker, EngineInv, StepFitsKind
  <2> QED
    BY <2>1
<1>7. ASSUME WorkerTailStep PROVE PhaseInv'
  <2>1. /\ UNCHANGED engineVars /\ step = "none"
        /\ \/ worker.pc = "failed" /\ worker'.pc = "clear" /\ phase' \in {"Paused", "Error"}
           \/ worker'.pc \in {"unregister", "forget"}
    <3>1. UNCHANGED engineVars /\ (PublishFailure \/ ClearBusy \/ Unregister)
      BY <1>7 DEF WorkerTailStep
    <3>2. worker \in WorkerStates /\ (worker.pc # "running" => step = "none")
      BY DEF EngineInv, EngineTypeOK, TypeOK, StepFitsKind
    <3> QED
      BY <3>1, <3>2 DEF PublishFailure, ClearBusy, Unregister, WorkerGoto, WorkerStates
  <2> QED
    BY <2>1 DEF engineVars, body, StartSteps
<1>8. ASSUME (CancelOperation \/ WatchPrimaryEgress) /\ UNCHANGED engineVars
      PROVE  PhaseInv'
  <2>1. UNCHANGED worker /\ (UNCHANGED phase \/ {phase, phase'} \subseteq Live)
    BY <1>8 DEF CancelOperation, WatchPrimaryEgress
  <2> QED
    BY <1>1, <1>8, <2>1 DEF engineVars, body, Live
<1>9. ASSUME CoreDies PROVE PhaseInv'
  BY <1>1, <1>9 DEF CoreDies, vars
<1>10. ASSUME UNCHANGED allVars PROVE PhaseInv'
  BY <1>1, <1>10 DEF allVars, vars, engineVars
<1> QED
  BY <1>2, <1>3, <1>4, <1>5, <1>6, <1>7, <1>8, <1>9, <1>10 DEF EngineNext

\* However an operation of the worker ends, and whatever callers and rule
\* applies do meanwhile, it does not leave the stack in a phase it only passes
\* through, a reconciliation that was cancelled as it began excepted.
THEOREM NoOperationLeavesItsPhase == EngineSpec => []NoPhaseLeftBehind
<1>1. EngineInit => PhaseInv
  BY DEF EngineInit, Init, PhaseInv, OutcomeSoFar, SettledWhenDone, NoPhaseLeftBehind,
     WorkerAt, IdleWorker, StartSteps
<1>2. EngineInv /\ PhaseInv /\ [EngineNext]_allVars => PhaseInv'
  BY PhaseStep
<1>3. PhaseInv => NoPhaseLeftBehind
  BY DEF PhaseInv
<1> QED
  BY <1>1, <1>2, <1>3, EngineInvariantHolds, PTL DEF EngineSpec

-----------------------------------------------------------------------------
(* Without live rule applies, nobody but the executed operation touches    *)
(* the machine.                                                            *)

OperationInv ==
    /\ OutcomeSoFar /\ ReleasedSinceCleanup /\ StartsWhileWorking
    /\ DisconnectReleases /\ FailedStartIsUndone

\* Where no caller can ask for a rule apply, none ever does.
LEMMA NobodyAppliesStep ==
  ASSUME "Apply" \notin Commands, EngineInv, LifecycleInv, [EngineNext]_allVars
  PROVE  NobodyApplies'
<1> USE DEF LifecycleInv, NobodyApplies, EngineInv, TypeOK, EngineTypeOK, At
<1>0. ~ClientCalls
  BY EngineAssumption
<1>1. ASSUME UNCHANGED <<caller, client>> PROVE NobodyApplies'
  BY <1>1
<1>2. ASSUME NEW c \in Callers, QueueStep(c) PROVE NobodyApplies'
  <2>1. UNCHANGED client
    BY <1>2 DEF QueueStep, engineVars, calls
  <2>2. /\ caller' = [caller EXCEPT ![c] = caller'[c]]
        /\ caller'[c].pc # "applying" /\ caller'[c].next # "applying"
    <3> USE DEF Call, Goto, Return, IdleCaller, CallerStates
    <3>1. CASE NewCall(c)
      BY <3>1 DEF NewCall, Connect, RequestOperation, ApplyUserRules
    <3>2. CASE PrepareSucceeds(c) \/ PrepareFails(c)
      BY <3>2 DEF PrepareSucceeds, PrepareFails
    <3>3. CASE StartStack(c)
      BY <3>3 DEF StartStack
    <3>4. CASE Reserve(c)
      BY <3>4 DEF Reserve
    <3>5. CASE PublishBusy(c) \/ Enqueue(c)
      BY <3>5 DEF PublishBusy, Enqueue
    <3>6. CASE ReleaseIfIdle(c) \/ Unpublish(c)
      BY <3>6 DEF ReleaseIfIdle, Unpublish
    <3> QED
      BY <1>2, <3>1, <3>2, <3>3, <3>4, <3>5, <3>6 DEF QueueStep
  <2> QED
    BY <2>1, <2>2
<1>3. ASSUME NEW c \in Callers,
             ApplyStep(c) \/ ConnectClient(c) \/ DisconnectClient(c) \/ ClientStep(c)
      PROVE  FALSE
  BY <1>0, <1>3 DEF ApplyStep, ApplyStages, ApplyReloads, ApplyEnds, ApplyReturns,
     ConnectClient, DisconnectClient, ClientStep, BypassClient, ConnectSideTunnel,
     RerouteClient
<1>4. ASSUME BodyStep PROVE UNCHANGED <<caller, client>>
  <2>1. UNCHANGED calls
    BY <1>4, BodyStepFits DEF BodyFits
  <2>2. UNCHANGED caller
    BY <1>4, BodyStepMoves DEF ExecuteStep, vars, Finish, Fail
  <2> QED
    BY <2>1, <2>2 DEF calls
<1>5. ASSUME StartOperation \/ EndOperation \/ WorkerTailStep PROVE UNCHANGED <<caller, client>>
  BY <1>5 DEF StartOperation, EndOperation, WorkerTailStep, Dequeue, ForgetPending,
     PublishFailure, ClearBusy, Unregister, calls, engineVars
<1>6. ASSUME (CancelOperation \/ WatchPrimaryEgress) /\ UNCHANGED engineVars
      PROVE  UNCHANGED <<caller, client>>
  BY <1>6 DEF CancelOperation, WatchPrimaryEgress, calls, engineVars
<1>7. ASSUME CoreDies \/ UNCHANGED allVars PROVE UNCHANGED <<caller, client>>
  BY <1>7 DEF CoreDies, allVars, calls, engineVars, vars
<1> QED
  BY <1>1, <1>2, <1>3, <1>4, <1>5, <1>6, <1>7 DEF EngineNext

\* Every step of an operation keeps what it has recorded and released so far.
LEMMA BodyStepOperation ==
  ASSUME EngineInv, OperationInv, BodyStep
  PROVE  OperationInv'
<1>0. WorkerAt("running") =>
        /\ worker.kind \in {"Start", "Resume", "Stop", "Pause", "Reconcile"}
        /\ step \in StepsOf(worker.kind)
  BY DEF EngineInv, QueueInv, QueueAccounting, HeldIsRegistered, WorkerAt, StepFitsKind,
     QueuedKinds
<1> USE <1>0 DEF OperationInv, OutcomeSoFar, ReleasedSinceCleanup, StartsWhileWorking,
        DisconnectReleases, FailedStartIsUndone, AllReleased, NetworkFree, Body, StepsOf,
        StartSteps, UndoSteps, Kind, Await, Done, Quiet, Announce, vars, net, WorkerAt
<1>1. ASSUME BeginOperation PROVE OperationInv'
  BY <1>1 DEF BeginOperation, Live
<1>2. ASSUME EnterReconcile \/ ProbeOwnedState PROVE OperationInv'
  BY <1>2 DEF EnterReconcile, ProbeOwnedState
<1>3. ASSUME CheckHelper PROVE OperationInv'
  BY <1>3 DEF CheckHelper, StartFails
<1>4. ASSUME StartEnabledClients PROVE OperationInv'
  BY <1>4 DEF StartEnabledClients, StartStep, StartFails
<1>5. ASSUME StageRuntime PROVE OperationInv'
  BY <1>5 DEF StageRuntime, StartStep, StartFails
<1>6. ASSUME WaitForReadiness PROVE OperationInv'
  BY <1>6 DEF WaitForReadiness, StartStep, StartFails
<1>7. ASSUME StartCore PROVE OperationInv'
  BY <1>7 DEF StartCore, StartFails
<1>8. ASSUME ConfirmCoreAndTun \/ PublishRunning PROVE OperationInv'
  BY <1>8 DEF ConfirmCoreAndTun, PublishRunning, StartFails
<1>9. ASSUME StopCore PROVE OperationInv'
  BY <1>9 DEF StopCore
<1>10. ASSUME CleanUp PROVE OperationInv'
  BY <1>10 DEF CleanUp
<1>11. ASSUME CheckTun PROVE OperationInv'
  BY <1>11 DEF CheckTun, Released
<1>12. ASSUME VerifyNotIntercepting PROVE OperationInv'
  BY <1>12 DEF VerifyNotIntercepting
<1>13. ASSUME ReturnOk \/ ReturnError \/ TimeOut PROVE OperationInv'
  <2> USE DEF EngineInv, TypeOK, WorkerStates, WorkerGoto
  <2>1. CASE ReturnOk
    <3>1. /\ worker.pc = "running" /\ worker'.kind = worker.kind /\ step' = "none"
          /\ worker'.pc = "clear" /\ step = "done" /\ UNCHANGED <<err, net>>
      BY <2>1 DEF ReturnOk, Finish
    <3> QED
      BY <3>1
  <2>2. CASE ReturnError
    <3>1. /\ worker'.pc = "failed" /\ step' = "none" /\ UNCHANGED <<err, net>>
          /\ err \notin {"Ok", "Cancelled"} /\ worker'.kind = worker.kind
          /\ worker.pc = "running" /\ step = "done"
      BY <2>2 DEF ReturnError, Fail
    <3> QED
      BY <3>1
  <2>3. CASE TimeOut
    <3>1. worker'.pc = "failed" /\ step' = "none" /\ err' = "Timeout"
      BY <2>3 DEF TimeOut, Fail
    <3> QED
      BY <3>1
  <2> QED
    BY <1>13, <2>1, <2>2, <2>3
<1> QED
  BY <1>1, <1>2, <1>3, <1>4, <1>5, <1>6, <1>7, <1>8, <1>9, <1>10, <1>11, <1>12, <1>13
     DEF BodyStep

\* Every step keeps the inductive invariant of the lifecycle.
LEMMA LifecycleStep ==
  ASSUME "Apply" \notin Commands, EngineInv, LifecycleInv, [EngineNext]_allVars
  PROVE  LifecycleInv'
<1>0. NobodyApplies'
  BY NobodyAppliesStep
<1> SUFFICES OperationInv'
  BY <1>0 DEF LifecycleInv, OperationInv
<1>1. OperationInv
  BY DEF LifecycleInv, OperationInv
<1> USE <1>1 DEF OutcomeSoFar, ReleasedSinceCleanup, StartsWhileWorking,
        DisconnectReleases, FailedStartIsUndone, AllReleased, NetworkFree, Kind, WorkerAt
<1>2. ASSUME UNCHANGED <<phase, worker, engineVars>> PROVE OperationInv'
  BY <1>2 DEF OperationInv, engineVars, body, net
<1>3. ASSUME NEW c \in Callers, QueueStep(c) PROVE OperationInv'
  <2>1. UNCHANGED phase
    BY <1>3 DEF QueueStep, NewCall, Connect, RequestOperation, ApplyUserRules,
       PrepareSucceeds, PrepareFails, StartStack, Reserve, PublishBusy, Enqueue,
       ReleaseIfIdle, Unpublish
  <2> QED
    BY <1>2, <1>3, <2>1, QueueStepFrame
<1>4. ASSUME NEW c \in Callers,
             ApplyStep(c) \/ ConnectClient(c) \/ DisconnectClient(c) \/ ClientStep(c)
      PROVE  FALSE
  BY <1>4, EngineAssumption
     DEF LifecycleInv, NobodyApplies, ApplyStep, ApplyStages, ApplyReloads, ApplyEnds,
         ApplyReturns, ConnectClient, DisconnectClient, ClientStep, BypassClient,
         ConnectSideTunnel, RerouteClient, At
<1>5. ASSUME BodyStep PROVE OperationInv'
  BY <1>5, BodyStepOperation
<1>6. ASSUME StartOperation PROVE OperationInv'
  BY <1>6 DEF StartOperation, Dequeue, OperationInv, net, StartSteps
<1>7. ASSUME EndOperation PROVE OperationInv'
  <2>1. worker.pc = "forget" /\ worker'.pc = "idle" /\ err' = "None" /\ step' = step
          /\ UNCHANGED <<phase, net>> /\ step = "none"
    BY <1>7 DEF EndOperation, ForgetPending, IdleWorker, EngineInv, StepFitsKind
  <2> QED
    BY <2>1 DEF OperationInv, net
<1>8. ASSUME WorkerTailStep PROVE OperationInv'
  <2>1. /\ worker'.kind = worker.kind /\ UNCHANGED engineVars
        /\ \/ (worker.pc = "failed" /\ worker'.pc = "clear")
           \/ worker'.pc \in {"unregister", "forget"}
        /\ step = "none"
    <3>1. UNCHANGED engineVars /\ (PublishFailure \/ ClearBusy \/ Unregister)
      BY <1>8 DEF WorkerTailStep
    <3>2. worker \in WorkerStates /\ (worker.pc # "running" => step = "none")
      BY DEF EngineInv, EngineTypeOK, TypeOK, StepFitsKind
    <3>3. \/ (worker.pc = "failed" /\ worker' = [worker EXCEPT !.pc = "clear"])
          \/ (worker.pc = "clear" /\ worker' = [worker EXCEPT !.pc = "unregister"])
          \/ (worker.pc = "unregister" /\ worker' = [worker EXCEPT !.pc = "forget"])
      BY <3>1 DEF PublishFailure, ClearBusy, Unregister, WorkerGoto
    <3> QED
      BY <3>1, <3>2, <3>3 DEF WorkerStates
  <2> QED
    BY <2>1 DEF OperationInv, engineVars, body, net, StartSteps
<1>9. ASSUME (CancelOperation \/ WatchPrimaryEgress) /\ UNCHANGED engineVars
      PROVE  OperationInv'
  <2>1. UNCHANGED worker /\ (UNCHANGED phase \/ {phase, phase'} \subseteq Live)
    BY <1>9 DEF CancelOperation, WatchPrimaryEgress
  <2> QED
    BY <1>2, <1>9, <2>1 DEF OperationInv, engineVars, body, net, Live
<1>10. ASSUME CoreDies PROVE OperationInv'
  BY <1>10 DEF CoreDies, OperationInv, vars, body
<1>11. ASSUME UNCHANGED allVars PROVE OperationInv'
  BY <1>2, <1>11 DEF allVars, vars
<1> QED
  BY <1>3, <1>4, <1>5, <1>6, <1>7, <1>8, <1>9, <1>10, <1>11 DEF EngineNext

\* The inductive invariant of the lifecycle, where no caller applies rules.
LEMMA LifecycleHolds ==
  ASSUME "Apply" \notin Commands
  PROVE  EngineSpec => [](EngineInv /\ LifecycleInv)
<1>1. EngineInit => LifecycleInv
  BY EngineAssumption
     DEF EngineInit, Init, LifecycleInv, NobodyApplies, OutcomeSoFar, ReleasedSinceCleanup,
         StartsWhileWorking, DisconnectReleases, FailedStartIsUndone, WorkerAt, At,
         IdleWorker, IdleCaller, StartSteps
<1>2. EngineInv /\ LifecycleInv /\ [EngineNext]_allVars => LifecycleInv'
  BY LifecycleStep
<1> QED
  BY <1>1, <1>2, EngineInvariantHolds, PTL DEF EngineSpec

\* run_stop: a disconnect that ends in success has stopped the owned Mihomo and
\* side tunnels and released TUN, routes and DNS, whatever it was queued behind
\* and whatever failed, timed out or was cancelled before it.
THEOREM DisconnectIsComplete ==
  ASSUME "Apply" \notin Commands
  PROVE  EngineSpec => []DisconnectReleases
<1>1. LifecycleInv => DisconnectReleases
  BY DEF LifecycleInv
<1> QED
  BY <1>1, LifecycleHolds, PTL

\* run_start, run_resume, rollback and rollback_pause: a start that is
\* cancelled, or not ready in time, leaves nothing of itself.
THEOREM UndoIsComplete ==
  ASSUME "Apply" \notin Commands
  PROVE  EngineSpec => []FailedStartIsUndone
<1>1. LifecycleInv => FailedStartIsUndone
  BY DEF LifecycleInv
<1> QED
  BY <1>1, LifecycleHolds, PTL

\* Only start_core starts a Mihomo or captures traffic, only the client step
\* starts a side tunnel, and both run in a passing phase.
LEMMA StoppedStepKeeps ==
  ASSUME "Apply" \notin Commands, EngineInv, LifecycleInv, [EngineNext]_allVars,
         phase = "Stopped"
  PROVE  (NetworkFree => NetworkFree') /\ (~tunnel => ~tunnel')
<1> USE DEF NetworkFree
<1>1. ASSUME UNCHANGED net PROVE (NetworkFree => NetworkFree') /\ (~tunnel => ~tunnel')
  BY <1>1 DEF net
<1>2. ASSUME NEW c \in Callers, QueueStep(c) PROVE UNCHANGED net
  BY <1>2, QueueStepFrame DEF engineVars
<1>3. ASSUME NEW c \in Callers,
             ApplyStep(c) \/ ConnectClient(c) \/ DisconnectClient(c) \/ ClientStep(c)
      PROVE  FALSE
  BY <1>3, EngineAssumption
     DEF LifecycleInv, NobodyApplies, ApplyStep, ApplyStages, ApplyReloads, ApplyEnds,
         ApplyReturns, ConnectClient, DisconnectClient, ClientStep, BypassClient,
         ConnectSideTunnel, RerouteClient, At
<1>4. ASSUME BodyStep PROVE (NetworkFree => NetworkFree') /\ (~tunnel => ~tunnel')
  <2>1. step \notin {"clients", "stage", "core"}
    BY DEF LifecycleInv, StartsWhileWorking
  <2>2. ~StartEnabledClients /\ ~StageRuntime /\ ~StartCore
    BY <2>1 DEF StartEnabledClients, StageRuntime, StartCore, StartStep, Body
  <2>3. ASSUME BeginOperation \/ EnterReconcile \/ ProbeOwnedState \/ CheckHelper
                 \/ WaitForReadiness \/ ConfirmCoreAndTun \/ PublishRunning
                 \/ CheckTun \/ VerifyNotIntercepting \/ ReturnOk \/ ReturnError
        PROVE  UNCHANGED net
    BY <2>3 DEF BeginOperation, EnterReconcile, ProbeOwnedState, CheckHelper,
       WaitForReadiness, ConfirmCoreAndTun, PublishRunning, CheckTun,
       VerifyNotIntercepting, ReturnOk, ReturnError
  <2>4. CASE StopCore \/ CleanUp
    <3>1. (core' = core \/ core' = FALSE) /\ (capture' = capture \/ capture' = FALSE)
      BY <2>4 DEF StopCore, CleanUp, TakenDown
    <3>2. tunnel' = tunnel \/ tunnel' = FALSE
      BY <2>4 DEF StopCore, CleanUp
    <3> QED
      BY <3>1, <3>2
  <2>5. CASE TimeOut
    <3>1. CASE step = "stop_core"
      BY <2>5, <3>1 DEF TimeOut, TakenDown
    <3>2. CASE step = "clean"
      BY <2>5, <3>2 DEF TimeOut, TakenDown
    <3>3. CASE step \notin {"stop_core", "clean"}
      <4>1. UNCHANGED net
        BY <2>1, <2>5, <3>3 DEF TimeOut
      <4> QED
        BY <1>1, <4>1
    <3> QED
      BY <3>1, <3>2, <3>3
  <2> QED
    BY <1>1, <1>4, <2>2, <2>3, <2>4, <2>5 DEF BodyStep
<1>5. ASSUME StartOperation \/ EndOperation \/ WorkerTailStep
               \/ ((CancelOperation \/ WatchPrimaryEgress) /\ UNCHANGED engineVars)
               \/ UNCHANGED allVars
      PROVE  UNCHANGED net
  BY <1>5 DEF StartOperation, EndOperation, WorkerTailStep, engineVars, allVars
<1>6. CASE CoreDies
  BY <1>6 DEF CoreDies
<1> QED
  BY <1>1, <1>2, <1>3, <1>4, <1>5, <1>6 DEF EngineNext

\* A machine that was released stays released for as long as the stack says
\* Stopped: no late step of an operation brings Mihomo or its TUN back.
THEOREM StoppedMachineStaysReleased ==
  ASSUME "Apply" \notin Commands
  PROVE  EngineSpec => StoppedStaysReleased
<1>1. EngineInv /\ LifecycleInv /\ [EngineNext]_allVars
      => [phase = "Stopped" /\ phase' = "Stopped" /\ NetworkFree => NetworkFree']_allVars
  BY StoppedStepKeeps
<1> QED
  BY <1>1, LifecycleHolds, PTL DEF EngineSpec, StoppedStaysReleased

\* Nor does one bring a side tunnel up.
THEOREM StoppedMachineStartsNoTunnel ==
  ASSUME "Apply" \notin Commands
  PROVE  EngineSpec => StoppedStartsNoTunnel
<1>1. EngineInv /\ LifecycleInv /\ [EngineNext]_allVars
      => [phase = "Stopped" /\ phase' = "Stopped" /\ ~tunnel => ~tunnel']_allVars
  BY StoppedStepKeeps
<1> QED
  BY <1>1, LifecycleHolds, PTL DEF EngineSpec, StoppedStartsNoTunnel

-----------------------------------------------------------------------------
(* The two sequences of the desktop process.                               *)

\* Where no operation is about to start something, the phase Stopped is a
\* promise: only a clean report, a TUN found down after one, or a status that
\* was read publishes it.
StoppedIsFree == phase = "Stopped" => NetworkFree

\* Stopped is published by a reconciliation that found nothing, by a clean
\* report and by an operation that is told that the TUN is down.
LEMMA WhoPublishesStopped ==
  ASSUME EngineInv, LifecycleInv, BodyStep, StatusIsRead,
         phase # "Stopped", phase' = "Stopped"
  PROVE  NetworkFree'
<1> USE DEF NetworkFree, Announce, Quiet, vars, net, Body
<1>1. ASSUME BeginOperation PROVE FALSE
  <2>1. worker.kind \in {"Start", "Resume", "Stop", "Pause", "Reconcile"}
    BY <1>1 DEF BeginOperation, EngineInv, QueueInv, QueueAccounting, HeldIsRegistered,
       WorkerAt, QueuedKinds
  <2> QED
    BY <1>1, <2>1 DEF BeginOperation, Kind
<1>2. ASSUME EnterReconcile \/ CheckHelper \/ StageRuntime \/ StartEnabledClients
               \/ WaitForReadiness \/ StartCore \/ ConfirmCoreAndTun
               \/ PublishRunning \/ StopCore \/ VerifyNotIntercepting
      PROVE  FALSE
  BY <1>2 DEF EnterReconcile, CheckHelper, StageRuntime, StartEnabledClients,
     WaitForReadiness, StartCore, ConfirmCoreAndTun, PublishRunning, StopCore,
     VerifyNotIntercepting, StartStep, StartFails
<1>3. ASSUME ProbeOwnedState PROVE NetworkFree'
  BY <1>3 DEF ProbeOwnedState, StatusIsRead
<1>4. ASSUME CleanUp PROVE NetworkFree'
  BY <1>4 DEF CleanUp
<1>5. ASSUME CheckTun PROVE NetworkFree'
  BY <1>5 DEF CheckTun, LifecycleInv, ReleasedSinceCleanup, AllReleased
<1>6. ASSUME ReturnOk \/ ReturnError \/ TimeOut PROVE FALSE
  BY <1>6 DEF ReturnOk, ReturnError, TimeOut, Finish, Fail
<1> QED
  BY <1>1, <1>2, <1>3, <1>4, <1>5, <1>6 DEF BodyStep

\* The promise is kept by every step of the engine: nothing is started in the
\* phase Stopped, and it is published on a free machine only.
LEMMA StoppedIsFreeStep ==
  ASSUME "Apply" \notin Commands, EngineInv, LifecycleInv, [EngineNext]_allVars,
         StatusIsRead, StoppedIsFree
  PROVE  StoppedIsFree'
<1> SUFFICES ASSUME phase' = "Stopped" PROVE NetworkFree'
  BY DEF StoppedIsFree
<1>1. CASE phase = "Stopped"
  BY <1>1, StoppedStepKeeps DEF StoppedIsFree
<1>2. CASE phase # "Stopped"
  <2>1. CASE BodyStep
    BY <1>2, <2>1, WhoPublishesStopped
  <2>2. ASSUME NEW c \in Callers, QueueStep(c) PROVE FALSE
    BY <1>2, <2>2 DEF QueueStep, NewCall, Connect, RequestOperation, ApplyUserRules,
       PrepareSucceeds, PrepareFails, StartStack, Reserve, PublishBusy, Enqueue,
       ReleaseIfIdle, Unpublish
  <2>3. ASSUME NEW c \in Callers,
               ApplyStep(c) \/ ConnectClient(c) \/ DisconnectClient(c) \/ ClientStep(c)
        PROVE  FALSE
    BY <2>3, EngineAssumption
       DEF LifecycleInv, NobodyApplies, ApplyStep, ApplyStages, ApplyReloads, ApplyEnds,
           ApplyReturns, ConnectClient, DisconnectClient, ClientStep, BypassClient,
           ConnectSideTunnel, RerouteClient, At
  <2>4. ASSUME \/ StartOperation \/ EndOperation \/ CoreDies \/ UNCHANGED allVars
               \/ CancelOperation
        PROVE  FALSE
    BY <1>2, <2>4 DEF StartOperation, EndOperation, CoreDies, Dequeue, ForgetPending,
       CancelOperation, allVars, vars
  <2>5. ASSUME WorkerTailStep \/ WatchPrimaryEgress PROVE FALSE
    BY <1>2, <2>5 DEF WorkerTailStep, PublishFailure, ClearBusy, Unregister,
       WatchPrimaryEgress, Live
  <2> QED
    BY <2>1, <2>2, <2>3, <2>4, <2>5 DEF EngineNext
<1> QED
  BY <1>1, <1>2

\* What the sequences do to the engine between two of its own steps: they make
\* a call of their own, or cancel the executed operation.
SequenceCalls ==
    {[pc |-> "reserve", want |-> "Stop", next |-> "enqueue"],
     [pc |-> "request", want |-> "Start", next |-> "none"]}
SequenceMoves ==
    /\ UNCHANGED <<phase, current, worker, lock, engineVars>>
    /\ cancelled' \in SUBSET OpIds
    /\ \/ UNCHANGED caller
       \/ \E c \in Callers, call \in SequenceCalls :
             caller' = [caller EXCEPT ![c] = call]

\* A step of one of the sequences is such a move, and moves on to a step of the
\* sequences; the process leaves having stopped the stack only in Stopped.
LEMMA SequenceStep ==
  ASSUME EngineInv, DesktopTypeOK, NEW c \in Callers,
         \/ Restart(c) \/ RestartStarts(c) \/ RestartFails(c)
         \/ Quit(c) \/ QuitCancels(c) \/ QuitStops(c) \/ QuitLeaves(c)
  PROVE  /\ SequenceMoves
         /\ flow' \in [Callers -> Flows]
         /\ exit = "no"
         /\ exit' \in {"no", "already", "failed"} \/ (exit' = "stopped" /\ phase = "Stopped")
<1>0. /\ flow \in [Callers -> Flows] /\ exit \in {"no", "already", "stopped", "failed"}
      /\ cancelled \in SUBSET OpIds /\ operations \in SUBSET OpIds
  BY DEF DesktopTypeOK, EngineTypeOK, TypeOK
<1> USE <1>0 DEF SequenceMoves, SequenceCalls, FlowGoto, Open, Flows
<1>1. ASSUME Restart(c) \/ QuitStops(c)
      PROVE  \E then \in {"restart_sent", "quit_sent"} : CallStop(c, then)
  BY <1>1 DEF Restart, QuitStops
<1>2. CASE Restart(c) \/ QuitStops(c)
  BY <1>1, <1>2 DEF CallStop, Call
<1>3. CASE RestartStarts(c)
  BY <1>3 DEF RestartStarts, Call
<1>4. CASE RestartFails(c) \/ Quit(c)
  BY <1>4 DEF RestartFails, Quit, allVars, vars, lock
<1>5. CASE QuitCancels(c)
  BY <1>5 DEF QuitCancels
<1>6. CASE QuitLeaves(c)
  BY <1>6 DEF QuitLeaves, Exit, allVars, vars, lock
<1> QED
  BY <1>2, <1>3, <1>4, <1>5, <1>6

\* Such a move keeps what is proved of the engine.
LEMMA SequenceKeeps ==
  ASSUME EngineInv, LifecycleInv, SequenceMoves
  PROVE  EngineInv' /\ LifecycleInv'
<1>0. /\ UNCHANGED <<phase, current, worker, lock, engineVars>>
      /\ cancelled' \in SUBSET OpIds
  BY DEF SequenceMoves
<1>1. \A c \in Callers : caller'[c] = caller[c] \/ caller'[c] \in SequenceCalls
  BY DEF SequenceMoves, EngineInv, EngineTypeOK, TypeOK
<1>2. caller' \in [Callers -> CallerStates]
  <2>1. SequenceCalls \subseteq CallerStates
    BY DEF SequenceCalls, CallerStates, Kinds, QueuedKinds
  <2> QED
    BY <2>1 DEF SequenceMoves, EngineInv, EngineTypeOK, TypeOK
<1>3. TypeOK'
  BY <1>0, <1>2 DEF EngineInv, QueueInv, TypeOK, lock
<1>4. CallsAreWellFormed'
  BY <1>1 DEF CallsAreWellFormed, EngineInv, QueueInv, SequenceCalls, Kinds, QueuedKinds
<1>5. QueueAccounting'
  BY <1>0, AccountingKept DEF EngineInv, lock
<1>6. EngineTypeOK' /\ StepFitsKind' /\ ClientsAreCalled'
  BY <1>0, <1>3 DEF EngineInv, EngineTypeOK, StepFitsKind, ClientsAreCalled, engineVars, body,
     calls, net, WorkerAt
<1>7. NobodyApplies'
  BY <1>0, <1>1 DEF LifecycleInv, NobodyApplies, SequenceCalls, At, engineVars, calls
<1>8. OutcomeSoFar' /\ ReleasedSinceCleanup' /\ StartsWhileWorking'
  BY <1>0 DEF LifecycleInv, OutcomeSoFar, ReleasedSinceCleanup, StartsWhileWorking,
     AllReleased, NetworkFree, Kind, WorkerAt, engineVars, body, net
<1>9. DisconnectReleases' /\ FailedStartIsUndone'
  BY <1>0 DEF LifecycleInv, DisconnectReleases, FailedStartIsUndone, AllReleased,
     NetworkFree, Kind, WorkerAt, engineVars, body, net
<1> QED
  BY <1>3, <1>4, <1>5, <1>6, <1>7, <1>8, <1>9 DEF EngineInv, QueueInv, LifecycleInv

\* The inductive invariant of the process.
DesktopInv ==
    EngineInv /\ LifecycleInv /\ DesktopInvariant /\ StoppedIsFree

LEMMA DesktopStep ==
  ASSUME "Apply" \notin Commands, DesktopInv, [DesktopNext]_desktopVars,
         [StatusIsRead]_desktopVars
  PROVE  DesktopInv'
<1>0. EngineInv /\ LifecycleInv /\ DesktopTypeOK /\ QuitLeavesNetworkFree /\ StoppedIsFree
  BY DEF DesktopInv, DesktopInvariant
<1>1. CASE UNCHANGED desktopVars
  <2>1. UNCHANGED <<allVars, flow, exit>>
    BY <1>1 DEF desktopVars
  <2>2. EngineInv' /\ LifecycleInv'
    BY <1>0, <2>1, EngineInvStep, LifecycleStep
  <2>3. UNCHANGED <<phase, core, capture, flow, exit>>
    BY <2>1 DEF allVars, vars, engineVars, net
  <2> QED
    BY <1>0, <2>2, <2>3 DEF DesktopInv, DesktopInvariant, DesktopTypeOK, EngineInv,
       QuitLeavesNetworkFree, StoppedIsFree, NetworkFree
<1>2. CASE EngineStep
  <2>1. [EngineNext]_allVars /\ exit = "no" /\ exit' = "no" /\ flow' = FlowAfterStep
    BY <1>2 DEF EngineStep, Open
  <2>2. EngineInv' /\ LifecycleInv'
    BY <1>0, <2>1, EngineInvStep, LifecycleStep
  <2>3. flow' \in [Callers -> Flows]
    BY <1>0, <2>1 DEF FlowAfterStep, DesktopTypeOK, Flows
  <2>4. StoppedIsFree'
    <3>1. CASE StatusIsRead
      BY <1>0, <2>1, <3>1, StoppedIsFreeStep
    <3>2. CASE UNCHANGED desktopVars
      BY <1>1, <3>2 DEF DesktopInv
    <3> QED
      BY <3>1, <3>2
  <2> QED
    BY <2>1, <2>2, <2>3, <2>4 DEF DesktopInv, DesktopInvariant, DesktopTypeOK, EngineInv,
       QuitLeavesNetworkFree
<1>3. ASSUME NEW c \in Callers,
             \/ Restart(c) \/ RestartStarts(c) \/ RestartFails(c)
             \/ Quit(c) \/ QuitCancels(c) \/ QuitStops(c) \/ QuitLeaves(c)
      PROVE  DesktopInv'
  <2>1. /\ SequenceMoves
        /\ flow' \in [Callers -> Flows]
        /\ exit' \in {"no", "already", "failed"} \/ (exit' = "stopped" /\ phase = "Stopped")
    BY <1>0, <1>3, SequenceStep
  <2>2. EngineInv' /\ LifecycleInv'
    BY <1>0, <2>1, SequenceKeeps
  <2>3. UNCHANGED <<phase, core, capture>>
    BY <2>1 DEF SequenceMoves, engineVars, net
  <2>4. StoppedIsFree' /\ QuitLeavesNetworkFree'
    BY <1>0, <2>1, <2>3 DEF StoppedIsFree, QuitLeavesNetworkFree, NetworkFree
  <2> QED
    BY <2>1, <2>2, <2>4 DEF DesktopInv, DesktopInvariant, DesktopTypeOK, EngineInv
<1> QED
  BY <1>1, <1>2, <1>3 DEF DesktopNext

\* release_owned_network: a process that has seen its own disconnect stop the
\* stack leaves with Mihomo gone and nothing capturing the machine's traffic,
\* whichever operations of however many callers it met, as long as no caller
\* applies rules and the startup reconciliation was told the truth.
THEOREM QuitFreesTheNetwork ==
  ASSUME "Apply" \notin Commands
  PROVE  DesktopSpec /\ [][StatusIsRead]_desktopVars => []DesktopInvariant
<1>1. DesktopInit => DesktopInv
  <2> SUFFICES ASSUME DesktopInit PROVE DesktopInv
    OBVIOUS
  <2>1. EngineInit /\ flow = [c \in Callers |-> "none"] /\ exit = "no"
    BY DEF DesktopInit
  <2>2. EngineInv
    BY <2>1, EngineInitInv
  <2>3. LifecycleInv
    BY <2>1, EngineAssumption
       DEF EngineInit, Init, LifecycleInv, NobodyApplies, OutcomeSoFar,
           ReleasedSinceCleanup, StartsWhileWorking, DisconnectReleases,
           FailedStartIsUndone, WorkerAt, At, IdleWorker, IdleCaller, StartSteps
  <2>4. phase = "Uninitialized"
    BY <2>1 DEF EngineInit, Init
  <2> QED
    BY <2>1, <2>2, <2>3, <2>4 DEF DesktopInv, DesktopInvariant, DesktopTypeOK, EngineInv,
       QuitLeavesNetworkFree, StoppedIsFree, Flows
<1>2. DesktopInv /\ [DesktopNext]_desktopVars /\ [StatusIsRead]_desktopVars => DesktopInv'
  BY DesktopStep
<1>3. DesktopInv => DesktopInvariant
  BY DEF DesktopInv
<1> QED
  BY <1>1, <1>2, <1>3, PTL DEF DesktopSpec
=============================================================================
