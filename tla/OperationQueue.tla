--------------------------- MODULE OperationQueue ---------------------------
(***************************************************************************)
(* The connection lock and operation queue of the engine                   *)
(* (crates/iran-split-core/src/lib.rs): reserve, accept, release_if_idle,  *)
(* cancel_operation and the worker that executes one queued operation at a *)
(* time.                                                                   *)
(*                                                                         *)
(* A step is the code between two points where another task can act: an    *)
(* await, or the release of a mutex.  One call of Engine::update is one    *)
(* step.  What an operation does to the machine is abstracted to "it may   *)
(* publish any phase" (ExecuteStep) and "it returns" (Succeed, Stopped,    *)
(* Fail, TimeOut); module Engine refines both.                             *)
(***************************************************************************)
EXTENDS Naturals, Sequences, FiniteSets

CONSTANTS
    Callers,        \* tasks that call the engine: UI and tray commands, loops
    StartupCaller,  \* the setup task, which queues startup reconciliation
    Commands,       \* the engine calls the callers make
    OpIds,          \* operation identifiers (Uuid::new_v4); one is reused only
                    \* when nothing refers to it any more
    NoOp,           \* None, in Option<Uuid>
    QueueCapacity   \* capacity of the mpsc channel

AllCommands == {"Connect", "Stop", "Pause", "Resume", "Apply", "Cancel"}

\* OperationKind.  LifecycleBusy is in bijection with it (as_kind and busy),
\* so the snapshot's busy field holds a kind.
QueuedKinds == {"Reconcile", "Start", "Stop", "Pause", "Resume"}
Kinds == QueuedKinds \cup {"ApplyRules"}

\* StackPhase, as far as the lock looks at it: "Working" stands for the phases
\* an operation passes through (StartingClient .. CheckingReadiness, Stopping
\* and Recovering).
Phases == {"Uninitialized", "Stopped", "Working", "Running", "Degraded",
           "Paused", "Error"}

Live == {"Running", "Degraded"}

ASSUME QueueAssumption ==
    /\ StartupCaller \in Callers
    /\ Commands \subseteq AllCommands
    /\ NoOp \notin OpIds
    /\ QueueCapacity \in Nat
    /\ QueueCapacity >= Cardinality(QueuedKinds)

VARIABLES
    phase,       \* snapshot.phase
    busy,        \* snapshot.busy, "None" when the lifecycle lock is free
    current,     \* snapshot.operation_id
    pending,     \* Engine.pending: the operation registered for each kind
    operations,  \* keys of Engine.operations
    cancelled,   \* operations whose CancellationToken is cancelled
    queue,       \* the channel: a sequence of work items
    worker,      \* the worker task: where it is and the item it holds
    caller       \* each calling task: where it is in which engine call

lock == <<busy, pending, operations, queue>>
vars == <<phase, busy, current, pending, operations, cancelled, queue,
          worker, caller>>

IdleWorker == [pc |-> "idle", id |-> NoOp, kind |-> "None", keep |-> FALSE]
IdleCaller == [pc |-> "idle", want |-> "None", next |-> "none"]

WorkItems == [id : OpIds, kind : QueuedKinds]
CallerStates ==
    [pc : {"idle", "prepare", "request", "reserve", "publish", "enqueue",
           "applying", "release", "unpublish"},
     want : Kinds \cup {"None"},
     next : {"none", "prepare", "enqueue", "applying"}]
WorkerStates ==
    [pc : {"idle", "running", "failed", "clear", "unregister", "forget"},
     id : OpIds \cup {NoOp}, kind : QueuedKinds \cup {"None"}, keep : BOOLEAN]

\* The types of the snapshot fields, the three records, the worker and the calls.
TypeOK ==
    /\ phase \in Phases
    /\ busy \in Kinds \cup {"None"}
    /\ current \in OpIds \cup {NoOp}
    /\ pending \in [QueuedKinds -> OpIds \cup {NoOp}]
    /\ operations \in SUBSET OpIds
    /\ cancelled \in SUBSET OpIds
    /\ queue \in Seq(WorkItems)
    /\ worker \in WorkerStates
    /\ caller \in [Callers -> CallerStates]

\* Application setup: nothing is queued and the setup task has just called
\* reconcile_startup.
Init ==
    /\ phase = "Uninitialized"
    /\ busy = "None"
    /\ current = NoOp
    /\ pending = [k \in QueuedKinds |-> NoOp]
    /\ operations = {}
    /\ cancelled = {}
    /\ queue = <<>>
    /\ worker = IdleWorker
    /\ caller = [c \in Callers |->
                    IF c = StartupCaller
                    THEN [pc |-> "reserve", want |-> "Reconcile",
                          next |-> "enqueue"]
                    ELSE IdleCaller]

PendingEmpty == \A k \in QueuedKinds : pending[k] = NoOp
IsPending(k) == k \in QueuedKinds /\ pending[k] # NoOp
FreshIds == OpIds \ (operations \cup {pending[k] : k \in QueuedKinds}
                       \cup {current})

At(c, where) == caller[c].pc = where
Goto(c, where) == caller' = [caller EXCEPT ![c].pc = where]
Return(c) == caller' = [caller EXCEPT ![c] = IdleCaller]
Call(c, where, kind, then) ==
    caller' = [caller EXCEPT ![c] = [pc |-> where, want |-> kind,
                                     next |-> then]]

-----------------------------------------------------------------------------
(* Engine calls, up to the shared reservation.                             *)

\* Connect: the desktop reserves the lock before its prepare step (dependency
\* and helper installation), unless the stack already runs.
Connect(c) ==
    /\ "Connect" \in Commands /\ At(c, "idle")
    /\ phase # "Running"
    /\ Call(c, "reserve", "Start", "prepare")
    /\ UNCHANGED <<phase, current, cancelled, worker, lock>>

PrepareSucceeds(c) ==
    /\ At(c, "prepare")
    /\ Goto(c, "request")
    /\ UNCHANGED <<phase, current, cancelled, worker, lock>>

PrepareFails(c) ==
    /\ At(c, "prepare")
    /\ Goto(c, "release")
    /\ UNCHANGED <<phase, current, cancelled, worker, lock>>

\* start_stack: refused under another operation's lock, complete when the
\* stack runs already, else accepted.
StartStack(c) ==
    /\ At(c, "request")
    /\ IF busy \notin {"None", "Start"} THEN Return(c)
       ELSE IF phase = "Running" THEN Goto(c, "release")
       ELSE Call(c, "reserve", "Start", "enqueue")
    /\ UNCHANGED <<phase, current, cancelled, worker, lock>>

\* stop_stack, pause_stack and resume_stack, when they reach accept: the lock
\* is free or theirs and the call has something to do.
MustAccept(kind) ==
    /\ busy \in {"None", kind}
    /\ CASE kind = "Stop" -> ~(phase = "Stopped" /\ operations = {})
         [] kind = "Pause" ->
              ~(phase \in {"Paused", "Stopped", "Uninitialized"}
                  /\ operations = {})
         [] kind = "Resume" -> phase = "Paused"

RequestOperation(c) ==
    /\ At(c, "idle")
    /\ \E kind \in Commands \cap {"Stop", "Pause", "Resume"} :
          /\ MustAccept(kind)
          /\ Call(c, "reserve", kind, "enqueue")
    /\ UNCHANGED <<phase, current, cancelled, worker, lock>>

\* apply_user_rules: only a live stack is reloaded, in the caller's own task.
ApplyUserRules(c) ==
    /\ "Apply" \in Commands /\ At(c, "idle")
    /\ phase \in Live
    /\ Call(c, "reserve", "ApplyRules", "applying")
    /\ UNCHANGED <<phase, current, cancelled, worker, lock>>

\* run_apply_rules returned, failed, or ran out of its 30 seconds.
ApplyReturns(c) ==
    /\ At(c, "applying")
    /\ Goto(c, "release")
    /\ UNCHANGED <<phase, current, cancelled, worker, lock>>

CancelOperation ==
    /\ "Cancel" \in Commands
    /\ current \in operations
    /\ cancelled' = cancelled \cup {current}
    /\ UNCHANGED <<phase, current, worker, caller, lock>>

-----------------------------------------------------------------------------
(* The shared reservation.                                                 *)

ReserveRefused(kind) ==
    /\ ~IsPending(kind)
    /\ ~PendingEmpty \/ busy \notin {"None", kind}

\* Mutation of Reserve: waits for the lock instead of refusing.
ReserveWaits(c) ==
    /\ At(c, "reserve")
    /\ ~ReserveRefused(caller[c].want)
    /\ IF IsPending(caller[c].want) \/ busy = caller[c].want
       THEN Goto(c, caller[c].next) ELSE Goto(c, "publish")
    /\ UNCHANGED <<phase, current, cancelled, worker, lock>>

\* reserve: decided under the pending lock, which is then released before
\* the busy flag is published.
Reserve(c) ==
    /\ At(c, "reserve")
    /\ LET kind == caller[c].want IN
       IF ReserveRefused(kind) THEN Return(c)
       ELSE IF IsPending(kind) \/ busy = kind THEN Goto(c, caller[c].next)
       ELSE Goto(c, "publish")
    /\ UNCHANGED <<phase, current, cancelled, worker, lock>>

PublishBusy(c) ==
    /\ At(c, "publish")
    /\ busy' = caller[c].want
    /\ Goto(c, caller[c].next)
    /\ UNCHANGED <<phase, current, pending, operations, cancelled, queue,
                   worker>>

\* Mutation of Enqueue: relies on reserve's look at the pending map.
EnqueueUnchecked(c) ==
    /\ At(c, "enqueue")
    /\ Len(queue) < QueueCapacity
    /\ \E id \in FreshIds :
          /\ operations' = operations \cup {id}
          /\ cancelled' = cancelled \ {id}
          /\ pending' = [pending EXCEPT ![caller[c].want] = id]
          /\ queue' = Append(queue, [id |-> id, kind |-> caller[c].want])
    /\ Return(c)
    /\ UNCHANGED <<phase, busy, current, worker>>

\* The rest of accept, under the pending lock throughout: an operation of the
\* same kind is returned, else a new one is registered and sent.
Enqueue(c) ==
    /\ At(c, "enqueue")
    /\ LET kind == caller[c].want IN
       \/ /\ IsPending(kind)
          /\ UNCHANGED <<pending, operations, cancelled, queue>>
       \/ /\ ~IsPending(kind)
          /\ Len(queue) < QueueCapacity
          /\ \E id \in FreshIds :
                /\ operations' = operations \cup {id}
                /\ cancelled' = cancelled \ {id}
                /\ pending' = [pending EXCEPT ![kind] = id]
                /\ queue' = Append(queue, [id |-> id, kind |-> kind])
    /\ Return(c)
    /\ UNCHANGED <<phase, busy, current, worker>>

\* release_if_idle: the pending lock is held for the test only.
ReleaseIfIdle(c) ==
    /\ At(c, "release")
    /\ IF PendingEmpty THEN Goto(c, "unpublish") ELSE Return(c)
    /\ UNCHANGED <<phase, current, cancelled, worker, lock>>

Unpublish(c) ==
    /\ At(c, "unpublish")
    /\ busy' = IF busy = caller[c].want /\ current = NoOp THEN "None" ELSE busy
    /\ Return(c)
    /\ UNCHANGED <<phase, current, pending, operations, cancelled, queue,
                   worker>>

-----------------------------------------------------------------------------
(* The worker.                                                             *)

WorkerAt(where) == worker.pc = where
WorkerGoto(where) == worker' = [worker EXCEPT !.pc = where]

Dequeue ==
    /\ WorkerAt("idle") /\ queue # <<>>
    /\ worker' = [pc |-> "running", id |-> Head(queue).id,
                  kind |-> Head(queue).kind, keep |-> FALSE]
    /\ queue' = Tail(queue)
    /\ UNCHANGED <<phase, busy, current, pending, operations, cancelled,
                   caller>>

\* The operation publishes a phase, with or without its identifier.
ExecuteStep ==
    /\ WorkerAt("running")
    /\ phase' \in Phases
    /\ current' \in {current, worker.id, NoOp}
    /\ UNCHANGED <<cancelled, worker, caller, lock>>

\* Ok, or Err(Cancelled), which is not reported as a failure.
Finish ==
    /\ WorkerAt("running")
    /\ WorkerGoto("clear")
    /\ UNCHANGED <<phase, current, cancelled, caller, lock>>

\* Any other error; a timeout also cancels the token.  The worker looks at
\* the phase, then waits for the runtime health it will publish.
Fail ==
    /\ WorkerAt("running")
    /\ cancelled' \in {cancelled, cancelled \cup {worker.id}}
    /\ worker' = [worker EXCEPT !.pc = "failed",
                    !.keep = worker.kind = "Resume" /\ phase = "Paused"]
    /\ UNCHANGED <<phase, current, caller, lock>>

\* Mutation of PublishFailure: goes back to the channel, past the clean-up.
PublishFailureAndContinue ==
    /\ WorkerAt("failed")
    /\ phase' = IF worker.keep THEN "Paused" ELSE "Error"
    /\ worker' = IdleWorker
    /\ UNCHANGED <<current, cancelled, caller, lock>>

\* Mutation of PublishFailure: records the error without its phase.
PublishFailureKeepsPhase ==
    /\ WorkerAt("failed")
    /\ WorkerGoto("clear")
    /\ UNCHANGED <<phase, current, cancelled, caller, lock>>

PublishFailure ==
    /\ WorkerAt("failed")
    /\ phase' = IF worker.keep THEN "Paused" ELSE "Error"
    /\ WorkerGoto("clear")
    /\ UNCHANGED <<current, cancelled, caller, lock>>

ClearBusy ==
    /\ WorkerAt("clear")
    /\ current' = NoOp
    /\ busy' = "None"
    /\ WorkerGoto("unregister")
    /\ UNCHANGED <<phase, pending, operations, cancelled, queue, caller>>

Unregister ==
    /\ WorkerAt("unregister")
    /\ operations' = operations \ {worker.id}
    /\ cancelled' = cancelled \ {worker.id}  \* the token goes with its record
    /\ WorkerGoto("forget")
    /\ UNCHANGED <<phase, busy, current, pending, queue, caller>>

ForgetPending ==
    /\ WorkerAt("forget")
    /\ pending' = [pending EXCEPT ![worker.kind] = NoOp]
    /\ worker' = IdleWorker
    /\ UNCHANGED <<phase, busy, current, operations, cancelled, queue, caller>>

\* The egress watchdog moves a live stack between Running and Degraded.
WatchPrimaryEgress ==
    /\ phase \in Live
    /\ phase' \in Live
    /\ UNCHANGED <<current, cancelled, worker, caller, lock>>

-----------------------------------------------------------------------------

CallerStep(c) ==
    \/ PrepareSucceeds(c) \/ PrepareFails(c)
    \/ StartStack(c) \/ ApplyReturns(c)
    \/ Reserve(c) \/ PublishBusy(c) \/ Enqueue(c)
    \/ ReleaseIfIdle(c) \/ Unpublish(c)

NewCall(c) == Connect(c) \/ RequestOperation(c) \/ ApplyUserRules(c)

WorkerReturns == Finish \/ Fail

WorkerTail == PublishFailure \/ ClearBusy \/ Unregister \/ ForgetPending

Next ==
    \/ \E c \in Callers : NewCall(c) \/ CallerStep(c)
    \/ CancelOperation
    \/ Dequeue \/ ExecuteStep \/ WorkerReturns \/ WorkerTail
    \/ WatchPrimaryEgress

Spec == Init /\ [][Next]_vars

\* The runtime schedules every ready task, a queued operation has a timeout,
\* an apply has a timeout, and a prepare step ends.
Fairness ==
    /\ \A c \in Callers : WF_vars(CallerStep(c))
    /\ WF_vars(Dequeue) /\ WF_vars(WorkerReturns) /\ WF_vars(WorkerTail)

FairSpec == Spec /\ Fairness

-----------------------------------------------------------------------------
(* Properties.                                                             *)

\* Every item in the channel is the registered operation of its kind.
QueuedIsRegistered ==
    \A i \in 1..Len(queue) :
       /\ pending[queue[i].kind] = queue[i].id
       /\ queue[i].id \in operations

\* The item the worker holds stays registered until its tail removes it.
HeldIsRegistered ==
    worker.pc # "idle" =>
       /\ worker.kind \in QueuedKinds
       /\ pending[worker.kind] = worker.id
       /\ worker.id \in OpIds
       /\ worker.id \in operations <=> worker.pc # "forget"

\* No kind is in the channel twice, or in the channel and with the worker.
OneItemPerKind ==
    /\ \A i, j \in 1..Len(queue) : queue[i].kind = queue[j].kind => i = j
    /\ worker.pc # "idle" =>
          \A i \in 1..Len(queue) : queue[i].kind # worker.kind

\* A registered kind has an item somewhere: nobody waits for a lost request.
PendingIsHeld ==
    \A k \in QueuedKinds : pending[k] # NoOp =>
       \/ worker.pc # "idle" /\ worker.kind = k
       \/ \E i \in 1..Len(queue) : queue[i].kind = k

OperationsArePending ==
    \A id \in operations : \E k \in QueuedKinds : pending[k] = id

DistinctIds ==
    \A k, l \in QueuedKinds :
       pending[k] # NoOp /\ pending[k] = pending[l] => k = l

\* The three records of an accepted operation (channel or worker, operations
\* map, pending map) agree whatever callers, worker and cancellations
\* interleave, although accept fills and the worker empties them one by one.
QueueAccounting ==
    /\ QueuedIsRegistered
    /\ HeldIsRegistered
    /\ OneItemPerKind
    /\ PendingIsHeld
    /\ OperationsArePending
    /\ DistinctIds

\* A call that will be queued names a queued kind, and a reservation knows what
\* it is made for.
CallsAreWellFormed ==
    \A c \in Callers :
       /\ caller[c].pc \in {"reserve", "publish"} =>
             /\ caller[c].want \in Kinds
             /\ caller[c].next # "none"
       /\ caller[c].pc = "enqueue" \/ caller[c].next = "enqueue" =>
             caller[c].want \in QueuedKinds

\* The inductive invariant.
QueueInv == TypeOK /\ CallsAreWellFormed /\ QueueAccounting

\* accept sends while it holds the pending lock, which the worker needs to
\* finish: a full channel would be a deadlock.  The channel never holds more
\* items than there are registered kinds.
QueueWithinKinds ==
    Len(queue) <= Cardinality({k \in QueuedKinds : pending[k] # NoOp})

\* accept never waits for room in the channel while it holds the pending lock.
SendNeverBlocks ==
    \A c \in Callers :
       At(c, "enqueue") /\ ~IsPending(caller[c].want) => Len(queue) < QueueCapacity

\* The identifier a client reads from the snapshot to cancel is that of the
\* operation the worker executes, never of a finished or another one.
CurrentIsExecuting ==
    current # NoOp =>
       /\ current = worker.id
       /\ worker.pc \in {"running", "failed", "clear"}

\* Every accepted operation is executed and unregistered.
EveryOperationFinishes ==
    \A id \in OpIds : id \in operations ~> id \notin operations

\* Every engine call returns.
CallsReturn == \A c \in Callers : ~At(c, "idle") ~> At(c, "idle")

\* Claims of the repository that the code does not keep (see README.md).

\* ADR 0050: one shared reservation, a second kind is refused.
ExclusiveReservation ==
    \A k, l \in QueuedKinds : pending[k] # NoOp /\ pending[l] # NoOp => k = l

\* release_lifecycle's comment: it clears a reservation that never reached the
\* worker queue, so no lock is left when nothing is queued, executed or called.
ReservationReleased ==
    /\ \A c \in Callers : At(c, "idle")
    /\ WorkerAt("idle")
    /\ queue = <<>>
    => busy = "None"

=============================================================================
