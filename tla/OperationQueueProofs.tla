------------------------ MODULE OperationQueueProofs ------------------------
(***************************************************************************)
(* Proofs that the operation queue keeps its records in agreement for any  *)
(* number of callers and operations.                                       *)
(***************************************************************************)
EXTENDS OperationQueue, SequenceTheorems, FunctionTheorems, FiniteSetTheorems,
        TLAPS

\* The inductive invariant holds initially.
LEMMA InitInv == Init => QueueInv
<1> SUFFICES ASSUME Init PROVE QueueInv
  OBVIOUS
<1> USE QueueAssumption DEF Init
<1>1. TypeOK
  BY EmptySeq DEF TypeOK, Phases, Kinds, QueuedKinds, WorkerStates, CallerStates,
     IdleWorker, IdleCaller
<1>2. CallsAreWellFormed
  BY DEF CallsAreWellFormed, Kinds, QueuedKinds, IdleCaller
<1>3. QueueAccounting
  BY DEF QueueAccounting, QueuedIsRegistered, HeldIsRegistered, OneItemPerKind,
     PendingIsHeld, OperationsArePending, DistinctIds, IdleWorker, QueuedKinds
<1> QED
  BY <1>1, <1>2, <1>3 DEF QueueInv

\* What Enqueue does when it registers a new operation.
Enqueued(kind, id) ==
    /\ operations' = operations \cup {id}
    /\ cancelled' = cancelled \ {id}
    /\ pending' = [pending EXCEPT ![kind] = id]
    /\ queue' = Append(queue, [id |-> id, kind |-> kind])

-----------------------------------------------------------------------------
(* Types.                                                                  *)

\* A call into the engine keeps the types.
LEMMA NewCallTypes ==
  ASSUME QueueInv, NEW c \in Callers, NewCall(c)
  PROVE  TypeOK' /\ CallsAreWellFormed'
<1> USE DEF QueueInv, TypeOK, CallsAreWellFormed, CallerStates, Kinds, QueuedKinds,
            Call, At, lock
<1>1. CASE Connect(c)
  BY <1>1 DEF Connect
<1>2. CASE RequestOperation(c)
  BY <1>2 DEF RequestOperation, AllCommands
<1>3. CASE ApplyUserRules(c)
  BY <1>3 DEF ApplyUserRules
<1> QED
  BY <1>1, <1>2, <1>3 DEF NewCall

\* Every step of a call keeps the types, and names a queued kind when it queues.
LEMMA CallerStepTypes ==
  ASSUME QueueInv, NEW c \in Callers, CallerStep(c)
  PROVE  TypeOK' /\ CallsAreWellFormed'
<1> USE QueueAssumption DEF QueueInv, TypeOK, CallsAreWellFormed, CallerStates, Kinds,
            QueuedKinds, Call, Goto, Return, At, lock, IdleCaller
<1>1. CASE PrepareSucceeds(c)
  BY <1>1 DEF PrepareSucceeds
<1>2. CASE PrepareFails(c)
  BY <1>2 DEF PrepareFails
<1>3. CASE StartStack(c)
  BY <1>3 DEF StartStack
<1>4. CASE ApplyReturns(c)
  BY <1>4 DEF ApplyReturns
<1>5. CASE Reserve(c)
  BY <1>5 DEF Reserve
<1>6. CASE PublishBusy(c)
  BY <1>6 DEF PublishBusy
<1>7. CASE Enqueue(c)
  <2>1. UNCHANGED <<phase, busy, current, worker>> /\ Return(c)
    BY <1>7 DEF Enqueue
  <2>2. caller' \in [Callers -> CallerStates] /\ CallsAreWellFormed'
    BY <2>1
  <2>3. caller[c].want \in QueuedKinds
    BY <1>7 DEF Enqueue
  <2>4. CASE UNCHANGED <<pending, operations, cancelled, queue>>
    BY <2>1, <2>2, <2>4
  <2>5. CASE \E id \in OpIds : Enqueued(caller[c].want, id)
    BY <2>1, <2>2, <2>3, <2>5, AppendProperties DEF Enqueued, WorkItems
  <2> QED
    BY <1>7, <2>4, <2>5 DEF Enqueue, Enqueued, FreshIds
<1>8. CASE ReleaseIfIdle(c)
  BY <1>8 DEF ReleaseIfIdle
<1>9. CASE Unpublish(c)
  BY <1>9 DEF Unpublish
<1> QED
  BY <1>1, <1>2, <1>3, <1>4, <1>5, <1>6, <1>7, <1>8, <1>9 DEF CallerStep

\* Every step of the worker keeps the types.
LEMMA WorkerTypes ==
  ASSUME QueueInv,
         Dequeue \/ ExecuteStep \/ WorkerReturns \/ WorkerTail
           \/ CancelOperation \/ WatchPrimaryEgress
  PROVE  TypeOK' /\ CallsAreWellFormed'
<1> USE DEF QueueInv, TypeOK, CallsAreWellFormed, WorkerStates, Phases, Live, lock,
            WorkerAt, WorkerGoto, IdleWorker
<1>1. CASE Dequeue
  <2>1. queue # <<>> /\ Head(queue) \in WorkItems /\ Tail(queue) \in Seq(WorkItems)
    BY <1>1, HeadTailProperties DEF Dequeue
  <2>2. worker' \in WorkerStates
    BY <1>1, <2>1 DEF Dequeue, WorkItems
  <2> QED
    BY <1>1, <2>1, <2>2 DEF Dequeue
<1>2. CASE ExecuteStep
  BY <1>2 DEF ExecuteStep
<1>3. CASE Finish
  BY <1>3 DEF Finish
<1>4. CASE Fail
  <2>1. cancelled' \in SUBSET OpIds
    BY <1>4, QueueAssumption DEF Fail, QueueAccounting, HeldIsRegistered
  <2> QED
    BY <1>4, <2>1 DEF Fail
<1>5. CASE PublishFailure
  BY <1>5 DEF PublishFailure
<1>6. CASE ClearBusy
  BY <1>6 DEF ClearBusy
<1>7. CASE Unregister
  BY <1>7 DEF Unregister
<1>8. CASE ForgetPending
  BY <1>8 DEF ForgetPending
<1>9. CASE CancelOperation
  BY <1>9 DEF CancelOperation
<1>10. CASE WatchPrimaryEgress
  BY <1>10 DEF WatchPrimaryEgress
<1> QED
  BY <1>1, <1>2, <1>3, <1>4, <1>5, <1>6, <1>7, <1>8, <1>9, <1>10
     DEF WorkerReturns, WorkerTail

-----------------------------------------------------------------------------
(* Accounting.                                                             *)

\* The records the accounting speaks of are left alone.
LEMMA AccountingKept ==
  ASSUME QueueInv, UNCHANGED <<pending, operations, queue>>,
         worker'.id = worker.id, worker'.kind = worker.kind,
         worker'.pc = "idle" <=> worker.pc = "idle",
         worker'.pc = "forget" <=> worker.pc = "forget"
  PROVE  QueueAccounting'
BY DEF QueueInv, QueueAccounting, QueuedIsRegistered, HeldIsRegistered, OneItemPerKind,
       PendingIsHeld, OperationsArePending, DistinctIds

\* accept adds a new item to the three records at once.
LEMMA EnqueueAccounting ==
  ASSUME QueueInv, NEW kind \in QueuedKinds, pending[kind] = NoOp,
         NEW id \in FreshIds, Enqueued(kind, id), UNCHANGED worker
  PROVE  QueueAccounting'
<1> DEFINE item == [id |-> id, kind |-> kind]
<1>1. /\ queue \in Seq(WorkItems) /\ item \in WorkItems
      /\ id \in OpIds /\ id \notin operations /\ id # NoOp
      /\ \A k \in QueuedKinds : pending[k] # id
  BY QueueAssumption DEF QueueInv, TypeOK, FreshIds, WorkItems
<1>2. /\ Len(queue') = Len(queue) + 1 /\ Len(queue) \in Nat
      /\ \A i \in 1..Len(queue) : queue'[i] = queue[i]
      /\ queue'[Len(queue) + 1] = item
  BY <1>1, AppendProperties DEF Enqueued
<1>3. \A i \in 1..Len(queue) : queue[i] \in WorkItems
  BY <1>1
<1>4. \A i \in 1..Len(queue) : queue[i].kind # kind
  BY <1>3, QueueAssumption
     DEF QueueInv, QueueAccounting, QueuedIsRegistered, WorkItems
<1>5. worker.pc # "idle" => worker.kind # kind
  BY QueueAssumption DEF QueueInv, QueueAccounting, HeldIsRegistered
<1>6. /\ pending' = [pending EXCEPT ![kind] = id]
      /\ operations' = operations \cup {id}
      /\ pending \in [QueuedKinds -> OpIds \cup {NoOp}]
  BY DEF Enqueued, QueueInv, TypeOK
<1>7. QueuedIsRegistered'
  <2> SUFFICES ASSUME NEW i \in 1..Len(queue')
               PROVE  pending'[queue'[i].kind] = queue'[i].id
                        /\ queue'[i].id \in operations'
    BY DEF QueuedIsRegistered
  <2>1. CASE i \in 1..Len(queue)
    BY <2>1, <1>2, <1>3, <1>4, <1>6
       DEF QueueInv, QueueAccounting, QueuedIsRegistered, WorkItems
  <2>2. CASE i = Len(queue) + 1
    BY <2>2, <1>2, <1>6
  <2> QED
    BY <2>1, <2>2, <1>2
<1>8. HeldIsRegistered'
  BY <1>1, <1>5, <1>6 DEF QueueInv, QueueAccounting, HeldIsRegistered
<1>9. OneItemPerKind'
  <2>1. \A i \in 1..Len(queue') :
          \/ (i \in 1..Len(queue) /\ queue'[i] = queue[i])
          \/ (i = Len(queue) + 1 /\ queue'[i] = item)
    BY <1>2
  <2>2. \A i, j \in 1..Len(queue') : queue'[i].kind = queue'[j].kind => i = j
    BY <2>1, <1>4 DEF QueueInv, QueueAccounting, OneItemPerKind
  <2>3. worker'.pc # "idle" => \A i \in 1..Len(queue') : queue'[i].kind # worker'.kind
    BY <2>1, <1>5 DEF QueueInv, QueueAccounting, OneItemPerKind
  <2> QED
    BY <2>2, <2>3 DEF OneItemPerKind
<1>10. PendingIsHeld'
  <2> SUFFICES ASSUME NEW k \in QueuedKinds, pending'[k] # NoOp,
                      ~(worker'.pc # "idle" /\ worker'.kind = k)
               PROVE  \E i \in 1..Len(queue') : queue'[i].kind = k
    BY DEF PendingIsHeld
  <2>1. CASE k = kind
    BY <2>1, <1>2
  <2>2. CASE k # kind
    <3>1. PICK i \in 1..Len(queue) : queue[i].kind = k
      BY <2>2, <1>6 DEF QueueInv, QueueAccounting, PendingIsHeld
    <3> QED
      BY <3>1, <1>2
  <2> QED
    BY <2>1, <2>2
<1>11. OperationsArePending'
  <2> SUFFICES ASSUME NEW old \in operations'
               PROVE  \E k \in QueuedKinds : pending'[k] = old
    BY DEF OperationsArePending
  <2>1. CASE old = id
    BY <2>1, <1>6
  <2>2. CASE old \in operations
    <3>1. PICK k \in QueuedKinds : pending[k] = old
      BY <2>2 DEF QueueInv, QueueAccounting, OperationsArePending
    <3>2. k # kind
      BY <3>1, <2>2, QueueAssumption DEF QueueInv, TypeOK
    <3> QED
      BY <3>1, <3>2, <1>6
  <2> QED
    BY <2>1, <2>2, <1>6
<1>12. DistinctIds'
  BY <1>1, <1>6 DEF QueueInv, QueueAccounting, DistinctIds
<1> QED
  BY <1>7, <1>8, <1>9, <1>10, <1>11, <1>12 DEF QueueAccounting

\* Taking the head of the channel moves its item from the channel to the worker.
LEMMA DequeueAccounting == QueueInv /\ Dequeue => QueueAccounting'
<1> SUFFICES ASSUME QueueInv, Dequeue PROVE QueueAccounting'
  OBVIOUS
<1>1. /\ queue \in Seq(WorkItems) /\ queue # <<>> /\ Len(queue) \in Nat \ {0}
      /\ queue' = Tail(queue)
      /\ UNCHANGED <<pending, operations>>
  BY EmptySeq DEF Dequeue, QueueInv, TypeOK
<1>2. /\ Len(queue') = Len(queue) - 1
      /\ \A i \in 1..Len(queue') : queue'[i] = queue[i + 1]
  BY <1>1, HeadTailProperties
<1>3. queue[1] \in WorkItems /\ Head(queue) = queue[1]
  BY <1>1
<1>4. /\ worker'.pc = "running" /\ worker'.id = queue[1].id
      /\ worker'.kind = queue[1].kind
  BY <1>3 DEF Dequeue, WorkItems
<1>5. QueuedIsRegistered'
  BY <1>1, <1>2 DEF QueueInv, QueueAccounting, QueuedIsRegistered
<1>6. HeldIsRegistered'
  BY <1>1, <1>3, <1>4
     DEF QueueInv, QueueAccounting, QueuedIsRegistered, HeldIsRegistered, WorkItems
<1>7. OneItemPerKind'
  BY <1>1, <1>2, <1>4 DEF QueueInv, QueueAccounting, OneItemPerKind
<1>8. PendingIsHeld'
  <2> SUFFICES ASSUME NEW k \in QueuedKinds, pending[k] # NoOp, worker'.kind # k
               PROVE  \E i \in 1..Len(queue') : queue'[i].kind = k
    BY <1>1, <1>4 DEF PendingIsHeld
  <2>1. PICK i \in 1..Len(queue) : queue[i].kind = k
    BY DEF QueueInv, QueueAccounting, PendingIsHeld, Dequeue, WorkerAt
  <2>2. i # 1 /\ i - 1 \in 1..Len(queue')
    BY <2>1, <1>1, <1>2, <1>4
  <2> QED
    BY <2>1, <2>2, <1>2
<1>9. OperationsArePending' /\ DistinctIds'
  BY <1>1 DEF QueueInv, QueueAccounting, OperationsArePending, DistinctIds
<1> QED
  BY <1>5, <1>6, <1>7, <1>8, <1>9 DEF QueueAccounting

\* The worker removes its item from the operations map first.
LEMMA UnregisterAccounting == QueueInv /\ Unregister => QueueAccounting'
<1> SUFFICES ASSUME QueueInv, Unregister PROVE QueueAccounting'
  OBVIOUS
<1>1. /\ UNCHANGED <<pending, queue>>
      /\ operations' = operations \ {worker.id}
      /\ worker'.id = worker.id /\ worker'.kind = worker.kind
      /\ worker'.pc = "forget" /\ worker.pc = "unregister"
      /\ queue \in Seq(WorkItems)
      /\ worker.kind \in QueuedKinds /\ pending[worker.kind] = worker.id
      /\ worker.id # NoOp /\ worker.id \in OpIds
  BY QueueAssumption
     DEF Unregister, WorkerAt, WorkerGoto, QueueInv, TypeOK, WorkerStates,
         QueueAccounting, HeldIsRegistered
<1>2. \A i \in 1..Len(queue) : queue[i].id # worker.id
  <2> SUFFICES ASSUME NEW i \in 1..Len(queue), queue[i].id = worker.id PROVE FALSE
    OBVIOUS
  <2>1. queue[i] \in WorkItems /\ pending[queue[i].kind] = worker.id
    BY <1>1 DEF QueueInv, QueueAccounting, QueuedIsRegistered
  <2>2. queue[i].kind = worker.kind
    BY <1>1, <2>1 DEF QueueInv, QueueAccounting, DistinctIds, WorkItems
  <2> QED
    BY <1>1, <2>2 DEF QueueInv, QueueAccounting, OneItemPerKind
<1> QED
  BY <1>1, <1>2
     DEF QueueInv, QueueAccounting, QueuedIsRegistered, HeldIsRegistered,
         OneItemPerKind, PendingIsHeld, OperationsArePending, DistinctIds

\* Then it removes its kind, which has no other item, from the pending map.
LEMMA ForgetAccounting == QueueInv /\ ForgetPending => QueueAccounting'
<1> SUFFICES ASSUME QueueInv, ForgetPending PROVE QueueAccounting'
  OBVIOUS
<1>1. /\ UNCHANGED <<operations, queue>>
      /\ pending' = [pending EXCEPT ![worker.kind] = NoOp]
      /\ pending \in [QueuedKinds -> OpIds \cup {NoOp}]
      /\ worker'.pc = "idle" /\ worker.pc = "forget"
      /\ queue \in Seq(WorkItems)
      /\ worker.kind \in QueuedKinds /\ pending[worker.kind] = worker.id
      /\ worker.id \notin operations
  BY DEF ForgetPending, WorkerAt, IdleWorker, QueueInv, TypeOK, QueueAccounting,
         HeldIsRegistered
<1>2. \A i \in 1..Len(queue) : queue[i] \in WorkItems /\ queue[i].kind # worker.kind
  BY <1>1 DEF QueueInv, QueueAccounting, OneItemPerKind
<1>3. QueuedIsRegistered'
  BY <1>1, <1>2 DEF QueueInv, QueueAccounting, QueuedIsRegistered, WorkItems
<1>4. HeldIsRegistered' /\ OneItemPerKind'
  BY <1>1 DEF QueueInv, QueueAccounting, HeldIsRegistered, OneItemPerKind
<1>5. PendingIsHeld'
  BY <1>1 DEF QueueInv, QueueAccounting, PendingIsHeld
<1>6. OperationsArePending'
  <2> SUFFICES ASSUME NEW id \in operations
               PROVE  \E k \in QueuedKinds : pending'[k] = id
    BY <1>1 DEF OperationsArePending
  <2>1. PICK k \in QueuedKinds : pending[k] = id
    BY DEF QueueInv, QueueAccounting, OperationsArePending
  <2>2. k # worker.kind
    BY <1>1, <2>1
  <2> QED
    BY <1>1, <2>1, <2>2
<1>7. DistinctIds'
  BY <1>1 DEF QueueInv, QueueAccounting, DistinctIds
<1> QED
  BY <1>3, <1>4, <1>5, <1>6, <1>7 DEF QueueAccounting

\* Every step keeps the three records in agreement.
LEMMA NextAccounting == QueueInv /\ [Next]_vars => QueueAccounting'
<1> SUFFICES ASSUME QueueInv, [Next]_vars PROVE QueueAccounting'
  OBVIOUS
<1>1. ASSUME NEW c \in Callers, Enqueue(c) PROVE QueueAccounting'
  <2>1. UNCHANGED worker /\ caller[c].want \in QueuedKinds
    BY <1>1 DEF Enqueue, At, QueueInv, CallsAreWellFormed
  <2>2. CASE UNCHANGED <<pending, operations, queue>>
    BY <2>1, <2>2, AccountingKept
  <2>3. CASE /\ pending[caller[c].want] = NoOp
             /\ \E id \in FreshIds : Enqueued(caller[c].want, id)
    BY <2>1, <2>3, EnqueueAccounting
  <2> QED
    BY <1>1, <2>1, <2>2, <2>3 DEF Enqueue, Enqueued, IsPending
<1>2. ASSUME NEW c \in Callers, NewCall(c) PROVE QueueAccounting'
  BY <1>2, AccountingKept
     DEF NewCall, Connect, RequestOperation, ApplyUserRules, lock
<1>3. ASSUME NEW c \in Callers, CallerStep(c), ~Enqueue(c) PROVE QueueAccounting'
  BY <1>3, AccountingKept
     DEF CallerStep, PrepareSucceeds, PrepareFails, StartStack, ApplyReturns, Reserve,
         PublishBusy, ReleaseIfIdle, Unpublish, lock
<1>4. ASSUME ExecuteStep \/ CancelOperation \/ WatchPrimaryEgress \/ UNCHANGED vars
      PROVE  QueueAccounting'
  BY <1>4, AccountingKept
     DEF ExecuteStep, CancelOperation, WatchPrimaryEgress, vars, lock
<1>5. ASSUME Finish \/ Fail \/ PublishFailure \/ ClearBusy PROVE QueueAccounting'
  <2> USE DEF QueueInv, TypeOK, WorkerStates
  <2>1. UNCHANGED <<pending, operations, queue>>
    BY <1>5 DEF Finish, Fail, PublishFailure, ClearBusy, lock
  <2>2. /\ worker'.id = worker.id /\ worker'.kind = worker.kind
        /\ {worker.pc, worker'.pc} \cap {"idle", "forget"} = {}
    BY <1>5 DEF Finish, Fail, PublishFailure, ClearBusy, WorkerAt, WorkerGoto
  <2> QED
    BY <2>1, <2>2, AccountingKept
<1> QED
  BY <1>1, <1>2, <1>3, <1>4, <1>5, DequeueAccounting, UnregisterAccounting,
     ForgetAccounting
     DEF Next, WorkerReturns, WorkerTail

-----------------------------------------------------------------------------
(* The theorems.                                                           *)

\* Every step keeps the inductive invariant.
LEMMA InvStep == QueueInv /\ [Next]_vars => QueueInv'
<1> SUFFICES ASSUME QueueInv, [Next]_vars PROVE QueueInv'
  OBVIOUS
<1>1. CASE UNCHANGED vars
  BY <1>1, NextAccounting DEF vars, QueueInv, TypeOK, CallsAreWellFormed
<1>2. CASE Next
  BY <1>2, NewCallTypes, CallerStepTypes, WorkerTypes, NextAccounting DEF Next, QueueInv
<1> QED
  BY <1>1, <1>2

\* The inductive invariant holds in every reachable state: accept and the
\* worker keep the channel, the operations map and the pending map in step.
THEOREM InvariantHolds == Spec => []QueueInv
  BY InitInv, InvStep, PTL DEF Spec

\* Every variable of the queue keeps its type.
THEOREM TypeCorrect == Spec => []TypeOK
<1>1. QueueInv => TypeOK
  BY DEF QueueInv
<1> QED
  BY <1>1, InvariantHolds, PTL

\* Channel, operations map and pending map agree (accept, worker).
THEOREM RecordsAgree == Spec => []QueueAccounting
<1>1. QueueInv => QueueAccounting
  BY DEF QueueInv
<1> QED
  BY <1>1, InvariantHolds, PTL

PendingKinds == {k \in QueuedKinds : pending[k] # NoOp}

\* There are five kinds of queued operations.
LEMMA QueuedKindsFinite == IsFiniteSet(QueuedKinds) /\ Cardinality(QueuedKinds) = 5
<1>1. IsFiniteSet({}) /\ Cardinality({}) = 0
  BY FS_EmptySet
<1>2. IsFiniteSet({"Reconcile"}) /\ Cardinality({"Reconcile"}) = 1
  BY FS_Singleton
<1>3. /\ IsFiniteSet({"Reconcile"} \cup {"Start"})
      /\ Cardinality({"Reconcile"} \cup {"Start"}) = 2
  BY <1>2, FS_AddElement
<1>4. /\ IsFiniteSet({"Reconcile", "Start"} \cup {"Stop"})
      /\ Cardinality({"Reconcile", "Start"} \cup {"Stop"}) = 3
  <2>1. {"Reconcile", "Start"} = {"Reconcile"} \cup {"Start"}
    OBVIOUS
  <2> QED
    BY <1>3, <2>1, FS_AddElement
<1>5. /\ IsFiniteSet({"Reconcile", "Start", "Stop"} \cup {"Pause"})
      /\ Cardinality({"Reconcile", "Start", "Stop"} \cup {"Pause"}) = 4
  <2>1. {"Reconcile", "Start", "Stop"} = {"Reconcile", "Start"} \cup {"Stop"}
    OBVIOUS
  <2> QED
    BY <1>4, <2>1, FS_AddElement
<1>6. QueuedKinds = {"Reconcile", "Start", "Stop", "Pause"} \cup {"Resume"}
  BY DEF QueuedKinds
<1>7. {"Reconcile", "Start", "Stop", "Pause"} = {"Reconcile", "Start", "Stop"} \cup {"Pause"}
  OBVIOUS
<1> QED
  BY <1>5, <1>6, <1>7, FS_AddElement

\* The items in the channel have different kinds, all of them pending.
LEMMA QueueFits == QueueInv => QueueWithinKinds
<1> SUFFICES ASSUME QueueInv PROVE Len(queue) <= Cardinality(PendingKinds)
  BY DEF QueueWithinKinds, PendingKinds
<1> DEFINE kindAt == [i \in 1..Len(queue) |-> queue[i].kind]
<1>1. queue \in Seq(WorkItems) /\ Len(queue) \in Nat
  BY DEF QueueInv, TypeOK
<1>2. \A i \in 1..Len(queue) : queue[i].kind \in PendingKinds
  <2> SUFFICES ASSUME NEW i \in 1..Len(queue) PROVE queue[i].kind \in PendingKinds
    OBVIOUS
  <2>1. queue[i] \in WorkItems
    BY <1>1
  <2>2. pending[queue[i].kind] = queue[i].id
    BY DEF QueueInv, QueueAccounting, QueuedIsRegistered
  <2> QED
    BY <2>1, <2>2, QueueAssumption DEF PendingKinds, WorkItems
<1>3. kindAt \in Injection(1..Len(queue), PendingKinds)
  <2>1. kindAt \in [1..Len(queue) -> PendingKinds]
    BY <1>2
  <2>2. \A i, j \in 1..Len(queue) : kindAt[i] = kindAt[j] => i = j
    BY DEF QueueInv, QueueAccounting, OneItemPerKind
  <2> QED
    BY <2>1, <2>2, Fun_IsInj
<1>4. IsFiniteSet(PendingKinds)
  BY QueuedKindsFinite, FS_Subset DEF PendingKinds
<1>5. Cardinality(1..Len(queue)) <= Cardinality(PendingKinds)
  BY <1>3, <1>4, FS_Injection
<1>6. Cardinality(1..Len(queue)) = Len(queue)
  <2>1. Len(queue) \in Int /\ 1 \in Int /\ ~(1 > Len(queue) /\ Len(queue) # 0)
    BY <1>1
  <2>2. Cardinality(1..Len(queue))
          = IF 1 > Len(queue) THEN 0 ELSE Len(queue) - 1 + 1
    BY <2>1, FS_Interval, Zenon
  <2> QED
    BY <1>1, <2>1, <2>2
<1> QED
  BY <1>5, <1>6

\* The channel never holds more items than kinds are registered (accept).
THEOREM QueueStaysWithinKinds == Spec => []QueueWithinKinds
  BY QueueFits, InvariantHolds, PTL

\* accept holds the pending lock, which the worker needs, while it sends: that
\* cannot deadlock, because the channel always has room for one more kind.
THEOREM SendHasRoom == Spec => []SendNeverBlocks
<1>1. QueueInv => SendNeverBlocks
  <2> SUFFICES ASSUME QueueInv, NEW c \in Callers, At(c, "enqueue"),
                      ~IsPending(caller[c].want)
               PROVE  Len(queue) < QueueCapacity
    BY DEF SendNeverBlocks
  <2>1. caller[c].want \in QueuedKinds \ PendingKinds
    BY DEF QueueInv, CallsAreWellFormed, At, IsPending, PendingKinds
  <2>2. /\ IsFiniteSet(PendingKinds)
        /\ Cardinality(PendingKinds) <= Cardinality(QueuedKinds)
        /\ Cardinality(PendingKinds) # Cardinality(QueuedKinds)
    BY <2>1, QueuedKindsFinite, FS_Subset DEF PendingKinds
  <2>3. Cardinality(PendingKinds) \in Nat
    BY <2>2, FS_CardinalityType
  <2>4. Len(queue) <= Cardinality(PendingKinds) /\ Len(queue) \in Nat
    BY QueueFits DEF QueueWithinKinds, PendingKinds, QueueInv, TypeOK
  <2> QED
    BY <2>2, <2>3, <2>4, QueuedKindsFinite, QueueAssumption
<1> QED
  BY <1>1, InvariantHolds, PTL

\* The identifier clients cancel by is that of the executed operation: only
\* the operation publishes it, and the worker clears it before it goes on.
THEOREM CurrentIsCorrect == Spec => []CurrentIsExecuting
<1>1. Init => CurrentIsExecuting
  BY DEF Init, CurrentIsExecuting
<1>2. QueueInv /\ CurrentIsExecuting /\ [Next]_vars => CurrentIsExecuting'
  <2> SUFFICES ASSUME QueueInv, CurrentIsExecuting, [Next]_vars
               PROVE  CurrentIsExecuting'
    OBVIOUS
  <2> USE DEF CurrentIsExecuting
  <2>1. ASSUME UNCHANGED <<current, worker>> PROVE CurrentIsExecuting'
    BY <2>1
  <2>2. ASSUME NEW c \in Callers, NewCall(c) \/ CallerStep(c)
        PROVE  CurrentIsExecuting'
    BY <2>2, <2>1
       DEF NewCall, Connect, RequestOperation, ApplyUserRules, CallerStep,
           PrepareSucceeds, PrepareFails, StartStack, ApplyReturns, Reserve, PublishBusy,
           Enqueue, ReleaseIfIdle, Unpublish
  <2>3. ASSUME CancelOperation \/ WatchPrimaryEgress \/ UNCHANGED vars
        PROVE  CurrentIsExecuting'
    BY <2>3, <2>1 DEF CancelOperation, WatchPrimaryEgress, vars
  <2>4. ASSUME Dequeue \/ ExecuteStep PROVE CurrentIsExecuting'
    BY <2>4 DEF Dequeue, ExecuteStep, WorkerAt
  <2>5. ASSUME WorkerReturns \/ WorkerTail PROVE CurrentIsExecuting'
    BY <2>5
       DEF WorkerReturns, WorkerTail, Finish, Fail, PublishFailure, ClearBusy,
           Unregister, ForgetPending, WorkerAt, WorkerGoto, QueueInv, TypeOK,
           WorkerStates, IdleWorker
  <2> QED
    BY <2>2, <2>3, <2>4, <2>5 DEF Next
<1> QED
  BY <1>1, <1>2, InvariantHolds, PTL DEF Spec
=============================================================================
