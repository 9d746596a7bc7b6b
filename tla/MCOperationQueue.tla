------------------------- MODULE MCOperationQueue -------------------------
(* The queue of operations, and the connections to the helper.  They share  *)
(* no variable here, and each behaviour is one of them: the other stands    *)
(* still.  The queue is checked for two sets of commands, one of them a     *)
(* behaviour: with all of them in one the instance is five times as large.  *)
(* Behaviours without Connect may stop when nothing is left to stop.        *)
EXTENDS OperationQueue, HelperProtocol
CONSTANTS c1, c2, i1, i2, r1, r2
VARIABLE part
MCCallers == {c1, c2}
MCOpIds == {i1, i2}
MCCommands == {"Connect", "Apply", "Stop", "Cancel"}
MCRequests == {r1, r2}

TheQueue ==
    /\ phase = "Stopped" /\ busy = "None" /\ current = NoOp /\ pending = [k \in QueuedKinds |-> NoOp]
    /\ operations = {} /\ cancelled = {} /\ queue = <<>> /\ worker = IdleWorker
    /\ caller = [c \in Callers |-> IdleCaller]
TheProtocol == ProtocolInit /\ transport = "socket" /\ authorized /\ helper = "up" /\ version = "same"
MCInit ==
    /\ part \in {"connect", "stop", "protocol"}
    /\ IF part \in {"connect", "stop"} THEN Init ELSE TheQueue
    /\ IF part = "protocol" THEN ProtocolInit ELSE TheProtocol
InQueue == part \in {"connect", "stop"}
QueueRuns ==
    \/ \E c \in Callers :
        \/ part = "connect" /\ (Connect(c) \/ ApplyUserRules(c))
        \/ part = "stop" /\ RequestOperation(c)
        \/ CallerStep(c)
    \/ part = "stop" /\ CancelOperation
    \/ Dequeue \/ ExecuteStep \/ WorkerReturns \/ WorkerTail
    \/ WatchPrimaryEgress
MCNext ==
    /\ UNCHANGED part
    /\ \/ InQueue /\ QueueRuns /\ UNCHANGED protocolVars
       \/ part = "protocol" /\ ProtocolNext /\ UNCHANGED vars
QueueRest ==
    /\ \A c \in Callers : WF_vars(InQueue /\ CallerStep(c))
    /\ WF_vars(InQueue /\ Dequeue) /\ WF_vars(InQueue /\ WorkerReturns) /\ WF_vars(InQueue /\ WorkerTail)
MCFairSpec == MCInit /\ [][MCNext]_<<part, vars, protocolVars>> /\ QueueRest /\ Deadlines
==========================================================================
