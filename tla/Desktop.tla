------------------------------ MODULE Desktop -------------------------------
(***************************************************************************)
(* The two sequences of engine calls that the desktop process makes by     *)
(* itself (src-tauri/src/lib.rs): restart_stack, which stops the stack,    *)
(* waits for the Stopped phase and starts it again, and the release of the *)
(* network before the process leaves (release_owned_network).  Both learn  *)
(* how the engine is doing only from the phase it publishes.               *)
(*                                                                         *)
(* The deadlines of the two waits (25 and 50 seconds) are not modelled: a  *)
(* stop ends within its own budget of 45 seconds.                          *)
(***************************************************************************)
EXTENDS Engine

VARIABLES
    flow,   \* per caller: where it is in one of the two sequences
    exit    \* "no", or how the process came to leave

Flows == {"none", "restart_sent", "restart_wait", "restart_start",
          "quit_cancel", "quit_try", "quit_sent", "quit_wait"}
desktopVars == <<allVars, flow, exit>>

\* Types, the two sequences of calls included.
DesktopTypeOK ==
    /\ EngineTypeOK
    /\ flow \in [Callers -> Flows]
    /\ exit \in {"no", "already", "stopped", "failed"}

DesktopInit ==
    EngineInit /\ flow = [c \in Callers |-> "none"] /\ exit = "no"

FlowGoto(c, where) == flow' = [flow EXCEPT ![c] = where]
Open == exit = "no" /\ UNCHANGED exit
Free(c) == At(c, "idle") /\ client[c] = "none" /\ flow[c] = "none"
NobodyQuits == \A c \in Callers :
                  flow[c] \notin {"quit_cancel", "quit_try", "quit_sent",
                                  "quit_wait"}

\* stop_stack, as the two sequences call it.
CallStop(c, then) ==
    /\ MustAccept("Stop")
    /\ Call(c, "reserve", "Stop", "enqueue")
    /\ FlowGoto(c, then)
    /\ UNCHANGED <<phase, current, cancelled, worker, lock, engineVars>>
    /\ Open

StopAlreadyComplete ==
    busy \in {"None", "Stop"} /\ phase = "Stopped" /\ operations = {}

\* How a sequence learns the outcome of the call it has made: a refused
\* reservation, or an operation identifier.
FlowAfterStep ==
    [c \in Callers |->
       IF caller'[c].pc # "idle" THEN flow[c]
       ELSE CASE flow[c] = "quit_sent" /\ At(c, "reserve") -> "quit_try"
              [] flow[c] = "quit_sent" /\ At(c, "enqueue") -> "quit_wait"
              [] flow[c] = "restart_sent" /\ At(c, "reserve") -> "none"
              [] flow[c] = "restart_sent" /\ At(c, "enqueue") -> "restart_wait"
              [] flow[c] = "restart_start" /\ ~At(c, "idle") -> "none"
              [] OTHER -> flow[c]]

\* Any other step of the process; a task inside a sequence starts no call of
\* its own.
EngineStep ==
    /\ EngineNext
    /\ \A c \in Callers : flow[c] # "none" /\ At(c, "idle")
                            => caller'[c] = caller[c] /\ client'[c] = client[c]
    /\ flow' = FlowAfterStep
    /\ Open

-----------------------------------------------------------------------------
(* restart_stack                                                           *)

Restart(c) ==
    /\ Free(c)
    /\ CallStop(c, "restart_sent")

\* The stack was stopped already, or wait_for_phase(Stopped) returned.
RestartStarts(c) ==
    /\ \/ Free(c) /\ StopAlreadyComplete
       \/ flow[c] = "restart_wait" /\ phase = "Stopped"
    /\ FlowGoto(c, "restart_start")
    /\ Call(c, "request", "Start", "none")
    /\ UNCHANGED <<phase, current, cancelled, worker, lock, engineVars>>
    /\ Open

\* wait_for_phase gives up as soon as it reads the Error phase.
RestartFails(c) ==
    /\ flow[c] = "restart_wait" /\ phase = "Error"
    /\ FlowGoto(c, "none")
    /\ UNCHANGED allVars
    /\ Open

-----------------------------------------------------------------------------
(* release_owned_network, once per process                                 *)

Quit(c) ==
    /\ Free(c) /\ NobodyQuits
    /\ FlowGoto(c, "quit_cancel")
    /\ UNCHANGED allVars
    /\ Open

\* The executed operation, if the snapshot names one, is cancelled.
QuitCancels(c) ==
    /\ flow[c] = "quit_cancel"
    /\ cancelled' = cancelled \cup (operations \cap {current})
    /\ FlowGoto(c, "quit_try")
    /\ UNCHANGED <<phase, current, worker, caller, lock, engineVars>>
    /\ Open

\* While another operation holds the lock the call is repeated.
QuitStops(c) == flow[c] = "quit_try" /\ CallStop(c, "quit_sent")

Exit(c, how) ==
    /\ FlowGoto(c, "none") /\ exit = "no" /\ exit' = how
    /\ UNCHANGED allVars

\* Mutation of QuitLeaves: a stack that is stopping counts as stopped.
QuitLeavesWhileStopping(c) ==
    \/ flow[c] = "quit_try" /\ StopAlreadyComplete /\ Exit(c, "already")
    \/ flow[c] = "quit_wait" /\ phase \in {"Working", "Stopped"} /\ Exit(c, "stopped")
    \/ flow[c] = "quit_wait" /\ phase = "Error" /\ Exit(c, "failed")

\* Mutation of QuitLeaves: waits for Stopped through an error.
QuitLeavesWhenStopped(c) ==
    \/ flow[c] = "quit_try" /\ StopAlreadyComplete /\ Exit(c, "already")
    \/ flow[c] = "quit_wait" /\ phase = "Stopped" /\ Exit(c, "stopped")

QuitLeaves(c) ==
    \/ flow[c] = "quit_try" /\ StopAlreadyComplete /\ Exit(c, "already")
    \/ flow[c] = "quit_wait" /\ phase = "Stopped" /\ Exit(c, "stopped")
    \/ flow[c] = "quit_wait" /\ phase = "Error" /\ Exit(c, "failed")

-----------------------------------------------------------------------------

DesktopNext ==
    \/ EngineStep
    \/ \E c \in Callers :
          \/ Restart(c) \/ RestartStarts(c) \/ RestartFails(c)
          \/ Quit(c) \/ QuitCancels(c) \/ QuitStops(c) \/ QuitLeaves(c)

DesktopSpec == DesktopInit /\ [][DesktopNext]_desktopVars

WorkerMoves ==
    EngineStep /\ (StartOperation \/ BodyStep \/ WorkerTailStep \/ EndOperation)
CallerMoves(c) ==
    EngineStep /\ ~At(c, "idle") /\ (QueueStep(c) \/ ApplyStep(c))
QuitMoves(c) == QuitCancels(c) \/ QuitStops(c) \/ QuitLeaves(c)

\* Every ready task is scheduled; a call already made runs on.
DesktopFairSpec ==
    /\ DesktopSpec
    /\ WF_desktopVars(WorkerMoves)
    /\ \A c \in Callers :
          /\ WF_desktopVars(CallerMoves(c))
          /\ WF_desktopVars(QuitMoves(c))

\* A process that has seen its own disconnect stop the stack leaves a machine
\* with its previous network.
QuitLeavesNetworkFree == exit = "stopped" => NetworkFree

\* What every step of the sequences keeps.
DesktopInvariant == DesktopTypeOK /\ QuitLeavesNetworkFree

\* The helper answers the startup reconciliation truthfully: it does not read
\* as "nothing is left" while Mihomo runs or traffic is captured.
StatusIsRead ==
    step = "probe" /\ ~NetworkFree => phase' # "Stopped"

\* A quit gets through whatever operation it interrupts: the lock it is refused
\* under is given up, its disconnect is accepted and settles, the process leaves
\* (without waiting for the deadline of 50 seconds).
QuitEventuallyLeaves ==
    \A c \in Callers : flow[c] = "quit_cancel" ~> exit # "no"

\* ADR 0120: a quit runs Disconnect to completion before the process leaves;
\* it does not leave a captured machine with its disconnect still to be done.
QuitCompletesDisconnect ==
    exit # "no" /\ ~NetworkFree =>
       /\ ~(WorkerAt("running") /\ Kind({"Stop"}))
       /\ \A i \in 1..Len(queue) : queue[i].kind # "Stop"
=============================================================================
