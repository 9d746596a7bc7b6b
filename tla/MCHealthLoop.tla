----------------------------- MODULE MCHealthLoop ----------------------------
(* The two that follow the published snapshot: the health task, and the     *)
(* window with its events and its watchdog.  They share no variable here,   *)
(* and each behaviour is one of them: the other stands still.               *)
EXTENDS HealthLoop, WindowStore
CONSTANT c1
VARIABLE part
MCClicks == {c1}

MCInit ==
    /\ part \in {"health", "window"}
    /\ HealthInit /\ (part = "window" => egress = "none")
    /\ WindowInit
MCNext ==
    /\ UNCHANGED part
    /\ \/ part = "health" /\ HealthNext /\ UNCHANGED windowVars
       \/ part = "window" /\ WindowNext /\ UNCHANGED healthVars
HealthRuns ==
    /\ WF_healthVars(part = "health" /\ TickStep) /\ WF_healthVars(part = "health" /\ Announce)
    /\ WF_healthVars(part = "health" /\ WorkerEnds) /\ SF_healthVars(part = "health" /\ ApplySucceeds)
    /\ SF_healthVars(part = "health" /\ ClearSystemProxy /\ ~proxy')
WindowRuns ==
    /\ WF_windowVars(part = "window" /\ OperationEnds) /\ WF_windowVars(part = "window" /\ Tick)
    /\ WF_windowVars(part = "window" /\ Emit) /\ WF_windowVars(part = "window" /\ Subscribe)
    /\ WF_windowVars(part = "window" /\ HearSnapshot) /\ WF_windowVars(part = "window" /\ EditReturns)
    /\ \A c \in Clicks :
        /\ WF_windowVars(part = "window" /\ HearInstalled(c))
        /\ WF_windowVars(part = "window" /\ EngineAnswers(c))
        /\ WF_windowVars(part = "window" /\ CallReturns(c))
        /\ WF_windowVars(part = "window" /\ Watchdog(c))
MCSpec == MCInit /\ [][MCNext]_<<part, healthVars, windowVars>> /\ HealthRuns /\ WindowRuns
=============================================================================
