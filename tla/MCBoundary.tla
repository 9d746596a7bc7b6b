----------------------------- MODULE MCBoundary -----------------------------
(* The sequences of the desktop over the engine, and the icon that shows    *)
(* the state of the engine in the panel. They share no variable here, and   *)
(* each behaviour is one of them: the other stands still.                   *)
EXTENDS Desktop, Panel
CONSTANTS c1, i1, i2
VARIABLE part
MCCallers == {c1}
MCOpIds == {i1, i2}
MCSavers == {c1}

MCInit ==
    /\ part \in {"desktop", "panel"}
    /\ DesktopInit
    /\ PanelInit /\ (part = "desktop" => ~saved.enabled)
MCNext ==
    /\ UNCHANGED part
    /\ \/ part = "desktop" /\ DesktopNext /\ UNCHANGED panelVars
       \/ part = "panel" /\ PanelNext /\ UNCHANGED desktopVars
DesktopRuns ==
    /\ WF_desktopVars(part = "desktop" /\ WorkerMoves)
    /\ \A c \in Callers :
        /\ WF_desktopVars(part = "desktop" /\ CallerMoves(c))
        /\ WF_desktopVars(part = "desktop" /\ QuitMoves(c))
PanelRuns ==
    /\ WF_panelVars(part = "panel" /\ HealthTick) /\ WF_panelVars(part = "panel" /\ WatcherApplies)
    /\ WF_panelVars(part = "panel" /\ Samples) /\ WF_panelVars(part = "panel" /\ SamplerDraws)
    /\ WF_panelVars(part = "panel" /\ RunsClosure)
    /\ \A c \in Savers :
        /\ WF_panelVars(part = "panel" /\ SaveEnables(c)) /\ WF_panelVars(part = "panel" /\ SaveSetsUnit(c))
        /\ WF_panelVars(part = "panel" /\ SaveDraws(c))
MCSpec == MCInit /\ [][MCNext]_<<part, desktopVars, panelVars>> /\ DesktopRuns /\ PanelRuns
=============================================================================
