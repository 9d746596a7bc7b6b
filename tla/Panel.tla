------------------------------- MODULE Panel -------------------------------
(* The icon of the application in the panel of Linux or the menu bar of      *)
(* macOS: its menu follows the snapshots of the engine, its label shows the  *)
(* speeds when the settings want it. Both are drawn by the main thread, from *)
(* closures that a watcher, a sampler and saves of the settings queue.       *)
EXTENDS Naturals, Sequences, FiniteSets

CONSTANTS
    Savers,    \* calls of save_settings that may overlap
    Labels,    \* how the label looks: one value for each unit
    MaxQueued  \* bound: closures of a kind that wait when another may be caused
ASSUME PanelAssumption == MaxQueued \in Nat \ {0}

VARIABLES
    tray,      \* the engine's snapshot, as the menu shows it
    unread,    \* the watcher has not seen it
    menu,      \* the menu that is on screen: TRAY_MENU
    mainQueue, \* closures
    saved,     \* the preference that is stored
    applied,   \* what Taskbar holds of it: two fields, stored one by one
    save,      \* each call, with what it stored
    sampler,   \* where the sampler is, with the label it will draw
    label,     \* what the icon shows
    crossed    \* history: a save was stored beside another's apply
panelVars == <<tray, unread, menu, mainQueue, saved, applied, save, sampler, label, crossed>>
snapshots == <<tray, unread>>
preferences == <<saved, applied, save, crossed>>

Off == "off"
TrayPhases == {"stopped", "running"}
Keys == [phase : TrayPhases, busy : BOOLEAN]
Preferences == [enabled : BOOLEAN, unit : Labels]
\* panel_label
LabelOf(enabled, unit) == IF enabled THEN unit ELSE Off
Closures == [draws : {"menu"}, key : Keys] \union [draws : {"label"}, text : Labels \union {Off}]

PanelTypeOK ==
    /\ tray \in Keys /\ menu \in Keys /\ unread \in BOOLEAN
    /\ \A i \in 1..Len(mainQueue) : mainQueue[i] \in Closures
    /\ saved \in Preferences /\ applied \in Preferences /\ label \in Labels \union {Off}
    /\ save \in [Savers -> [at : {"idle", "enabled", "unit", "draw"}, of : Preferences]]
    /\ sampler \in [at : {"idle", "draw"}, text : Labels \union {Off}] /\ crossed \in BOOLEAN

PanelInit ==
    /\ tray = [phase |-> "stopped", busy |-> FALSE] /\ unread = FALSE /\ menu = tray
    /\ \E p \in Preferences :
        /\ saved = p /\ applied = p /\ label = LabelOf(p.enabled, p.unit)
        /\ save = [c \in Savers |-> [at |-> "idle", of |-> p]]
    /\ mainQueue = <<>> /\ sampler = [at |-> "idle", text |-> Off] /\ crossed = FALSE

\* Nothing bounds the queue of the main thread: what causes a closure waits here.
Queues(closure) == mainQueue' = Append(mainQueue, closure)
Queued(what) == Cardinality({i \in 1..Len(mainQueue) : mainQueue[i].draws = what})

-----------------------------------------------------------------------------
(* The menu.                                                                *)

EngineMoves ==
    /\ Queued("menu") <= MaxQueued /\ tray' \in Keys \ {tray} /\ unread' = TRUE
    /\ UNCHANGED <<menu, mainQueue, preferences, sampler, label>>

\* Mutation of HealthTick: what did not change is not published again.
HealthTickQuietly == UNCHANGED panelVars
HealthTick ==
    /\ ~tray.busy /\ Queued("menu") < MaxQueued /\ unread' = TRUE
    /\ UNCHANGED <<tray, menu, mainQueue, preferences, sampler, label>>

\* apply_tray_menu: nothing is queued when the menu on screen says the same.
WatcherApplies ==
    /\ unread /\ unread' = FALSE
    /\ IF tray = menu THEN UNCHANGED mainQueue ELSE Queues([draws |-> "menu", key |-> tray])
    /\ UNCHANGED <<tray, menu, preferences, sampler, label>>

-----------------------------------------------------------------------------
(* The label.                                                               *)

\* ConfigurationStore::save, where the revision is checked.
SaveStores(c) ==
    /\ save[c].at = "idle" /\ Queued("label") < MaxQueued
    /\ \E p \in Preferences \ {saved} :
        saved' = p /\ save' = [save EXCEPT ![c] = [at |-> "enabled", of |-> p]]
    /\ crossed' = (crossed \/ \E d \in Savers : save[d].at # "idle")
    /\ UNCHANGED <<snapshots, menu, mainQueue, applied, sampler, label>>

\* apply_preferences stores the flag, then the unit, then draws.
SaveEnables(c) ==
    /\ save[c].at = "enabled" /\ save' = [save EXCEPT ![c].at = "unit"]
    /\ applied' = [applied EXCEPT !.enabled = save[c].of.enabled]
    /\ UNCHANGED <<snapshots, menu, mainQueue, saved, crossed, sampler, label>>
SaveSetsUnit(c) ==
    /\ save[c].at = "unit" /\ save' = [save EXCEPT ![c].at = "draw"]
    /\ applied' = [applied EXCEPT !.unit = save[c].of.unit]
    /\ UNCHANGED <<snapshots, menu, mainQueue, saved, crossed, sampler, label>>
SaveDraws(c) ==
    /\ save[c].at = "draw" /\ save' = [save EXCEPT ![c].at = "idle"]
    /\ Queues([draws |-> "label", text |-> LabelOf(save[c].of.enabled, save[c].of.unit)])
    /\ UNCHANGED <<snapshots, menu, saved, applied, crossed, sampler, label>>

\* A turn of the sampler reads what is applied, and draws it later; it waits for
\* the main thread two seconds, and its closure stays queued when they are over.
Samples ==
    /\ sampler.at = "idle" /\ Queued("label") < MaxQueued
    /\ sampler' = [at |-> "draw", text |-> LabelOf(applied.enabled, applied.unit)]
    /\ UNCHANGED <<snapshots, menu, mainQueue, preferences, label>>
SamplerDraws ==
    /\ sampler.at = "draw" /\ sampler' = [sampler EXCEPT !.at = "idle"]
    /\ Queues([draws |-> "label", text |-> sampler.text])
    /\ UNCHANGED <<snapshots, menu, preferences, label>>

\* The main thread.
RunsClosure ==
    /\ mainQueue # <<>> /\ mainQueue' = Tail(mainQueue)
    /\ LET c == Head(mainQueue)
       IN IF c.draws = "menu" THEN menu' = c.key /\ UNCHANGED label
          ELSE label' = c.text /\ UNCHANGED menu
    /\ UNCHANGED <<snapshots, preferences, sampler>>

PanelNext ==
    \/ EngineMoves \/ HealthTick \/ WatcherApplies \/ Samples \/ SamplerDraws \/ RunsClosure
    \/ \E c \in Savers : SaveStores(c) \/ SaveEnables(c) \/ SaveSetsUnit(c) \/ SaveDraws(c)

\* Threads and timers run; only EngineMoves and
\* SaveStores, which users cause, may stop.
PanelFairness ==
    /\ WF_panelVars(HealthTick) /\ WF_panelVars(WatcherApplies)
    /\ WF_panelVars(Samples) /\ WF_panelVars(SamplerDraws)
    /\ WF_panelVars(RunsClosure)
    /\ \A c \in Savers :
        /\ WF_panelVars(SaveEnables(c)) /\ WF_panelVars(SaveSetsUnit(c))
        /\ WF_panelVars(SaveDraws(c))
PanelSpec == PanelInit /\ [][PanelNext]_panelVars /\ PanelFairness

-----------------------------------------------------------------------------

\* When the engine comes to rest the menu comes to offer what it can do, even if
\* a menu that was queued for a moment is drawn after that moment.
MenuSettles == <>[][FALSE]_tray /\ <>[](~tray.busy) => []<>(menu = tray)

\* When the settings come to rest the label comes to show them, although the
\* sampler draws what it read before; two saves that overlap are excepted.
LabelSettles == <>[][FALSE]_saved => []<>(crossed \/ label = LabelOf(saved.enabled, saved.unit))

\* What the icon promises.
PanelSettles == []PanelTypeOK /\ MenuSettles /\ LabelSettles
=============================================================================
