---------------------------- MODULE WindowStore ----------------------------
(* The window of the desktop: the snapshot it shows and the flag that locks  *)
(* its controls. Snapshots arrive as events of a watch channel, which keeps  *)
(* the latest only, and as replies of calls that were asked earlier; a call  *)
(* to connect may wait for installations, for as long as the user likes, and *)
(* is given up by a watchdog that cannot stop it.                            *)
EXTENDS Naturals, Sequences

CONSTANTS
    Clicks,   \* calls of the connection controls that may be in flight at once
    MaxInbox  \* bound: events that wait for the window
ASSUME WindowAssumption == MaxInbox \in Nat \ {0}

VARIABLES
    stack,      \* the engine's snapshot: phase and busy
    unseen,     \* the watch channel holds a snapshot that was not emitted
    inbox,      \* events the window has not handled
    subscribed, \* the window listens to them
    display,    \* the snapshot of the window
    actionPending, \* an action of the user is on its way
    click,      \* each call: where it is, its watchdog, the snapshot it was answered
    edit        \* a change of settings or rules, or a synchronization

windowVars == <<stack, unseen, inbox, subscribed, display, actionPending, click, edit>>
backend == <<stack, unseen>>
view == <<subscribed, display, actionPending>>

StackPhases == {"stopped", "running", "paused", "moving"}
Snapshots == [phase : StackPhases, busy : BOOLEAN]
Lifecycle == {"start", "stop", "pause", "resume"}
NoSnapshot == [phase |-> "stopped", busy |-> FALSE]
IdleClick == [at |-> "idle", armed |-> FALSE, answer |-> NoSnapshot]

WindowTypeOK ==
    /\ stack \in Snapshots
    /\ unseen \in BOOLEAN /\ \A i \in 1..Len(inbox) : inbox[i] \in Snapshots
    /\ Len(inbox) <= MaxInbox /\ subscribed \in BOOLEAN
    /\ display \in Snapshots /\ actionPending \in BOOLEAN /\ edit \in BOOLEAN
    /\ click \in [Clicks -> [at : Lifecycle \union {"idle", "install", "installed", "accepted", "refused"},
                             armed : BOOLEAN, answer : Snapshots]]

\* The window boots while the engine reconciles.
WindowInit ==
    /\ stack = [phase |-> "moving", busy |-> TRUE]
    /\ unseen = FALSE /\ inbox = <<>> /\ subscribed = FALSE
    /\ display = stack /\ actionPending = FALSE
    /\ click = [c \in Clicks |-> IdleClick] /\ edit = FALSE

-----------------------------------------------------------------------------
(* The engine and the task that emits its snapshots.                        *)

Publish(snapshot) == stack' = snapshot /\ unseen' = TRUE

OperationMoves ==
    /\ stack.busy /\ stack.phase # "moving"
    /\ Publish([phase |-> "moving", busy |-> TRUE])
    /\ UNCHANGED <<inbox, view, click, edit>>
OperationEnds ==
    /\ stack.busy
    /\ \E phase \in {"stopped", "running", "paused"} : Publish([phase |-> phase, busy |-> FALSE])
    /\ UNCHANGED <<inbox, view, click, edit>>

\* Mutation of Tick: what has not changed is not published.
TickQuietly == stack.phase # "moving" /\ UNCHANGED windowVars

\* refresh_health publishes on every tick of a settled phase.
Tick ==
    /\ stack.phase # "moving" /\ Publish(stack)
    /\ UNCHANGED <<inbox, view, click, edit>>

\* An event that nobody listens to is lost.
Emit ==
    /\ unseen /\ Len(inbox) < MaxInbox /\ unseen' = FALSE
    /\ inbox' = IF subscribed THEN Append(inbox, stack) ELSE inbox
    /\ UNCHANGED <<stack, view, click, edit>>

\* The tray starts and stops the stack too.
TrayAsks ==
    /\ ~stack.busy /\ Publish([stack EXCEPT !.busy = TRUE])
    /\ UNCHANGED <<inbox, view, click, edit>>

-----------------------------------------------------------------------------
(* The window.                                                              *)

\* initialize: the snapshot of the boot first, the subscription after it.
Subscribe ==
    /\ ~subscribed /\ subscribed' = TRUE
    /\ UNCHANGED <<backend, inbox, display, actionPending, click, edit>>

HearSnapshot ==
    /\ inbox # <<>> /\ inbox' = Tail(inbox)
    /\ display' = Head(inbox) /\ actionPending' = Head(inbox).busy
    /\ UNCHANGED <<backend, subscribed, click, edit>>

Locked == actionPending \/ display.busy \/ display.phase = "moving"

\* toggleConnection: the watchdog covers the installations of a connect.
Toggle(c) ==
    /\ click[c].at = "idle" /\ ~Locked /\ actionPending' = TRUE
    /\ \E at \in IF display.phase \in {"running", "paused"} THEN {"stop"} ELSE {"install", "start"} :
        click' = [click EXCEPT ![c] = [IdleClick EXCEPT !.at = at, !.armed = TRUE]]
    /\ UNCHANGED <<backend, inbox, subscribed, display, edit>>
PauseOrResume(c) ==
    /\ click[c].at = "idle" /\ ~Locked /\ actionPending' = TRUE
    /\ \/ display.phase = "running" /\ click' = [click EXCEPT ![c] = [IdleClick EXCEPT !.at = "pause"]]
       \/ display.phase = "paused" /\ click' = [click EXCEPT ![c] = [IdleClick EXCEPT !.at = "resume"]]
    /\ UNCHANGED <<backend, inbox, subscribed, display, edit>>

\* installHelper, then getSnapshot: the answer may be older than an event that
\* is handled before it.
InstallEnds(c) ==
    /\ click[c].at = "install"
    /\ \/ click' = [click EXCEPT ![c].at = "installed", ![c].answer = stack]
       \/ click' = [click EXCEPT ![c].at = "refused"]
    /\ UNCHANGED <<backend, inbox, view, edit>>
HearInstalled(c) ==
    /\ click[c].at = "installed" /\ display' = click[c].answer
    /\ \E at \in {"start", "refused"} : click' = [click EXCEPT ![c].at = at, ![c].answer = NoSnapshot]
    /\ UNCHANGED <<backend, inbox, subscribed, actionPending, edit>>

\* The command is accepted where nothing is in progress; a start of a running
\* stack is complete.
EngineAnswers(c) ==
    /\ click[c].at \in Lifecycle
    /\ \/ /\ click[c].at = "start" /\ stack.phase = "running"
          /\ click' = [click EXCEPT ![c].at = "accepted"] /\ UNCHANGED backend
       \/ /\ ~stack.busy /\ Publish([stack EXCEPT !.busy = TRUE])
          /\ click' = [click EXCEPT ![c].at = "accepted"]
       \/ click' = [click EXCEPT ![c].at = "refused"] /\ UNCHANGED backend
    /\ UNCHANGED <<inbox, view, edit>>

\* An accepted call leaves the flag to the events; a refused one clears it.
CallReturns(c) ==
    /\ click[c].at \in {"accepted", "refused"} /\ click' = [click EXCEPT ![c] = IdleClick]
    /\ actionPending' = IF click[c].at = "refused" THEN FALSE ELSE actionPending
    /\ UNCHANGED <<backend, inbox, subscribed, display, edit>>

\* ACTION_TIMEOUT_MS: the controls are given back, the call goes on.
Watchdog(c) ==
    /\ click[c].armed /\ click' = [click EXCEPT ![c].armed = FALSE]
    /\ actionPending' = FALSE /\ display' = IF actionPending THEN [display EXCEPT !.busy = FALSE] ELSE display
    /\ UNCHANGED <<backend, inbox, subscribed, edit>>

\* No edit asks whether the controls are locked.
BeginEdit ==
    /\ ~edit /\ edit' = TRUE /\ actionPending' = TRUE
    /\ UNCHANGED <<backend, inbox, subscribed, display, click>>
EditReturns ==
    /\ edit /\ edit' = FALSE /\ actionPending' = FALSE
    /\ UNCHANGED <<backend, inbox, subscribed, display, click>>

WindowNext ==
    \/ OperationMoves \/ OperationEnds \/ Tick \/ Emit \/ TrayAsks
    \/ Subscribe \/ HearSnapshot \/ BeginEdit \/ EditReturns
    \/ \E c \in Clicks : Toggle(c) \/ PauseOrResume(c) \/ InstallEnds(c) \/ HearInstalled(c)
                         \/ EngineAnswers(c) \/ CallReturns(c) \/ Watchdog(c)

\* Tasks run, commands are answered, operations have their timeouts and timers
\* ring. That an installation ends is not assumed.
WindowFairness ==
    /\ WF_windowVars(OperationEnds) /\ WF_windowVars(Tick)
    /\ WF_windowVars(Emit) /\ WF_windowVars(Subscribe)
    /\ WF_windowVars(HearSnapshot) /\ WF_windowVars(EditReturns)
    /\ \A c \in Clicks :
        /\ WF_windowVars(HearInstalled(c)) /\ WF_windowVars(EngineAnswers(c))
        /\ WF_windowVars(CallReturns(c)) /\ WF_windowVars(Watchdog(c))
WindowSpec == WindowInit /\ [][WindowNext]_windowVars /\ WindowFairness

-----------------------------------------------------------------------------

\* Unless operations follow one another for ever, controls that are locked are
\* given back: by an event, by the answer of the call, or by the watchdog while
\* an installation waits for the user.
WindowUnlocks == <>[](~stack.busy) => []<>~Locked

\* When the stack comes to rest the window comes to show it, whatever late
\* answers, lost events and watchdogs did to the snapshot before.
WindowShowsTruth == <>[][FALSE]_stack => []<>(display = stack)

\* What the window promises its user.
WindowSettles == []WindowTypeOK /\ WindowUnlocks /\ WindowShowsTruth
=============================================================================
