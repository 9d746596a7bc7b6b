------------------------------ MODULE Taskbar ------------------------------
(* The network speeds in the taskbar of Windows: a window of the application *)
(* inside a bar that belongs to Explorer, whose controls move and which may  *)
(* restart at any time. A message pump owns the window; another thread asks  *)
(* where there is room, because an accessibility provider may be slow; hooks *)
(* report changes of the bar they were installed for. Time is abstracted: a  *)
(* message may find that the layout is due.                                  *)
EXTENDS Integers, Sequences, FiniteSetsExt

CONSTANTS
    BarWidth, Requested, Margin,  \* of the bar, of the window, around the window
    Layouts,    \* what the controls may occupy: sets of spans
    MaxChanges  \* bound: changes of the bar and of the preference
ASSUME TaskbarAssumption ==
    /\ {BarWidth, Requested, Margin, MaxChanges} \subseteq Nat
    /\ \A controls \in Layouts : controls \subseteq Int \X Int

VARIABLES
    bar,      \* the number of Explorer's bar and what its controls occupy
    changes,  \* bound
    mailbox,  \* the preference, and whether the application ends
    event,    \* a change that a hook will report
    posted,   \* messages that wait for the pump
    pump,     \* the state of the pump and its window
    asked,    \* requests of the pump: their epochs
    found     \* answers to them
taskbarVars == <<bar, changes, mailbox, event, posted, pump, asked, found>>
discovery == <<asked, found>>

Weather == <<0, 2>>
Notifications == <<BarWidth - 2, BarWidth>>
NoGap == -1
Stop == -1  \* the epoch of no request
NoWindow == [on |-> 0, at |-> NoGap, visible |-> FALSE, heard |-> FALSE]
Messages == {"layout", "broadcast"}

TaskbarTypeOK ==
    /\ bar \in [id : 1..MaxChanges + 1, controls : Layouts] /\ changes \in 0..MaxChanges
    /\ mailbox \in [enabled : BOOLEAN, stopped : BOOLEAN] /\ event \in BOOLEAN
    /\ \A i \in 1..Len(posted) : posted[i] \in Messages
    /\ pump.display.at \in NoGap..BarWidth /\ pump.hooked \in 0..MaxChanges + 1
    /\ {pump.up, pump.pending, pump.forced, pump.enabled} \subseteq BOOLEAN /\ pump.epoch \in Nat

TaskbarInit ==
    /\ \E c \in Layouts : bar = [id |-> 1, controls |-> c]
    /\ changes = 0 /\ mailbox = [enabled |-> FALSE, stopped |-> FALSE]
    /\ event = FALSE /\ posted = <<>> /\ asked = <<>> /\ found = <<>>
    /\ pump = [up |-> TRUE, display |-> NoWindow, hooked |-> 0, pending |-> FALSE,
               epoch |-> 0, enabled |-> FALSE, forced |-> TRUE]

-----------------------------------------------------------------------------
(* The bar and the application.                                             *)

Changes == changes < MaxChanges /\ changes' = changes + 1

BarMoves ==
    /\ Changes /\ \E c \in Layouts \ {bar.controls} : bar' = [bar EXCEPT !.controls = c]
    /\ event' = (event \/ pump.hooked = bar.id)
    /\ UNCHANGED <<mailbox, posted, pump, discovery>>

\* Explorer ends with its hooks and its children; whether the pump hears of the
\* new bar is its choice.
BarRestarts ==
    /\ Changes /\ \E c \in Layouts : bar' = [id |-> bar.id + 1, controls |-> c]
    /\ event' = FALSE /\ posted' \in {posted, Append(posted, "broadcast")}
    /\ UNCHANGED <<mailbox, pump, discovery>>

SetEnabled ==
    /\ Changes /\ ~mailbox.stopped /\ mailbox' = [mailbox EXCEPT !.enabled = ~@]
    /\ UNCHANGED <<bar, event, posted, pump, discovery>>
DropDisplay ==
    /\ ~mailbox.stopped /\ mailbox' = [mailbox EXCEPT !.stopped = TRUE]
    /\ UNCHANGED <<bar, changes, event, posted, pump, discovery>>

-----------------------------------------------------------------------------
(* Where there is room.                                                     *)

Spans(controls) == controls \union {Weather, Notifications}

\* Where a span or the notification area begins, behind room that nothing to
\* the left of it reaches into.
Gaps(occupied) ==
    LET room == Requested + Margin
    IN  {begin \in {s[1] : s \in occupied} \union {BarWidth} :
            \A end \in {0} \union {s[2] : s \in {o \in occupied : o[1] < begin}} :
                end + Margin + room <= begin}

\* The rightmost of them.
FindGap(occupied) ==
    IF Gaps(occupied) = {} THEN NoGap ELSE Max(Gaps(occupied)) - Requested - Margin

\* No start button, bounds outside of the bar: the layout is not trusted.
Trusted(controls) ==
    controls # {} /\ \A s \in controls : 0 <= s[1] /\ s[1] < s[2] /\ s[2] <= BarWidth

\* The accessibility thread answers each request with what it sees then, or
\* with a failure; it ends when it is told to.
Discover ==
    /\ asked # <<>> /\ Head(asked) # Stop /\ asked' = Tail(asked)
    /\ \E at \in {NoGap} \union
                 (IF Trusted(bar.controls) THEN {FindGap(Spans(bar.controls))} ELSE {}) :
        found' = Append(found, [epoch |-> Head(asked), bar |-> bar.id, at |-> at,
                                heard |-> pump.hooked = bar.id])
    /\ UNCHANGED <<bar, changes, mailbox, event, posted, pump>>

-----------------------------------------------------------------------------
(* The pump.                                                                *)

\* owns_window: the window of a bar that is gone must not be touched.
Owns(w) == w.display.on = bar.id
Hidden(w) == IF Owns(w) THEN [w EXCEPT !.display.visible = FALSE] ELSE w
Destroyed(w) == [w EXCEPT !.display = NoWindow, !.hooked = 0]

\* layout_event hides the window until there is a new layout.
HookRuns ==
    /\ pump.up /\ event /\ event' = FALSE
    /\ pump' = Hidden(pump) /\ posted' = Append(posted, "layout")
    /\ UNCHANGED <<bar, changes, mailbox, discovery>>

\* A failure destroys the window; a window of this bar is moved; a new one gets
\* its hooks, which may fail.
Attach(w, layout, hooks) ==
    IF layout.at = NoGap \/ layout.bar # bar.id THEN Destroyed(w)
    ELSE LET shown == [on |-> bar.id, at |-> layout.at, visible |-> TRUE, heard |-> layout.heard]
         IN [w EXCEPT !.display = shown,
                      !.hooked = IF Owns(w) THEN @ ELSE IF hooks THEN bar.id ELSE 0]

\* Mutation of FinishLayout: geometry is applied whenever it comes.
FinishAnyLayout(w, hooks) ==
    IF found = <<>> THEN w ELSE Attach([w EXCEPT !.pending = FALSE], Head(found), hooks)

\* Geometry that was captured before an event or another preference is dropped.
FinishLayout(w, hooks) ==
    IF found = <<>> THEN w
    ELSE IF ~mailbox.enabled \/ Head(found).epoch # w.epoch
         THEN [w EXCEPT !.pending = FALSE, !.forced = TRUE]
         ELSE Attach([w EXCEPT !.pending = FALSE], Head(found), hooks)

Layout(w) ==
    [(IF mailbox.enabled THEN [w EXCEPT !.pending = TRUE] ELSE Destroyed(w))
        EXCEPT !.forced = FALSE, !.enabled = mailbox.enabled]

Message == IF posted # <<>> THEN Head(posted) ELSE "timer"

\* One turn of pump_host: the message, an answer, and a layout when it is due.
Pumps ==
    /\ pump.up /\ ~mailbox.stopped
    /\ posted' = IF posted # <<>> THEN Tail(posted) ELSE posted
    /\ found' = IF found # <<>> THEN Tail(found) ELSE found
    /\ \E due, hooks \in BOOLEAN :
        LET changed == mailbox.enabled # pump.enabled
            noted == IF Message # "timer" \/ changed
                     THEN [Hidden(pump) EXCEPT !.epoch = @ + 1] ELSE pump
            finished == FinishLayout(noted, hooks)
        IN  /\ Message = "broadcast" \/ changed \/ finished.forced => due
            /\ pump' = IF due THEN Layout(finished) ELSE finished
            /\ asked' = IF due /\ mailbox.enabled /\ ~finished.pending
                        THEN Append(asked, finished.epoch) ELSE asked
    /\ event' = (event /\ pump'.hooked = bar.id)
    /\ UNCHANGED <<bar, changes, mailbox>>

\* The application ends, or the queue of messages fails: the window goes first,
\* then the other thread is told and waited for.
PumpEnds ==
    /\ pump.up /\ pump' = [Destroyed(pump) EXCEPT !.up = FALSE]
    /\ asked' = Append(asked, Stop) /\ event' = FALSE
    /\ UNCHANGED <<bar, changes, mailbox, posted, found>>

TaskbarNext ==
    \/ BarMoves \/ BarRestarts \/ SetEnabled \/ DropDisplay
    \/ Discover \/ HookRuns \/ Pumps \/ PumpEnds

TaskbarSpec == TaskbarInit /\ [][TaskbarNext]_taskbarVars

-----------------------------------------------------------------------------

Overlaps(span) == span[1] < pump.display.at + Requested /\ pump.display.at < span[2]

\* The window covers a control of the bar only while the report of a change is
\* on its way, or when the hooks that would report it came after the look that
\* chose its place.
CoversNothing ==
    pump.display.visible /\ Owns(pump) /\ (\E s \in Spans(bar.controls) : Overlaps(s))
        => event \/ "layout" \in {posted[i] : i \in 1..Len(posted)} \/ ~pump.display.heard

\* A request that the pump waits for is never lost, so the display does not stop
\* for ever, and there is never a second one.
RequestIsKept == pump.up => Len(asked) + Len(found) = (IF pump.pending THEN 1 ELSE 0)

\* A speed that is switched off, and a pump that ended, leave no window behind.
NothingIsLeft == ~pump.up \/ ~pump.enabled => pump.display = NoWindow /\ pump.hooked = 0

\* What the display does in a bar that is not its own.
TaskbarInvariant == TaskbarTypeOK /\ CoversNothing /\ RequestIsKept /\ NothingIsLeft
=============================================================================
