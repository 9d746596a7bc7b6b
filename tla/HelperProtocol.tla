--------------------------- MODULE HelperProtocol ---------------------------
(* One connection to the privileged helper for each request of the desktop:  *)
(* hello, its answer, the command, its reply. Every step of the desktop has  *)
(* a deadline; the helper serves each connection with a task of its own, and *)
(* does not learn that the desktop stopped waiting until it next reads or    *)
(* writes. The helper may die, and come back as another release, at any step.*)
EXTENDS Naturals, FiniteSets

CONSTANT Requests  \* bound: requests of the backend, each sent once
ASSUME RequestsAssumption == IsFiniteSet(Requests)

VARIABLES
    transport,   \* a socket of Linux and macOS, or the named pipe of Windows
    authorized,  \* the user of the desktop is the one the helper serves
    helper,      \* "up" or "down"
    version,     \* the protocol of the running helper: "same" as the desktop's or "other"
    request,     \* the desktop's side of each request
    toHelper,    \* the frame that is on its way, one at most: the two sides take turns
    toDesktop,
    serving,     \* the helper's side of each connection
    inFlight,    \* commands_in_flight of the supervisor
    begun,       \* history: how often the helper began the command
    finished     \* history: how often it finished it

protocolVars == <<transport, authorized, helper, version, request, toHelper, toDesktop, serving,
                  inFlight, begun, finished>>
effects == <<inFlight, begun, finished>>
machine == <<transport, authorized, helper, version>>

NewRequest == [at |-> "idle", result |-> "none", sent |-> FALSE]

ProtocolTypeOK ==
    /\ transport \in {"socket", "pipe"} /\ authorized \in BOOLEAN
    /\ helper \in {"up", "down"} /\ version \in {"same", "other"}
    /\ request \in [Requests -> [at : {"idle", "connect", "hello", "hearHello", "command", "hearReply", "ended"},
                                 result : {"none", "ok", "error", "failed"}, sent : BOOLEAN]]
    /\ toHelper \in [Requests -> {"none", "hello", "command"}]
    /\ toDesktop \in [Requests -> {"none", "hello", "ok", "error"}]
    /\ serving \in [Requests -> {"none", "waiting", "hello", "command", "execute", "ok", "error", "ended"}]
    /\ inFlight \in 0..Cardinality(Requests)
    /\ begun \in [Requests -> 0..2] /\ finished \in [Requests -> 0..2]

ProtocolInit ==
    /\ transport \in {"socket", "pipe"} /\ authorized \in BOOLEAN
    /\ helper \in {"up", "down"} /\ version \in {"same", "other"}
    /\ request = [r \in Requests |-> NewRequest]
    /\ toHelper = [r \in Requests |-> "none"] /\ toDesktop = [r \in Requests |-> "none"]
    /\ serving = [r \in Requests |-> "none"]
    /\ inFlight = 0 /\ begun = [r \in Requests |-> 0] /\ finished = [r \in Requests |-> 0]

-----------------------------------------------------------------------------
(* The desktop.                                                             *)

Goes(r, at) == request' = [request EXCEPT ![r].at = at]
Returns(r, result) == request' = [request EXCEPT ![r].at = "ended", ![r].result = result]
DesktopKeeps == UNCHANGED <<machine, serving, effects>>

\* The arguments are valid: the desktop checks them before it connects.
BeginRequest(r) ==
    /\ request[r].at = "idle" /\ Goes(r, "connect") /\ DesktopKeeps
    /\ UNCHANGED <<toHelper, toDesktop>>

\* The pipe has one instance that nobody is connected to, until the helper makes
\* the next: whoever finds it taken tries again until the deadline.
PipeIsFree == transport = "socket" \/ \A r \in Requests : serving[r] # "waiting"
OpenConnection(r) ==
    /\ request[r].at = "connect" /\ helper = "up" /\ PipeIsFree /\ (transport = "pipe" => authorized)
    /\ Goes(r, "hello") /\ serving' = [serving EXCEPT ![r] = "waiting"]
    /\ UNCHANGED <<machine, toHelper, toDesktop, effects>>

\* No helper, no right to open the pipe, or the deadline: is_helper_absent tells
\* the first from the others.
ConnectFails(r) ==
    /\ request[r].at = "connect" /\ Returns(r, "failed") /\ DesktopKeeps
    /\ UNCHANGED <<toHelper, toDesktop>>

\* The length goes before the body; a frame that is cut short never arrives.
WriteFrame(r, frame) == toHelper' = [toHelper EXCEPT ![r] = IF serving[r] = "ended" THEN "none" ELSE frame]

SendHello(r) ==
    /\ request[r].at = "hello" /\ Goes(r, "hearHello") /\ WriteFrame(r, "hello") /\ DesktopKeeps
    /\ UNCHANGED toDesktop
SendCommand(r) ==
    /\ request[r].at = "command"
    /\ request' = [request EXCEPT ![r].at = "hearReply", ![r].sent = TRUE]
    /\ WriteFrame(r, "command") /\ DesktopKeeps /\ UNCHANGED toDesktop

\* An answer of another request or protocol is refused: one to this hello, of
\* this protocol, lets the command go out.
HearHello(r) ==
    /\ request[r].at = "hearHello" /\ toDesktop[r] = "hello" /\ Goes(r, "command")
    /\ toDesktop' = [toDesktop EXCEPT ![r] = "none"] /\ DesktopKeeps /\ UNCHANGED toHelper
HearReply(r) ==
    /\ request[r].at = "hearReply" /\ toDesktop[r] \in {"ok", "error"} /\ Returns(r, toDesktop[r])
    /\ toDesktop' = [toDesktop EXCEPT ![r] = "none"] /\ DesktopKeeps /\ UNCHANGED toHelper

\* Mutation of Disconnected: the request is sent again over a new connection.
TriesAgain(r) ==
    /\ request[r].at \in {"hello", "hearHello", "command", "hearReply"} /\ serving[r] = "ended"
    /\ toDesktop[r] = "none" /\ Goes(r, "connect") /\ DesktopKeeps /\ UNCHANGED <<toHelper, toDesktop>>

\* The helper closed its end: the write or the read fails.
Disconnected(r) ==
    /\ request[r].at \in {"hello", "hearHello", "command", "hearReply"} /\ serving[r] = "ended"
    /\ toDesktop[r] = "none" /\ Returns(r, "failed") /\ DesktopKeeps /\ UNCHANGED <<toHelper, toDesktop>>

\* Mutation of TimesOut: the reply of a long command is waited for.
WaitsForReply(r) ==
    /\ request[r].at \in {"hello", "hearHello", "command"} /\ Returns(r, "failed") /\ DesktopKeeps
    /\ UNCHANGED <<toHelper, toDesktop>>

\* The five seconds of a frame, or the budget of the reply, are over. The end of
\* the desktop is closed; what it wrote can still be read.
TimesOut(r) ==
    /\ request[r].at \in {"hello", "hearHello", "command", "hearReply"} /\ Returns(r, "failed")
    /\ DesktopKeeps /\ UNCHANGED <<toHelper, toDesktop>>

-----------------------------------------------------------------------------
(* The helper: one task for each connection.                                *)

Serves(r, state) == serving' = [serving EXCEPT ![r] = state]
Takes(r) == toHelper' = [toHelper EXCEPT ![r] = "none"]
HelperKeeps == UNCHANGED <<machine, request>>

\* A socket tells who connected; the access to the pipe was checked by Windows.
Accept(r) ==
    /\ serving[r] = "waiting" /\ Serves(r, IF authorized THEN "hello" ELSE "ended") /\ HelperKeeps
    /\ UNCHANGED <<toHelper, toDesktop, effects>>

\* An envelope of another protocol closes the connection without an answer.
TakeHello(r) ==
    /\ serving[r] = "hello" /\ toHelper[r] = "hello" /\ Takes(r)
    /\ \/ /\ version = "same" /\ Serves(r, "command")
          /\ toDesktop' = [toDesktop EXCEPT ![r] = "hello"]
       \/ version = "other" /\ Serves(r, "ended") /\ UNCHANGED toDesktop
    /\ HelperKeeps /\ UNCHANGED effects

\* execute_audited counts the command while it runs.
TakeCommand(r) ==
    /\ serving[r] = "command" /\ toHelper[r] = "command" /\ Takes(r) /\ Serves(r, "execute")
    /\ inFlight' = inFlight + 1 /\ begun' = [begun EXCEPT ![r] = @ + 1]
    /\ HelperKeeps /\ UNCHANGED <<toDesktop, finished>>

\* A task that reads gives up after five seconds, or when the desktop is gone.
StopsReading(r) ==
    /\ serving[r] \in {"hello", "command"} /\ Serves(r, "ended") /\ HelperKeeps
    /\ UNCHANGED <<toHelper, toDesktop, effects>>

Execute(r) ==
    /\ serving[r] = "execute" /\ \E answer \in {"ok", "error"} : Serves(r, answer)
    /\ inFlight' = inFlight - 1 /\ finished' = [finished EXCEPT ![r] = @ + 1]
    /\ HelperKeeps /\ UNCHANGED <<toHelper, toDesktop, begun>>

\* The reply cannot be written, in time or at all, or is too long for a frame.
SendReply(r) ==
    /\ serving[r] \in {"ok", "error"}
    /\ \/ Serves(r, "command") /\ toDesktop' = [toDesktop EXCEPT ![r] = serving[r]]
       \/ Serves(r, "ended") /\ UNCHANGED toDesktop
    /\ HelperKeeps /\ UNCHANGED <<toHelper, effects>>

HelperDies ==
    /\ helper = "up" /\ helper' = "down" /\ inFlight' = 0
    /\ serving' = [r \in Requests |-> IF serving[r] = "none" THEN "none" ELSE "ended"]
    /\ toHelper' = [r \in Requests |-> "none"]
    /\ UNCHANGED <<transport, authorized, version, request, toDesktop, begun, finished>>

\* Another release may come back.
HelperStarts ==
    /\ helper = "down" /\ helper' = "up" /\ version' \in {"same", "other"}
    /\ UNCHANGED <<transport, authorized, request, toHelper, toDesktop, serving, effects>>

DesktopStep(r) ==
    \/ BeginRequest(r) \/ OpenConnection(r) \/ ConnectFails(r) \/ SendHello(r) \/ SendCommand(r)
    \/ HearHello(r) \/ HearReply(r) \/ Disconnected(r) \/ TimesOut(r)
HelperStep(r) ==
    \/ Accept(r) \/ TakeHello(r) \/ TakeCommand(r) \/ StopsReading(r) \/ Execute(r) \/ SendReply(r)
ProtocolNext ==
    \/ \E r \in Requests : DesktopStep(r) \/ HelperStep(r)
    \/ HelperDies \/ HelperStarts

\* The deadlines of the desktop; of the helper nothing is assumed.
Deadlines == \A r \in Requests : WF_protocolVars(ConnectFails(r) \/ TimesOut(r))
ProtocolSpec == ProtocolInit /\ [][ProtocolNext]_protocolVars /\ Deadlines

-----------------------------------------------------------------------------

\* What the desktop may conclude from a result. A success means that this command
\* was executed, once, by a helper of its protocol. A failure before the command
\* was sent means that it never will be. No command runs twice. And the absence
\* watch sees exactly the commands that run.
ResultsAreTrue ==
    /\ \A r \in Requests :
        /\ request[r].result \in {"ok", "error"} => finished[r] = 1
        /\ ~request[r].sent => begun[r] = 0
        /\ begun[r] <= 1
        /\ serving[r] \in {"execute", "ok", "error"} => version = "same"
    /\ inFlight = Cardinality({r \in Requests : serving[r] = "execute"})

\* Whatever the helper does, every request ends.
RequestsEnd == \A r \in Requests : request[r].at = "connect" ~> request[r].at = "ended"

ProtocolInvariant == ProtocolTypeOK /\ ResultsAreTrue
=============================================================================
