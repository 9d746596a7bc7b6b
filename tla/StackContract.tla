---------------------------- MODULE StackContract ----------------------------
(* What the engine promises of the machine, whatever the backend does: the   *)
(* phase that the window shows and whether Mihomo runs.                      *)
VARIABLES phase, capturing

contractVars == <<phase, capturing>>

Settled == {"stopped", "connected", "paused", "error"}

ContractInit == phase = "stopped" /\ ~capturing

Begin == phase \in Settled /\ phase' = "working" /\ UNCHANGED capturing

\* Mihomo is only started for an operation that is shown or a live stack.
Capture ==
    /\ phase \in {"working", "connected"}
    /\ ~capturing /\ capturing' /\ UNCHANGED phase

Release == capturing /\ ~capturing' /\ UNCHANGED phase

Connect == phase = "working" /\ capturing /\ phase' = "connected" /\ UNCHANGED capturing

\* A stack that is shown as stopped is down.
Stop == phase = "working" /\ phase' = "stopped" /\ ~capturing'

\* After a failure nothing is promised but that the phase says so.
Fail == phase = "working" /\ phase' \in {"paused", "error"} /\ capturing' \in BOOLEAN

ContractNext == Begin \/ Capture \/ Release \/ Connect \/ Stop \/ Fail

ContractSpec == ContractInit /\ [][ContractNext]_contractVars
=============================================================================
