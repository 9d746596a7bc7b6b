------------------------------ MODULE Traffic -------------------------------
(* The traffic of the session (src-tauri/src/traffic.rs and the sampling in *)
(* src-tauri/src/lib.rs): the totals of Mihomo's counters, over its starts  *)
(* and stops, less what the proxy clients carry past the tunnel, sampled by *)
(* the window and by a loop of the backend that share one store.  One       *)
(* direction of the traffic is modelled, and one connection of a proxy      *)
(* client at a time; an application's bytes are only counted.               *)
EXTENDS Naturals

CONSTANTS MaxBytes,      \* bound: bytes of one generation of Mihomo
          MaxStarts      \* bound: connections of proxy clients and starts of Mihomo

ASSUME TrafficAssumption == MaxBytes \in Nat /\ MaxStarts \in Nat

VARIABLES live,          \* the phase is Running or Degraded, and Mihomo runs
          total,         \* Mihomo's counter of this generation
          bypass,        \* the open connection of a proxy client: its number and bytes
          starts,        \* connections and generations so far
          store,         \* SessionAccumulator
          sampler,       \* the window and the loop
          apps, escaped, \* history: bytes of applications; those of proxy clients that were
                         \* moved after the last sample when their connection was gone
          stopped        \* history: Mihomo has been stopped
trafficVars == <<live, total, bypass, starts, store, sampler, apps, escaped, stopped>>

TrafficSamplers == {"window", "loop"}
None == [id |-> 0, bytes |-> 0]   \* no connection, or none that was seen
NoBaseline == [set |-> FALSE, at |-> 0]
Idle == [step |-> "idle"]
Less(a, b) == IF a > b THEN a - b ELSE 0    \* saturating_sub
-----------------------------------------------------------------------------
TrafficInit ==
    /\ live = FALSE /\ total = 0 /\ bypass = None /\ starts = 0
    /\ store = [sent |-> 0, last |-> NoBaseline, seen |-> None]
    /\ sampler = [w \in TrafficSamplers |-> Idle] /\ apps = 0 /\ escaped = 0 /\ stopped = FALSE

(* What the store has not yet subtracted of a connection that closes. *)
Closes == escaped' = escaped + Less(bypass.bytes, IF store.seen.id = bypass.id
                                                  THEN store.seen.bytes ELSE 0)
MihomoStarts ==
    /\ ~live /\ starts < MaxStarts /\ live' = TRUE /\ total' = 0 /\ starts' = starts + 1
    /\ UNCHANGED <<bypass, store, sampler, apps, escaped, stopped>>
MihomoStops ==
    /\ live /\ live' = FALSE /\ bypass' = None /\ Closes /\ stopped' = TRUE
    /\ UNCHANGED <<total, starts, store, sampler, apps>>
ApplicationMoves ==
    /\ live /\ total < MaxBytes /\ total' = total + 1 /\ apps' = apps + 1
    /\ UNCHANGED <<live, bypass, starts, store, sampler, escaped, stopped>>
ClientOpens ==
    /\ live /\ bypass = None /\ starts < MaxStarts /\ starts' = starts + 1
    /\ bypass' = [id |-> starts', bytes |-> 0]
    /\ UNCHANGED <<live, total, store, sampler, apps, escaped, stopped>>
ClientMoves ==
    /\ bypass # None /\ total < MaxBytes /\ total' = total + 1
    /\ bypass' = [bypass EXCEPT !.bytes = @ + 1]
    /\ UNCHANGED <<live, starts, store, sampler, apps, escaped, stopped>>
ClientCloses ==
    /\ bypass # None /\ bypass' = None /\ Closes
    /\ UNCHANGED <<live, total, starts, store, sampler, apps, stopped>>
-----------------------------------------------------------------------------
(* Mutation of MayLock: the store is taken only when the sample is there. *)
MayLockLate == TRUE
(* The store is held across the request: a sample at a time. *)
MayLock == \A w \in TrafficSamplers : sampler[w] = Idle
(* The loop samples a live stack only, the window whatever there is.        *)
BeginTrafficSample(w) ==
    /\ MayLock /\ sampler[w] = Idle /\ (w = "loop" => live)
    /\ sampler' = [sampler EXCEPT ![w] = [step |-> "asks", live |-> live]]
    /\ UNCHANGED <<live, total, bypass, starts, store, apps, escaped, stopped>>
(* The controller answers, or does not (in time). *)
TakeSample(w) ==
    /\ sampler[w].step = "asks" /\ sampler[w].live
    /\ \/ live /\ sampler' = [sampler EXCEPT ![w] = [step |-> "answer", total |-> total,
                                                     bypass |-> bypass]]
       \/ sampler' = [sampler EXCEPT ![w] = Idle]
    /\ UNCHANGED <<live, total, bypass, starts, store, apps, escaped, stopped>>

(* accumulate: without a stack the baseline goes and the total stays.       *)
DropBaseline(w) ==
    /\ sampler[w].step = "asks" /\ ~sampler[w].live /\ sampler' = [sampler EXCEPT ![w] = Idle]
    /\ store' = [store EXCEPT !.last = NoBaseline, !.seen = None]
    /\ UNCHANGED <<live, total, bypass, starts, apps, escaped, stopped>>
(* A counter that has not decreased is of the same generation; the bytes of *)
(* the proxy client since it was last seen are taken off.                   *)
Accumulate(w) ==
    LET now == sampler[w]
        same == store.last.set /\ now.total >= store.last.at
        delta == IF same THEN now.total - store.last.at ELSE now.total
        seen == IF same /\ store.seen.id = now.bypass.id THEN store.seen.bytes ELSE 0
        overhead == Less(now.bypass.bytes, seen)
    IN /\ now.step = "answer" /\ sampler' = [sampler EXCEPT ![w] = Idle]
       /\ store' = [sent |-> store.sent + Less(delta, overhead),
                    last |-> [set |-> TRUE, at |-> now.total], seen |-> now.bypass]
       /\ escaped' = IF bypass.id = now.bypass.id THEN escaped ELSE Less(escaped, overhead)
       /\ UNCHANGED <<live, total, bypass, starts, apps, stopped>>

TrafficNext ==
    \/ MihomoStarts \/ MihomoStops \/ ApplicationMoves
    \/ ClientOpens \/ ClientMoves \/ ClientCloses
    \/ \E w \in TrafficSamplers : BeginTrafficSample(w) \/ TakeSample(w) \/ DropBaseline(w) \/ Accumulate(w)
-----------------------------------------------------------------------------
TrafficTypeOK ==
    /\ total \in 0..MaxBytes /\ starts \in 0..MaxStarts /\ {live, stopped} \subseteq BOOLEAN
    /\ store.sent \in Nat /\ apps \in Nat /\ escaped \in Nat

(* The session never shows more than the applications moved and what closed *)
(* connections of the proxy clients took with them between two samples.     *)
NeverTooMuch == store.sent <= apps + escaped

(* Until Mihomo stops nothing is lost: a sample of the present counters     *)
(* makes the session at least what the applications moved.                  *)
NothingIsLost ==
    ~stopped /\ store.last.set /\ store.last.at = total => store.sent >= apps

(* The traffic of a session beside two samplers (src-tauri/src/lib.rs:691). *)
TrafficInvariant == TrafficTypeOK /\ NeverTooMuch /\ NothingIsLost
=============================================================================
